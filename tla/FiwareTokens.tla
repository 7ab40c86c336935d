------------------------------ MODULE FiwareTokens ------------------------------
(***************************************************************************)
(* Sending to a FIWARE context broker behind OAuth2.  All sends share a    *)
(* cache of tokens, by the target's client and updatedAt; a send that      *)
(* fails clears the entry and, once, tries again.  Sends run at the same   *)
(* time, each with the target's settings as it has read them.              *)
(*                                                                         *)
(* One data target, with a tokenEndpoint and a clientId.  One action is    *)
(* one call of the cache, the token endpoint or the broker.                *)
(***************************************************************************)
EXTENDS Naturals, Sequences, FiniteSets

CONSTANTS
    Send,         \* sends
    MaxUpdates,   \* bound: changes of the target
    MaxTokens,    \* bound: tokens the endpoint gives
    MaxFaults     \* bound: calls that fail, tokens that end before the cache drops them

FiwareAssumption ==
    /\ IsFiniteSet(Send)
    /\ MaxUpdates \in Nat /\ MaxTokens \in Nat \ {0} /\ MaxFaults \in Nat

UpdatedAt == 0..MaxUpdates
Token == 1..MaxTokens
NoToken == 0

VARIABLES
    updatedAt,  \* of the target; stands for its client and secret too
    clients,    \* clients[t]: whom the endpoint gave token t
    valid,      \* tokens the broker accepts
    cached,     \* the token under each key
    send,       \* send[s]: where it is, what it has read
    faults

vars == <<updatedAt, clients, valid, cached, send, faults>>

Stage == {"new", "get", "fetch", "set", "post", "clear", "sent", "failed"}
SendState == [stage : Stage, config : UpdatedAt, token : Token \cup {NoToken},
              retries : 0..1, failed : Token \cup {NoToken}]
NotSent == [stage |-> "new", config |-> 0, token |-> NoToken, retries |-> 0, failed |-> NoToken]

(* Every variable has its type. *)
TypeOK ==
    /\ updatedAt \in UpdatedAt
    /\ clients \in Seq(UpdatedAt) /\ Len(clients) <= MaxTokens
    /\ valid \subseteq 1..Len(clients)
    /\ cached \in [UpdatedAt -> Token \cup {NoToken}]
    /\ send \in [Send -> SendState]
    /\ faults \in 0..MaxFaults

Init ==
    /\ updatedAt = 0 /\ clients = <<>> /\ valid = {}
    /\ cached = [k \in UpdatedAt |-> NoToken]
    /\ send = [s \in Send |-> NotSent] /\ faults = 0
-----------------------------------------------------------------------------
At(s, stage) == send[s].stage = stage
Goto(s, stage) == send' = [send EXCEPT ![s].stage = stage]
End(s, stage) == send' = [send EXCEPT ![s] = [NotSent EXCEPT !.stage = stage]]
Fault == faults < MaxFaults /\ faults' = faults + 1

(* Mutant of Key: by the client only.                                      *)
KeyOfClient(config) == 0

(* clientId + updatedAt.getTime() *)
Key(config) == config

(* send: the target has been read from the database.                       *)
Start(s) ==
    /\ At(s, "new")
    /\ send' = [send EXCEPT ![s] = [NotSent EXCEPT !.stage = "get", !.config = updatedAt, !.retries = 1]]
    /\ UNCHANGED <<updatedAt, clients, valid, cached, faults>>

(* getToken: from the cache ...                                            *)
GetCached(s) ==
    /\ At(s, "get")
    /\ LET t == cached[Key(send[s].config)] IN
       send' = [send EXCEPT ![s].token = t, ![s].stage = IF t = NoToken THEN "fetch" ELSE "post"]
    /\ UNCHANGED <<updatedAt, clients, valid, cached, faults>>

(* ... or from the token endpoint ...                                      *)
FetchToken(s) ==
    /\ At(s, "fetch") /\ Len(clients) < MaxTokens
    /\ clients' = Append(clients, send[s].config)
    /\ valid' = valid \cup {Len(clients')}
    /\ send' = [send EXCEPT ![s].stage = "set", ![s].token = Len(clients')]
    /\ UNCHANGED <<updatedAt, cached, faults>>

(* ... and into the cache.                                                 *)
SetCached(s) ==
    /\ At(s, "set") /\ Goto(s, "post")
    /\ cached' = [cached EXCEPT ![Key(send[s].config)] = send[s].token]
    /\ UNCHANGED <<updatedAt, clients, valid, faults>>

(* sendInternal: the broker takes the message if it knows the token.       *)
PostToBroker(s) ==
    /\ At(s, "post")
    /\ IF send[s].token \in valid /\ clients[send[s].token] = send[s].config THEN End(s, "sent")
       ELSE Goto(s, "clear")
    /\ UNCHANGED <<updatedAt, clients, valid, cached, faults>>

(* The endpoint or the broker does not answer.                             *)
CallFails(s) ==
    /\ send[s].stage \in {"fetch", "post"} /\ Fault /\ Goto(s, "clear")
    /\ UNCHANGED <<updatedAt, clients, valid, cached>>

(* Mutant of ClearConfig: the entry stays.                                 *)
KeepConfig(config) == cached' = cached

ClearConfig(config) == cached' = [cached EXCEPT ![Key(config)] = NoToken]

(* What failed is cleared, also if another send has put it there since,    *)
(* and tried again, if it was the first time.                              *)
ClearAndRetry(s) ==
    /\ At(s, "clear") /\ ClearConfig(send[s].config)
    /\ IF send[s].retries > 0
       THEN send' = [send EXCEPT ![s].stage = "get", ![s].retries = @ - 1,
                                 ![s].failed = send[s].token, ![s].token = NoToken]
       ELSE End(s, "failed")
    /\ UNCHANGED <<updatedAt, clients, valid, faults>>

(* The cache drops a token in time: 30 seconds before it ends ...          *)
DropCached(k) ==
    /\ cached[k] # NoToken /\ cached' = [cached EXCEPT ![k] = NoToken]
    /\ UNCHANGED <<updatedAt, clients, valid, send, faults>>

(* ... but the token may end, or be withdrawn, before.                     *)
TokenEnds(t) ==
    /\ t \in valid /\ Fault /\ valid' = valid \ {t}
    /\ UNCHANGED <<updatedAt, clients, cached, send>>

(* The target is changed.                                                  *)
UpdateTarget ==
    /\ updatedAt < MaxUpdates /\ updatedAt' = updatedAt + 1
    /\ UNCHANGED <<clients, valid, cached, send, faults>>

Next ==
    \/ \E s \in Send :
         \/ Start(s) \/ GetCached(s) \/ FetchToken(s) \/ SetCached(s)
         \/ PostToBroker(s) \/ CallFails(s) \/ ClearAndRetry(s)
    \/ \E k \in UpdatedAt : DropCached(k)
    \/ \E t \in Token : TokenEnds(t)
    \/ UpdateTarget

Spec == Init /\ [][Next]_vars
-----------------------------------------------------------------------------
(* A retry never uses the token that failed, whoever puts what into the    *)
(* cache meanwhile, and no send uses a token of the target's settings      *)
(* before a change: so a single failure, or a single token that ends, does *)
(* not cost a message, however many sends are under way.                   *)
RetryWithAnother ==
    /\ \A s \in Send : send[s].token # NoToken => send[s].token # send[s].failed
    /\ \A s \in Send : send[s].token # NoToken => clients[send[s].token] = send[s].config
    /\ faults < 2 => \A s \in Send : ~At(s, "failed")
=============================================================================
