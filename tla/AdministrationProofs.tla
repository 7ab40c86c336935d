------------------------- MODULE AdministrationProofs -------------------------
(***************************************************************************)
(* Proofs about the parts that Administration composes, for any number of  *)
(* requests, rows and failing calls.  Each part has an inductive invariant *)
(* of its own; in the composition it holds whenever the part is the one    *)
(* that is followed, since no step leaves a part for another.              *)
(***************************************************************************)
EXTENDS Administration, Sequences, TLAPS

(***************************************************************************)
(* SigFox groups.  What a request is about to save is a login SigFox has   *)
(* accepted: the one it has just tried, or the one it has read.            *)
(***************************************************************************)
LoginsTried ==
    \A r \in Asker :
        /\ asking[r].stage \in {"test", "groups", "save"} => asking[r].id \in G!Gid /\ asking[r].login \in Login
        /\ asking[r].stage \in {"groups", "save"} => asking[r].login \in ValidLogin

GroupsInv == G!TypeOK /\ LoginsTried /\ G!LoginKept

(* No login has been tried, and the stored ones are known to SigFox. *)
LEMMA GroupsInit == G!Init => GroupsInv
<1> SUFFICES ASSUME G!Init PROVE GroupsInv
  OBVIOUS
<1>1. ValidLogin \subseteq Login /\ MaxFaults \in Nat /\ OldGroup \in G!Gid
  BY AdministrationAssumption DEF G!GroupsAssumption, G!Gid
<1>2. logins \in [G!Gid -> ValidLogin \cup {None}]
  BY <1>1 DEF G!Init
<1>3. asking = [r \in Asker |-> G!Fresh] /\ answeredWith = logins /\ unsaved = {} /\ reverted = {} /\ faults = 0
  BY DEF G!Init
<1>4. G!TypeOK
  BY <1>1, <1>2, <1>3 DEF G!TypeOK, G!Fresh
<1>5. LoginsTried
  BY <1>3 DEF LoginsTried, G!Fresh
<1>6. G!LoginKept
  BY <1>2, <1>3 DEF G!LoginKept
<1> QED  BY <1>4, <1>5, <1>6 DEF GroupsInv

(* What a step saves is a login that the same request has tried.           *)
LEMMA GroupsStep == GroupsInv /\ G!Next => GroupsInv'
<1> SUFFICES ASSUME GroupsInv, NEW r \in Asker,
                    \/ \E g \in G!Gid : G!Look(r, g) \/ \E c \in Login : G!Edit(r, g, c)
                    \/ G!TestConnection(r) \/ G!TestFails(r) \/ G!GetGroups(r) \/ G!GetGroupsFails(r)
                    \/ G!SaveGroup(r)
             PROVE  GroupsInv'
  BY DEF G!Next
<1> USE DEF GroupsInv
<1>1. ValidLogin \subseteq Login /\ MaxFaults \in Nat
  BY AdministrationAssumption DEF G!GroupsAssumption
<1>2. ASSUME NEW g \in G!Gid, G!Look(r, g) PROVE GroupsInv'
  <2>1. logins[g] \in ValidLogin
    BY <1>2 DEF G!Look, G!LoginKept
  <2> QED
    BY <1>1, <1>2, <2>1 DEF G!Look, G!Begin, G!TypeOK, LoginsTried, G!LoginKept
<1>3. ASSUME NEW g \in G!Gid, NEW c \in Login, G!Edit(r, g, c) PROVE GroupsInv'
  BY <1>3 DEF G!Edit, G!Begin, G!TypeOK, LoginsTried, G!LoginKept
<1>4. CASE G!TestConnection(r)
  BY <1>4 DEF G!TestConnection, G!At, G!Goto, G!End, G!Fresh, G!TypeOK, LoginsTried, G!LoginKept
<1>5. CASE G!TestFails(r)
  BY <1>1, <1>5 DEF G!TestFails, G!At, G!End, G!Fresh, G!TypeOK, LoginsTried, G!LoginKept
<1>6. CASE G!GetGroups(r)
  BY <1>6 DEF G!GetGroups, G!At, G!Goto, G!TypeOK, LoginsTried, G!LoginKept
<1>7. CASE G!GetGroupsFails(r)
  BY <1>1, <1>7 DEF G!GetGroupsFails, G!At, G!End, G!Fresh, G!TypeOK, LoginsTried, G!LoginKept
<1>8. CASE G!SaveGroup(r)
  BY <1>1, <1>8 DEF G!SaveGroup, G!LoginToSave, G!At, G!End, G!Fresh, G!TypeOK, LoginsTried, G!LoginKept
<1> QED  BY <1>2, <1>3, <1>4, <1>5, <1>6, <1>7, <1>8
-----------------------------------------------------------------------------
(***************************************************************************)
(* FIWARE tokens.  A token is in the cache only after the send that asked  *)
(* for it has put it there, and that send is the first to have it: so once *)
(* a send has cleared the token that failed, nobody puts it back.          *)
(***************************************************************************)
Given == 1..Len(clients)

TokensKnown ==
    /\ \A k \in F!UpdatedAt : cached[k] # F!NoToken => cached[k] \in Given /\ clients[cached[k]] = k
    /\ \A s \in Asker :
        /\ send[s].token # F!NoToken => send[s].token \in Given /\ clients[send[s].token] = send[s].config
        /\ send[s].failed # F!NoToken => send[s].failed \in Given
        /\ send[s].stage \in {"set", "post"} => send[s].token # F!NoToken

FailedGone ==
    \A s \in Asker :
        /\ send[s].failed # F!NoToken =>
            /\ send[s].token # send[s].failed
            /\ \A k \in F!UpdatedAt : cached[k] # send[s].failed
        /\ send[s].stage = "set" =>
            /\ \A k \in F!UpdatedAt : cached[k] # send[s].token
            /\ \A q \in Asker : send[q].failed # send[s].token /\ (q # s => send[q].token # send[s].token)

(***************************************************************************)
(* Faults.  A send that clears has had a fault: its own call, or the end   *)
(* of its token.  With one fault so far, it is the first clearing of every *)
(* send, and if a token has ended it is the one they all failed with.      *)
(***************************************************************************)
Under(s) == send[s].stage \in {"get", "fetch", "set", "post"}
Ended == Given \ valid

FaultsCounted ==
    /\ faults < 2 =>
        \A s \in Asker : send[s].stage # "failed" /\ (send[s].stage = "clear" => send[s].retries = 1)
    /\ faults = 0 =>
        /\ Ended = {}
        /\ \A s \in Asker : send[s].stage # "clear" /\ (Under(s) => send[s].retries = 1)
    /\ faults = 1 => \A t \in Ended :
        /\ Ended = {t}
        /\ \A s \in Asker :
            /\ send[s].stage = "clear" => send[s].token = t
            /\ Under(s) /\ send[s].retries = 0 => send[s].failed = t

TokensInv == F!TypeOK /\ TokensKnown /\ FailedGone /\ FaultsCounted

(* Nothing has been sent, and no token has been given. *)
LEMMA TokensInit == F!Init => TokensInv
<1> SUFFICES ASSUME F!Init PROVE TokensInv
  OBVIOUS
<1>1. MaxUpdates \in Nat /\ MaxTokens \in Nat /\ MaxTokenFaults \in Nat
  BY AdministrationAssumption DEF F!FiwareAssumption
<1>2. Given = {} /\ Ended = {}
  BY DEF F!Init, Given, Ended
<1>3. F!TypeOK
  BY <1>1 DEF F!Init, F!TypeOK, F!SendState, F!NotSent, F!UpdatedAt, F!Token, F!NoToken, F!Stage
<1>4. TokensKnown /\ FailedGone
  BY DEF F!Init, F!NotSent, F!NoToken, TokensKnown, FailedGone
<1>5. FaultsCounted
  BY <1>2 DEF F!Init, F!NotSent, FaultsCounted, Under
<1> QED  BY <1>3, <1>4, <1>5 DEF TokensInv

(* A send that is repeated has another token than the one that failed. *)
LEMMA TokensAsked == TokensInv => F!RetryWithAnother
  BY DEF TokensInv, TokensKnown, FailedGone, FaultsCounted, F!RetryWithAnother, F!At

(* A send that ends well is forgotten. *)
LEMMA SentKept ==
    ASSUME TokensInv, NEW s \in Asker, F!End(s, "sent"), UNCHANGED <<updatedAt, clients, valid, cached, faults>>
    PROVE  TokensInv'
<1> USE DEF TokensInv
<1>1. send' = [send EXCEPT ![s] = [stage |-> "sent", config |-> 0, token |-> F!NoToken,
                                  retries |-> 0, failed |-> F!NoToken]]
  <2>1. [F!NotSent EXCEPT !.stage = "sent"] = [stage |-> "sent", config |-> 0, token |-> F!NoToken,
                                               retries |-> 0, failed |-> F!NoToken]
    BY DEF F!NotSent
  <2> QED  BY <2>1 DEF F!End
<1>2. 0 \in F!UpdatedAt /\ "sent" \in F!Stage
  BY AdministrationAssumption DEF F!FiwareAssumption, F!UpdatedAt, F!Stage
<1>3. F!TypeOK'
  BY <1>1, <1>2 DEF F!TypeOK, F!SendState
<1>4. TokensKnown' /\ FailedGone'
  BY <1>1 DEF F!NoToken, F!TypeOK, F!SendState, TokensKnown, FailedGone, Given
<1>5. FaultsCounted'
  BY <1>1 DEF F!TypeOK, F!SendState, FaultsCounted, Under, Ended, Given
<1> QED  BY <1>3, <1>4, <1>5

(* The actions of a send, the cache, the endpoint and the target. *)
LEMMA TokensStep == TokensInv /\ F!Next => TokensInv'
<1> SUFFICES ASSUME TokensInv, F!Next PROVE TokensInv'
  OBVIOUS
<1> USE DEF TokensInv
<1>1. /\ MaxUpdates \in Nat /\ MaxTokens \in Nat /\ MaxTokenFaults \in Nat
      /\ Len(clients) \in Nat /\ updatedAt \in F!UpdatedAt /\ 0 \in F!UpdatedAt
      /\ faults \in Nat
      /\ "new" \in F!Stage /\ "get" \in F!Stage /\ "fetch" \in F!Stage /\ "set" \in F!Stage /\ "post" \in F!Stage
      /\ "clear" \in F!Stage /\ "sent" \in F!Stage /\ "failed" \in F!Stage
  BY AdministrationAssumption DEF F!FiwareAssumption, F!TypeOK, F!SendState, F!UpdatedAt, F!Stage
<1>2. ASSUME NEW s \in Asker, F!Start(s) PROVE TokensInv'
  <2>0. [F!NotSent EXCEPT !.stage = "get", !.config = updatedAt, !.retries = 1] \in F!SendState
    <3>1. F!NotSent \in F!SendState
      BY <1>1 DEF F!NotSent, F!SendState
    <3>2. "get" \in F!Stage /\ updatedAt \in F!UpdatedAt /\ 1 \in 0..1
      BY <1>1
    <3> QED  BY <3>1, <3>2 DEF F!SendState
  <2>1. F!TypeOK'
    BY <1>1, <1>2, <2>0 DEF F!Start, F!TypeOK, F!SendState
  <2>2. TokensKnown' /\ FailedGone'
    BY <1>2 DEF F!Start, F!At, F!NotSent, F!NoToken, F!TypeOK, F!SendState, TokensKnown, FailedGone, Given
  <2>3. FaultsCounted'
    BY <1>2 DEF F!Start, F!At, F!NotSent, F!NoToken, F!TypeOK, F!SendState, FaultsCounted, Under, Ended, Given
  <2> QED  BY <2>1, <2>2, <2>3
<1>3. ASSUME NEW s \in Asker, F!GetCached(s) PROVE TokensInv'
  <2>1. F!TypeOK'
    BY <1>1, <1>3 DEF F!GetCached, F!At, F!Key, F!NoToken, F!TypeOK, F!SendState
  <2>2. TokensKnown' /\ FailedGone'
    BY <1>3 DEF F!GetCached, F!At, F!Key, F!NoToken, F!TypeOK, F!SendState, TokensKnown, FailedGone, Given
  <2>3. FaultsCounted'
    BY <1>3 DEF F!GetCached, F!At, F!Key, F!NoToken, F!TypeOK, F!SendState, FaultsCounted, Under, Ended, Given
  <2> QED  BY <2>1, <2>2, <2>3
<1>4. ASSUME NEW s \in Asker, F!FetchToken(s) PROVE TokensInv'
  <2>0. /\ clients' \in Seq(F!UpdatedAt) /\ Len(clients') = Len(clients) + 1 /\ Len(clients') <= MaxTokens
        /\ Len(clients') \in F!Token
    BY <1>1, <1>4 DEF F!FetchToken, F!TypeOK, F!SendState, F!Token
  <2>1. F!TypeOK'
    <3>1. valid' \subseteq 1..Len(clients')
      BY <1>1, <1>4, <2>0 DEF F!FetchToken, F!TypeOK, F!SendState
    <3>2. UNCHANGED <<updatedAt, cached, faults>>
      BY <1>4 DEF F!FetchToken
    <3>3. send' \in [Asker -> F!SendState]
      <4>1. send' = [send EXCEPT ![s].stage = "set", ![s].token = Len(clients')]
        BY <1>4 DEF F!FetchToken
      <4> QED  BY <1>1, <2>0, <4>1 DEF F!TypeOK, F!SendState
    <3> QED  BY <2>0, <3>1, <3>2, <3>3 DEF F!TypeOK, F!SendState
  <2>2. TokensKnown' /\ FailedGone'
    BY <1>1, <1>4 DEF F!FetchToken, F!At, F!NoToken, F!TypeOK, F!SendState, TokensKnown, FailedGone, Given
  <2>3. FaultsCounted'
    BY <1>1, <1>4 DEF F!FetchToken, F!At, F!NoToken, F!TypeOK, F!SendState, FaultsCounted, Under, Ended, Given
  <2> QED  BY <2>1, <2>2, <2>3
<1>5. ASSUME NEW s \in Asker, F!SetCached(s) PROVE TokensInv'
  <2>1. F!TypeOK'
    BY <1>1, <1>5 DEF F!SetCached, F!At, F!Goto, F!Key, F!TypeOK, F!SendState
  <2>2. TokensKnown' /\ FailedGone'
    BY <1>5 DEF F!SetCached, F!At, F!Goto, F!Key, F!NoToken, F!TypeOK, F!SendState, TokensKnown, FailedGone, Given
  <2>3. FaultsCounted'
    BY <1>5 DEF F!SetCached, F!At, F!Goto, F!TypeOK, F!SendState, FaultsCounted, Under, Ended, Given
  <2> QED  BY <2>1, <2>2, <2>3
<1>6. ASSUME NEW s \in Asker, F!PostToBroker(s) PROVE TokensInv'
  <2>1. ASSUME F!End(s, "sent") PROVE TokensInv'
    BY <1>1, <1>6, <2>1, SentKept DEF F!PostToBroker, F!At
  <2>2. ASSUME F!Goto(s, "clear"), send[s].token \notin valid PROVE TokensInv'
    <3>1. F!TypeOK'
      BY <1>1, <1>6, <2>2 DEF F!PostToBroker, F!Goto, F!TypeOK, F!SendState
    <3>2. TokensKnown' /\ FailedGone'
      BY <1>6, <2>2 DEF F!PostToBroker, F!At, F!Goto, F!TypeOK, F!SendState, TokensKnown, FailedGone, Given
    <3>3. send[s].token \in Ended
      BY <1>6, <2>2 DEF F!PostToBroker, F!At, TokensKnown, Ended
    <3>4. faults < 2 => send[s].retries = 1
      BY <1>1, <1>6, <3>3 DEF F!PostToBroker, F!At, F!NoToken, F!TypeOK, F!SendState, TokensKnown, FailedGone,
         FaultsCounted, Under
    <3>5. FaultsCounted'
      BY <1>1, <1>6, <2>2, <3>3, <3>4 DEF F!PostToBroker, F!At, F!Goto, F!TypeOK, F!SendState, FaultsCounted, Under, Ended, Given
    <3> QED  BY <3>1, <3>2, <3>5
  <2> QED  BY <1>6, <2>1, <2>2 DEF F!PostToBroker, F!At, TokensKnown
<1>7. ASSUME NEW s \in Asker, F!CallFails(s) PROVE TokensInv'
  <2>1. F!TypeOK'
    <3>1. send' \in [Asker -> F!SendState]
      BY <1>1, <1>7 DEF F!CallFails, F!Goto, F!TypeOK, F!SendState
    <3>2. faults' \in 0..MaxTokenFaults
      BY <1>1, <1>7 DEF F!CallFails, F!Fault, F!TypeOK
    <3> QED  BY <1>7, <3>1, <3>2 DEF F!CallFails, F!TypeOK
  <2>2. TokensKnown' /\ FailedGone'
    BY <1>7 DEF F!CallFails, F!Goto, F!NoToken, F!TypeOK, F!SendState, TokensKnown, FailedGone, Given
  <2>3. FaultsCounted'
    BY <1>1, <1>7 DEF F!CallFails, F!Goto, F!Fault, F!TypeOK, F!SendState, FaultsCounted, Under, Ended, Given
  <2> QED  BY <2>1, <2>2, <2>3
<1>8. ASSUME NEW s \in Asker, F!ClearAndRetry(s) PROVE TokensInv'
  <2>1. F!TypeOK'
    <3>1. cached' \in [F!UpdatedAt -> F!Token \cup {F!NoToken}]
      BY <1>8 DEF F!ClearAndRetry, F!ClearConfig, F!Key, F!NoToken, F!TypeOK, F!SendState
    <3>2. send' \in [Asker -> F!SendState]
      <4>1. CASE send[s].retries > 0
        BY <1>8, <4>1 DEF F!ClearAndRetry, F!NoToken, F!TypeOK, F!SendState, F!Stage
      <4>2. CASE ~(send[s].retries > 0)
        BY <1>1, <1>8, <4>2 DEF F!ClearAndRetry, F!End, F!NotSent, F!NoToken, F!TypeOK, F!SendState, F!Stage
      <4> QED  BY <4>1, <4>2
    <3> QED  BY <1>8, <3>1, <3>2 DEF F!ClearAndRetry, F!TypeOK
  <2>2. \A k \in F!UpdatedAt : cached'[k] # F!NoToken => cached'[k] = cached[k] /\ cached[k] # send[s].token
    BY <1>8 DEF F!ClearAndRetry, F!ClearConfig, F!Key, F!NoToken, F!TypeOK, F!SendState, TokensKnown
  <2>3. /\ \A q \in Asker \ {s} : send'[q] = send[q]
        /\ send'[s].token = F!NoToken /\ send'[s].failed \in {F!NoToken, send[s].token}
        /\ send'[s].stage \notin {"set", "post"}
    BY <1>8 DEF F!ClearAndRetry, F!End, F!NotSent, F!TypeOK, F!SendState
  <2>6. TokensKnown'
    BY <1>8, <2>2, <2>3 DEF F!ClearAndRetry, TokensKnown, Given
  <2>4. FailedGone'
    BY <1>8, <2>2, <2>3 DEF F!ClearAndRetry, F!At, TokensKnown, FailedGone
  <2>5. FaultsCounted'
    BY <1>1, <1>8 DEF F!ClearAndRetry, F!At, F!End, F!NotSent, F!NoToken, F!TypeOK, F!SendState,
       FaultsCounted, Under, Ended, Given
  <2> QED  BY <2>1, <2>4, <2>5, <2>6
<1>9. ASSUME NEW k \in F!UpdatedAt, F!DropCached(k) PROVE TokensInv'
  BY <1>9 DEF F!DropCached, F!NoToken, F!TypeOK, F!SendState, TokensKnown, FailedGone, FaultsCounted, Under, Ended, Given
<1>10. ASSUME NEW t \in F!Token, F!TokenEnds(t) PROVE TokensInv'
  <2>1. F!TypeOK'
    BY <1>1, <1>10 DEF F!TokenEnds, F!Fault, F!TypeOK, F!SendState
  <2>2. TokensKnown' /\ FailedGone'
    BY <1>10 DEF F!TokenEnds, TokensKnown, FailedGone, Given
  <2>3. FaultsCounted'
    BY <1>1, <1>10 DEF F!TokenEnds, F!Fault, F!TypeOK, F!SendState, FaultsCounted, Under, Ended, Given
  <2> QED  BY <2>1, <2>2, <2>3
<1>11. CASE F!UpdateTarget
  BY <1>1, <1>11 DEF F!UpdateTarget, F!UpdatedAt, F!TypeOK, F!SendState, TokensKnown, FailedGone, FaultsCounted, Under, Ended, Given
<1> QED  BY <1>2, <1>3, <1>4, <1>5, <1>6, <1>7, <1>8, <1>9, <1>10, <1>11 DEF F!Next
-----------------------------------------------------------------------------
(***************************************************************************)
(* Device profiles.  A request that has listed the profiles knows of every *)
(* other one with its name, or the two race; a request that deletes a      *)
(* profile has seen every device that has it, is still to look at its      *)
(* application, or the device was put meanwhile.                           *)
(***************************************************************************)
Wished(r) == Lower[profiling[r].profile.name]

NamesSeen ==
    \A r \in Request : \A p \in P!ProfileId \ {profiling[r].id} :
        /\ profiling[r].stage \in {"details", "write"}
        /\ P!Exists(p) /\ Lower[profiles[p].name] = Wished(r)
        => \/ Wished(r) \in nameRaced
           \/ /\ profiling[r].stage = "details"
              /\ P!NameInUse(profiling[r].seen, profiling[r].profile.name, profiling[r].id)

DevicesSeen ==
    \A r \in Request : \A d \in EndDevice \ moved : csDevices[d].profile = profiling[r].id =>
        /\ profiling[r].stage # "remove"
        /\ profiling[r].stage = "scan" =>
              csDevices[d].app \in profiling[r].todo \/ profiling[r].id \in profiling[r].seen

ProfilesAsked ==
    \A r \in Request :
        /\ profiling[r].stage \in {"list", "details", "write"} =>
              profiling[r].id \in P!ProfileId /\ profiling[r].profile \in P!Profile
        /\ profiling[r].stage \in {"scan", "remove"} =>
              profiling[r].id \in P!ProfileId /\ profiling[r].kind = "delete"

ProfilesInv == P!TypeOK /\ ProfilesAsked /\ NamesSeen /\ DevicesSeen /\ P!ProfilesWhole

(* No request has begun, and nothing has been lost. *)
LEMMA ProfilesInit == P!Init => ProfilesInv
<1> SUFFICES ASSUME P!Init PROVE ProfilesInv
  OBVIOUS
<1>1. /\ None \notin P!ProfileId /\ None \notin CsApplication /\ Lower \in [Name -> Name] /\ MaxPuts \in Nat
      /\ OldProfiles \subseteq P!ProfileId
  BY AdministrationAssumption DEF P!ProfilesAssumption, P!ProfileId
<1>2. PICK names \in [OldProfiles -> Name], o \in Organization :
         /\ \A p, q \in OldProfiles : Lower[names[p]] = Lower[names[q]] => p = q
         /\ profiles = [p \in P!ProfileId |-> IF p \in OldProfiles
                          THEN [name |-> names[p], organization |-> o] ELSE P!NoProfile]
  BY DEF P!Init
<1>3. profiles \in [P!ProfileId -> P!Profile \cup {P!NoProfile}]
  BY <1>2 DEF P!Profile
<1>4. P!Fresh \in P!Profiling
  BY DEF P!Fresh, P!Profiling, P!Kind, P!Stage, P!Seen
<1>5. /\ csDevices \in [EndDevice -> [app : CsApplication, profile : OldProfiles]]
      /\ profiling = [r \in Request |-> P!Fresh]
      /\ nameRaced = {} /\ moved = {} /\ lost = {} /\ puts = 0
  BY DEF P!Init
<1>6. csDevices \in [EndDevice -> [app : CsApplication, profile : P!ProfileId]]
  BY <1>1, <1>5
<1>7. P!TypeOK
  BY <1>1, <1>3, <1>4, <1>5, <1>6 DEF P!TypeOK
<1>8. ProfilesAsked /\ NamesSeen /\ DevicesSeen
  BY <1>1, <1>5, <1>6 DEF ProfilesAsked, NamesSeen, DevicesSeen, P!Fresh
<1>9. P!ProfilesWhole
  BY <1>2, <1>5 DEF P!ProfilesWhole, P!Exists
<1> QED  BY <1>7, <1>8, <1>9 DEF ProfilesInv

(* A request that ends is forgotten. *)
LEMMA ProfilesEnd ==
    ASSUME ProfilesInv, NEW r \in Request, NEW s \in {"done", "failed"}, P!End(r, s),
           UNCHANGED <<profiles, csDevices, nameRaced, moved, lost, puts>>
    PROVE  ProfilesInv'
<1> DEFINE new == [P!Fresh EXCEPT !.stage = s]
<1>1. new \in P!Profiling /\ new.stage = s
  <2>1. P!Fresh \in P!Profiling /\ s \in P!Stage
    BY DEF P!Fresh, P!Profiling, P!Kind, P!Stage, P!Seen
  <2> QED  BY <2>1 DEF P!Profiling, P!Fresh
<1> HIDE DEF new
<1>2. profiling' = [profiling EXCEPT ![r] = new]
  BY DEF P!End, new
<1>3. P!TypeOK'
  BY <1>1, <1>2 DEF ProfilesInv, P!TypeOK
<1>4. ProfilesAsked' /\ NamesSeen' /\ DevicesSeen' /\ P!ProfilesWhole'
  BY <1>1, <1>2 DEF ProfilesInv, P!TypeOK, ProfilesAsked, NamesSeen, Wished, P!NameInUse, DevicesSeen,
     P!ProfilesWhole, P!Exists
<1> QED  BY <1>3, <1>4 DEF ProfilesInv

(* A request begins: a new or changed profile, or one to delete. *)
LEMMA ProfilesBegin ==
    ASSUME ProfilesInv, NEW r \in Request,
           \/ \E n \in Name, o \in Organization :
                P!CreateProfile(r, n, o) \/ \E p \in P!ProfileId : P!UpdateProfile(r, p, n, o)
           \/ \E p \in P!ProfileId : P!DeleteProfile(r, p)
    PROVE  ProfilesInv'
<1> USE DEF ProfilesInv
<1>1. P!Fresh \in P!Profiling /\ r \in P!ProfileId
  <2>1. P!Fresh \in P!Profiling
    BY DEF P!Fresh, P!Profiling, P!Kind, P!Stage, P!Seen
  <2> QED  BY <2>1 DEF P!ProfileId
<1>2. /\ "create" \in P!Kind /\ "update" \in P!Kind /\ "delete" \in P!Kind
      /\ "list" \in P!Stage /\ "scan" \in P!Stage
  BY DEF P!Kind, P!Stage
<1>3. UNCHANGED <<profiles, csDevices, nameRaced, moved, lost, puts>>
  BY DEF P!CreateProfile, P!UpdateProfile, P!DeleteProfile, P!history
<1>4. ASSUME NEW q \in P!Profiling, profiling' = [profiling EXCEPT ![r] = q], q.stage = "list",
             q.id \in P!ProfileId, q.profile \in P!Profile
      PROVE  ProfilesInv'
  BY <1>3, <1>4 DEF P!TypeOK, ProfilesAsked, NamesSeen, Wished, P!NameInUse, DevicesSeen, P!ProfilesWhole, P!Exists
<1>5. ASSUME NEW q \in P!Profiling, profiling' = [profiling EXCEPT ![r] = q], q.stage = "scan",
             q.id \in P!ProfileId, q.kind = "delete", q.todo = CsApplication
      PROVE  ProfilesInv'
  <2>1. \A d \in EndDevice : csDevices[d].profile = q.id => csDevices[d].app \in CsApplication
    BY <1>5, AdministrationAssumption DEF P!ProfilesAssumption, P!ProfileId, P!TypeOK, P!NoDevice
  <2> QED
    BY <1>3, <1>5, <2>1 DEF P!TypeOK, ProfilesAsked, NamesSeen, Wished, P!NameInUse, DevicesSeen, P!ProfilesWhole, P!Exists
<1>6. ASSUME NEW n \in Name, NEW o \in Organization, P!CreateProfile(r, n, o) PROVE ProfilesInv'
  <2> DEFINE p == [name |-> n, organization |-> o]
             q == [P!Fresh EXCEPT !.kind = "create", !.stage = "list", !.id = r, !.profile = p]
  <2>1. p \in P!Profile
    BY DEF P!Profile
  <2> HIDE DEF p
  <2>2. q \in P!Profiling
    BY <1>1, <1>2, <2>1 DEF P!Profiling
  <2>3. q.stage = "list" /\ q.id = r /\ q.profile = p
    BY DEF P!Fresh
  <2> HIDE DEF q
  <2>4. profiling' = [profiling EXCEPT ![r] = q]
    BY <1>6 DEF P!CreateProfile, P!Begin, q, p
  <2> QED  BY <1>1, <1>4, <2>1, <2>2, <2>3, <2>4
<1>7. ASSUME NEW n \in Name, NEW o \in Organization, NEW i \in P!ProfileId, P!UpdateProfile(r, i, n, o)
      PROVE  ProfilesInv'
  <2> DEFINE p == [name |-> n, organization |-> o]
             q == [P!Fresh EXCEPT !.kind = "update", !.stage = "list", !.id = i, !.profile = p]
  <2>1. p \in P!Profile
    BY DEF P!Profile
  <2> HIDE DEF p
  <2>2. q \in P!Profiling
    BY <1>1, <1>2, <2>1 DEF P!Profiling
  <2>3. q.stage = "list" /\ q.id = i /\ q.profile = p
    BY DEF P!Fresh
  <2> HIDE DEF q
  <2>4. profiling' = [profiling EXCEPT ![r] = q]
    BY <1>7 DEF P!UpdateProfile, P!Begin, q, p
  <2> QED  BY <1>4, <2>1, <2>2, <2>3, <2>4
<1>8. ASSUME NEW i \in P!ProfileId, P!DeleteProfile(r, i) PROVE ProfilesInv'
  <2> DEFINE q == [P!Fresh EXCEPT !.kind = "delete", !.stage = "scan", !.id = i, !.todo = CsApplication]
  <2>1. q \in P!Profiling
    BY <1>1, <1>2 DEF P!Profiling
  <2>2. q.stage = "scan" /\ q.id = i /\ q.kind = "delete" /\ q.todo = CsApplication
    BY DEF P!Fresh
  <2> HIDE DEF q
  <2>3. profiling' = [profiling EXCEPT ![r] = q]
    BY <1>8 DEF P!DeleteProfile, P!Begin, P!Scanned, q
  <2> QED  BY <1>5, <2>1, <2>2, <2>3
<1> QED  BY <1>6, <1>7, <1>8

(* A request goes on, with what it has seen so far. *)
LEMMA ProfilingMoves ==
    ASSUME P!TypeOK, NEW r \in Request, NEW stage1 \in P!Stage, NEW seen \in P!Seen,
           NEW todo \in SUBSET CsApplication
    PROVE  /\ [profiling EXCEPT ![r].stage = stage1, ![r].seen = seen] \in [Request -> P!Profiling]
           /\ [profiling EXCEPT ![r].todo = todo, ![r].seen = seen] \in [Request -> P!Profiling]
<1>1. profiling \in [Request -> P!Profiling]
  BY DEF P!TypeOK
<1>2. [profiling EXCEPT ![r].stage = stage1, ![r].seen = seen] \in [Request -> P!Profiling]
  <2> HIDE DEF P!Stage, P!Seen, P!Kind, P!ProfileId, P!Profile, P!NoProfile
  <2> QED  BY <1>1 DEF P!Profiling
<1>3. [profiling EXCEPT ![r].todo = todo, ![r].seen = seen] \in [Request -> P!Profiling]
  <2> HIDE DEF P!Stage, P!Seen, P!Kind, P!ProfileId, P!Profile, P!NoProfile
  <2> QED  BY <1>1 DEF P!Profiling
<1> QED  BY <1>2, <1>3

(* Looking for the name: the list, the profiles on it, and writing. *)
LEMMA ProfilesNamed ==
    ASSUME ProfilesInv, NEW r \in Request, P!ListProfiles(r) \/ P!ReadProfiles(r) \/ P!WriteProfile(r)
    PROVE  ProfilesInv'
<1> USE DEF ProfilesInv
<1>1. "details" \in P!Stage /\ "write" \in P!Stage /\ {} \in P!Seen
  BY DEF P!Stage, P!Seen
<1>2. CASE P!ListProfiles(r)
  <2> DEFINE entry == {<<p, profiles[p].name>> : p \in {p \in P!ProfileId : P!Exists(p)}}
  <2>1. entry \subseteq P!ProfileId \X Name
    BY DEF P!TypeOK, P!Exists, P!Profile
  <2>2. ASSUME NEW p \in P!ProfileId, P!Exists(p)
        PROVE  \E x \in entry : x[1] = p /\ x[2] = profiles[p].name
    <3>1. <<p, profiles[p].name>> \in entry
      BY <2>2
    <3> HIDE DEF entry
    <3> QED  BY <3>1
  <2>8. entry \in P!Seen
    BY <2>1 DEF P!Seen
  <2> HIDE DEF entry
  <2>3. profiling' = [profiling EXCEPT ![r].stage = "details", ![r].seen = entry]
    BY <1>2 DEF P!ListProfiles, entry
  <2>4. /\ profiling[r].stage = "list"
        /\ UNCHANGED <<profiles, csDevices, nameRaced, moved, lost, puts>>
    BY <1>2 DEF P!ListProfiles, P!At, P!history
  <2>5. P!TypeOK'
    <3>1. profiling' \in [Request -> P!Profiling]
      BY <1>1, <2>3, <2>8, ProfilingMoves, Zenon
    <3> QED  BY <2>4, <3>1 DEF P!TypeOK
  <2>6. ProfilesAsked' /\ DevicesSeen' /\ P!ProfilesWhole'
    BY <2>3, <2>4 DEF P!TypeOK, P!Profiling, ProfilesAsked, DevicesSeen, P!ProfilesWhole, P!Exists
  <2>7. NamesSeen'
    <3>1. \A a \in Request \ {r} : profiling'[a] = profiling[a]
      BY <2>3 DEF P!TypeOK
    <3>2. /\ profiling'[r].id = profiling[r].id /\ profiling'[r].profile = profiling[r].profile
          /\ profiling'[r].stage = "details" /\ profiling'[r].seen = entry
      BY <2>3 DEF P!TypeOK, P!Profiling
    <3>3. \A p \in P!ProfileId \ {profiling[r].id} :
            P!Exists(p) /\ Lower[profiles[p].name] = Wished(r)
              => P!NameInUse(entry, profiling[r].profile.name, profiling[r].id)
      BY <2>2 DEF P!NameInUse, Wished
    <3> QED
      BY <2>4, <3>1, <3>2, <3>3 DEF NamesSeen, Wished, P!Exists
  <2> QED  BY <2>5, <2>6, <2>7
<1>3. CASE P!ReadProfiles(r)
  <2>1. /\ profiling[r].stage = "details"
        /\ UNCHANGED <<profiles, csDevices, nameRaced, moved, lost, puts>>
    BY <1>3 DEF P!ReadProfiles, P!At, P!history
  <2>2. CASE P!End(r, "failed")
    BY <2>1, <2>2, ProfilesEnd
  <2>3. ASSUME profiling' = [profiling EXCEPT ![r].stage = "write", ![r].seen = {}],
               ~P!NameInUse(profiling[r].seen, profiling[r].profile.name, profiling[r].id)
        PROVE  ProfilesInv'
    <3>1. P!TypeOK'
      <4>1. profiling' \in [Request -> P!Profiling]
        BY <1>1, <2>3, ProfilingMoves, Zenon
      <4> QED  BY <2>1, <4>1 DEF P!TypeOK
    <3>2. ProfilesAsked' /\ DevicesSeen' /\ P!ProfilesWhole'
      BY <2>1, <2>3 DEF P!TypeOK, P!Profiling, ProfilesAsked, DevicesSeen, P!ProfilesWhole, P!Exists
    <3>3. NamesSeen'
      BY <2>1, <2>3 DEF P!TypeOK, P!Profiling, NamesSeen, Wished, P!NameInUse, P!Exists
    <3> QED  BY <3>1, <3>2, <3>3
  <2> QED  BY <1>3, <2>2, <2>3 DEF P!ReadProfiles
<1>4. CASE P!WriteProfile(r)
  <2> DEFINE q == profiling[r]
  <2>1. /\ q.stage = "write" /\ UNCHANGED <<csDevices, moved, lost, puts>>
        /\ q.id \in P!ProfileId /\ q.profile \in P!Profile
    BY <1>4 DEF P!WriteProfile, P!At, ProfilesAsked
  <2>2. CASE UNCHANGED <<profiles, nameRaced>> /\ P!End(r, "failed")
    BY <2>1, <2>2, ProfilesEnd
  <2>3. ASSUME profiles' = [profiles EXCEPT ![q.id] = q.profile], P!End(r, "done"),
               nameRaced' = IF P!Racing(r, q.profile.name) THEN nameRaced \cup {Lower[q.profile.name]}
                            ELSE nameRaced
        PROVE  ProfilesInv'
    <3> DEFINE new == [P!Fresh EXCEPT !.stage = "done"]
    <3>1. new \in P!Profiling /\ new.stage = "done"
      <4>1. P!Fresh \in P!Profiling /\ "done" \in P!Stage
        BY DEF P!Fresh, P!Profiling, P!Kind, P!Stage, P!Seen
      <4> QED  BY <4>1 DEF P!Profiling, P!Fresh
    <3> HIDE DEF new
    <3>2. profiling' = [profiling EXCEPT ![r] = new]
      BY <2>3 DEF P!End, new
    <3>3. Lower[q.profile.name] \in Name
      BY <2>1, AdministrationAssumption DEF P!ProfilesAssumption, P!Profile
    <3>4. P!TypeOK'
      BY <2>1, <2>3, <3>1, <3>2, <3>3 DEF P!TypeOK
    <3>5. ProfilesAsked' /\ DevicesSeen'
      BY <2>1, <3>1, <3>2 DEF P!TypeOK, ProfilesAsked, DevicesSeen
    <3>6. NamesSeen'
      <4> SUFFICES ASSUME NEW a \in Request, NEW p \in P!ProfileId \ {profiling[a].id}, a # r,
                          profiling[a].stage \in {"details", "write"},
                          P!Exists(p)', Lower[profiles'[p].name] = Wished(a)
                   PROVE  \/ Wished(a) \in nameRaced'
                          \/ /\ profiling[a].stage = "details"
                             /\ P!NameInUse(profiling[a].seen, profiling[a].profile.name, profiling[a].id)
        BY <3>1, <3>2 DEF P!TypeOK, NamesSeen, Wished, P!NameInUse
      <4>1. CASE p = q.id
        BY <2>1, <2>3, <4>1 DEF P!TypeOK, P!Racing, Wished
      <4>2. CASE p # q.id
        BY <2>3, <4>2 DEF P!TypeOK, P!Exists, NamesSeen
      <4> QED  BY <4>1, <4>2
    <3>7. P!ProfilesWhole'
      <4>1. \A p \in P!ProfileId \ {q.id} :
              P!Exists(p) /\ Lower[profiles[p].name] = Lower[q.profile.name] => Lower[q.profile.name] \in nameRaced
        BY <2>1 DEF NamesSeen, Wished
      <4> QED  BY <2>1, <2>3, <4>1 DEF P!TypeOK, P!Exists, P!ProfilesWhole
    <3> QED  BY <3>4, <3>5, <3>6, <3>7
  <2> QED  BY <1>4, <2>2, <2>3 DEF P!WriteProfile
<1> QED  BY <1>2, <1>3, <1>4

(* Looking for devices, deleting, and devices put by others. *)
LEMMA ProfilesDeleted ==
    ASSUME ProfilesInv,
           \/ \E r \in Request : \/ \E a \in CsApplication : P!ScanApplication(r, a)
                               \/ P!DecideDelete(r) \/ P!RemoveProfile(r)
           \/ \E d \in EndDevice, a \in CsApplication, p \in P!ProfileId : P!PutDevice(d, a, p)
    PROVE  ProfilesInv'
<1> USE DEF ProfilesInv
<1>1. None \notin P!ProfileId /\ MaxPuts \in Nat /\ "remove" \in P!Stage /\ {} \in P!Seen
  BY AdministrationAssumption DEF P!ProfilesAssumption, P!ProfileId, P!Stage, P!Seen
<1>2. ASSUME NEW r \in Request, NEW a \in CsApplication, P!ScanApplication(r, a) PROVE ProfilesInv'
  <2> DEFINE used == {csDevices[d].profile : d \in {d \in EndDevice : csDevices[d].app = a}}
  <2>1. profiling' = [profiling EXCEPT ![r].todo = @ \ {a}, ![r].seen = @ \cup used]
    BY <1>2 DEF P!ScanApplication
  <2>2. /\ profiling[r].stage = "scan" /\ UNCHANGED <<profiles, csDevices, nameRaced, moved, lost, puts>>
    BY <1>2 DEF P!ScanApplication, P!At, P!history
  <2>3. used \subseteq P!ProfileId
    BY <1>1, AdministrationAssumption DEF P!TypeOK, P!NoDevice, P!ProfilesAssumption
  <2>4. \A d \in EndDevice : csDevices[d].app = a => csDevices[d].profile \in used
    OBVIOUS
  <2> HIDE DEF used
  <2>8. profiling[r].seen \cup used \in P!Seen /\ profiling[r].todo \ {a} \in SUBSET CsApplication
    BY <2>3 DEF P!TypeOK, P!Profiling, P!Seen
  <2>5. P!TypeOK'
    <3>1. profiling' \in [Request -> P!Profiling]
      <4> DEFINE seen == profiling[r].seen \cup used
                 todo == profiling[r].todo \ {a}
      <4>1. profiling' = [profiling EXCEPT ![r].todo = todo, ![r].seen = seen]
        BY <2>1
      <4>2. seen \in P!Seen /\ todo \in SUBSET CsApplication
        BY <2>8
      <4> HIDE DEF seen, todo
      <4> QED  BY <1>1, <4>1, <4>2, ProfilingMoves, Zenon
    <3> QED  BY <2>2, <3>1 DEF P!TypeOK
  <2>6. ProfilesAsked' /\ NamesSeen' /\ P!ProfilesWhole'
    <3>1. \A q \in Request : /\ profiling'[q].stage = profiling[q].stage /\ profiling'[q].kind = profiling[q].kind
                             /\ profiling'[q].id = profiling[q].id /\ profiling'[q].profile = profiling[q].profile
                             /\ profiling[q].stage # "scan" => profiling'[q].seen = profiling[q].seen
      BY <2>1, <2>2 DEF P!TypeOK, P!Profiling
    <3> QED  BY <2>2, <3>1 DEF ProfilesAsked, NamesSeen, Wished, P!NameInUse, P!ProfilesWhole, P!Exists
  <2>7. DevicesSeen'
    BY <2>1, <2>2, <2>4 DEF P!TypeOK, P!Profiling, DevicesSeen
  <2> QED  BY <2>5, <2>6, <2>7
<1>3. ASSUME NEW r \in Request, P!DecideDelete(r) PROVE ProfilesInv'
  <2>1. /\ profiling[r].stage = "scan" /\ profiling[r].todo = {}
        /\ UNCHANGED <<profiles, csDevices, nameRaced, moved, lost, puts>>
    BY <1>3 DEF P!DecideDelete, P!At, P!history
  <2>2. CASE P!End(r, "failed")
    BY <2>1, <2>2, ProfilesEnd
  <2>3. ASSUME profiling' = [profiling EXCEPT ![r].stage = "remove", ![r].seen = {}],
               profiling[r].id \notin profiling[r].seen
        PROVE  ProfilesInv'
    <3>1. P!TypeOK'
      <4>1. profiling' \in [Request -> P!Profiling]
        BY <1>1, <2>3, ProfilingMoves, Zenon
      <4> QED  BY <2>1, <4>1 DEF P!TypeOK
    <3>2. ProfilesAsked' /\ NamesSeen' /\ P!ProfilesWhole'
      BY <2>1, <2>3 DEF P!TypeOK, P!Profiling, ProfilesAsked, NamesSeen, Wished, P!NameInUse, P!ProfilesWhole, P!Exists
    <3>3. DevicesSeen'
      BY <2>1, <2>3 DEF P!TypeOK, P!Profiling, DevicesSeen
    <3> QED  BY <3>1, <3>2, <3>3
  <2> QED  BY <1>3, <2>2, <2>3 DEF P!DecideDelete
<1>4. ASSUME NEW r \in Request, P!RemoveProfile(r) PROVE ProfilesInv'
  <2> DEFINE p == profiling[r].id
  <2>1. /\ profiling[r].stage = "remove" /\ UNCHANGED <<nameRaced, moved, puts>>
        /\ p \in P!ProfileId
    BY <1>4 DEF P!RemoveProfile, P!At, ProfilesAsked
  <2>2. CASE P!End(r, "failed") /\ UNCHANGED <<profiles, csDevices, lost>>
    BY <2>1, <2>2, ProfilesEnd
  <2>3. ASSUME profiles' = [profiles EXCEPT ![p] = P!NoProfile],
               csDevices' = [d \in EndDevice |-> IF d \in P!Having(p) THEN P!NoDevice ELSE csDevices[d]],
               lost' = lost \cup P!Having(p), P!End(r, "done")
        PROVE  ProfilesInv'
    <3> DEFINE new == [P!Fresh EXCEPT !.stage = "done"]
    <3>1. new \in P!Profiling /\ new.stage = "done"
      <4>1. P!Fresh \in P!Profiling /\ "done" \in P!Stage
        BY DEF P!Fresh, P!Profiling, P!Kind, P!Stage, P!Seen
      <4> QED  BY <4>1 DEF P!Profiling, P!Fresh
    <3> HIDE DEF new
    <3>2. profiling' = [profiling EXCEPT ![r] = new]
      BY <2>3 DEF P!End, new
    <3>3. P!TypeOK'
      BY <2>1, <2>3, <3>1, <3>2 DEF P!TypeOK, P!Having
    <3>4. ProfilesAsked' /\ NamesSeen'
      BY <2>1, <2>3, <3>1, <3>2 DEF P!TypeOK, ProfilesAsked, NamesSeen, Wished, P!NameInUse, P!Exists
    <3>5. DevicesSeen'
      <4>1. \A q \in Request \ {r}, d \in EndDevice :
              profiling[q].stage \in {"scan", "remove"} /\ csDevices'[d].profile = profiling[q].id => csDevices'[d] = csDevices[d]
        BY <1>1, <2>3 DEF ProfilesAsked, P!NoDevice
      <4> QED  BY <2>1, <3>1, <3>2, <4>1 DEF P!TypeOK, DevicesSeen
    <3>6. P!ProfilesWhole'
      <4>1. P!Having(p) \subseteq moved
        BY <2>1 DEF P!Having, DevicesSeen
      <4> QED  BY <2>1, <2>3, <4>1 DEF P!TypeOK, P!Exists, P!ProfilesWhole
    <3> QED  BY <3>3, <3>4, <3>5, <3>6
  <2> QED  BY <1>4, <2>2, <2>3 DEF P!RemoveProfile
<1>5. ASSUME NEW d \in EndDevice, NEW a \in CsApplication, NEW p \in P!ProfileId, P!PutDevice(d, a, p)
      PROVE  ProfilesInv'
  <2>1. P!TypeOK'
    BY <1>1, <1>5 DEF P!PutDevice, P!TypeOK
  <2>2. ProfilesAsked' /\ NamesSeen' /\ P!ProfilesWhole'
    BY <1>5 DEF P!PutDevice, P!TypeOK, ProfilesAsked, NamesSeen, Wished, P!NameInUse, P!ProfilesWhole, P!Exists
  <2>3. DevicesSeen'
    BY <1>5 DEF P!PutDevice, P!TypeOK, ProfilesAsked, DevicesSeen
  <2> QED  BY <2>1, <2>2, <2>3
<1> QED  BY <1>2, <1>3, <1>4, <1>5

(* The steps of a request, by the part of the service it is in. *)
LEMMA ProfilesStep == ProfilesInv /\ P!Next => ProfilesInv'
  BY ProfilesBegin, ProfilesNamed, ProfilesDeleted DEF P!Next
-----------------------------------------------------------------------------
(***************************************************************************)
(* The composition: the invariant of the part that is followed holds.      *)
(***************************************************************************)
USE DEF membershipVars, accessVars, sigfoxVars, groupVars, tokenVars, profileVars, connectionVars

(***************************************************************************)
(* Access.  A row answers questions by itself: what the groups answer is   *)
(* what one of their rows does.                                            *)
(***************************************************************************)
Answers(x, q) ==
    \/ x[1] = "GlobalAdmin"
    \/ q[2] = None /\ (q[1] = "Read" \/ x[1] = q[1])
    \/ q[1] \in A!OrgScope /\ x[1] \in A!LevelsFor(q[1]) /\ x[2] = q[2]
    \/ q[1] \in A!AppScope /\ q[2] # None /\ x[1] \in A!LevelsForApp(q[1]) /\ x[3] = q[2]

(* The list of an organization's applications shows those of a user        *)
(* administrator without a row for each.                                   *)
Grants(x, q) ==
    \/ Answers(x, q)
    \/ q[1] = "Read" /\ q[2] \in Applications /\ x[1] = "OrganizationUserAdmin" /\ x[2] = AppOrg[q[2]]

(* What a user administrator has that its permissions' rows do not say:    *)
(* the applications of the organization.                                   *)
Reaches(p, q) ==
    /\ q[2] \in Applications /\ OrgOf[p] = AppOrg[q[2]]
    /\ \/ q[1] = "Read"
       \/ q[1] = "Write" /\ sender = "key" /\ "OrganizationApplicationAdmin" \in LevelsOf[p]

(* The constants, as the lemmas use them. *)
LEMMA AccessConstants ==
    /\ LevelsOf \in [Perm -> SUBSET A!Level] /\ OrgOf \in [Perm -> Org \cup {None}]
    /\ \A p \in Perm : OrgOf[p] = None => LevelsOf[p] = {"GlobalAdmin"}
    /\ AppOrg \in [Applications -> Org] /\ None \notin Org /\ None \notin Applications
    /\ Lists \subseteq Applications \X Perm /\ MaxMoves \in Nat
BY AdministrationAssumption DEF A!AccessAssumption

(* The forms a question has. *)
LEMMA Questions ==
    ASSUME NEW q \in A!Question
    PROVE  \/ q[1] \in A!Level /\ q[2] = None /\ q[2] \notin Org /\ q[2] \notin Applications
           \/ q[1] \in A!OrgScope /\ q[2] \in Org /\ q[2] # None
           \/ q[1] \in A!AppScope /\ q[2] \in Applications /\ q[2] # None
BY AccessConstants DEF A!Question

(* Whatever the rows, the groups made of them answer what a row answers.   *)
LEMMA RowsAnswer ==
    ASSUME NEW rs \in SUBSET A!Row, NEW q \in A!Question
    PROVE  A!Allowed(rs, q) <=> \E x \in rs : Answers(x, q)
<1>1. CASE A!IsGlobalAdmin(rs)
  BY <1>1 DEF A!Allowed, A!IsGlobalAdmin, Answers
<1>2. CASE ~A!IsGlobalAdmin(rs)
  <2>1. \A x \in rs : x[1] # "GlobalAdmin" /\ x[1] \in A!Level
    BY <1>2 DEF A!IsGlobalAdmin, A!Row
  <2>2. CASE q[1] \in A!Level /\ q[2] = None /\ q[2] \notin Org /\ q[2] \notin Applications
    <3>1. A!Allowed(rs, q) <=> A!HasRole(rs, q[1])
      BY <1>2, <2>2 DEF A!Allowed, A!OrgScope, A!Level, A!AppScope, A!Values
    <3>2. A!HasRole(rs, q[1]) <=> \E x \in rs : q[1] = "Read" \/ x[1] = q[1]
      BY <2>1, <2>2 DEF A!HasRole, A!Keys
    <3>3. \A x \in rs : Answers(x, q) <=> q[1] = "Read" \/ x[1] = q[1]
      BY <2>1, <2>2 DEF Answers, A!OrgScope, A!Level
    <3> QED  BY <3>1, <3>2, <3>3
  <2>3. CASE q[1] \in A!OrgScope /\ q[2] \in Org /\ q[2] # None
    <3>1. A!Allowed(rs, q) <=> q[2] \in A!Keys(rs, A!LevelsFor(q[1]))
      BY <1>2, <2>3 DEF A!Allowed, A!OrgScope, A!AppScope
    <3>2. q[2] \in A!Keys(rs, A!LevelsFor(q[1])) <=> \E x \in rs : x[1] \in A!LevelsFor(q[1]) /\ x[2] = q[2]
      BY DEF A!Keys
    <3>3. \A x \in rs : Answers(x, q) <=> x[1] \in A!LevelsFor(q[1]) /\ x[2] = q[2]
      BY <2>1, <2>3 DEF Answers, A!OrgScope, A!AppScope
    <3> QED  BY <3>1, <3>2, <3>3
  <2>4. CASE q[1] \in A!AppScope /\ q[2] \in Applications /\ q[2] # None
    <3>1. A!Allowed(rs, q) <=> q[2] \in A!Values(rs, A!LevelsForApp(q[1]))
      BY <1>2, <2>4 DEF A!Allowed, A!OrgScope, A!AppScope
    <3>2. q[2] \in A!Values(rs, A!LevelsForApp(q[1])) <=> \E x \in rs : x[1] \in A!LevelsForApp(q[1]) /\ x[3] = q[2]
      BY <2>4 DEF A!Values
    <3>3. \A x \in rs : Answers(x, q) <=> x[1] \in A!LevelsForApp(q[1]) /\ x[3] = q[2]
      BY <2>1, <2>4 DEF Answers, A!OrgScope, A!AppScope
    <3> QED  BY <3>1, <3>2, <3>3
  <2> QED  BY <2>2, <2>3, <2>4, Questions
<1> QED  BY <1>1, <1>2

(* Each row of the first query is of a permission in it. *)
LEMMA RowOfPermission ==
    ASSUME NEW ps \in SUBSET Perm, listed \subseteq Applications \X Perm
    PROVE  /\ \A x \in A!FindPermissions(ps) : \E p \in ps :
                /\ x[1] \in LevelsOf[p] /\ x[2] = OrgOf[p] /\ x \in A!Row
                /\ x[3] = None \/ (x[3] \in Applications /\ <<x[3], p>> \in listed)
           /\ \A p \in ps : \A l \in LevelsOf[p] :
                /\ \E x \in A!FindPermissions(ps) : x[1] = l /\ x[2] = OrgOf[p]
                /\ \A a \in Applications : <<a, p>> \in listed => <<l, OrgOf[p], a>> \in A!FindPermissions(ps)
<1> DEFINE As(p) == A!OrNone({a \in Applications : <<a, p>> \in listed})
<1>1. A!FindPermissions(ps) = UNION {LevelsOf[p] \X {OrgOf[p]} \X As(p) : p \in ps}
  BY DEF A!FindPermissions
<1>2. \A p \in ps : /\ As(p) # {} /\ As(p) \subseteq Applications \cup {None}
                    /\ \A a \in As(p) : a = None \/ (a \in Applications /\ <<a, p>> \in listed)
                    /\ \A a \in Applications : <<a, p>> \in listed => a \in As(p)
  BY DEF A!OrNone
<1> HIDE DEF As
<1>3. \A p \in ps : LevelsOf[p] \subseteq A!Level /\ OrgOf[p] \in Org \cup {None}
  BY AccessConstants
<1>4. ASSUME NEW x \in A!FindPermissions(ps)
      PROVE  \E p \in ps : /\ x[1] \in LevelsOf[p] /\ x[2] = OrgOf[p] /\ x \in A!Row
                           /\ x[3] = None \/ (x[3] \in Applications /\ <<x[3], p>> \in listed)
  <2>1. PICK p \in ps : x \in LevelsOf[p] \X {OrgOf[p]} \X As(p)
    BY <1>1, <1>4
  <2> QED  BY <2>1, <1>2, <1>3 DEF A!Row
<1>5. ASSUME NEW p \in ps, NEW l \in LevelsOf[p], NEW a \in As(p)
      PROVE  <<l, OrgOf[p], a>> \in A!FindPermissions(ps)
  BY <1>1
<1>6. ASSUME NEW p \in ps, NEW l \in LevelsOf[p]
      PROVE  /\ \E x \in A!FindPermissions(ps) : x[1] = l /\ x[2] = OrgOf[p]
             /\ \A a \in Applications : <<a, p>> \in listed => <<l, OrgOf[p], a>> \in A!FindPermissions(ps)
  <2>1. PICK a \in As(p) : TRUE
    BY <1>2
  <2> QED  BY <1>2, <1>5, <2>1
<1> QED  BY <1>4, <1>6

(* Each row of the second query is of one for administrating users.        *)
LEMMA RowOfAdministrator ==
    ASSUME NEW ps \in SUBSET Perm, \A p \in ps : "OrganizationUserAdmin" \in LevelsOf[p]
    PROVE  /\ \A x \in A!FindForOrgAdmin(ps) : \E p \in ps :
                /\ x[1] = "OrganizationUserAdmin" \/ (sender # "user" /\ x[1] \in LevelsOf[p])
                /\ x[2] = OrgOf[p] /\ x \in A!Row /\ x[2] # None
                /\ x[3] = None \/ (x[3] \in Applications /\ AppOrg[x[3]] = OrgOf[p])
           /\ \A p \in ps, a \in Applications : AppOrg[a] = OrgOf[p] =>
                /\ <<"OrganizationUserAdmin", OrgOf[p], a>> \in A!FindForOrgAdmin(ps)
                /\ sender # "user" => \A l \in LevelsOf[p] : <<l, OrgOf[p], a>> \in A!FindForOrgAdmin(ps)
<1> DEFINE As(p) == A!OrNone(A!AppsOf(OrgOf[p]))
<1> DEFINE Ls(p) == IF sender = "user" THEN {"OrganizationUserAdmin"} ELSE LevelsOf[p]
<1>1. A!FindForOrgAdmin(ps) = UNION {Ls(p) \X {OrgOf[p]} \X As(p) : p \in ps}
  BY DEF A!FindForOrgAdmin
<1>2. \A p \in ps : /\ As(p) # {} /\ As(p) \subseteq Applications \cup {None}
                    /\ \A a \in As(p) : a = None \/ (a \in Applications /\ AppOrg[a] = OrgOf[p])
                    /\ \A a \in Applications : AppOrg[a] = OrgOf[p] => a \in As(p)
  BY DEF A!OrNone, A!AppsOf
<1>3. \A p \in ps : /\ LevelsOf[p] \subseteq A!Level /\ OrgOf[p] \in Org \cup {None} /\ OrgOf[p] # None
                    /\ Ls(p) \subseteq A!Level /\ "OrganizationUserAdmin" \in Ls(p)
                    /\ \A l \in Ls(p) : l = "OrganizationUserAdmin" \/ (sender # "user" /\ l \in LevelsOf[p])
                    /\ sender # "user" => Ls(p) = LevelsOf[p]
  BY AccessConstants DEF A!Level
<1> HIDE DEF As, Ls
<1>4. ASSUME NEW x \in A!FindForOrgAdmin(ps)
      PROVE  \E p \in ps : /\ x[1] = "OrganizationUserAdmin" \/ (sender # "user" /\ x[1] \in LevelsOf[p])
                           /\ x[2] = OrgOf[p] /\ x \in A!Row /\ x[2] # None
                           /\ x[3] = None \/ (x[3] \in Applications /\ AppOrg[x[3]] = OrgOf[p])
  <2>1. PICK p \in ps : x \in Ls(p) \X {OrgOf[p]} \X As(p)
    BY <1>1, <1>4
  <2> QED  BY <2>1, <1>2, <1>3 DEF A!Row
<1>5. ASSUME NEW p \in ps, NEW l \in Ls(p), NEW a \in As(p)
      PROVE  <<l, OrgOf[p], a>> \in A!FindForOrgAdmin(ps)
  BY <1>1
<1> QED  BY <1>2, <1>3, <1>4, <1>5

Has(l, o) == \E p \in held : l \in LevelsOf[p] /\ OrgOf[p] = o
On(l, a) == \E p \in held : l \in LevelsOf[p] /\ <<a, p>> \in listed
GlobalHeld == \E p \in held : "GlobalAdmin" \in LevelsOf[p]

(* What the sender may do, for each form of question. *)
LEMMA MayDo ==
    ASSUME sender \in {"user", "key"}, NEW q \in A!Question
    PROVE  /\ q[1] = "Read" /\ q[2] = None =>
                (A!May(q) <=> GlobalHeld \/ \E l \in A!Level, o \in Org : Has(l, o))
           /\ q[1] \in A!Level \ {"Read"} /\ q[2] = None =>
                (A!May(q) <=> GlobalHeld \/ \E o \in Org : Has(q[1], o))
           /\ q[1] \in A!OrgScope => (A!May(q) <=> GlobalHeld \/ \E l \in A!LevelsFor(q[1]) : Has(l, q[2]))
           /\ q[1] \in A!AppScope /\ q[2] \in Applications =>
                (A!May(q) <=> \/ GlobalHeld
                              \/ \E l \in A!LevelsForApp(q[1]) : On(l, q[2])
                              \/ q[1] = "Read" /\ Has("OrganizationUserAdmin", AppOrg[q[2]])
                              \/ \E p \in held : Reaches(p, q) /\ "OrganizationUserAdmin" \in LevelsOf[p])
<1>1. ASSUME q[1] = "Read", q[2] = None
      PROVE  A!May(q) <=> GlobalHeld \/ \E l \in A!Level, o \in Org : Has(l, o)
  BY <1>1 DEF A!May, GlobalHeld, Has
<1>2. ASSUME q[1] \in A!Level \ {"Read"}, q[2] = None
      PROVE  A!May(q) <=> GlobalHeld \/ \E o \in Org : Has(q[1], o)
  BY <1>2 DEF A!May, GlobalHeld, Has, A!Level
<1>3. ASSUME q[1] \in A!OrgScope
      PROVE  A!May(q) <=> GlobalHeld \/ \E l \in A!LevelsFor(q[1]) : Has(l, q[2])
  <2>0. q[2] # None
    BY <1>3, Questions DEF A!OrgScope, A!Level, A!AppScope
  <2>1. CASE q[1] = "ApplicationRead"
    BY <2>0, <2>1 DEF A!May, GlobalHeld, Has, A!LevelsFor
  <2>2. CASE q[1] = "ApplicationWrite"
    BY <2>0, <2>2 DEF A!May, GlobalHeld, Has, A!LevelsFor
  <2>3. CASE q[1] = "GatewayWrite"
    BY <2>0, <2>3 DEF A!May, GlobalHeld, Has, A!LevelsFor
  <2>4. CASE q[1] = "UserAdministrationRead"
    BY <2>0, <2>4 DEF A!May, GlobalHeld, Has, A!LevelsFor
  <2>5. CASE q[1] = "UserAdministrationWrite"
    BY <2>0, <2>5 DEF A!May, GlobalHeld, Has, A!LevelsFor
  <2> QED  BY <1>3, <2>1, <2>2, <2>3, <2>4, <2>5 DEF A!OrgScope
<1>4. ASSUME q[1] \in A!AppScope, q[2] \in Applications
      PROVE  A!May(q) <=> \/ GlobalHeld
                          \/ \E l \in A!LevelsForApp(q[1]) : On(l, q[2])
                          \/ q[1] = "Read" /\ Has("OrganizationUserAdmin", AppOrg[q[2]])
                          \/ \E p \in held : Reaches(p, q) /\ "OrganizationUserAdmin" \in LevelsOf[p]
  <2>0. q[2] # None
    BY <1>4, AccessConstants
  <2>1. CASE q[1] = "Read"
    BY <1>4, <2>0, <2>1 DEF A!May, GlobalHeld, Has, On, A!LevelsForApp, Reaches
  <2>2. CASE q[1] = "Write"
    BY <1>4, <2>0, <2>2 DEF A!May, GlobalHeld, Has, On, A!LevelsForApp, Reaches
  <2> QED  BY <1>4, <2>1, <2>2 DEF A!AppScope
<1> QED  BY <1>1, <1>2, <1>3, <1>4

(* A row that the queries find now grants what the sender may do now. *)
LEMMA FoundMay ==
    ASSUME held \subseteq Perm, listed \subseteq Applications \X Perm, sender \in {"user", "key"},
           NEW q \in A!Question,
           NEW x \in A!FindPermissions(held) \cup A!FindForOrgAdmin(A!Administrating), Grants(x, q)
    PROVE  A!May(q)
<1>1. PICK p \in held :
        /\ x[1] \in LevelsOf[p] /\ x[2] = OrgOf[p] /\ x \in A!Row
        /\ x[3] \in Applications =>
             \/ <<x[3], p>> \in listed
             \/ /\ "OrganizationUserAdmin" \in LevelsOf[p] /\ AppOrg[x[3]] = OrgOf[p]
                /\ x[1] = "OrganizationUserAdmin" \/ sender = "key"
  <2>1. CASE x \in A!FindPermissions(held)
    BY <2>1, RowOfPermission, AccessConstants
  <2>2. CASE x \in A!FindForOrgAdmin(A!Administrating)
    <3>1. /\ A!Administrating \in SUBSET Perm /\ A!Administrating \subseteq held
          /\ \A p \in A!Administrating : "OrganizationUserAdmin" \in LevelsOf[p]
      BY DEF A!Administrating
    <3> DEFINE ps == A!Administrating
    <3> HIDE DEF ps
    <3>2. PICK p \in ps :
            /\ x[1] = "OrganizationUserAdmin" \/ (sender # "user" /\ x[1] \in LevelsOf[p])
            /\ x[2] = OrgOf[p] /\ x \in A!Row
            /\ x[3] = None \/ (x[3] \in Applications /\ AppOrg[x[3]] = OrgOf[p])
      BY <2>2, <3>1, RowOfAdministrator DEF ps
    <3> QED  BY <3>1, <3>2, AccessConstants DEF ps
  <2> QED  BY <2>1, <2>2
<1>2. CASE "GlobalAdmin" \in LevelsOf[p]
  BY <1>2, MayDo, Questions DEF GlobalHeld
<1>3. CASE "GlobalAdmin" \notin LevelsOf[p]
  <2>0. x[1] # "GlobalAdmin" /\ x[1] \in A!Level /\ OrgOf[p] \in Org /\ Has(x[1], OrgOf[p])
    BY <1>1, <1>3, AccessConstants DEF A!Row, Has
  <2>1. CASE q[1] \in A!Level /\ q[2] = None /\ q[2] \notin Org /\ q[2] \notin Applications
    <3>1. q[1] = "Read" \/ x[1] = q[1]
      BY <2>0, <2>1 DEF Grants, Answers, A!OrgScope, A!Level
    <3> QED  BY <2>0, <2>1, <3>1, MayDo
  <2>2. CASE q[1] \in A!OrgScope /\ q[2] \in Org /\ q[2] # None
    <3>1. x[1] \in A!LevelsFor(q[1]) /\ x[2] = q[2]
      BY <2>0, <2>2 DEF Grants, Answers, A!OrgScope, A!AppScope
    <3> QED  BY <1>1, <2>0, <2>2, <3>1, MayDo
  <2>3. CASE q[1] \in A!AppScope /\ q[2] \in Applications /\ q[2] # None
    <3>1. \/ x[1] \in A!LevelsForApp(q[1]) /\ x[3] = q[2]
          \/ q[1] = "Read" /\ x[1] = "OrganizationUserAdmin" /\ x[2] = AppOrg[q[2]]
      BY <2>0, <2>3 DEF Grants, Answers, A!OrgScope, A!AppScope
    <3>2. CASE q[1] = "Read" /\ x[1] = "OrganizationUserAdmin" /\ x[2] = AppOrg[q[2]]
      BY <1>1, <2>0, <2>3, <3>2, MayDo
    <3>3. CASE x[1] \in A!LevelsForApp(q[1]) /\ x[3] = q[2] /\ <<x[3], p>> \in listed
      BY <1>1, <2>3, <3>3, MayDo DEF On
    <3>4. CASE x[1] \in A!LevelsForApp(q[1]) /\ x[3] = q[2] /\ AppOrg[x[3]] = OrgOf[p]
               /\ "OrganizationUserAdmin" \in LevelsOf[p] /\ (x[1] = "OrganizationUserAdmin" \/ sender = "key")
      <4>1. Reaches(p, q)
        BY <1>1, <2>3, <3>4 DEF Reaches, A!LevelsForApp, A!AppScope
      <4> QED  BY <2>3, <3>4, <4>1, MayDo
    <3> QED  BY <1>1, <2>3, <3>1, <3>2, <3>3, <3>4
  <2> QED  BY <2>1, <2>2, <2>3, Questions
<1> QED  BY <1>2, <1>3

(* What the sender may do now, the first query finds, or the second would. *)
LEMMA MayFound ==
    ASSUME held \subseteq Perm, listed \subseteq Applications \X Perm, sender \in {"user", "key"},
           NEW q \in A!Question, A!May(q)
    PROVE  \/ \E x \in A!FindPermissions(held) : Answers(x, q)
           \/ \E p \in A!Administrating : Reaches(p, q)
<1>1. ASSUME NEW l, NEW o, Has(l, o)
      PROVE  \E x \in A!FindPermissions(held) : x[1] = l /\ x[2] = o
  BY <1>1, RowOfPermission DEF Has
<1>2. ASSUME NEW l, NEW a \in Applications, On(l, a)
      PROVE  \E x \in A!FindPermissions(held) : x[1] = l /\ x[3] = a
  <2>1. PICK p \in held : l \in LevelsOf[p] /\ <<a, p>> \in listed
    BY <1>2 DEF On
  <2>2. <<l, OrgOf[p], a>> \in A!FindPermissions(held)
    BY <2>1, RowOfPermission
  <2> QED  BY <2>2
<1>3. CASE GlobalHeld
  <2>1. PICK p \in held : "GlobalAdmin" \in LevelsOf[p]
    BY <1>3 DEF GlobalHeld
  <2>2. \E x \in A!FindPermissions(held) : x[1] = "GlobalAdmin"
    BY <2>1, RowOfPermission
  <2> QED  BY <2>2 DEF Answers
<1>4. CASE ~GlobalHeld
  <2>1. CASE q[1] \in A!Level /\ q[2] = None /\ q[2] \notin Org /\ q[2] \notin Applications
    <3>1. PICK l \in A!Level, o \in Org : Has(l, o) /\ (q[1] = "Read" \/ l = q[1])
      BY <1>4, <2>1, MayDo
    <3>2. PICK x \in A!FindPermissions(held) : x[1] = l
      BY <3>1, <1>1
    <3> QED  BY <2>1, <3>1, <3>2 DEF Answers
  <2>2. CASE q[1] \in A!OrgScope /\ q[2] \in Org /\ q[2] # None
    <3>1. PICK l \in A!LevelsFor(q[1]) : Has(l, q[2])
      BY <1>4, <2>2, MayDo
    <3>2. PICK x \in A!FindPermissions(held) : x[1] = l /\ x[2] = q[2]
      BY <3>1, <1>1
    <3> QED  BY <2>2, <3>1, <3>2 DEF Answers
  <2>3. CASE q[1] \in A!AppScope /\ q[2] \in Applications /\ q[2] # None
    <3>1. CASE \E l \in A!LevelsForApp(q[1]) : On(l, q[2])
      <4>1. PICK l \in A!LevelsForApp(q[1]) : On(l, q[2])
        BY <3>1
      <4>2. PICK x \in A!FindPermissions(held) : x[1] = l /\ x[3] = q[2]
        BY <2>3, <4>1, <1>2
      <4> QED  BY <2>3, <4>1, <4>2 DEF Answers
    <3>2. CASE q[1] = "Read" /\ Has("OrganizationUserAdmin", AppOrg[q[2]])
      BY <2>3, <3>2 DEF Has, Reaches, A!Administrating
    <3>3. CASE \E p \in held : Reaches(p, q) /\ "OrganizationUserAdmin" \in LevelsOf[p]
      BY <3>3 DEF A!Administrating
    <3> QED  BY <1>4, <2>3, <3>1, <3>2, <3>3, MayDo
  <2> QED  BY <2>1, <2>2, <2>3, Questions
<1> QED  BY <1>3, <1>4

(* The same, of any question. *)
LEMMA MayFoundAlways ==
    \A r \in A!Question :
        held \subseteq Perm /\ listed \subseteq Applications \X Perm /\ sender \in {"user", "key"} /\ A!May(r) =>
          \/ \E x \in A!FindPermissions(held) : Answers(x, r)
          \/ \E e \in A!Administrating : Reaches(e, r)
BY MayFound

(* What an administrator reaches, the second query finds. *)
LEMMA ReachFound ==
    ASSUME held \subseteq Perm, sender \in {"user", "key"}, NEW q \in A!Question,
           NEW p \in A!Administrating, Reaches(p, q)
    PROVE  \E x \in A!FindForOrgAdmin(A!Administrating) : Answers(x, q)
<1> DEFINE ps == A!Administrating
<1>1. ps \in SUBSET Perm /\ \A e \in ps : "OrganizationUserAdmin" \in LevelsOf[e]
  BY DEF A!Administrating
<1>2. p \in ps /\ q[2] \in Applications /\ AppOrg[q[2]] = OrgOf[p] /\ q[2] # None
  BY AccessConstants DEF Reaches
<1> HIDE DEF ps
<1>3. /\ <<"OrganizationUserAdmin", OrgOf[p], q[2]>> \in A!FindForOrgAdmin(ps)
      /\ sender # "user" => \A l \in LevelsOf[p] : <<l, OrgOf[p], q[2]>> \in A!FindForOrgAdmin(ps)
  BY <1>1, <1>2, RowOfAdministrator
<1>4. CASE q[1] = "Read"
  <2>1. Answers(<<"OrganizationUserAdmin", OrgOf[p], q[2]>>, q)
    BY <1>2, <1>4 DEF Answers, A!AppScope, A!LevelsForApp
  <2> QED  BY <1>3, <2>1 DEF ps
<1>5. CASE q[1] = "Write" /\ sender = "key" /\ "OrganizationApplicationAdmin" \in LevelsOf[p]
  <2>1. Answers(<<"OrganizationApplicationAdmin", OrgOf[p], q[2]>>, q)
    BY <1>2, <1>5 DEF Answers, A!AppScope, A!LevelsForApp
  <2> QED  BY <1>3, <1>5, <2>1 DEF ps
<1> QED  BY <1>4, <1>5 DEF Reaches

Active == stage \in {"permissions", "applications", "handler"}

HeldByKnown == ~known => held = {}

(* While permissions may change, the histories are right about now. *)
HistoryTrue == Active => A!MayNow \subseteq ever /\ always \subseteq A!MayNow

(* What a row that was found grants, the sender might do at some time. *)
FoundGranted ==
    /\ stage \in {"new", "permissions"} => found = {}
    /\ \A x \in found : x[2] = None => x[1] = "GlobalAdmin"
    /\ Active => \A x \in found, q \in A!Question : Grants(x, q) => q \in ever

(* What it might do all the time is found, or the second query would now   *)
(* find it; before the first change the rows are those of what is held.    *)
FoundAll ==
    /\ stage = "applications" /\ moves = 0 => found = A!FindPermissions(held)
    /\ stage = "applications" /\ moves < 2 =>
         \A q \in always : \/ \E x \in found : Answers(x, q)
                           \/ \E p \in A!Administrating : Reaches(p, q)
    /\ stage = "handler" /\ moves < 2 => \A q \in always : \E x \in found : Answers(x, q)

AccessInv ==
    /\ A!TypeOK /\ HeldByKnown /\ HistoryTrue /\ FoundGranted /\ FoundAll
    /\ A!NothingUnheld /\ A!NothingWithheld

(* Nothing has been found yet. *)
LEMMA AccessInit == A!Init => AccessInv
<1> SUFFICES ASSUME A!Init PROVE AccessInv
  OBVIOUS
<1>1. A!TypeOK
  BY AccessConstants DEF A!Init, A!TypeOK
<1> QED
  BY <1>1 DEF A!Init, AccessInv, HeldByKnown, HistoryTrue, FoundGranted, FoundAll, Active, A!NothingUnheld,
     A!NothingWithheld

(* What both queries find now. *)
LEMMA FoundNow ==
    ASSUME A!TypeOK, HeldByKnown, NEW rs,
           rs = A!FindPermissions(held) \/ rs = A!FindForOrgAdmin(A!Administrating)
    PROVE  /\ rs \subseteq A!Row
           /\ \A x \in rs : x[2] = None => x[1] = "GlobalAdmin"
           /\ \A x \in rs, q \in A!Question : Grants(x, q) => q \in A!MayNow
<1>1. held \subseteq Perm /\ listed \subseteq Applications \X Perm /\ sender \in {"user", "key"}
  BY DEF A!TypeOK
<1>2. CASE rs = A!FindPermissions(held)
  <2>1. \A x \in rs : \E p \in held : x[1] \in LevelsOf[p] /\ x[2] = OrgOf[p] /\ x \in A!Row
    BY <1>1, <1>2, RowOfPermission
  <2>2. rs \subseteq A!Row /\ (rs # {} => known) /\ \A x \in rs : x[2] = None => x[1] = "GlobalAdmin"
    BY <1>1, <2>1, AccessConstants DEF HeldByKnown
  <2> QED  BY <1>1, <1>2, <2>2, FoundMay DEF A!MayNow
<1>3. CASE rs = A!FindForOrgAdmin(A!Administrating)
  <2> DEFINE ps == A!Administrating
  <2>1. ps \in SUBSET Perm /\ ps \subseteq held /\ \A p \in ps : "OrganizationUserAdmin" \in LevelsOf[p]
    BY <1>1 DEF A!Administrating
  <2> HIDE DEF ps
  <2>2. \A x \in rs : \E p \in ps : x[2] = OrgOf[p] /\ x \in A!Row /\ x[2] # None
    BY <1>3, <2>1, RowOfAdministrator DEF ps
  <2>3. rs \subseteq A!Row /\ (rs # {} => known) /\ \A x \in rs : x[2] # None
    BY <2>1, <2>2 DEF HeldByKnown
  <2> QED  BY <1>1, <1>3, <2>3, FoundMay DEF A!MayNow
<1> QED  BY <1>2, <1>3

(* What is left alone keeps its meaning. *)
LEMMA SameSender ==
    ASSUME UNCHANGED <<sender, known, held, listed>>
    PROVE  /\ A!MayNow' = A!MayNow /\ A!FindPermissions(held)' = A!FindPermissions(held)
           /\ A!Administrating' = A!Administrating
           /\ \A p, q : Reaches(p, q)' = Reaches(p, q)
<1>1. \A q : A!May(q)' = A!May(q)
  BY DEF A!May
<1> QED
  BY <1>1 DEF A!MayNow, A!FindPermissions, A!Administrating, Reaches

(* The histories begin with what the sender may do now.                    *)
LEMMA ValidateKeeps == AccessInv /\ A!Validate => AccessInv'
<1> SUFFICES ASSUME AccessInv, A!Validate PROVE AccessInv'
  OBVIOUS
<1> USE DEF AccessInv
<1>1. UNCHANGED <<sender, known, held, listed, found, moves, allowed, shown>> /\ found = {}
  BY DEF A!Validate, FoundGranted
<1>2. A!MayNow' = A!MayNow
  BY <1>1, SameSender
<1>3. A!TypeOK'
  <2>1. A!MayNow \subseteq A!Question
    BY DEF A!MayNow
  <2> QED  BY <2>1, <1>1 DEF A!Validate, A!TypeOK
<1>4. HeldByKnown' /\ HistoryTrue'
  BY <1>1, <1>2 DEF A!Validate, HeldByKnown, HistoryTrue, Active
<1>5. FoundGranted' /\ FoundAll' /\ A!NothingUnheld' /\ A!NothingWithheld'
  BY <1>1 DEF A!Validate, FoundGranted, FoundAll, A!NothingUnheld, A!NothingWithheld
<1> QED  BY <1>3, <1>4, <1>5

(* The first query's rows say what the sender may do now.                  *)
LEMMA FindOwnKeeps == AccessInv /\ A!FindOwn => AccessInv'
<1> SUFFICES ASSUME AccessInv, A!FindOwn PROVE AccessInv'
  OBVIOUS
<1> USE DEF AccessInv
<1>1. /\ UNCHANGED <<sender, known, held, listed, moves, ever, always, allowed, shown>>
      /\ found' = A!FindPermissions(held) /\ Active /\ Active' /\ stage' \in {"applications", "handler"}
      /\ stage' = "handler" => A!Administrating = {}
  BY DEF A!FindOwn, Active
<1>2. /\ A!MayNow' = A!MayNow /\ A!FindPermissions(held)' = A!FindPermissions(held)
      /\ A!Administrating' = A!Administrating /\ \A p, q : Reaches(p, q)' = Reaches(p, q)
  BY <1>1, SameSender
<1>3. /\ found' \subseteq A!Row
      /\ \A x \in found' : x[2] = None => x[1] = "GlobalAdmin"
      /\ \A x \in found', q \in A!Question : Grants(x, q) => q \in A!MayNow
  BY <1>1, FoundNow
<1>4. A!TypeOK'
  BY <1>1, <1>3 DEF A!TypeOK
<1>5. HeldByKnown' /\ HistoryTrue'
  BY <1>1, <1>2 DEF HeldByKnown, HistoryTrue
<1>6. FoundGranted'
  <2>1. \A x \in found', q \in A!Question : Grants(x, q) => q \in ever'
    BY <1>1, <1>3 DEF HistoryTrue
  <2> QED  BY <1>1, <1>3, <2>1 DEF FoundGranted, Grants, Answers
<1>7. FoundAll'
  <2>1. \A q \in always : q \in A!Question /\ A!May(q)
    BY <1>1 DEF HistoryTrue, A!MayNow
  <2>2. \A q \in always : \/ \E x \in found' : Answers(x, q)
                          \/ \E p \in A!Administrating : Reaches(p, q)
    BY <1>1, <2>1, MayFound DEF A!TypeOK
  <2> QED  BY <1>1, <1>2, <2>2 DEF FoundAll, Answers
<1>8. A!NothingUnheld' /\ A!NothingWithheld'
  BY <1>1 DEF A!NothingUnheld, A!NothingWithheld
<1> QED  BY <1>4, <1>5, <1>6, <1>7, <1>8

(* The second query adds what administrators reach now.                    *)
LEMMA FindOrganizationsKeeps == AccessInv /\ A!FindOrganizations => AccessInv'
<1> SUFFICES ASSUME AccessInv, A!FindOrganizations PROVE AccessInv'
  OBVIOUS
<1> USE DEF AccessInv
<1>1. /\ UNCHANGED <<sender, known, held, listed, moves, ever, always, allowed, shown>>
      /\ found' = found \cup A!FindForOrgAdmin(A!Administrating) /\ Active /\ Active'
      /\ stage = "applications" /\ stage' = "handler"
  BY DEF A!FindOrganizations, Active
<1>2. A!MayNow' = A!MayNow
  BY <1>1, SameSender
<1>3. PICK rs : rs = A!FindForOrgAdmin(A!Administrating)
  OBVIOUS
<1>4. /\ rs \subseteq A!Row
      /\ \A x \in rs : x[2] = None => x[1] = "GlobalAdmin"
      /\ \A x \in rs, q \in A!Question : Grants(x, q) => q \in A!MayNow
  BY <1>3, FoundNow
<1>5. A!TypeOK'
  BY <1>1, <1>3, <1>4 DEF A!TypeOK
<1>6. HeldByKnown' /\ HistoryTrue'
  BY <1>1, <1>2 DEF HeldByKnown, HistoryTrue
<1>7. FoundGranted'
  <2>1. \A x \in found', q \in A!Question : Grants(x, q) => q \in ever'
    BY <1>1, <1>3, <1>4 DEF HistoryTrue, FoundGranted
  <2>2. \A x \in found' : x[2] = None => x[1] = "GlobalAdmin"
    BY <1>1, <1>3, <1>4 DEF FoundGranted
  <2> QED  BY <1>1, <2>1, <2>2 DEF FoundGranted, Grants, Answers
<1>8. FoundAll'
  <2>1. ASSUME moves < 2, NEW q \in always
        PROVE  \E x \in found' : Answers(x, q)
    <3>1. CASE \E x \in found : Answers(x, q)
      BY <1>1, <3>1
    <3>2. CASE \E p \in A!Administrating : Reaches(p, q)
      <4>1. held \subseteq Perm /\ sender \in {"user", "key"} /\ q \in A!Question
        BY DEF A!TypeOK
      <4> QED  BY <1>1, <3>2, <4>1, ReachFound
    <3> QED  BY <1>1, <2>1, <3>1, <3>2 DEF FoundAll
  <2> QED  BY <1>1, <2>1 DEF FoundAll, Answers
<1>9. A!NothingUnheld' /\ A!NothingWithheld'
  BY <1>1 DEF A!NothingUnheld, A!NothingWithheld
<1> QED  BY <1>5, <1>6, <1>7, <1>8, <1>9

(* What is shown is readable, and within the organization that was asked.  *)
LEMMA ListReadable ==
    ASSUME A!TypeOK, NEW o \in Org \cup {None}, NEW a \in Applications, a \in A!ListApplications(found, o)
    PROVE  o \in {None, AppOrg[a]} /\ \E x \in found : Grants(x, <<"Read", a>>)
<1> DEFINE q == <<"Read", a>>
<1>1. q \in A!Question /\ a # None /\ found \in SUBSET A!Row
  BY AccessConstants DEF A!Question, A!AppScope, A!TypeOK
<1>2. A!IsGlobalAdmin(found) => \E x \in found : Grants(x, q)
  BY DEF A!IsGlobalAdmin, Grants, Answers
<1>3. a \in A!Readable(found) => \E x \in found : Grants(x, q)
  BY <1>1 DEF A!Readable, A!Values, Grants, Answers, A!AppScope
<1>4. CASE A!IsGlobalAdmin(found)
  BY <1>2, <1>4 DEF A!ListApplications, A!AppsOf
<1>5. CASE ~A!IsGlobalAdmin(found) /\ o = None
  BY <1>3, <1>5 DEF A!ListApplications, A!InWhitelistOrOrganization
<1>6. CASE ~A!IsGlobalAdmin(found) /\ o # None
  <2>1. a \in A!InOrganization(found, o)
    BY <1>6 DEF A!ListApplications
  <2>2. CASE o \in A!Keys(found, {"OrganizationUserAdmin"})
    <3>1. AppOrg[a] = o
      BY <2>1, <2>2 DEF A!InOrganization, A!AppsOf
    <3>2. PICK x \in found : x[1] = "OrganizationUserAdmin" /\ x[2] = o
      BY <2>2 DEF A!Keys
    <3> QED  BY <3>1, <3>2 DEF Grants
  <2>3. CASE o \notin A!Keys(found, {"OrganizationUserAdmin"})
    BY <1>3, <2>1, <2>3 DEF A!InOrganization, A!AppsOf
  <2> QED  BY <2>2, <2>3
<1> QED  BY <1>4, <1>5, <1>6

(* What is readable is shown, with the exception the property names.       *)
LEMMA ReadableListed ==
    ASSUME A!TypeOK, \A x \in found : x[2] = None => x[1] = "GlobalAdmin",
           NEW a \in Applications, A!Allowed(found, <<"Read", a>>)
    PROVE  /\ A!Allowed(found, <<"ApplicationRead", AppOrg[a]>>) => a \in A!ListApplications(found, AppOrg[a])
           /\ \/ a \in A!ListApplications(found, None)
              \/ \E o \in Org \ {AppOrg[a]} : A!Allowed(found, <<"ApplicationWrite", o>>)
<1>1. a # None /\ AppOrg[a] \in Org /\ AppOrg[a] # None /\ found \subseteq A!Row
  BY AccessConstants DEF A!TypeOK
<1>2. CASE A!IsGlobalAdmin(found)
  BY <1>1, <1>2 DEF A!ListApplications, A!AppsOf
<1>3. CASE ~A!IsGlobalAdmin(found)
  <2>1. a \in A!Readable(found)
    BY <1>1, <1>3 DEF A!Allowed, A!Readable, A!OrgScope, A!AppScope
  <2>2. A!Allowed(found, <<"ApplicationRead", AppOrg[a]>>) => a \in A!ListApplications(found, AppOrg[a])
    BY <1>1, <1>3, <2>1 DEF A!ListApplications, A!InOrganization, A!AppsOf
  <2>3. CASE a \in A!InWhitelistOrOrganization(found)
    BY <1>3, <2>2, <2>3 DEF A!ListApplications
  <2>4. CASE a \notin A!InWhitelistOrOrganization(found)
    <3>1. PICK x \in found : x[1] = "OrganizationApplicationAdmin" /\ x[2] # AppOrg[a]
      BY <2>1, <2>4 DEF A!InWhitelistOrOrganization, A!Keys
    <3>2. x[2] \in Org
      BY <1>1, <3>1 DEF A!Row
    <3>3. A!Allowed(found, <<"ApplicationWrite", x[2]>>)
      BY <3>1 DEF A!Allowed, A!OrgScope, A!Keys, A!LevelsFor
    <3> QED  BY <2>2, <3>1, <3>2, <3>3
  <2> QED  BY <2>3, <2>4
<1> QED  BY <1>2, <1>3

(* The answers are those of the rows that were found.                      *)
LEMMA DecideKeeps == AccessInv /\ A!Decide => AccessInv'
<1> SUFFICES ASSUME AccessInv, A!Decide PROVE AccessInv'
  OBVIOUS
<1> USE DEF AccessInv
<1>1. /\ UNCHANGED <<sender, known, held, listed, found, moves, ever, always>>
      /\ stage = "handler" /\ stage' = "done" /\ Active /\ ~Active'
      /\ allowed' = {q \in A!Question : A!Allowed(found, q)}
      /\ shown' = {x \in (Org \cup {None}) \X Applications : x[2] \in A!ListApplications(found, x[1])}
  BY DEF A!Decide, Active
<1>2. A!TypeOK'
  BY <1>1 DEF A!TypeOK
<1>3. HeldByKnown' /\ HistoryTrue' /\ FoundGranted' /\ FoundAll'
  BY <1>1 DEF HeldByKnown, HistoryTrue, FoundGranted, FoundAll
<1>4. found \in SUBSET A!Row
  BY DEF A!TypeOK
<1>5. \A x \in found, q \in A!Question : Grants(x, q) => q \in ever
  BY <1>1 DEF FoundGranted
<1>6. A!NothingUnheld'
  <2>1. ASSUME NEW q \in allowed' PROVE q \in ever
    <3>1. q \in A!Question /\ \E x \in found : Answers(x, q)
      BY <1>1, <1>4, <2>1, RowsAnswer
    <3> QED  BY <1>5, <3>1 DEF Grants
  <2>2. ASSUME NEW x \in shown'
        PROVE  <<"Read", x[2]>> \in ever /\ x[1] \in {None, AppOrg[x[2]]}
    <3>1. x[1] \in Org \cup {None} /\ x[2] \in Applications /\ x[2] \in A!ListApplications(found, x[1])
      BY <1>1, <2>2
    <3>2. <<"Read", x[2]>> \in A!Question
      BY <3>1 DEF A!Question, A!AppScope
    <3> QED  BY <1>5, <3>1, <3>2, ListReadable
  <2> QED  BY <1>1, <2>1, <2>2 DEF A!NothingUnheld
<1>7. A!NothingWithheld'
  <2> SUFFICES ASSUME moves < 2
               PROVE  /\ always \subseteq allowed'
                      /\ \A a \in Applications : <<"Read", a>> \in always =>
                           /\ <<"ApplicationRead", AppOrg[a]>> \in always => <<AppOrg[a], a>> \in shown'
                           /\ \/ <<None, a>> \in shown'
                              \/ \E o \in Org \ {AppOrg[a]} : <<"ApplicationWrite", o>> \in allowed'
    BY <1>1 DEF A!NothingWithheld
  <2>1. ASSUME NEW q \in always PROVE q \in A!Question /\ A!Allowed(found, q)
    <3>1. q \in A!Question
      BY DEF A!TypeOK
    <3>2. \E x \in found : Answers(x, q)
      BY <1>1 DEF FoundAll
    <3> QED  BY <1>4, <3>1, <3>2, RowsAnswer
  <2>2. ASSUME NEW a \in Applications, <<"Read", a>> \in always
        PROVE  /\ <<"ApplicationRead", AppOrg[a]>> \in always => <<AppOrg[a], a>> \in shown'
               /\ \/ <<None, a>> \in shown'
                  \/ \E o \in Org \ {AppOrg[a]} : <<"ApplicationWrite", o>> \in allowed'
    <3>1. AppOrg[a] \in Org
      BY AccessConstants
    <3>2. \A o \in Org : <<"ApplicationWrite", o>> \in A!Question
      BY DEF A!Question, A!OrgScope
    <3>3. /\ A!Allowed(found, <<"ApplicationRead", AppOrg[a]>>) => a \in A!ListApplications(found, AppOrg[a])
          /\ \/ a \in A!ListApplications(found, None)
             \/ \E o \in Org \ {AppOrg[a]} : A!Allowed(found, <<"ApplicationWrite", o>>)
      BY <2>1, <2>2, ReadableListed DEF FoundGranted
    <3>4. <<"ApplicationRead", AppOrg[a]>> \in always => <<AppOrg[a], a>> \in shown'
      BY <1>1, <2>1, <3>1, <3>3
    <3>5. a \in A!ListApplications(found, None) => <<None, a>> \in shown'
      BY <1>1
    <3>6. \A o \in Org : A!Allowed(found, <<"ApplicationWrite", o>>) => <<"ApplicationWrite", o>> \in allowed'
      BY <1>1, <3>2
    <3> QED  BY <3>3, <3>4, <3>5, <3>6
  <2> QED  BY <1>1, <2>1, <2>2
<1> QED  BY <1>2, <1>3, <1>6, <1>7

(* One change, the first, between the queries: what the sender may do      *)
(* before and after it is found, or will be.                               *)
LEMMA ChangeFinds ==
    ASSUME AccessInv, A!Change, stage = "applications", moves' < 2, NEW q \in always'
    PROVE  \/ \E x \in found : Answers(x, q)
           \/ \E p \in A!Administrating' : Reaches(p, q)'
<1> USE DEF AccessInv
<1>1. /\ moves = 0 /\ sender' = sender /\ found' = found
      /\ q \in always /\ q \in A!MayNow /\ q \in A!MayNow'
  BY DEF A!Change, A!TypeOK, HistoryTrue, Active
<1>2. found = A!FindPermissions(held)
  BY <1>1 DEF FoundAll
<1>3. held \subseteq Perm /\ listed \subseteq Applications \X Perm /\ sender \in {"user", "key"} /\ q \in A!Question
  BY <1>1 DEF A!TypeOK, A!MayNow
<1>4. CASE \E x \in found : Answers(x, q)
  BY <1>4
<1>5. CASE \A x \in found : ~Answers(x, q)
  <2>1. PICK p \in A!Administrating : Reaches(p, q)
    BY <1>1, <1>2, <1>3, <1>5, MayFound DEF A!MayNow
  <2>2. CASE p \in held'
    BY <1>1, <2>1, <2>2 DEF A!Administrating, Reaches
  <2>3. CASE p \notin held'
    <3>1. known' /\ A!May(q)'
      BY <1>1 DEF A!MayNow
    <3>2. held' \subseteq held /\ listed' = listed
      BY <2>1, <2>3, <3>1 DEF A!Change, A!Administrating
    <3>3. (held \subseteq Perm /\ listed \subseteq Applications \X Perm /\ sender \in {"user", "key"})'
      BY <1>1, <1>3, <3>2
    <3>4. \A x \in A!FindPermissions(held)' : x \in A!FindPermissions(held)
      BY <3>2 DEF A!FindPermissions
    <3>5. (\A r \in A!Question :
             held \subseteq Perm /\ listed \subseteq Applications \X Perm /\ sender \in {"user", "key"} /\ A!May(r) =>
               \/ \E x \in A!FindPermissions(held) : Answers(x, r)
               \/ \E e \in A!Administrating : Reaches(e, r))'
      BY MayFoundAlways, PTL
    <3>6. \/ \E x \in A!FindPermissions(held)' : Answers(x, q)
          \/ \E e \in A!Administrating' : Reaches(e, q)'
      BY <1>3, <3>1, <3>3, <3>5
    <3> QED  BY <1>2, <1>5, <3>4, <3>6
  <2> QED  BY <2>2, <2>3
<1> QED  BY <1>4, <1>5

(* A change can only add to what was possible, and take from what always   *)
(* was.                                                                    *)
LEMMA ChangeKeeps == AccessInv /\ A!Change => AccessInv'
<1> SUFFICES ASSUME AccessInv, A!Change PROVE AccessInv'
  OBVIOUS
<1> USE DEF AccessInv
<1>1. /\ UNCHANGED <<sender, stage, found, allowed, shown>> /\ moves' = moves + 1 /\ moves < MaxMoves
      /\ Active /\ Active' /\ ever' = ever \cup A!MayNow' /\ always' = always \cap A!MayNow'
  BY DEF A!Change, Active
<1>2. A!MayNow' \subseteq A!Question
  BY DEF A!MayNow
<1>3. A!TypeOK'
  <2>1. held' \subseteq Perm /\ known' \in BOOLEAN
    BY DEF A!Change, A!TypeOK
  <2>2. listed' \subseteq Applications \X Perm
    BY AccessConstants DEF A!Change, A!TypeOK
  <2>3. moves' \in 0..MaxMoves
    BY <1>1, AccessConstants DEF A!TypeOK
  <2> QED  BY <1>1, <1>2, <2>1, <2>2, <2>3 DEF A!TypeOK
<1>4. HeldByKnown'
  BY DEF A!Change, HeldByKnown
<1>5. HistoryTrue'
  BY <1>1 DEF HistoryTrue
<1>6. FoundGranted'
  BY <1>1 DEF FoundGranted, Grants, Answers
<1>7. FoundAll'
  <2>1. moves' # 0 /\ (moves' < 2 => moves < 2)
    BY <1>1 DEF A!TypeOK
  <2>2. stage = "applications" /\ moves' < 2 =>
          \A q \in always' : \/ \E x \in found : Answers(x, q)
                             \/ \E p \in A!Administrating' : Reaches(p, q)'
    BY ChangeFinds
  <2>3. stage = "handler" /\ moves' < 2 => \A q \in always' : \E x \in found : Answers(x, q)
    BY <1>1, <2>1 DEF FoundAll
  <2> QED  BY <1>1, <2>1, <2>2, <2>3 DEF FoundAll, Answers
<1>8. A!NothingUnheld' /\ A!NothingWithheld'
  BY <1>1 DEF Active, A!NothingUnheld, A!NothingWithheld
<1> QED  BY <1>3, <1>4, <1>5, <1>6, <1>7, <1>8

(* Every step keeps what the lemmas above say it keeps. *)
LEMMA AccessStep == AccessInv /\ A!Next => AccessInv'
BY ValidateKeeps, FindOwnKeeps, FindOrganizationsKeeps, DecideKeeps, ChangeKeeps DEF A!Next

(* A step is one of the part that is followed, which stays the same. *)
LEMMA PartStep ==
    ASSUME [Next]_vars
    PROVE  /\ on' = on
           /\ on = "access" => A!Next \/ UNCHANGED vars
           /\ on = "groups" => G!Next \/ UNCHANGED vars
           /\ on = "tokens" => F!Next \/ UNCHANGED vars
           /\ on = "profiles" => P!Next \/ UNCHANGED vars
<1>1. CASE Next
  BY <1>1 DEF Next
<1>2. CASE UNCHANGED vars
  BY <1>2 DEF vars
<1> QED  BY <1>1, <1>2

(* In the composition the invariant holds while SigFox groups are followed.*)
LEMMA GroupsAlways == Spec => [](on = "groups" => GroupsInv)
<1> DEFINE Here == on = "groups" => GroupsInv
<1>1. Init => Here
  BY GroupsInit DEF Init
<1>2. Here /\ [Next]_vars => Here'
  <2> SUFFICES ASSUME on = "groups", GroupsInv, G!Next \/ UNCHANGED vars PROVE GroupsInv'
    BY PartStep
  <2>1. CASE UNCHANGED vars
    BY <2>1 DEF vars, GroupsInv, LoginsTried, G!TypeOK, G!LoginKept
  <2> QED  BY <2>1, GroupsStep
<1> QED  BY <1>1, <1>2, PTL DEF Spec

(* SigFox groups: for any number of requests and of calls that fail, a     *)
(* group has the login its last change gave it, except when that was never *)
(* saved or was saved over, and never one that SigFox does not accept      *)
(* (sigfox-group.service.ts).                                              *)
THEOREM LoginAlwaysKept == Spec => []LoginKept
<1>1. (on = "groups" => GroupsInv) => LoginKept
  BY DEF GroupsInv, LoginKept
<1> QED  BY <1>1, GroupsAlways, PTL

(* In the composition the invariant holds while FIWARE tokens are followed.*)
LEMMA TokensAlways == Spec => [](on = "tokens" => TokensInv)
<1> DEFINE Here == on = "tokens" => TokensInv
<1>1. Init => Here
  BY TokensInit DEF Init
<1>2. Here /\ [Next]_vars => Here'
  <2> SUFFICES ASSUME on = "tokens", TokensInv, F!Next \/ UNCHANGED vars PROVE TokensInv'
    BY PartStep
  <2>1. CASE UNCHANGED vars
    BY <2>1 DEF vars, TokensInv, TokensKnown, FailedGone, FaultsCounted, Under, Ended, Given, F!TypeOK
  <2> QED  BY <2>1, TokensStep
<1> QED  BY <1>1, <1>2, PTL DEF Spec

(* FIWARE: for any number of sends and of changes of the target, a retry   *)
(* never uses the token that failed, whoever fills the cache meanwhile,    *)
(* and one fault does not cost a message                                   *)
(* (fiware-data-target.service.ts, auth-token-cache).                      *)
THEOREM AlwaysAnotherToken == Spec => []RetryWithAnother
<1>1. (on = "tokens" => TokensInv) => RetryWithAnother
  BY TokensAsked DEF RetryWithAnother
<1> QED  BY <1>1, TokensAlways, PTL

(* In the composition the invariant holds while profiles are followed.     *)
LEMMA ProfilesAlways == Spec => [](on = "profiles" => ProfilesInv)
<1> DEFINE Here == on = "profiles" => ProfilesInv
<1>1. Init => Here
  BY ProfilesInit DEF Init
<1>2. Here /\ [Next]_vars => Here'
  <2> SUFFICES ASSUME on = "profiles", ProfilesInv, P!Next \/ UNCHANGED vars PROVE ProfilesInv'
    BY PartStep
  <2>1. CASE UNCHANGED vars
    BY <2>1 DEF vars, ProfilesInv, ProfilesAsked, NamesSeen, Wished, DevicesSeen, P!TypeOK, P!NameInUse,
       P!ProfilesWhole, P!Exists
  <2> QED  BY <2>1, ProfilesStep
<1> QED  BY <1>1, <1>2, PTL DEF Spec

(* Device profiles: for any number of requests, two profiles share a name  *)
(* only if both were written after looking at the same time, and only      *)
(* devices put during the deletion go with a profile                       *)
(* (device-profile.service.ts).                                            *)
THEOREM ProfilesAlwaysWhole == Spec => []ProfilesWhole
<1>1. (on = "profiles" => ProfilesInv) => ProfilesWhole
  BY DEF ProfilesInv, ProfilesWhole
<1> QED  BY <1>1, ProfilesAlways, PTL

(* In the composition the invariant holds while access is followed.        *)
LEMMA AccessAlways == Spec => [](on = "access" => AccessInv)
<1> DEFINE Here == on = "access" => AccessInv
<1>1. Init => Here
  BY AccessInit DEF Init
<1>2. Here /\ [Next]_vars => Here'
  <2> SUFFICES ASSUME on = "access", AccessInv, A!Next \/ UNCHANGED vars PROVE AccessInv'
    BY PartStep
  <2>1. CASE UNCHANGED vars
    <3>1. UNCHANGED <<sender, known, held, listed, stage, found, moves, ever, always, allowed, shown>>
      BY <2>1 DEF vars, accessVars
    <3>2. /\ A!MayNow' = A!MayNow /\ A!FindPermissions(held)' = A!FindPermissions(held)
          /\ A!Administrating' = A!Administrating /\ \A p, q : Reaches(p, q)' = Reaches(p, q)
      BY <3>1, SameSender
    <3>3. A!TypeOK' /\ HeldByKnown' /\ HistoryTrue'
      BY <3>1, <3>2 DEF AccessInv, A!TypeOK, HeldByKnown, HistoryTrue, Active
    <3>4. FoundGranted' /\ FoundAll'
      BY <3>1, <3>2 DEF AccessInv, FoundGranted, FoundAll, Active, Grants, Answers
    <3>5. A!NothingUnheld' /\ A!NothingWithheld'
      BY <3>1 DEF AccessInv, A!NothingUnheld, A!NothingWithheld
    <3> QED  BY <3>3, <3>4, <3>5 DEF AccessInv
  <2> QED  BY <2>1, AccessStep
<1> QED  BY <1>1, <1>2, PTL DEF Spec

(* Access: however often permissions are given, taken and changed while    *)
(* the request is read, and whatever rows its two queries mix, it is let   *)
(* to do, and shown, only what its sender might do at some time meanwhile  *)
(* (permission.service.ts, security-helper.ts, user-permissions.ts).       *)
THEOREM AlwaysHeld == Spec => []NothingUnheld
<1>1. (on = "access" => AccessInv) => NothingUnheld
  BY DEF AccessInv, NothingUnheld
<1> QED  BY <1>1, AccessAlways, PTL

(* Access: with at most one change while the request is read, it is let to *)
(* do, and shown, all that its sender might do all the time, but for the   *)
(* list of all the applications of one that administrates others'.         *)
THEOREM AlwaysAllowed == Spec => []NothingWithheld
<1>1. (on = "access" => AccessInv) => NothingWithheld
  BY DEF AccessInv, NothingWithheld
<1> QED  BY <1>1, AccessAlways, PTL
-----------------------------------------------------------------------------
(***************************************************************************)
(* SigFox devices, for any number of requests, rows, devices and failing   *)
(* calls: the clean-up deletes no row of a device that has been at SigFox, *)
(* a downlink is kept until it is answered with, once, and a device type   *)
(* has one callback.                                                       *)
(***************************************************************************)
WorkingOn(q) == q.stage \notin {"new", "done", "failed"}
InBackend == {"post", "find", "transfer", "callbacks", "postCallback", "activate", "save"}

(* What request r is for tells its stages, and what it has read.           *)
Formed(q, r) ==
    /\ q.stage = "new" => q = S!Fresh
    /\ WorkingOn(q) => q.id \in S!RowId /\ q.row \in S!Row /\ q.kind # "none"
    /\ WorkingOn(q) /\ q.kind = "create" => q.id = r /\ q.read = S!NoRow /\ q.row.downlink = None
    /\ WorkingOn(q) /\ q.kind # "create" => q.read \in S!Row
    /\ WorkingOn(q) /\ q.kind = "update" => q.row.downlink = q.read.downlink
    /\ WorkingOn(q) /\ q.kind \in {"create", "update"} => q.stage \in InBackend /\ q.type \in Type
    /\ WorkingOn(q) /\ q.kind = "downlink" => q.stage \in {"saveDownlink", "callbacks", "postCallback", "activate"}
    /\ WorkingOn(q) /\ q.kind = "uplink" => q.stage \in {"kafka", "clear"} /\ q.row = q.read
    /\ q.stage = "saveDownlink" => q.row.downlink = r /\ q.row.type = q.read.type
    /\ q.stage = "clear" => q.ack /\ q.read.downlink # None
    /\ q.kind \in {"downlink", "uplink"} => q.id \in S!RowId
    /\ WorkingOn(q) \/ q.read = S!NoRow
    /\ WorkingOn(q) \/ q.kind \in {"downlink", "uplink"} \/ q.id = None

Forms == \A r \in Request : Formed(sf[r], r)

(* A downlink that row x has had: the one it began with, or one saved.     *)
DownlinkOf(d, x) ==
    \/ d = OldRow /\ x = OldRow
    \/ d \in Request /\ sf[d].kind = "downlink" /\ sf[d].id = x /\ sf[d].stage \notin {"new", "saveDownlink"}

HasDownlinkOf(row, x) == row.downlink # None => DownlinkOf(row.downlink, x)

(* The row of a request that has not made it yet is nobody's.              *)
Unmade ==
    \A r \in Request :
        sf[r].stage = "new" \/ (sf[r].kind = "create" /\ WorkingOn(sf[r])) =>
            sigfoxRows[r] = S!NoRow /\ \A q \in Request \ {r} : sf[q].id # r

(* A downlink is its row's, and not there any more once it is answered.    *)
DownlinksKnown ==
    /\ \A x \in S!RowId : HasDownlinkOf(sigfoxRows[x], x)
    /\ \A r \in Request : HasDownlinkOf(sf[r].read, sf[r].id)
    /\ \A a \in answered : sf[a[2]].kind = "uplink" /\ sf[a[2]].stage = "done" /\ DownlinkOf(a[1], sf[a[2]].id)

AnsweredOnce ==
    /\ \A a \in answered : sf[a[2]].id \in overwritten \/ sigfoxRows[sf[a[2]].id].downlink # a[1]
    /\ \A a, b \in answered : a[1] = b[1] => a = b \/ sf[a[2]].id \in overwritten

Waits(r) ==
    LET x == sf[r].id IN
    \/ sigfoxRows[x].downlink = r \/ sigfoxRows[x] = S!NoRow
    \/ r \in replaced \/ x \in overwritten
    \/ \E q \in Request : <<r, q>> \in answered

Waiting ==
    \A r \in Request :
        sf[r].kind = "downlink" /\ sf[r].stage \in {"callbacks", "postCallback", "activate", "done"} => Waits(r)

(* A type of a row that was read while SigFox had accepted it, or is about *)
(* to be saved, has been seen to.                                          *)
SeenTo(t) == t \in downlinkOn /\ callbacks[t] > 0

SeenToBy(q) ==
    /\ q.id \notin unchecked /\ q.read # S!NoRow => SeenTo(q.read.type)
    /\ q.stage = "postCallback" /\ callbacks[q.row.type] > 0 => q.row.type \in twice
    /\ q.stage = "activate" => callbacks[q.row.type] > 0
    /\ q.stage = "save" /\ q.id \notin unchecked => SeenTo(q.row.type)

CallbacksKnown ==
    /\ \A t \in Type : callbacks[t] > 1 => t \in twice
    /\ \A x \in S!RowId \ unchecked : sigfoxRows[x] # S!NoRow => SeenTo(sigfoxRows[x].type)
    /\ \A r \in Request : SeenToBy(sf[r])

(* While the job runs, a row has the device it was listed with, or was     *)
(* saved late; one whose device SigFox did not list has been without it.   *)
CleanupKnown ==
    /\ S!Unbacked \subseteq missing
    /\ cleanup.stage = "idle" => cleanup.rows = {}
    /\ \A y \in cleanup.rows :
          y[1] \in late \/ sigfoxRows[y[1]] = S!NoRow \/ sigfoxRows[y[1]].device = y[2]
    /\ cleanup.stage = "delete" =>
         \A x \in S!RowId : sigfoxRows[x] # S!NoRow /\ sigfoxRows[x].device \notin cleanup.found
             => x \in missing \cup late
    /\ cleaned \subseteq late

SigFoxInv ==
    /\ S!TypeOK /\ Forms /\ Unmade /\ DownlinksKnown /\ AnsweredOnce /\ Waiting
    /\ CallbacksKnown /\ CleanupKnown
-----------------------------------------------------------------------------
(* What is known of the constants. *)
LEMMA SigFoxConstants ==
    /\ OldSigFoxDevice \in SigFoxDevice /\ OldRow \notin Request /\ OldType \in Type
    /\ None \notin Request /\ None \notin SigFoxDevice /\ None \notin Type /\ None # OldRow
    /\ None \notin S!RowId /\ Request \subseteq S!RowId /\ OldRow \in S!RowId
    /\ S!RowId = Request \cup {OldRow}
    /\ MaxFaults \in Nat /\ MaxCallbacks \in Nat /\ MaxCallbacks > 0
  BY AdministrationAssumption DEF S!SigFoxAssumption, S!RowId

(* The fields of no row, and of a row. *)
LEMMA NoRows ==
    /\ S!NoRow.device = None /\ S!NoRow.type = None /\ S!NoRow.downlink = None /\ S!NoRow \notin S!Row
    /\ \A w \in S!Row : /\ w.device \in SigFoxDevice /\ w.type \in Type
                        /\ w.downlink \in Request \cup {None, OldRow} /\ w # S!NoRow
  BY SigFoxConstants DEF S!NoRow, S!Row

(* A request that has not begun. *)
LEMMA FreshWish ==
    /\ S!Fresh \in S!Wish /\ S!Fresh.kind = "none" /\ S!Fresh.stage = "new" /\ S!Fresh.id = None
    /\ S!Fresh.read = S!NoRow /\ S!Fresh.row = S!NoRow
  BY DEF S!Fresh, S!Wish, S!Kind, S!Stage

(* A request that has begun, or has ended. *)
LEMMA AskedWish ==
    ASSUME NEW k \in S!Kind, NEW s \in S!Stage, NEW x \in S!RowId
    PROVE  /\ S!Ask(k, s, x) \in S!Wish
           /\ S!Ask(k, s, x).kind = k /\ S!Ask(k, s, x).stage = s /\ S!Ask(k, s, x).id = x
           /\ S!Ask(k, s, x).read = S!NoRow
<1> DEFINE f == S!Fresh
<1>1. f \in S!Wish /\ f.read = S!NoRow
  BY FreshWish
<1> HIDE DEF f
<1>2. S!Ask(k, s, x) = [f EXCEPT !.kind = k, !.stage = s, !.id = x]
  BY DEF f, S!Ask
<1> QED  BY <1>1, <1>2 DEF S!Wish

(* A request that ends keeps what it was for and its row, if it was for a  *)
(* downlink or an uplink.                                                  *)
EndedAs(q, p, s) ==
    /\ p \in S!Wish /\ p.stage = s /\ p.read = S!NoRow
    /\ q.kind \in {"downlink", "uplink"} => p.kind = q.kind /\ p.id = q.id
    /\ q.kind \notin {"downlink", "uplink"} => p.kind = "none" /\ p.id = None

(* What a request that ends leaves. *)
LEMMA EndWish ==
    ASSUME S!TypeOK, Forms, NEW r \in Request, NEW s \in {"done", "failed"}, S!End(r, s)
    PROVE  \E p : sf' = [sf EXCEPT ![r] = p] /\ EndedAs(sf[r], p, s) /\ Formed(p, r)
<1> DEFINE q == sf[r]
<1>1. q \in S!Wish /\ Formed(q, r) /\ s \in S!Stage
  BY DEF S!TypeOK, Forms, S!Stage
<1>2. CASE q.kind \in {"downlink", "uplink"}
  <2> DEFINE p == S!Ask(q.kind, s, q.id)
  <2>1. sf' = [sf EXCEPT ![r] = p]
    BY <1>2 DEF S!End
  <2>2. q.kind \in S!Kind /\ q.id \in S!RowId
    BY <1>1, <1>2 DEF Formed, S!Wish
  <2>3. p \in S!Wish /\ p.kind = q.kind /\ p.stage = s /\ p.id = q.id /\ p.read = S!NoRow
    BY <1>1, <2>2, AskedWish
  <2> HIDE DEF p
  <2> QED  BY <1>2, <2>1, <2>2, <2>3 DEF EndedAs, Formed, WorkingOn
<1>3. CASE q.kind \notin {"downlink", "uplink"}
  <2> DEFINE f == S!Fresh
             p == [f EXCEPT !.stage = s]
  <2>1. sf' = [sf EXCEPT ![r] = p]
    BY <1>3 DEF S!End
  <2>2. f \in S!Wish /\ f.kind = "none" /\ f.id = None /\ f.read = S!NoRow
    BY FreshWish
  <2> HIDE DEF f
  <2>3. p \in S!Wish /\ p.kind = "none" /\ p.stage = s /\ p.id = None /\ p.read = S!NoRow
    BY <1>1, <2>2 DEF S!Wish
  <2> HIDE DEF p
  <2> QED  BY <1>3, <2>1, <2>3 DEF EndedAs, Formed, WorkingOn
<1> QED  BY <1>2, <1>3

(* A request that goes on to another stage keeps all it has read. *)
GoesOn(q, p, s) ==
    /\ p \in S!Wish /\ p.stage = s /\ p.kind = q.kind /\ p.id = q.id /\ p.read = q.read
    /\ p.type = q.type /\ p.row = q.row

(* What a request that goes on has. *)
LEMMA GotoWish ==
    ASSUME S!TypeOK, NEW r \in Request, NEW s \in S!Stage, S!Goto(r, s)
    PROVE  \E p : sf' = [sf EXCEPT ![r] = p] /\ GoesOn(sf[r], p, s)
<1> DEFINE q == sf[r]
           p == [q EXCEPT !.stage = s]
<1>1. q \in S!Wish /\ sf' = [sf EXCEPT ![r] = p]
  BY DEF S!TypeOK, S!Goto
<1> HIDE DEF q
<1>2. p \in S!Wish
  BY <1>1 DEF S!Wish
<1>3. p.stage = s /\ p.kind = q.kind /\ p.id = q.id /\ p.read = q.read /\ p.type = q.type /\ p.row = q.row
  BY <1>1 DEF S!Wish
<1> HIDE DEF p
<1>4. GoesOn(q, p, s)
  BY <1>2, <1>3 DEF GoesOn
<1> QED  BY <1>1, <1>4 DEF q

-----------------------------------------------------------------------------
(* What a request has read, and its row, when it is given another stage or *)
(* has ended.                                                              *)
Same(q, p) == p.kind = q.kind /\ p.id = q.id /\ p.read = q.read
Onward(q, p) == (WorkingOn(p) /\ Same(q, p)) \/ \E s \in {"done", "failed"} : EndedAs(q, p, s)

(* Request r becomes p. *)
Becomes(r, p) == sf' = [sf EXCEPT ![r] = p] /\ p \in S!Wish /\ Formed(p, r)

(* The other requests keep what they have. *)
LEMMA FormsStay ==
    ASSUME S!TypeOK, Forms, NEW r \in Request, NEW p, Becomes(r, p)
    PROVE  /\ sf' \in [Request -> S!Wish] /\ Forms'
           /\ sf'[r] = p /\ \A q \in Request \ {r} : sf'[q] = sf[q]
  BY DEF S!TypeOK, Forms, Becomes

(* A call of a request leaves the rows and the downlinks alone. *)
LEMMA CallsKeepDownlinks ==
    ASSUME SigFoxInv, NEW r \in Request, NEW p, Becomes(r, p), WorkingOn(sf[r]), Onward(sf[r], p),
           p.stage # "saveDownlink",
           p.kind = "downlink" /\ p.stage # "failed" => sf[r].stage \in {"callbacks", "postCallback", "activate"},
           UNCHANGED <<sigfoxRows, answered, replaced>>, overwritten' = overwritten
    PROVE  Unmade' /\ DownlinksKnown' /\ AnsweredOnce' /\ Waiting'
<1>1. /\ sf'[r] = p /\ \A q \in Request \ {r} : sf'[q] = sf[q]
      /\ sf[r] \in S!Wish /\ Formed(sf[r], r)
  BY FormsStay DEF SigFoxInv, Forms, S!TypeOK
<1>2. p.id = sf[r].id \/ p.id = None
  BY <1>1 DEF Onward, Same, EndedAs
<1>3. \A q \in Request : sf'[q].id = sf[q].id \/ sf'[q].id = None
  BY <1>1, <1>2
<1>4. p.kind = "create" /\ WorkingOn(p) => sf[r].kind = "create"
  BY DEF Onward, Same, EndedAs, WorkingOn
<1>5. p.stage # "new"
  BY DEF Onward, Same, EndedAs, WorkingOn
<1>6. Unmade'
  BY <1>1, <1>3, <1>4, <1>5, SigFoxConstants DEF SigFoxInv, Unmade
<1>7. \A d, x : DownlinkOf(d, x) => DownlinkOf(d, x)'
  <2>1. DownlinkOf(r, sf[r].id) => p.kind = "downlink" /\ p.id = sf[r].id /\ p.stage \notin {"new", "saveDownlink"}
    BY <1>5, SigFoxConstants DEF DownlinkOf, Onward, Same, EndedAs
  <2> QED  BY <1>1, <2>1 DEF DownlinkOf
<1>8. p.read = S!NoRow \/ (p.read = sf[r].read /\ p.id = sf[r].id)
  BY DEF Onward, Same, EndedAs
<1>9. \A a \in answered : a[2] \in Request \ {r}
  BY DEF SigFoxInv, DownlinksKnown, WorkingOn, S!TypeOK
<1>10. DownlinksKnown'
  <2>1. \A q \in Request : HasDownlinkOf(sf[q].read, sf[q].id)'
    BY <1>1, <1>7, <1>8, NoRows DEF SigFoxInv, DownlinksKnown, HasDownlinkOf
  <2>2. \A x \in S!RowId : HasDownlinkOf(sigfoxRows[x], x)'
    BY <1>7 DEF SigFoxInv, DownlinksKnown, HasDownlinkOf
  <2> QED  BY <1>1, <1>7, <1>9, <2>1, <2>2 DEF SigFoxInv, DownlinksKnown
<1>11. AnsweredOnce'
  BY <1>1, <1>9 DEF SigFoxInv, AnsweredOnce
<1>12. Waiting'
  <2>1. p.kind = "downlink" /\ p.stage # "failed" => p.id = sf[r].id /\ sf[r].kind = "downlink"
    BY DEF Onward, Same, EndedAs
  <2>2. ASSUME NEW d \in Request, sf'[d].kind = "downlink", sf'[d].stage \in {"callbacks", "postCallback", "activate", "done"}
        PROVE  sf'[d].id = sf[d].id /\ Waits(d)
    BY <1>1, <2>1, <2>2 DEF SigFoxInv, Waiting
  <2> QED  BY <2>2 DEF Waiting, Waits
<1> QED  BY <1>6, <1>10, <1>11, <1>12

(* A request that begins reads a row that is there, or makes its own. *)
LEMMA BeginsKeepDownlinks ==
    ASSUME SigFoxInv, NEW r \in Request, NEW p, Becomes(r, p), sf[r] = S!Fresh, WorkingOn(p),
           p.kind # "create" => sigfoxRows[p.id] # S!NoRow /\ p.read = sigfoxRows[p.id],
           p.stage \notin {"callbacks", "postCallback", "activate"},
           UNCHANGED <<sigfoxRows, answered, replaced>>, overwritten' = overwritten
    PROVE  Unmade' /\ DownlinksKnown' /\ AnsweredOnce' /\ Waiting'
<1>1. /\ sf'[r] = p /\ \A q \in Request \ {r} : sf'[q] = sf[q]
      /\ sf[r].stage = "new" /\ sf[r].kind = "none" /\ Formed(p, r)
  BY FormsStay, FreshWish DEF SigFoxInv, Becomes
<1>2. p.kind = "create" => p.id = r /\ p.read = S!NoRow
  BY <1>1 DEF Formed
<1>3. \A q \in Request \ {r} : sigfoxRows[q] = S!NoRow => p.id # q
  BY <1>2
<1>6. Unmade'
  BY <1>1, <1>3 DEF SigFoxInv, Unmade, WorkingOn
<1>7. \A d, x : DownlinkOf(d, x) => DownlinkOf(d, x)'
  BY <1>1 DEF DownlinkOf
<1>9. \A a \in answered : a[2] \in Request \ {r}
  BY <1>1 DEF SigFoxInv, DownlinksKnown, S!TypeOK
<1>10. DownlinksKnown'
  <2>2. \A x \in S!RowId : HasDownlinkOf(sigfoxRows[x], x)'
    BY <1>7 DEF SigFoxInv, DownlinksKnown, HasDownlinkOf
  <2>3. HasDownlinkOf(p.read, p.id)'
    BY <1>1, <1>2, <2>2, NoRows DEF HasDownlinkOf, Formed
  <2>1. \A q \in Request : HasDownlinkOf(sf[q].read, sf[q].id)'
    BY <1>1, <1>7, <2>3 DEF SigFoxInv, DownlinksKnown, HasDownlinkOf
  <2> QED  BY <1>1, <1>7, <1>9, <2>1, <2>2 DEF SigFoxInv, DownlinksKnown
<1>11. AnsweredOnce'
  BY <1>1, <1>9 DEF SigFoxInv, AnsweredOnce
<1>12. Waiting'
  <2>2. ASSUME NEW d \in Request, sf'[d].kind = "downlink", sf'[d].stage \in {"callbacks", "postCallback", "activate", "done"}
        PROVE  sf'[d].id = sf[d].id /\ Waits(d)
    BY <1>1, <2>2 DEF SigFoxInv, Waiting, WorkingOn
  <2> QED  BY <2>2 DEF Waiting, Waits
<1> QED  BY <1>6, <1>10, <1>11, <1>12

(* Rows that are deleted lose no more than themselves. *)
LEMMA DeletedKeepDownlinks ==
    ASSUME SigFoxInv, \A x \in S!RowId : sigfoxRows'[x] \in {sigfoxRows[x], S!NoRow},
           \A q \in Request : sf'[q] = sf[q] \/ (sf'[q].kind = "none" /\ sf'[q].stage = "done" /\ sf[q] = S!Fresh
                                                /\ sf'[q].id = None /\ sf'[q].read = S!NoRow),
           UNCHANGED <<answered, replaced>>, overwritten' = overwritten
    PROVE  Unmade' /\ DownlinksKnown' /\ AnsweredOnce' /\ Waiting'
<1>1. \A q \in Request : sf'[q] = sf[q] \/ (sf[q].stage = "new" /\ sf[q].kind = "none")
  BY FreshWish
<1>6. Unmade'
  BY SigFoxConstants DEF SigFoxInv, Unmade, WorkingOn
<1>7. \A d, x : DownlinkOf(d, x) => DownlinkOf(d, x)'
  BY <1>1 DEF DownlinkOf
<1>9. \A a \in answered : a[2] \in Request /\ sf'[a[2]] = sf[a[2]] /\ sf[a[2]].id \in S!RowId
  <2>1. \A a \in answered : a[2] \in Request /\ sf'[a[2]] = sf[a[2]] /\ sf[a[2]].kind = "uplink"
    BY <1>1 DEF SigFoxInv, DownlinksKnown, S!TypeOK
  <2> QED  BY <2>1 DEF SigFoxInv, Forms, Formed
<1>10. DownlinksKnown'
  <2>1. \A q \in Request : HasDownlinkOf(sf[q].read, sf[q].id)'
    BY <1>1, <1>7, NoRows DEF SigFoxInv, DownlinksKnown, HasDownlinkOf
  <2>2. \A x \in S!RowId : HasDownlinkOf(sigfoxRows[x], x)'
    BY <1>7, NoRows DEF SigFoxInv, DownlinksKnown, HasDownlinkOf
  <2> QED  BY <1>1, <1>7, <1>9, <2>1, <2>2 DEF SigFoxInv, DownlinksKnown
<1>11. AnsweredOnce'
  <2>1. \A a \in answered : a[1] # None
    BY SigFoxConstants DEF SigFoxInv, S!TypeOK
  <2> QED  BY <1>9, <2>1, NoRows DEF SigFoxInv, AnsweredOnce
<1>12. Waiting'
  <2>2. ASSUME NEW d \in Request, sf'[d].kind = "downlink", sf'[d].stage \in {"callbacks", "postCallback", "activate", "done"}
        PROVE  sf'[d].id = sf[d].id /\ Waits(d) /\ sf[d].id \in S!RowId
    BY <2>2 DEF SigFoxInv, Waiting, Forms, Formed
  <2> QED  BY <2>2 DEF Waiting, Waits
<1> QED  BY <1>6, <1>10, <1>11, <1>12

(* A row that is written: with the downlink it was read with, with another *)
(* one, or without it, and then it is answered with.                       *)
Saves(r, p, row) ==
    /\ sf[r].kind \in {"create", "update"} /\ row.downlink = sf[r].row.downlink
    /\ EndedAs(sf[r], p, "done")
    /\ UNCHANGED <<answered, replaced>>

Downlinks(r, p, row) ==
    /\ sf[r].kind = "downlink" /\ sf[r].stage = "saveDownlink" /\ row.downlink = r
    /\ Same(sf[r], p) /\ p.stage = "callbacks"
    /\ replaced' = replaced \cup ({sigfoxRows[sf[r].id].downlink} \ {None}) /\ UNCHANGED answered

Replies(r, p, row) ==
    /\ sf[r].kind = "uplink" /\ row.downlink = None /\ sf[r].read.downlink # None
    /\ EndedAs(sf[r], p, "done")
    /\ answered' = answered \cup {<<sf[r].read.downlink, r>>} /\ UNCHANGED replaced

(* A downlink is of one row. *)
LEMMA OneRowOf ==
    ASSUME NEW d, NEW x, NEW y, DownlinkOf(d, x), DownlinkOf(d, y)
    PROVE  x = y
  BY SigFoxConstants DEF DownlinkOf

(* A write over what was not read is known; one over what was read keeps it. *)
LEMMA WritesKeepDownlinks ==
    ASSUME SigFoxInv, NEW r \in Request, NEW p, Becomes(r, p), WorkingOn(sf[r]), NEW row \in S!Row,
           S!Written(r, row), Saves(r, p, row) \/ Downlinks(r, p, row) \/ Replies(r, p, row)
    PROVE  Unmade' /\ DownlinksKnown' /\ AnsweredOnce' /\ Waiting'
<1>0. PICK x, read : x = sf[r].id /\ read = sf[r].read
  OBVIOUS
<1>1. /\ sf'[r] = p /\ \A q \in Request \ {r} : sf'[q] = sf[q]
      /\ sf[r] \in S!Wish /\ Formed(sf[r], r)
  BY FormsStay DEF SigFoxInv, Forms, S!TypeOK
<1>2. /\ x \in S!RowId
      /\ sf[r].kind = "create" => read = S!NoRow /\ x = r /\ sf[r].row.downlink = None
      /\ sf[r].kind # "create" => read \in S!Row
      /\ sf[r].kind = "update" => sf[r].row.downlink = read.downlink
  BY <1>0, <1>1 DEF Formed
<1>3. /\ sigfoxRows'[x] = row /\ \A y \in S!RowId \ {x} : sigfoxRows'[y] = sigfoxRows[y]
      /\ overwritten \subseteq overwritten'
      /\ x \in overwritten' \/ sigfoxRows[x] = read
      /\ sigfoxRows \in [S!RowId -> S!Row \cup {S!NoRow}]
  BY <1>0, <1>2 DEF S!Written, SigFoxInv, S!TypeOK
<1>4. /\ p.stage # "new" /\ p.stage # "saveDownlink"
      /\ p.kind = sf[r].kind \/ p.kind = "none"
      /\ p.id = x \/ p.id = None
      /\ p.read = S!NoRow \/ (p.read = read /\ p.id = x)
      /\ p.kind = "create" => ~WorkingOn(p)
      /\ sf[r].kind \in {"downlink", "uplink"} => p.kind = sf[r].kind /\ p.id = x
  BY <1>0 DEF Saves, Downlinks, Replies, EndedAs, Same, WorkingOn
<1>5. /\ HasDownlinkOf(read, x)
      /\ answered \subseteq answered' /\ replaced \subseteq replaced'
      /\ answered \subseteq (Request \cup {OldRow}) \X Request
      /\ \A y \in S!RowId : sigfoxRows[y].downlink \in Request \cup {None, OldRow}
  BY <1>0, <1>3, NoRows DEF SigFoxInv, DownlinksKnown, Saves, Downlinks, Replies, S!TypeOK
<1>6. Unmade'
  <2> SUFFICES ASSUME NEW q \in Request, sf'[q].stage = "new" \/ (sf'[q].kind = "create" /\ WorkingOn(sf'[q]))
               PROVE  sigfoxRows'[q] = S!NoRow /\ \A s \in Request \ {q} : sf'[s].id # q
    BY DEF Unmade, WorkingOn
  <2>1. q # r /\ sf'[q] = sf[q]
    BY <1>1, <1>4
  <2>2. sigfoxRows[q] = S!NoRow /\ \A s \in Request \ {q} : sf[s].id # q
    BY <2>1 DEF SigFoxInv, Unmade
  <2>3. x # q /\ p.id # q
    BY <1>0, <1>4, <2>1, <2>2, SigFoxConstants
  <2> QED  BY <1>1, <1>3, <2>1, <2>2, <2>3, SigFoxConstants
<1>7. \A d, y : DownlinkOf(d, y) => DownlinkOf(d, y)'
  <2>1. \A y : DownlinkOf(r, y) => DownlinkOf(r, y)'
    BY <1>0, <1>1, <1>4, SigFoxConstants DEF DownlinkOf
  <2> QED  BY <1>1, <2>1 DEF DownlinkOf
<1>8. HasDownlinkOf(row, x)'
  <2>1. CASE Saves(r, p, row)
    BY <1>2, <1>5, <1>7, <2>1 DEF Saves, HasDownlinkOf
  <2>2. CASE Downlinks(r, p, row)
    <3>1. DownlinkOf(r, x)'
      BY <1>1, <1>4, <2>2 DEF Downlinks, DownlinkOf
    <3> QED  BY <2>2, <3>1 DEF HasDownlinkOf, Downlinks
  <2>3. CASE Replies(r, p, row)
    BY <2>3 DEF Replies, HasDownlinkOf
  <2> QED  BY <2>1, <2>2, <2>3
<1>9. /\ \A a \in answered : a[2] \in Request \ {r} /\ sf'[a[2]] = sf[a[2]] /\ DownlinkOf(a[1], sf[a[2]].id)
                             /\ sf[a[2]].kind = "uplink" /\ sf[a[2]].stage = "done"
      /\ \A a \in answered : sf[a[2]].id \in S!RowId /\ a[1] # None
  <2>1. \A a \in answered : a[2] \in Request \ {r} /\ sf[a[2]].kind = "uplink" /\ sf[a[2]].stage = "done"
    BY <1>5 DEF SigFoxInv, DownlinksKnown, WorkingOn
  <2>2. \A a \in answered : sf[a[2]].id \in S!RowId /\ DownlinkOf(a[1], sf[a[2]].id)
    BY <2>1 DEF SigFoxInv, Forms, Formed, DownlinksKnown
  <2>3. \A a \in answered : a[1] # None
    BY <1>5, SigFoxConstants
  <2> QED  BY <1>1, <2>1, <2>2, <2>3
<1>10. \A a \in answered' \ answered :
          /\ Replies(r, p, row) /\ a = <<read.downlink, r>> /\ p.stage = "done"
          /\ p.kind = "uplink" /\ p.id = x /\ DownlinkOf(a[1], x)
  BY <1>0, <1>4, <1>5 DEF Saves, Downlinks, Replies, EndedAs, HasDownlinkOf
<1>11. DownlinksKnown'
  <2>1. \A q \in Request : HasDownlinkOf(sf[q].read, sf[q].id)'
    <3>1. HasDownlinkOf(p.read, p.id)'
      BY <1>4, <1>5, <1>7, NoRows DEF HasDownlinkOf
    <3>2. \A q \in Request \ {r} : HasDownlinkOf(sf[q].read, sf[q].id)
      BY DEF SigFoxInv, DownlinksKnown
    <3> QED  BY <1>1, <1>7, <3>1, <3>2 DEF HasDownlinkOf
  <2>2. \A y \in S!RowId : HasDownlinkOf(sigfoxRows[y], y)'
    BY <1>2, <1>3, <1>7, <1>8 DEF SigFoxInv, DownlinksKnown, HasDownlinkOf
  <2>3. \A a \in answered' : sf'[a[2]].kind = "uplink" /\ sf'[a[2]].stage = "done" /\ DownlinkOf(a[1], sf'[a[2]].id)
    BY <1>1, <1>9, <1>10
  <2>4. \A a \in answered' : DownlinkOf(a[1], sf[a[2]].id)'
    BY <1>7, <2>3
  <2> QED  BY <2>1, <2>2, <2>3, <2>4 DEF DownlinksKnown
<1>12. ASSUME NEW a \in answered'
       PROVE  sf'[a[2]].id \in overwritten' \/ sigfoxRows'[sf'[a[2]].id].downlink # a[1]
  <2>1. CASE a \in answered /\ sf[a[2]].id # x
    BY <1>3, <1>9, <2>1 DEF SigFoxInv, AnsweredOnce
  <2>2. CASE a \in answered /\ sf[a[2]].id = x
    <3>1. x \in overwritten' \/ read.downlink # a[1]
      BY <1>3, <2>2 DEF SigFoxInv, AnsweredOnce
    <3>2. CASE Saves(r, p, row)
      BY <1>2, <1>3, <1>9, <2>2, <3>1, <3>2 DEF Saves
    <3>3. CASE Downlinks(r, p, row)
      <4>1. a[1] # r
        BY <1>9, <2>2, <3>3, SigFoxConstants DEF Downlinks, DownlinkOf
      <4> QED  BY <1>3, <1>9, <2>2, <3>3, <4>1 DEF Downlinks
    <3>4. CASE Replies(r, p, row)
      BY <1>3, <1>9, <2>2, <3>4 DEF Replies
    <3> QED  BY <3>2, <3>3, <3>4
  <2>3. CASE a \in answered' \ answered
    BY <1>0, <1>1, <1>3, <1>10, <2>3 DEF Replies
  <2> QED  BY <2>1, <2>2, <2>3
<1>13. ASSUME NEW a \in answered', NEW b \in answered', a[1] = b[1]
       PROVE  a = b \/ sf'[a[2]].id \in overwritten'
  <2>1. CASE a \in answered /\ b \in answered
    BY <1>3, <1>9, <1>13, <2>1 DEF SigFoxInv, AnsweredOnce
  <2>2. CASE a \notin answered /\ b \notin answered
    BY <1>10, <2>2
  <2>3. ASSUME NEW c \in answered, NEW d \in answered' \ answered, c[1] = d[1]
        PROVE  x \in overwritten' /\ sf'[c[2]].id = x /\ sf'[d[2]].id = x
    <3>1. sf[c[2]].id = x /\ sf'[c[2]].id = x /\ sf'[d[2]].id = x
      BY <1>1, <1>9, <1>10, <2>3, OneRowOf
    <3>2. x \in overwritten \/ sigfoxRows[x].downlink # read.downlink
      BY <1>10, <2>3, <3>1 DEF SigFoxInv, AnsweredOnce
    <3> QED  BY <1>3, <3>1, <3>2
  <2> QED  BY <1>13, <2>1, <2>2, <2>3
<1>14. Waiting'
  <2> SUFFICES ASSUME NEW d \in Request, sf'[d].kind = "downlink",
                      sf'[d].stage \in {"callbacks", "postCallback", "activate", "done"}
               PROVE  Waits(d)'
    BY DEF Waiting
  <2>1. CASE d = r
    <3>1. Downlinks(r, p, row) /\ sf'[d].id = x
      BY <1>1, <1>4, <2>1 DEF Saves, Replies, EndedAs
    <3> QED  BY <1>3, <2>1, <3>1 DEF Waits, Downlinks
  <2>2. CASE d # r
    <3>1. sf'[d] = sf[d] /\ Waits(d) /\ sf[d].id \in S!RowId
      BY <1>1, <2>2 DEF SigFoxInv, Waiting, Forms, Formed
    <3>2. CASE sf[d].id # x
      BY <1>3, <1>5, <3>1, <3>2 DEF Waits
    <3>3. CASE sf[d].id = x /\ x \notin overwritten'
      <4>1. sigfoxRows[x] = read /\ x \notin overwritten
        BY <1>3, <3>3
      <4>2. CASE d \in replaced \/ \E q \in Request : <<d, q>> \in answered
        BY <1>5, <3>1, <4>2 DEF Waits
      <4>3. CASE sigfoxRows[x].downlink = d
        <5>1. CASE Saves(r, p, row)
          <6>1. sf[r].kind = "update"
            BY <1>2, <4>1, <4>3, <5>1, NoRows, SigFoxConstants DEF Saves
          <6> QED  BY <1>2, <1>3, <3>1, <3>3, <4>1, <4>3, <5>1, <6>1 DEF Saves, Waits
        <5>2. CASE Downlinks(r, p, row)
          <6>1. d \in replaced'
            BY <1>0, <4>3, <5>2, SigFoxConstants DEF Downlinks
          <6> QED  BY <6>1 DEF Waits
        <5>3. CASE Replies(r, p, row)
          <6>1. <<d, r>> \in answered'
            BY <1>0, <4>1, <4>3, <5>3 DEF Replies
          <6> QED  BY <6>1 DEF Waits
        <5> QED  BY <5>1, <5>2, <5>3
      <4>4. CASE sigfoxRows[x] = S!NoRow
        <5>1. sf[r].kind = "create" /\ x = r
          BY <1>2, <4>1, <4>4, NoRows
        <5>2. sf[d].id # r
          BY <2>2, <5>1 DEF SigFoxInv, Unmade
        <5> QED  BY <3>3, <5>1, <5>2
      <4> QED  BY <3>1, <3>3, <4>1, <4>2, <4>3, <4>4 DEF Waits
    <3>4. CASE x \in overwritten' /\ sf[d].id = x
      BY <3>1, <3>4 DEF Waits
    <3> QED  BY <3>2, <3>3, <3>4
  <2> QED  BY <2>1, <2>2
<1>15. AnsweredOnce'
  BY <1>12, <1>13 DEF AnsweredOnce
<1> QED  BY <1>6, <1>11, <1>14, <1>15

-----------------------------------------------------------------------------
(* What the types have, callbacks and downlinks, is never taken away.      *)
LEMMA CallbacksStay ==
    ASSUME SigFoxInv, NEW r \in Request, NEW p, Becomes(r, p),
           unchecked \subseteq unchecked', downlinkOn \subseteq downlinkOn', twice \subseteq twice',
           callbacks' \in [Type -> Nat], \A t \in Type : callbacks'[t] >= callbacks[t],
           \A t \in Type : callbacks'[t] > 1 => t \in twice',
           \A q \in Request \ {r} : \A t \in Type :
               sf[q].stage = "postCallback" /\ sf[q].row.type = t /\ callbacks'[t] # callbacks[t] => t \in twice',
           \A x \in S!RowId \ unchecked' : \/ sigfoxRows'[x] \in {sigfoxRows[x], S!NoRow}
                                           \/ sigfoxRows'[x].type \in downlinkOn' /\ callbacks'[sigfoxRows'[x].type] > 0,
           SeenToBy(p)'
    PROVE  CallbacksKnown'
<1>1. /\ sf'[r] = p /\ \A q \in Request \ {r} : sf'[q] = sf[q]
      /\ \A q \in Request : sf[q] \in S!Wish /\ Formed(sf[q], q)
  BY FormsStay DEF SigFoxInv, Forms, S!TypeOK
<1>2. /\ callbacks \in [Type -> Nat] /\ downlinkOn \subseteq Type
      /\ sigfoxRows \in [S!RowId -> S!Row \cup {S!NoRow}]
  BY SigFoxConstants DEF SigFoxInv, S!TypeOK
<1>3. \A t \in Type : SeenTo(t) => SeenTo(t)'
  BY <1>2 DEF SeenTo
<1>4. \A x \in S!RowId \ unchecked' : sigfoxRows'[x] # S!NoRow => SeenTo(sigfoxRows[x].type)'
  <2>1. \A x \in S!RowId \ unchecked' : sigfoxRows[x] # S!NoRow =>
          sigfoxRows[x].type \in downlinkOn' /\ callbacks'[sigfoxRows[x].type] > 0
    BY <1>2, <1>3, NoRows DEF SigFoxInv, CallbacksKnown, SeenTo
  <2> QED  BY <2>1 DEF SeenTo
<1>5. ASSUME NEW q \in Request \ {r} PROVE SeenToBy(sf[q])'
  <2>1. sf'[q] = sf[q] /\ SeenToBy(sf[q])
    BY <1>1 DEF SigFoxInv, CallbacksKnown
  <2>2. PICK w : w = sf[q]
    OBVIOUS
  <2>3. SeenToBy(w) /\ w \in S!Wish /\ Formed(w, q)
    BY <1>1, <2>1, <2>2
  <2>4. w.read # S!NoRow => w.read.type \in Type
    BY <2>3, NoRows DEF S!Wish
  <2>5. w.stage \in {"postCallback", "activate", "save"} => w.row.type \in Type
    BY <2>3, NoRows DEF Formed, WorkingOn
  <2>6. w.stage = "postCallback" /\ callbacks'[w.row.type] # callbacks[w.row.type] => w.row.type \in twice'
    BY <2>2, <2>5
  <2>7. SeenToBy(w)'
    <3>1. w.id \notin unchecked' /\ w.read # S!NoRow => SeenTo(w.read.type)'
      BY <1>3, <2>3, <2>4 DEF SeenToBy
    <3>2. w.stage = "postCallback" /\ callbacks'[w.row.type] > 0 => w.row.type \in twice'
      BY <2>3, <2>5, <2>6 DEF SeenToBy
    <3>3. w.stage = "activate" => callbacks'[w.row.type] > 0
      BY <1>2, <2>3, <2>5 DEF SeenToBy
    <3>4. w.stage = "save" /\ w.id \notin unchecked' => SeenTo(w.row.type)'
      BY <1>3, <2>3, <2>5 DEF SeenToBy
    <3> QED  BY <3>1, <3>2, <3>3, <3>4 DEF SeenToBy
  <2>8. sf'[q] = w
    BY <2>1, <2>2
  <2> QED  BY <2>7, <2>8 DEF SeenToBy, SeenTo
<1>6. SeenToBy(sf[r])'
  BY <1>1 DEF SeenToBy, SeenTo
<1> QED  BY <1>4, <1>5, <1>6 DEF CallbacksKnown

(* Whatever changes at SigFox: the rows of devices it does not have are    *)
(* missing, and a row gets another device late.                            *)
LEMMA CleanupStays ==
    ASSUME SigFoxInv, missing' = missing \cup S!Unbacked', late \subseteq late', UNCHANGED <<cleaned, cleanup>>,
           \A x \in S!RowId : \/ sigfoxRows'[x] = S!NoRow \/ x \in late' \/ cleanup.stage = "idle"
                             \/ (sigfoxRows[x] # S!NoRow /\ sigfoxRows'[x].device = sigfoxRows[x].device)
    PROVE  CleanupKnown'
<1>1. \A y \in cleanup.rows : y[1] \in S!RowId
  BY DEF SigFoxInv, S!TypeOK, S!Job
<1>2. \A y \in cleanup.rows :
        y[1] \in late' \/ sigfoxRows'[y[1]] = S!NoRow \/ sigfoxRows'[y[1]].device = y[2]
  BY <1>1 DEF SigFoxInv, CleanupKnown
<1>3. cleanup.stage = "delete" =>
        \A x \in S!RowId : sigfoxRows'[x] # S!NoRow /\ sigfoxRows'[x].device \notin cleanup.found
            => x \in missing' \cup late'
  BY DEF SigFoxInv, CleanupKnown
<1> QED  BY <1>2, <1>3 DEF SigFoxInv, CleanupKnown

(* A row that is written while the job runs has its device, or is late.    *)
LEMMA WritesKeepCleanup ==
    ASSUME SigFoxInv, NEW r \in Request, sf[r].id \in S!RowId, NEW row \in S!Row, S!Written(r, row),
           missing' = missing \cup S!Unbacked', UNCHANGED <<cleaned, cleanup>>
    PROVE  CleanupKnown'
<1> DEFINE x == sf[r].id
<1>1. /\ sigfoxRows'[x] = row /\ \A y \in S!RowId \ {x} : sigfoxRows'[y] = sigfoxRows[y]
      /\ late \subseteq late'
      /\ cleanup.stage # "idle" /\ row.device # sigfoxRows[x].device => x \in late'
  BY DEF S!Written, SigFoxInv, S!TypeOK
<1>2. sigfoxRows[x] = S!NoRow => row.device # sigfoxRows[x].device
  BY NoRows, SigFoxConstants
<1>3. \A y \in S!RowId : \/ sigfoxRows'[y] = S!NoRow \/ y \in late' \/ cleanup.stage = "idle"
                        \/ (sigfoxRows[y] # S!NoRow /\ sigfoxRows'[y].device = sigfoxRows[y].device)
  BY <1>1, <1>2
<1> QED  BY <1>1, <1>3, CleanupStays

-----------------------------------------------------------------------------
(* A request that goes on to a call of its kind is formed. *)
LEMMA GoesOnFormed ==
    ASSUME S!TypeOK, Forms, NEW r \in Request, WorkingOn(sf[r]), sf[r].kind # "uplink",
           NEW s \in {"callbacks", "postCallback", "activate", "save"},
           sf[r].kind = "downlink" => s # "save",
           S!Goto(r, s)
    PROVE  \E p : Becomes(r, p) /\ GoesOn(sf[r], p, s) /\ Onward(sf[r], p) /\ p.row.type \in Type
<1>1. PICK p : sf' = [sf EXCEPT ![r] = p] /\ GoesOn(sf[r], p, s)
  BY GotoWish DEF S!Stage
<1>2. PICK q : q = sf[r]
  OBVIOUS
<1>3. Formed(q, r) /\ WorkingOn(q) /\ q.kind # "uplink" /\ GoesOn(q, p, s) /\ q \in S!Wish
  BY <1>1, <1>2 DEF Forms, S!TypeOK
<1>4. Formed(p, r)
  <2>1. /\ p.stage = s /\ p.kind = q.kind /\ p.id = q.id /\ p.read = q.read /\ p.type = q.type /\ p.row = q.row
        /\ WorkingOn(p) /\ p.stage \in InBackend /\ p.stage \notin {"saveDownlink", "clear", "new"}
        /\ p.kind = "downlink" => p.stage \in {"saveDownlink", "callbacks", "postCallback", "activate"}
    BY <1>2, <1>3 DEF GoesOn, WorkingOn, InBackend
  <2> HIDE DEF InBackend, WorkingOn
  <2> QED  BY <1>3, <2>1 DEF Formed
<1>5. Onward(q, p) /\ p \in S!Wish
  BY <1>3 DEF GoesOn, Onward, Same, WorkingOn
<1>6. p.row.type \in Type
  BY <1>3, NoRows DEF Formed, GoesOn
<1> QED  BY <1>1, <1>2, <1>3, <1>4, <1>5, <1>6 DEF Becomes

(* A call of a request that touches no row. *)
Calls(r, p) ==
    /\ Becomes(r, p) /\ WorkingOn(sf[r]) /\ Onward(sf[r], p) /\ p.stage # "saveDownlink"
    /\ p.kind = "downlink" /\ p.stage # "failed" => sf[r].stage \in {"callbacks", "postCallback", "activate"}
    /\ UNCHANGED <<sigfoxRows, answered, replaced, late, cleaned, cleanup>>
    /\ overwritten' = overwritten /\ missing' = missing \cup S!Unbacked'

(* A call that touches no row. *)
LEMMA CallsStay ==
    ASSUME SigFoxInv, NEW r \in Request, NEW p, Calls(r, p),
           backend' \in [SigFoxDevice -> Type \cup {None}], callbacks' \in [Type -> 0..MaxCallbacks],
           downlinkOn' \subseteq Type, twice' \subseteq Type, unchecked' \subseteq S!RowId, faults' \in 0..MaxFaults,
           CallbacksKnown'
    PROVE  SigFoxInv'
<1>1. Unmade' /\ DownlinksKnown' /\ AnsweredOnce' /\ Waiting'
  BY CallsKeepDownlinks DEF Calls
<1>2. CleanupKnown'
  <2>1. \A x \in S!RowId : \/ sigfoxRows'[x] = S!NoRow \/ x \in late' \/ cleanup.stage = "idle"
                           \/ (sigfoxRows[x] # S!NoRow /\ sigfoxRows'[x].device = sigfoxRows[x].device)
    BY DEF Calls
  <2> QED  BY <2>1, CleanupStays DEF Calls
<1>3. sf' \in [Request -> S!Wish] /\ Forms'
  BY FormsStay DEF SigFoxInv, Calls
<1>4. S!TypeOK'
  <2>1. missing' \subseteq S!RowId
    BY DEF SigFoxInv, Calls, S!Unbacked, S!TypeOK
  <2> QED  BY <1>3, <2>1 DEF SigFoxInv, Calls, S!TypeOK
<1> QED  BY <1>1, <1>2, <1>3, <1>4 DEF SigFoxInv

(* What has been seen to stays so, and a request that has ended reads no   *)
(* row.                                                                    *)
LEMMA CallSeenTo ==
    ASSUME SigFoxInv, NEW r \in Request, NEW p, Becomes(r, p), Onward(sf[r], p), p.stage \notin {"postCallback", "activate"},
           unchecked \subseteq unchecked', downlinkOn \subseteq downlinkOn',
           callbacks' \in [Type -> Nat], \A t \in Type : callbacks'[t] >= callbacks[t],
           p.stage = "save" /\ p.id \notin unchecked' => SeenTo(p.row.type)'
    PROVE  SeenToBy(p)'
<1>1. PICK q : q = sf[r]
  OBVIOUS
<1>2. SeenToBy(q) /\ Onward(q, p) /\ q \in S!Wish /\ callbacks \in [Type -> Nat]
  BY <1>1, SigFoxConstants DEF SigFoxInv, CallbacksKnown, S!TypeOK
<1>3. p.id \notin unchecked' /\ p.read # S!NoRow => SeenTo(p.read.type)'
  <2>1. p.read # S!NoRow => p.id = q.id /\ p.read = q.read /\ q.read.type \in Type
    BY <1>2, NoRows DEF Onward, Same, EndedAs, S!Wish
  <2> QED  BY <1>2, <2>1 DEF SeenToBy, SeenTo
<1> QED  BY <1>3 DEF SeenToBy

(* A call that is refused, or fails: an update saves all the same. *)
LEMMA RefusedCall ==
    ASSUME SigFoxInv, NEW r \in Request, WorkingOn(sf[r]), S!Refused(r), S!Unaccepted(r)
    PROVE  /\ \E p : /\ Becomes(r, p) /\ Onward(sf[r], p) /\ p.stage \in {"save", "failed"}
                     /\ p.kind = "downlink" => p.stage = "failed"
                     /\ p.stage = "save" => p.id \in unchecked'
           /\ unchecked \subseteq unchecked' /\ unchecked' \subseteq S!RowId
<1>1. S!TypeOK /\ Forms /\ Formed(sf[r], r)
  BY DEF SigFoxInv, Forms
<1>2. unchecked \subseteq unchecked' /\ unchecked' \subseteq S!RowId /\ (sf[r].kind = "update" => sf[r].id \in unchecked')
  BY <1>1 DEF S!Unaccepted, S!TypeOK, Formed
<1>3. CASE sf[r].kind = "update" /\ sf[r].stage # "save"
  <2>1. S!Goto(r, "save")
    BY <1>3 DEF S!Refused, S!At
  <2>2. PICK p : Becomes(r, p) /\ GoesOn(sf[r], p, "save") /\ Onward(sf[r], p)
    BY <1>1, <1>3, <2>1, GoesOnFormed
  <2> QED  BY <1>2, <1>3, <2>2 DEF GoesOn
<1>4. CASE ~(sf[r].kind = "update" /\ sf[r].stage # "save")
  <2>1. S!End(r, "failed")
    BY <1>4 DEF S!Refused, S!At
  <2>2. PICK p : sf' = [sf EXCEPT ![r] = p] /\ EndedAs(sf[r], p, "failed") /\ Formed(p, r)
    BY <1>1, <2>1, EndWish
  <2> QED  BY <1>2, <2>2 DEF Becomes, Onward, EndedAs
<1> QED  BY <1>3, <1>4

(* Calls that add no callback of a request that was refused, or goes on to *)
(* its callbacks.                                                          *)
LEMMA AskingCalls ==
    ASSUME SigFoxInv, NEW r \in Request, NEW p, Calls(r, p),
           p.stage \notin {"postCallback", "activate"}, p.stage = "save" => p.id \in unchecked',
           backend' \in [SigFoxDevice -> Type \cup {None}], UNCHANGED <<callbacks, downlinkOn, twice>>,
           unchecked \subseteq unchecked', unchecked' \subseteq S!RowId, faults' \in 0..MaxFaults
    PROVE  SigFoxInv'
<1>1. callbacks \in [Type -> Nat] /\ callbacks' \in [Type -> 0..MaxCallbacks]
  BY SigFoxConstants DEF SigFoxInv, S!TypeOK
<1>2. SeenToBy(p)'
  BY <1>1, CallSeenTo DEF Calls
<1>3. CallbacksKnown'
  BY <1>1, <1>2, CallbacksStay DEF Calls, SigFoxInv, CallbacksKnown
<1>4. downlinkOn' \subseteq Type /\ twice' \subseteq Type
  BY DEF SigFoxInv, S!TypeOK
<1> QED  BY <1>1, <1>3, <1>4, CallsStay

(* A call that is refused leaves at most an update to save. *)
LEMMA RefusedStays ==
    ASSUME SigFoxInv, NEW r \in Request, WorkingOn(sf[r]), S!Refused(r), S!Unaccepted(r),
           backend' \in [SigFoxDevice -> Type \cup {None}], UNCHANGED <<callbacks, downlinkOn, twice>>,
           UNCHANGED <<sigfoxRows, answered, replaced, overwritten, late, cleaned, cleanup>>,
           missing' = missing \cup S!Unbacked', faults' \in 0..MaxFaults
    PROVE  SigFoxInv'
<1>1. /\ unchecked \subseteq unchecked' /\ unchecked' \subseteq S!RowId
      /\ \E p : /\ Becomes(r, p) /\ Onward(sf[r], p) /\ p.stage \in {"save", "failed"}
                /\ p.kind = "downlink" => p.stage = "failed"
                /\ p.stage = "save" => p.id \in unchecked'
  BY RefusedCall
<1>2. PICK p : /\ Becomes(r, p) /\ Onward(sf[r], p) /\ p.stage \in {"save", "failed"}
               /\ p.kind = "downlink" => p.stage = "failed"
               /\ p.stage = "save" => p.id \in unchecked'
  BY <1>1
<1>3. Calls(r, p)
  BY <1>2 DEF Calls
<1> QED  BY <1>1, <1>2, <1>3, AskingCalls

(* createInSigfoxBackend, createOrUpdateSigFoxDevice and                   *)
(* changeDeviceTypeIfNeeded, of a device that is new or not.               *)
LEMMA DevicePosted ==
    ASSUME SigFoxInv, NEW r \in Request, S!PostDevice(r), missing' = missing \cup S!Unbacked'
    PROVE  SigFoxInv'
<1>1. S!TypeOK /\ Forms /\ Formed(sf[r], r) /\ WorkingOn(sf[r]) /\ sf[r].stage = "post"
  BY DEF SigFoxInv, Forms, S!PostDevice, S!At, WorkingOn
<1>2. sf[r].row \in S!Row /\ sf[r].kind \notin {"uplink", "downlink"}
  BY <1>1 DEF Formed
<1>3. CASE backend[sf[r].row.device] = None
  <2>1. S!Goto(r, "callbacks") /\ backend' = [backend EXCEPT ![sf[r].row.device] = sf[r].row.type] /\ UNCHANGED unchecked
    BY <1>3 DEF S!PostDevice
  <2>2. PICK p : Becomes(r, p) /\ GoesOn(sf[r], p, "callbacks") /\ Onward(sf[r], p)
    BY <1>1, <1>2, <2>1, GoesOnFormed
  <2>3. Calls(r, p) /\ p.stage = "callbacks"
    BY <1>1, <1>2, <2>2 DEF Calls, GoesOn, S!PostDevice
  <2>4. backend' \in [SigFoxDevice -> Type \cup {None}]
    BY <1>1, <1>2, <2>1, NoRows DEF S!TypeOK
  <2>5. unchecked' \subseteq S!RowId /\ faults' \in 0..MaxFaults /\ UNCHANGED <<callbacks, downlinkOn, twice>>
    BY <1>1, <2>1 DEF S!TypeOK, S!PostDevice
  <2> QED  BY <2>1, <2>3, <2>4, <2>5, AskingCalls
<1>4. CASE backend[sf[r].row.device] # None
  BY <1>1, <1>4, RefusedStays DEF S!PostDevice, S!TypeOK
<1> QED  BY <1>3, <1>4

(* A device that is there gets the type the request asked for. *)
LEMMA DeviceTransferred ==
    ASSUME SigFoxInv, NEW r \in Request, S!TransferDevice(r), missing' = missing \cup S!Unbacked'
    PROVE  SigFoxInv'
<1>1. S!TypeOK /\ Forms /\ Formed(sf[r], r) /\ WorkingOn(sf[r]) /\ sf[r].stage = "transfer"
  BY DEF SigFoxInv, Forms, S!TransferDevice, S!At, WorkingOn
<1>2. sf[r].kind \in {"create", "update"} /\ sf[r].type \in Type
  <2>1. sf[r].kind \in S!Kind
    BY <1>1 DEF S!TypeOK, S!Wish
  <2> QED  BY <1>1, <2>1 DEF Formed, S!Kind
<1>3. CASE backend[sf[r].row.device] # None
  <2>1. S!Goto(r, "callbacks") /\ backend' = [backend EXCEPT ![sf[r].row.device] = sf[r].type] /\ UNCHANGED unchecked
    BY <1>3 DEF S!TransferDevice
  <2>2. PICK p : Becomes(r, p) /\ GoesOn(sf[r], p, "callbacks") /\ Onward(sf[r], p)
    BY <1>1, <1>2, <2>1, GoesOnFormed
  <2>3. Calls(r, p) /\ p.stage = "callbacks"
    BY <1>1, <1>2, <2>2 DEF Calls, GoesOn, S!TransferDevice
  <2>4. backend' \in [SigFoxDevice -> Type \cup {None}]
    BY <1>1, <1>2, <2>1 DEF S!TypeOK
  <2>5. unchecked' \subseteq S!RowId /\ faults' \in 0..MaxFaults /\ UNCHANGED <<callbacks, downlinkOn, twice>>
    BY <1>1, <2>1 DEF S!TypeOK, S!TransferDevice
  <2> QED  BY <2>1, <2>3, <2>4, <2>5, AskingCalls
<1>4. CASE backend[sf[r].row.device] = None
  BY <1>1, <1>4, RefusedStays DEF S!TransferDevice, S!TypeOK
<1> QED  BY <1>3, <1>4

(* The row gets the type the device has. *)
LEMMA DeviceFound ==
    ASSUME SigFoxInv, NEW r \in Request, S!FindDevice(r), missing' = missing \cup S!Unbacked'
    PROVE  SigFoxInv'
<1>1. S!TypeOK /\ Forms /\ Formed(sf[r], r) /\ WorkingOn(sf[r]) /\ sf[r].stage = "find"
  BY DEF SigFoxInv, Forms, S!FindDevice, S!At, WorkingOn
<1>2. PICK q, t : q = sf[r] /\ t = backend[sf[r].row.device]
  OBVIOUS
<1>3. /\ q \in S!Wish /\ Formed(q, r) /\ WorkingOn(q) /\ q.row \in S!Row /\ q.kind \in {"create", "update"}
      /\ t \in Type \cup {None}
  <2>1. q \in S!Wish /\ Formed(q, r) /\ WorkingOn(q) /\ q.stage = "find"
    BY <1>1, <1>2 DEF S!TypeOK
  <2>2. q.row \in S!Row /\ q.kind \in {"create", "update"}
    BY <2>1 DEF Formed, S!Wish, S!Kind
  <2> QED  BY <1>1, <1>2, <2>1, <2>2, NoRows DEF S!TypeOK
<1>4. backend' \in [SigFoxDevice -> Type \cup {None}] /\ faults' \in 0..MaxFaults
      /\ UNCHANGED <<callbacks, downlinkOn, twice, sigfoxRows, answered, replaced, overwritten, late, cleaned, cleanup>>
  BY <1>1 DEF S!FindDevice, S!stores, S!TypeOK
<1>5. CASE t # None
  <2>1. PICK s \in {"callbacks", "transfer"} :
          sf' = [sf EXCEPT ![r].row.type = t, ![r].stage = s]
    BY <1>2, <1>5 DEF S!FindDevice
  <2>2. UNCHANGED unchecked
    BY <1>2, <1>5 DEF S!FindDevice
  <2>3. PICK w : w = [q.row EXCEPT !.type = t]
    OBVIOUS
  <2>4. PICK p : p = [q EXCEPT !.row = w, !.stage = s]
    OBVIOUS
  <2>5. sf' = [sf EXCEPT ![r] = p]
    BY <1>1, <1>2, <2>1, <2>3, <2>4 DEF S!TypeOK
  <2>6. w \in S!Row /\ w.downlink = q.row.downlink
    BY <1>3, <1>5, <2>3 DEF S!Row
  <2>7. p \in S!Wish
    BY <1>3, <2>4, <2>6 DEF S!Wish, S!Stage
  <2>8. p.stage = s /\ p.kind = q.kind /\ p.id = q.id /\ p.read = q.read /\ p.type = q.type /\ p.row = w
    BY <1>3, <2>4 DEF S!Wish
  <2>9. WorkingOn(p) /\ p.stage \in InBackend /\ p.stage \notin {"saveDownlink", "clear", "new"}
    BY <2>8 DEF WorkingOn, InBackend
  <2>10. Formed(p, r)
    <3> HIDE DEF WorkingOn, InBackend
    <3> QED  BY <1>3, <2>6, <2>8, <2>9 DEF Formed
  <2>11. Calls(r, p) /\ p.stage \notin {"postCallback", "activate", "save"}
    BY <1>1, <1>2, <1>3, <1>4, <2>5, <2>7, <2>8, <2>9, <2>10 DEF Calls, Becomes, Onward, Same
  <2> QED  BY <1>1, <1>4, <2>2, <2>11, AskingCalls DEF S!TypeOK
<1>6. CASE t = None
  <2>1. S!Refused(r) /\ S!Unaccepted(r)
    BY <1>2, <1>6 DEF S!FindDevice
  <2> QED  BY <1>1, <1>4, <2>1, RefusedStays
<1> QED  BY <1>5, <1>6

(* addOrUpdateCallback: the callbacks are read ... *)
LEMMA CallbacksRead ==
    ASSUME SigFoxInv, NEW r \in Request, S!GetCallbacks(r), missing' = missing \cup S!Unbacked'
    PROVE  SigFoxInv'
<1>1. /\ S!TypeOK /\ Forms /\ Formed(sf[r], r) /\ WorkingOn(sf[r]) /\ sf[r].stage = "callbacks"
      /\ UNCHANGED <<sigfoxRows, backend, callbacks, downlinkOn, cleanup, answered, replaced, overwritten,
                     unchecked, late, cleaned, twice, faults>>
  BY DEF SigFoxInv, Forms, S!GetCallbacks, S!At, WorkingOn, S!stores, S!history
<1>2. sf[r].kind # "uplink" /\ sf[r].row \in S!Row /\ callbacks \in [Type -> Nat]
  BY <1>1, SigFoxConstants DEF Formed, S!TypeOK
<1>3. PICK s \in {"postCallback", "activate"} :
         S!Goto(r, s) /\ (s = "activate" <=> callbacks[sf[r].row.type] > 0)
  BY DEF S!GetCallbacks, S!HasCallback
<1>4. PICK p : Becomes(r, p) /\ GoesOn(sf[r], p, s) /\ Onward(sf[r], p) /\ p.row.type \in Type
  BY <1>1, <1>2, <1>3, GoesOnFormed
<1>5. Calls(r, p)
  BY <1>1, <1>4 DEF Calls, GoesOn
<1>6. SeenToBy(p)'
  <2>1. SeenToBy(sf[r]) /\ p.id = sf[r].id /\ p.read = sf[r].read /\ p.row = sf[r].row /\ p.stage = s
    BY <1>4 DEF SigFoxInv, CallbacksKnown, GoesOn
  <2> QED  BY <1>1, <1>2, <1>3, <1>4, <2>1 DEF SeenToBy, SeenTo
<1>7. CallbacksKnown'
  BY <1>1, <1>2, <1>4, <1>6, CallbacksStay DEF SigFoxInv, CallbacksKnown
<1> QED  BY <1>1, <1>5, <1>7, CallsStay DEF S!TypeOK

(* ... one is added: the requests that are about to add another have found *)
(* none at the same time ...                                               *)
LEMMA AddedCallback ==
    ASSUME SigFoxInv, NEW r \in Request, sf[r].stage = "postCallback", NEW p, Becomes(r, p), Onward(sf[r], p),
           S!AddCallback(r, sf[r].row.type), sf[r].row.type \in Type,
           unchecked \subseteq unchecked', UNCHANGED <<sigfoxRows, downlinkOn>>,
           p.stage = "activate" => p.row.type = sf[r].row.type, p.stage # "postCallback",
           p.stage = "save" => p.id \in unchecked'
    PROVE  CallbacksKnown' /\ callbacks' \in [Type -> 0..MaxCallbacks] /\ twice' \subseteq Type
<1>1. PICK t \in Type : t = sf[r].row.type
  OBVIOUS
<1>2. /\ callbacks \in [Type -> 0..MaxCallbacks] /\ callbacks[t] < MaxCallbacks /\ MaxCallbacks \in Nat
      /\ callbacks' = [callbacks EXCEPT ![t] = @ + 1]
      /\ twice \subseteq Type /\ twice \subseteq twice' /\ twice' \subseteq Type
      /\ \A q \in Request \ {r} : sf[q].stage = "postCallback" /\ sf[q].row.type = t => t \in twice'
  BY <1>1, SigFoxConstants DEF SigFoxInv, S!TypeOK, S!AddCallback, S!At
<1>3. callbacks' \in [Type -> 0..MaxCallbacks]
  BY <1>2
<1>4. /\ callbacks' \in [Type -> Nat] /\ callbacks'[t] = callbacks[t] + 1
      /\ \A u \in Type \ {t} : callbacks'[u] = callbacks[u]
      /\ \A u \in Type : callbacks'[u] >= callbacks[u]
  BY <1>2, <1>3
<1>5. \A u \in Type : callbacks'[u] > 1 => u \in twice'
  <2>1. callbacks[t] > 0 => t \in twice
    BY <1>1 DEF SigFoxInv, CallbacksKnown, SeenToBy
  <2> QED  BY <1>2, <1>4, <2>1 DEF SigFoxInv, CallbacksKnown
<1>6. SeenToBy(p)'
  <2>1. CASE p.stage = "activate"
    <3>1. PICK q : q = sf[r]
      OBVIOUS
    <3>2. SeenToBy(q) /\ q \in S!Wish /\ p.id = q.id /\ p.read = q.read
      BY <2>1, <3>1 DEF SigFoxInv, CallbacksKnown, S!TypeOK, Onward, Same, EndedAs
    <3>3. p.read # S!NoRow => p.read.type \in Type
      BY <3>2, NoRows DEF S!Wish
    <3>4. p.id \notin unchecked' /\ p.read # S!NoRow => SeenTo(p.read.type)'
      BY <1>2, <1>4, <3>2, <3>3 DEF SeenToBy, SeenTo
    <3> QED  BY <1>1, <1>2, <1>4, <2>1, <3>4 DEF SeenToBy
  <2>2. CASE p.stage # "activate"
    BY <1>4, <2>2, CallSeenTo
  <2> QED  BY <2>1, <2>2
<1>7. CallbacksKnown'
  BY <1>1, <1>2, <1>4, <1>5, <1>6, CallbacksStay
<1> QED  BY <1>2, <1>3, <1>7

(* The callback is added, and the request goes on. *)
LEMMA CallbackPosted ==
    ASSUME SigFoxInv, NEW r \in Request, S!PostCallback(r), missing' = missing \cup S!Unbacked'
    PROVE  SigFoxInv'
<1>1. /\ S!TypeOK /\ Forms /\ Formed(sf[r], r) /\ WorkingOn(sf[r]) /\ sf[r].stage = "postCallback"
      /\ UNCHANGED <<sigfoxRows, backend, downlinkOn, cleanup, answered, replaced, overwritten,
                     unchecked, late, cleaned, faults>>
  BY DEF SigFoxInv, Forms, S!PostCallback, S!At, WorkingOn
<1>2. sf[r].kind # "uplink" /\ sf[r].row.type \in Type
  BY <1>1, NoRows DEF Formed
<1>3. S!Goto(r, "activate") /\ S!AddCallback(r, sf[r].row.type)
  BY DEF S!PostCallback
<1>4. PICK p : Becomes(r, p) /\ GoesOn(sf[r], p, "activate") /\ Onward(sf[r], p)
  BY <1>1, <1>2, <1>3, GoesOnFormed
<1>5. Calls(r, p)
  BY <1>1, <1>4 DEF Calls, GoesOn
<1>6. CallbacksKnown' /\ callbacks' \in [Type -> 0..MaxCallbacks] /\ twice' \subseteq Type
  BY <1>1, <1>2, <1>3, <1>4, AddedCallback DEF GoesOn
<1> QED  BY <1>1, <1>5, <1>6, CallsStay DEF S!TypeOK

(* ... and made the one for downlinks. *)
LEMMA DownlinkActivated ==
    ASSUME SigFoxInv, NEW r \in Request, S!ActivateDownlink(r), missing' = missing \cup S!Unbacked'
    PROVE  SigFoxInv'
<1>1. /\ S!TypeOK /\ Forms /\ Formed(sf[r], r) /\ WorkingOn(sf[r]) /\ sf[r].stage = "activate"
      /\ UNCHANGED <<sigfoxRows, backend, callbacks, cleanup, answered, replaced, overwritten,
                     unchecked, late, cleaned, twice, faults>>
      /\ downlinkOn' = downlinkOn \cup {sf[r].row.type}
  BY DEF SigFoxInv, Forms, S!ActivateDownlink, S!At, WorkingOn, S!history
<1>2. sf[r].kind # "uplink" /\ sf[r].row.type \in Type /\ callbacks \in [Type -> Nat]
  BY <1>1, NoRows, SigFoxConstants DEF Formed, S!TypeOK
<1>3. \E p : /\ Becomes(r, p) /\ Onward(sf[r], p) /\ p.stage \in {"save", "done"}
             /\ p.stage = "save" => p.row = sf[r].row
  <2>1. CASE sf[r].kind = "downlink"
    <3>1. S!End(r, "done")
      BY <2>1 DEF S!ActivateDownlink
    <3>2. PICK p : sf' = [sf EXCEPT ![r] = p] /\ EndedAs(sf[r], p, "done") /\ Formed(p, r)
      BY <1>1, <3>1, EndWish
    <3> QED  BY <3>2 DEF Becomes, Onward, EndedAs
  <2>2. CASE sf[r].kind # "downlink"
    <3>1. S!Goto(r, "save")
      BY <2>2 DEF S!ActivateDownlink
    <3>2. PICK p : Becomes(r, p) /\ GoesOn(sf[r], p, "save") /\ Onward(sf[r], p)
      BY <1>1, <1>2, <2>2, <3>1, GoesOnFormed
    <3> QED  BY <3>2 DEF GoesOn
  <2> QED  BY <2>1, <2>2
<1>4. PICK p : /\ Becomes(r, p) /\ Onward(sf[r], p) /\ p.stage \in {"save", "done"}
               /\ p.stage = "save" => p.row = sf[r].row
  BY <1>3
<1>5. Calls(r, p)
  BY <1>1, <1>4 DEF Calls
<1>6. SeenToBy(p)'
  <2>1. callbacks[sf[r].row.type] > 0
    BY <1>1 DEF SigFoxInv, CallbacksKnown, SeenToBy
  <2>2. p.stage = "save" => SeenTo(p.row.type)'
    BY <1>1, <1>2, <1>4, <2>1 DEF SeenTo
  <2> QED  BY <1>1, <1>2, <1>4, <2>2, CallSeenTo
<1>7. CallbacksKnown'
  BY <1>1, <1>2, <1>4, <1>6, CallbacksStay DEF SigFoxInv, CallbacksKnown
<1>8. downlinkOn' \subseteq Type
  BY <1>1, <1>2 DEF S!TypeOK
<1> QED  BY <1>1, <1>5, <1>7, <1>8, CallsStay DEF S!TypeOK

(* sigfoxCallback sends the message to Kafka. *)
LEMMA UplinkSent ==
    ASSUME SigFoxInv, NEW r \in Request, NEW ack \in BOOLEAN, S!SendToKafka(r, ack), missing' = missing \cup S!Unbacked'
    PROVE  SigFoxInv'
<1>1. /\ S!TypeOK /\ Forms /\ Formed(sf[r], r) /\ WorkingOn(sf[r]) /\ sf[r].stage = "kafka"
      /\ UNCHANGED <<sigfoxRows, backend, callbacks, downlinkOn, cleanup, answered, replaced, overwritten,
                     unchecked, late, cleaned, twice, faults>>
  BY DEF SigFoxInv, Forms, S!SendToKafka, S!At, WorkingOn, S!stores, S!history
<1>2. PICK q : q = sf[r]
  OBVIOUS
<1>3. q \in S!Wish /\ Formed(q, r) /\ WorkingOn(q) /\ q.kind = "uplink"
  <2>1. q \in S!Wish /\ Formed(q, r) /\ WorkingOn(q) /\ q.stage = "kafka"
    BY <1>1, <1>2 DEF S!TypeOK
  <2> QED  BY <2>1 DEF Formed, S!Wish, S!Kind, InBackend
<1>4. \E p : Becomes(r, p) /\ Onward(sf[r], p) /\ p.stage \in {"clear", "done"} /\ p.kind = "uplink"
  <2>1. CASE S!ShouldSendDownlink(ack, sf[r].row)
    <3>1. PICK p : p = [q EXCEPT !.stage = "clear", !.ack = ack]
      OBVIOUS
    <3>2. sf' = [sf EXCEPT ![r] = p]
      BY <1>1, <1>2, <2>1, <3>1 DEF S!SendToKafka, S!TypeOK
    <3>3. p \in S!Wish
      BY <1>3, <3>1 DEF S!Wish, S!Stage
    <3>4. p.stage = "clear" /\ p.kind = q.kind /\ p.id = q.id /\ p.read = q.read /\ p.type = q.type /\ p.row = q.row
      BY <1>3, <3>1 DEF S!Wish
    <3>5. p.ack
      BY <1>3, <2>1, <3>1 DEF S!Wish, S!ShouldSendDownlink
    <3>6. p.row.downlink # None
      BY <1>2, <2>1, <3>4 DEF S!ShouldSendDownlink
    <3>7. WorkingOn(p)
      BY <3>4 DEF WorkingOn
    <3>8. Formed(p, r)
      BY <1>3, <3>4, <3>5, <3>6, <3>7 DEF Formed
    <3> QED  BY <1>2, <1>3, <3>2, <3>3, <3>4, <3>7, <3>8 DEF Becomes, Onward, Same
  <2>2. CASE ~S!ShouldSendDownlink(ack, sf[r].row)
    <3>1. S!End(r, "done")
      BY <2>2 DEF S!SendToKafka
    <3>2. PICK p : sf' = [sf EXCEPT ![r] = p] /\ EndedAs(sf[r], p, "done") /\ Formed(p, r)
      BY <1>1, <3>1, EndWish
    <3> QED  BY <1>2, <1>3, <3>2 DEF Becomes, Onward, EndedAs
  <2> QED  BY <2>1, <2>2
<1>5. PICK p : Becomes(r, p) /\ Onward(sf[r], p) /\ p.stage \in {"clear", "done"} /\ p.kind = "uplink"
  BY <1>4
<1>6. Calls(r, p)
  BY <1>1, <1>5 DEF Calls
<1> QED  BY <1>1, <1>5, <1>6, AskingCalls DEF S!TypeOK

(* A call that fails, and may have done its work all the same. *)
LEMMA CallFails ==
    ASSUME SigFoxInv, NEW r \in Request, S!Fail(r) \/ S!AnswerLost(r), missing' = missing \cup S!Unbacked'
    PROVE  SigFoxInv'
<1>1. /\ S!TypeOK /\ Forms /\ Formed(sf[r], r) /\ WorkingOn(sf[r]) /\ S!Refused(r) /\ S!Unaccepted(r)
      /\ faults' \in 0..MaxFaults
      /\ UNCHANGED <<sigfoxRows, downlinkOn, cleanup, answered, replaced, overwritten, late, cleaned>>
  BY SigFoxConstants DEF SigFoxInv, Forms, S!Fail, S!AnswerLost, S!Working, WorkingOn, S!stores, S!TypeOK
<1>2. CASE UNCHANGED <<callbacks, twice>> /\ backend' \in [SigFoxDevice -> Type \cup {None}]
  BY <1>1, <1>2, RefusedStays
<1>3. CASE sf[r].stage = "postCallback" /\ S!AddCallback(r, sf[r].row.type) /\ UNCHANGED backend
  <2>1. sf[r].row.type \in Type
    BY <1>1, NoRows DEF Formed
  <2>2. /\ unchecked \subseteq unchecked' /\ unchecked' \subseteq S!RowId
        /\ \E p : /\ Becomes(r, p) /\ Onward(sf[r], p) /\ p.stage \in {"save", "failed"}
                  /\ p.kind = "downlink" => p.stage = "failed"
                  /\ p.stage = "save" => p.id \in unchecked'
    BY <1>1, RefusedCall
  <2>3. PICK p : /\ Becomes(r, p) /\ Onward(sf[r], p) /\ p.stage \in {"save", "failed"}
                 /\ p.kind = "downlink" => p.stage = "failed"
                 /\ p.stage = "save" => p.id \in unchecked'
    BY <2>2
  <2>4. Calls(r, p)
    BY <1>1, <2>3 DEF Calls
  <2>5. CallbacksKnown' /\ callbacks' \in [Type -> 0..MaxCallbacks] /\ twice' \subseteq Type
    BY <1>1, <1>3, <2>1, <2>2, <2>3, AddedCallback
  <2> QED  BY <1>1, <1>3, <2>2, <2>4, <2>5, CallsStay DEF S!TypeOK
<1>4. \/ UNCHANGED <<callbacks, twice>> /\ backend' \in [SigFoxDevice -> Type \cup {None}]
      \/ sf[r].stage = "postCallback" /\ S!AddCallback(r, sf[r].row.type) /\ UNCHANGED backend
  <2>1. CASE S!Fail(r)
    BY <1>1, <2>1 DEF S!Fail, S!stores, S!TypeOK
  <2>2. CASE S!AnswerLost(r)
    <3>1. sf[r].row \in S!Row
      BY <1>1 DEF Formed
    <3>2. CASE sf[r].stage = "post" /\ backend' = [backend EXCEPT ![sf[r].row.device] = sf[r].row.type]
               /\ UNCHANGED <<callbacks, twice>>
      BY <1>1, <3>1, <3>2, NoRows DEF S!TypeOK
    <3>3. CASE sf[r].stage = "transfer" /\ backend' = [backend EXCEPT ![sf[r].row.device] = sf[r].type]
               /\ UNCHANGED <<callbacks, twice>>
      <4>1. sf[r].kind \in S!Kind
        BY <1>1 DEF S!TypeOK, S!Wish
      <4>2. sf[r].type \in Type
        BY <1>1, <3>3, <4>1 DEF Formed, S!Kind
      <4> QED  BY <1>1, <3>1, <3>3, <4>2, NoRows DEF S!TypeOK
    <3> QED  BY <2>2, <3>2, <3>3 DEF S!AnswerLost, S!At
  <2> QED  BY <2>1, <2>2
<1> QED  BY <1>2, <1>3, <1>4

-----------------------------------------------------------------------------
(* A request begins: its own row is new, another's is read. *)
LEMMA WishBegins ==
    ASSUME SigFoxInv, NEW r \in Request, NEW p, S!Begin(r, p), p \in S!Wish, Formed(p, r), WorkingOn(p),
           p.kind # "create" => sigfoxRows[p.id] # S!NoRow /\ p.read = sigfoxRows[p.id],
           p.stage \in {"post", "find", "saveDownlink", "kafka"}, missing' = missing \cup S!Unbacked'
    PROVE  SigFoxInv'
<1>1. /\ sf[r] = S!Fresh /\ Becomes(r, p) /\ S!TypeOK
      /\ UNCHANGED <<sigfoxRows, backend, callbacks, downlinkOn, cleanup, answered, replaced, overwritten,
                     unchecked, late, cleaned, twice, faults>>
  BY DEF S!Begin, S!stores, S!history, SigFoxInv, Becomes
<1>2. Unmade' /\ DownlinksKnown' /\ AnsweredOnce' /\ Waiting'
  BY <1>1, BeginsKeepDownlinks
<1>3. callbacks \in [Type -> Nat]
  BY <1>1, SigFoxConstants DEF S!TypeOK
<1>4. SeenToBy(p)'
  <2>1. p.id \notin unchecked /\ p.read # S!NoRow => SeenTo(p.read.type)
    <3>1. CASE p.kind = "create"
      BY <3>1 DEF Formed
    <3>2. CASE p.kind # "create"
      BY <3>2 DEF Formed, SigFoxInv, CallbacksKnown
    <3> QED  BY <3>1, <3>2
  <2> QED  BY <1>1, <2>1 DEF SeenToBy, SeenTo
<1>5. CallbacksKnown'
  BY <1>1, <1>3, <1>4, CallbacksStay DEF SigFoxInv, CallbacksKnown
<1>6. CleanupKnown'
  <2>1. \A x \in S!RowId : \/ sigfoxRows'[x] = S!NoRow \/ x \in late' \/ cleanup.stage = "idle"
                           \/ (sigfoxRows[x] # S!NoRow /\ sigfoxRows'[x].device = sigfoxRows[x].device)
    BY <1>1
  <2> QED  BY <1>1, <2>1, CleanupStays
<1>7. sf' \in [Request -> S!Wish] /\ Forms'
  BY <1>1, FormsStay DEF SigFoxInv
<1>8. S!TypeOK'
  <2>1. missing' \subseteq S!RowId
    BY <1>1 DEF S!Unbacked, S!TypeOK
  <2> QED  BY <1>1, <1>7, <2>1 DEF S!TypeOK
<1> QED  BY <1>2, <1>5, <1>6, <1>7, <1>8 DEF SigFoxInv

(* A row, or none. *)
WideRow == [device : SigFoxDevice \cup {None}, type : Type \cup {None},
            downlink : Request \cup {None, OldRow}, owned : BOOLEAN]

(* What a request has read has these fields in any case. *)
LEMMA RowsAreWide == S!Row \cup {S!NoRow} \subseteq WideRow
<1>1. S!NoRow \in WideRow
  BY DEF S!NoRow, WideRow
<1>2. S!Row \subseteq WideRow
  BY DEF S!Row, WideRow
<1> QED  BY <1>1, <1>2

(* mapSigFoxDevice keeps the downlink. *)
LEMMA MappedRow ==
    ASSUME NEW w \in S!Row \cup {S!NoRow}, NEW d \in SigFoxDevice, NEW t \in Type
    PROVE  S!MapSigFoxDevice(w, d, t) \in S!Row /\ S!MapSigFoxDevice(w, d, t).downlink = w.downlink
<1>1. w \in WideRow
  BY RowsAreWide
<1>2. S!MapSigFoxDevice(w, d, t) \in S!Row
  BY <1>1 DEF S!MapSigFoxDevice, S!Row, WideRow
<1>3. S!MapSigFoxDevice(w, d, t).downlink = w.downlink
  BY <1>1 DEF S!MapSigFoxDevice, WideRow
<1> QED  BY <1>2, <1>3

(* createInSigfoxBackend and createOrUpdateSigFoxDevice begin. *)
LEMMA DeviceAsked ==
    ASSUME SigFoxInv, NEW r \in Request, NEW d \in SigFoxDevice, NEW t \in Type, NEW existing \in BOOLEAN,
           S!CreateDevice(r, d, t, existing) \/ \E x \in S!RowId : S!UpdateDevice(r, x, d, t, existing),
           missing' = missing \cup S!Unbacked'
    PROVE  SigFoxInv'
<1>1. PICK s : s = S!Way(existing)
  OBVIOUS
<1>2. s \in {"post", "find"} /\ s \in S!Stage
  BY <1>1 DEF S!Way, S!Stage
<1>3. CASE S!CreateDevice(r, d, t, existing)
  <2>1. PICK a, w : a = S!Ask("create", s, r) /\ w = S!MapSigFoxDevice(S!NoRow, d, t)
    OBVIOUS
  <2>2. a \in S!Wish /\ a.kind = "create" /\ a.stage = s /\ a.id = r /\ a.read = S!NoRow
    BY <1>2, <2>1, AskedWish, SigFoxConstants DEF S!Kind
  <2>3. w \in S!Row /\ w.downlink = None
    BY <2>1, MappedRow, NoRows
  <2>4. PICK p : p = [a EXCEPT !.row = w, !.type = t]
    OBVIOUS
  <2>5. S!Begin(r, p)
    BY <1>1, <1>3, <2>1, <2>4 DEF S!CreateDevice
  <2>6. p \in S!Wish
    BY <2>2, <2>3, <2>4 DEF S!Wish
  <2>7. p.kind = "create" /\ p.stage = s /\ p.id = r /\ p.read = S!NoRow /\ p.row = w /\ p.type = t
    BY <2>2, <2>4 DEF S!Wish
  <2>8. Formed(p, r) /\ WorkingOn(p)
    BY <1>2, <2>3, <2>7, SigFoxConstants DEF Formed, WorkingOn, InBackend
  <2> QED  BY <1>2, <2>5, <2>6, <2>7, <2>8, WishBegins
<1>4. ASSUME NEW x \in S!RowId, S!UpdateDevice(r, x, d, t, existing) PROVE SigFoxInv'
  <2>1. PICK a, o, w : a = S!Ask("update", s, x) /\ o = sigfoxRows[x] /\ w = S!MapSigFoxDevice(o, d, t)
    OBVIOUS
  <2>2. a \in S!Wish /\ a.kind = "update" /\ a.stage = s /\ a.id = x
    BY <1>2, <2>1, AskedWish DEF S!Kind
  <2>3. o \in S!Row /\ o # S!NoRow /\ w \in S!Row /\ w.downlink = o.downlink
    <3>1. o \in S!Row /\ o # S!NoRow
      BY <1>4, <2>1 DEF S!UpdateDevice, SigFoxInv, S!TypeOK
    <3> QED  BY <2>1, <3>1, MappedRow
  <2>4. PICK p : p = [a EXCEPT !.read = o, !.row = w, !.type = t]
    OBVIOUS
  <2>5. S!Begin(r, p)
    BY <1>1, <1>4, <2>1, <2>4 DEF S!UpdateDevice
  <2>6. p \in S!Wish
    BY <2>2, <2>3, <2>4 DEF S!Wish
  <2>7. p.kind = "update" /\ p.stage = s /\ p.id = x /\ p.read = o /\ p.row = w /\ p.type = t
    BY <2>2, <2>4 DEF S!Wish
  <2>8. Formed(p, r) /\ WorkingOn(p)
    BY <1>2, <2>3, <2>7, SigFoxConstants DEF Formed, WorkingOn, InBackend
  <2> QED  BY <1>2, <2>1, <2>3, <2>5, <2>6, <2>7, <2>8, WishBegins
<1> QED  BY <1>3, <1>4

(* createSigfoxDownlink begins with the row as it is. *)
LEMMA DownlinkBegins ==
    ASSUME SigFoxInv, NEW r \in Request, NEW x \in S!RowId, S!CreateDownlink(r, x), missing' = missing \cup S!Unbacked'
    PROVE  SigFoxInv'
<1>1. PICK a, o, w : a = S!Ask("downlink", "saveDownlink", x) /\ o = sigfoxRows[x] /\ w = [o EXCEPT !.downlink = r]
  OBVIOUS
<1>2. a \in S!Wish /\ a.kind = "downlink" /\ a.stage = "saveDownlink" /\ a.id = x
  BY <1>1, AskedWish DEF S!Kind, S!Stage
<1>3. o \in S!Row /\ o # S!NoRow
  BY <1>1 DEF S!CreateDownlink, SigFoxInv, S!TypeOK
<1>4. w \in S!Row /\ w.downlink = r /\ w.type = o.type
  BY <1>1, <1>3 DEF S!Row
<1>5. PICK p : p = [a EXCEPT !.read = o, !.row = w]
  OBVIOUS
<1>6. S!Begin(r, p)
  BY <1>1, <1>5 DEF S!CreateDownlink
<1>7. p \in S!Wish
  BY <1>2, <1>3, <1>4, <1>5 DEF S!Wish
<1>8. p.kind = "downlink" /\ p.stage = "saveDownlink" /\ p.id = x /\ p.read = o /\ p.row = w
  BY <1>2, <1>5 DEF S!Wish
<1>9. Formed(p, r) /\ WorkingOn(p)
  BY <1>3, <1>4, <1>8, SigFoxConstants DEF Formed, WorkingOn, InBackend
<1> QED  BY <1>1, <1>3, <1>6, <1>7, <1>8, <1>9, WishBegins

(* sigfoxCallback begins with the row as it is. *)
LEMMA UplinkBegins ==
    ASSUME SigFoxInv, NEW r \in Request, NEW d \in SigFoxDevice, NEW x \in S!RowId, S!ReceiveUplink(r, d, x),
           missing' = missing \cup S!Unbacked'
    PROVE  SigFoxInv'
<1>1. PICK a, o : a = S!Ask("uplink", "kafka", x) /\ o = sigfoxRows[x]
  OBVIOUS
<1>2. a \in S!Wish /\ a.kind = "uplink" /\ a.stage = "kafka" /\ a.id = x
  BY <1>1, AskedWish DEF S!Kind, S!Stage
<1>3. o \in S!Row /\ o # S!NoRow
  BY <1>1, NoRows, SigFoxConstants DEF S!ReceiveUplink, SigFoxInv, S!TypeOK
<1>5. PICK p : p = [a EXCEPT !.read = o, !.row = o]
  OBVIOUS
<1>6. S!Begin(r, p)
  BY <1>1, <1>5 DEF S!ReceiveUplink
<1>7. p \in S!Wish
  BY <1>2, <1>3, <1>5 DEF S!Wish
<1>8. p.kind = "uplink" /\ p.stage = "kafka" /\ p.id = x /\ p.read = o /\ p.row = o
  BY <1>2, <1>5 DEF S!Wish
<1>9. Formed(p, r) /\ WorkingOn(p)
  BY <1>3, <1>8, SigFoxConstants DEF Formed, WorkingOn, InBackend
<1> QED  BY <1>1, <1>3, <1>6, <1>7, <1>8, <1>9, WishBegins
-----------------------------------------------------------------------------
(* A row is written. *)
LEMMA WritesStay ==
    ASSUME SigFoxInv, NEW r \in Request, NEW p, Becomes(r, p), WorkingOn(sf[r]), NEW row \in S!Row,
           S!Written(r, row), Saves(r, p, row) \/ Downlinks(r, p, row) \/ Replies(r, p, row),
           UNCHANGED <<backend, callbacks, downlinkOn, cleanup, unchecked, cleaned, twice, faults>>,
           sf[r].id \notin unchecked => SeenTo(row.type), missing' = missing \cup S!Unbacked'
    PROVE  SigFoxInv'
<1>1. Unmade' /\ DownlinksKnown' /\ AnsweredOnce' /\ Waiting'
  BY WritesKeepDownlinks
<1>2. S!TypeOK /\ Formed(sf[r], r) /\ sf[r].id \in S!RowId
  BY DEF SigFoxInv, Forms, Formed
<1>3. CleanupKnown'
  BY <1>2, WritesKeepCleanup
<1>4. /\ sigfoxRows'[sf[r].id] = row /\ \A y \in S!RowId \ {sf[r].id} : sigfoxRows'[y] = sigfoxRows[y]
      /\ sigfoxRows' \in [S!RowId -> S!Row \cup {S!NoRow}]
      /\ overwritten' \subseteq S!RowId /\ late' \subseteq S!RowId
  BY <1>2 DEF S!Written, S!TypeOK
<1>5. callbacks \in [Type -> Nat]
  BY <1>2, SigFoxConstants DEF S!TypeOK
<1>6. Onward(sf[r], p) /\ p.stage \notin {"postCallback", "activate", "save"}
  <2>1. CASE EndedAs(sf[r], p, "done")
    BY <2>1 DEF Onward, EndedAs
  <2>2. CASE Same(sf[r], p) /\ p.stage = "callbacks"
    BY <2>2 DEF Onward, WorkingOn
  <2> QED  BY <2>1, <2>2 DEF Saves, Downlinks, Replies
<1>7. SeenToBy(p)'
  BY <1>5, <1>6, CallSeenTo
<1>8. \A x \in S!RowId \ unchecked' : \/ sigfoxRows'[x] \in {sigfoxRows[x], S!NoRow}
                                      \/ (sigfoxRows'[x].type \in downlinkOn' /\ callbacks'[sigfoxRows'[x].type] > 0)
  BY <1>4 DEF SeenTo
<1>9. CallbacksKnown'
  BY <1>5, <1>7, <1>8, CallbacksStay DEF SigFoxInv, CallbacksKnown
<1>10. sf' \in [Request -> S!Wish] /\ Forms'
  BY <1>2, FormsStay DEF SigFoxInv
<1>11. answered' \subseteq (Request \cup {OldRow}) \X Request /\ replaced' \subseteq Request \cup {OldRow}
  <2>1. sf[r].read \in S!Row \cup {S!NoRow} /\ sigfoxRows[sf[r].id] \in S!Row \cup {S!NoRow}
    BY <1>2 DEF S!TypeOK, S!Wish
  <2>2. sf[r].read.downlink \in Request \cup {None, OldRow} /\ sigfoxRows[sf[r].id].downlink \in Request \cup {None, OldRow}
    BY <2>1, NoRows
  <2>3. sf[r].read.downlink # None => <<sf[r].read.downlink, r>> \in (Request \cup {OldRow}) \X Request
    BY <2>2
  <2> QED  BY <1>2, <2>2, <2>3 DEF Saves, Downlinks, Replies, S!TypeOK
<1>12. S!TypeOK'
  <2>1. missing' \subseteq S!RowId
    BY <1>2 DEF S!Unbacked, S!TypeOK
  <2> QED  BY <1>2, <1>4, <1>10, <1>11, <2>1 DEF S!TypeOK
<1> QED  BY <1>1, <1>3, <1>9, <1>10, <1>12 DEF SigFoxInv

(* create, update. *)
LEMMA DeviceStored ==
    ASSUME SigFoxInv, NEW r \in Request, S!SaveDevice(r), missing' = missing \cup S!Unbacked'
    PROVE  SigFoxInv'
<1>1. /\ S!TypeOK /\ Forms /\ Formed(sf[r], r) /\ WorkingOn(sf[r]) /\ sf[r].stage = "save" /\ sf[r] \in S!Wish
      /\ S!Written(r, sf[r].row)
      /\ UNCHANGED <<backend, callbacks, downlinkOn, cleanup, answered, replaced, unchecked, cleaned, twice, faults>>
  BY DEF SigFoxInv, Forms, S!SaveDevice, S!At, WorkingOn, S!TypeOK
<1>2. sf[r].row \in S!Row /\ sf[r].kind \in {"create", "update"}
  BY <1>1 DEF Formed, S!Wish, S!Kind
<1>3. PICK p : sf' = [sf EXCEPT ![r] = p] /\ EndedAs(sf[r], p, "done") /\ Formed(p, r)
  BY <1>1, EndWish DEF S!SaveDevice
<1>4. Saves(r, p, sf[r].row) /\ Becomes(r, p)
  BY <1>1, <1>2, <1>3 DEF Saves, Becomes, EndedAs
<1>5. sf[r].id \notin unchecked => SeenTo(sf[r].row.type)
  BY <1>1 DEF SigFoxInv, CallbacksKnown, SeenToBy
<1> QED  BY <1>1, <1>2, <1>4, <1>5, WritesStay

(* createSigfoxDownlink. *)
LEMMA DownlinkSaved ==
    ASSUME SigFoxInv, NEW r \in Request, S!SaveDownlink(r), missing' = missing \cup S!Unbacked'
    PROVE  SigFoxInv'
<1>1. /\ S!TypeOK /\ Forms /\ Formed(sf[r], r) /\ WorkingOn(sf[r]) /\ sf[r].stage = "saveDownlink" /\ sf[r] \in S!Wish
      /\ S!Written(r, sf[r].row) /\ S!Goto(r, "callbacks")
      /\ UNCHANGED <<backend, callbacks, downlinkOn, cleanup, answered, unchecked, cleaned, twice, faults>>
      /\ replaced' = replaced \cup ({sigfoxRows[sf[r].id].downlink} \ {None})
  BY DEF SigFoxInv, Forms, S!SaveDownlink, S!At, WorkingOn, S!TypeOK
<1>2. /\ sf[r].row \in S!Row /\ sf[r].kind = "downlink" /\ sf[r].read # S!NoRow
      /\ sf[r].row.downlink = r /\ sf[r].row.type = sf[r].read.type
  BY <1>1, NoRows DEF Formed, S!Wish, S!Kind, InBackend
<1>3. PICK p : Becomes(r, p) /\ GoesOn(sf[r], p, "callbacks") /\ Onward(sf[r], p)
  BY <1>1, <1>2, GoesOnFormed
<1>4. Downlinks(r, p, sf[r].row)
  BY <1>1, <1>2, <1>3 DEF Downlinks, GoesOn, Same
<1>5. sf[r].id \notin unchecked => SeenTo(sf[r].row.type)
  BY <1>2 DEF SigFoxInv, CallbacksKnown, SeenToBy
<1> QED  BY <1>1, <1>2, <1>3, <1>4, <1>5, WritesStay

(* The answer to an uplink. *)
LEMMA DownlinkAnswered ==
    ASSUME SigFoxInv, NEW r \in Request, S!AnswerDownlink(r), missing' = missing \cup S!Unbacked'
    PROVE  SigFoxInv'
<1>1. /\ S!TypeOK /\ Forms /\ Formed(sf[r], r) /\ WorkingOn(sf[r]) /\ sf[r].stage = "clear" /\ sf[r] \in S!Wish
      /\ UNCHANGED <<backend, callbacks, downlinkOn, cleanup, replaced, unchecked, cleaned, twice, faults>>
  BY DEF SigFoxInv, Forms, S!AnswerDownlink, S!At, WorkingOn, S!TypeOK
<1>2. sf[r].read \in S!Row /\ sf[r].kind = "uplink" /\ sf[r].read.downlink # None /\ sf[r].ack /\ sf[r].id \in S!RowId
  BY <1>1 DEF Formed, S!Wish, S!Kind, InBackend
<1>3. PICK o, read : o = sigfoxRows[sf[r].id].owned /\ read = sf[r].read
  OBVIOUS
<1>4. PICK row : row = [read EXCEPT !.downlink = None, !.owned = o]
  OBVIOUS
<1>5. S!Written(r, row)
  BY <1>3, <1>4 DEF S!AnswerDownlink
<1>6. o \in BOOLEAN
  <2>1. sigfoxRows[sf[r].id] \in S!Row \cup {S!NoRow}
    BY <1>1, <1>2 DEF S!TypeOK
  <2> QED  BY <1>3, <2>1, RowsAreWide DEF WideRow
<1>7. row \in S!Row
  BY <1>2, <1>3, <1>4, <1>6 DEF S!Row
<1>8. row.downlink = None /\ row.type = read.type
  BY <1>2, <1>3, <1>4 DEF S!Row
<1>9. PICK p : sf' = [sf EXCEPT ![r] = p] /\ EndedAs(sf[r], p, "done") /\ Formed(p, r)
  BY <1>1, EndWish DEF S!AnswerDownlink
<1>10. answered' = answered \cup {<<sf[r].read.downlink, r>>}
  BY <1>2 DEF S!AnswerDownlink
<1>11. Replies(r, p, row) /\ Becomes(r, p)
  BY <1>1, <1>2, <1>8, <1>9, <1>10 DEF Replies, Becomes, EndedAs
<1>12. sf[r].id \notin unchecked => SeenTo(row.type)
  BY <1>2, <1>3, <1>8, NoRows DEF SigFoxInv, CallbacksKnown, SeenToBy
<1> QED  BY <1>1, <1>5, <1>7, <1>11, <1>12, WritesStay

-----------------------------------------------------------------------------
(* Rows that are deleted, by a request or by the job, leave nothing to     *)
(* know of.                                                                *)
LEMMA DeletesStay ==
    ASSUME SigFoxInv, sigfoxRows' \in [S!RowId -> S!Row \cup {S!NoRow}],
           \A x \in S!RowId : sigfoxRows'[x] \in {sigfoxRows[x], S!NoRow},
           sf' \in [Request -> S!Wish], \A q \in Request : Formed(sf'[q], q),
           \A q \in Request : sf'[q] = sf[q] \/ (sf'[q].kind = "none" /\ sf'[q].stage = "done" /\ sf[q] = S!Fresh
                                                /\ sf'[q].id = None /\ sf'[q].read = S!NoRow),
           UNCHANGED <<callbacks, downlinkOn, answered, replaced, unchecked, twice, late>>, overwritten' = overwritten,
           backend' \in [SigFoxDevice -> Type \cup {None}], cleanup' \in S!Job, cleaned' \subseteq S!RowId,
           faults' \in 0..MaxFaults, missing' = missing \cup S!Unbacked', CleanupKnown'
    PROVE  SigFoxInv'
<1>1. Unmade' /\ DownlinksKnown' /\ AnsweredOnce' /\ Waiting'
  BY DeletedKeepDownlinks
<1>2. CallbacksKnown'
  <2>1. ASSUME NEW q \in Request PROVE SeenToBy(sf[q])'
    BY DEF SigFoxInv, CallbacksKnown, SeenToBy, SeenTo
  <2>2. \A x \in S!RowId \ unchecked : sigfoxRows'[x] # S!NoRow => SeenTo(sigfoxRows[x].type)'
    <3>1. \A x \in S!RowId \ unchecked : sigfoxRows'[x] # S!NoRow => sigfoxRows'[x] = sigfoxRows[x] /\ SeenTo(sigfoxRows[x].type)
      BY DEF SigFoxInv, CallbacksKnown
    <3> QED  BY <3>1 DEF SeenTo
  <2> QED  BY <2>1, <2>2 DEF SigFoxInv, CallbacksKnown
<1>3. Forms'
  BY DEF Forms
<1>4. S!TypeOK'
  <2>1. missing' \subseteq S!RowId
    BY DEF S!Unbacked, SigFoxInv, S!TypeOK
  <2> QED  BY <2>1 DEF SigFoxInv, S!TypeOK
<1> QED  BY <1>1, <1>2, <1>3, <1>4 DEF SigFoxInv

(* IoTDeviceService.delete. *)
LEMMA DeviceDeleted ==
    ASSUME SigFoxInv, NEW r \in Request, NEW x \in S!RowId, S!DeleteDevice(r, x), missing' = missing \cup S!Unbacked'
    PROVE  SigFoxInv'
<1>1. /\ S!TypeOK /\ sf[r] = S!Fresh /\ sigfoxRows' = [sigfoxRows EXCEPT ![x] = S!NoRow]
      /\ UNCHANGED <<backend, callbacks, downlinkOn, cleanup, answered, replaced, overwritten, unchecked,
                     late, cleaned, twice, faults>>
  BY DEF SigFoxInv, S!DeleteDevice, S!history
<1>2. PICK f : f = S!Fresh
  OBVIOUS
<1>3. PICK p : p = [f EXCEPT !.stage = "done"]
  OBVIOUS
<1>4. f \in S!Wish /\ f.kind = "none" /\ f.id = None /\ f.read = S!NoRow
  BY <1>2, FreshWish
<1>5. p \in S!Wish
  BY <1>3, <1>4 DEF S!Wish, S!Stage
<1>6. p.stage = "done" /\ p.kind = "none" /\ p.id = None /\ p.read = S!NoRow
  BY <1>3, <1>4 DEF S!Wish
<1>7. sf' = [sf EXCEPT ![r] = p]
  BY <1>2, <1>3 DEF S!DeleteDevice
<1>8. Formed(p, r)
  BY <1>6 DEF Formed, WorkingOn
<1>9. sf' \in [Request -> S!Wish] /\ \A q \in Request : Formed(sf'[q], q)
  BY <1>1, <1>5, <1>7, <1>8 DEF SigFoxInv, Forms, S!TypeOK
<1>10. \A q \in Request : sf'[q] = sf[q] \/ (sf'[q].kind = "none" /\ sf'[q].stage = "done" /\ sf[q] = S!Fresh
                                              /\ sf'[q].id = None /\ sf'[q].read = S!NoRow)
  BY <1>1, <1>6, <1>7 DEF S!TypeOK
<1>11. sigfoxRows' \in [S!RowId -> S!Row \cup {S!NoRow}] /\ \A y \in S!RowId : sigfoxRows'[y] \in {sigfoxRows[y], S!NoRow}
  BY <1>1 DEF S!TypeOK
<1>12. CleanupKnown'
  <2>1. \A y \in S!RowId : \/ sigfoxRows'[y] = S!NoRow \/ y \in late' \/ cleanup.stage = "idle"
                           \/ (sigfoxRows[y] # S!NoRow /\ sigfoxRows'[y].device = sigfoxRows[y].device)
    BY <1>11
  <2> QED  BY <1>1, <2>1, CleanupStays
<1> QED  BY <1>1, <1>9, <1>10, <1>11, <1>12, DeletesStay DEF S!TypeOK

(* cleanupDevicesRemovedFromSigFoxBackend: what the job reads ... *)
LEMMA CleanupReads ==
    ASSUME SigFoxInv, S!StartCleanup \/ S!FindAllSigFoxDevices \/ S!ListBackend \/ S!ListBackendFails,
           missing' = missing \cup S!Unbacked'
    PROVE  SigFoxInv'
<1>1. /\ S!TypeOK /\ cleanup \in S!Job /\ faults' \in 0..MaxFaults
      /\ UNCHANGED <<sigfoxRows, backend, callbacks, downlinkOn, sf, answered, replaced, overwritten, unchecked,
                     late, cleaned, twice>>
  BY SigFoxConstants DEF SigFoxInv, S!TypeOK, S!StartCleanup, S!FindAllSigFoxDevices, S!ListBackend, S!ListBackendFails,
         S!history, S!stores
<1>2. S!Resting \in S!Job /\ S!Resting.stage = "idle" /\ S!Resting.rows = {} /\ ~S!Resting.listed
  BY DEF S!Resting, S!Job
<1>3. \A x \in S!RowId : sigfoxRows[x] # S!NoRow => sigfoxRows[x].device \in SigFoxDevice
  BY <1>1, NoRows DEF S!TypeOK
<1>4. S!Unbacked' \subseteq missing'
  OBVIOUS
<1>5. CASE S!StartCleanup
  <2>1. PICK j : j = S!Resting
    OBVIOUS
  <2>2. cleanup' = [j EXCEPT !.stage = "listing"] /\ cleanup = j
    BY <1>5, <2>1 DEF S!StartCleanup
  <2>3. cleanup' \in S!Job
    BY <1>1, <2>2 DEF S!Job
  <2>4. cleanup'.stage = "listing" /\ cleanup'.rows = {}
    BY <1>1, <1>2, <2>1, <2>2 DEF S!Job
  <2>5. CleanupKnown'
    BY <1>1, <1>4, <2>4 DEF SigFoxInv, CleanupKnown
  <2> QED  BY <1>1, <2>3, <2>5, DeletesStay DEF SigFoxInv, Forms, S!TypeOK
<1>6. CASE S!FindAllSigFoxDevices
  <2>1. PICK l : l = {<<x, sigfoxRows[x].device>> : x \in {x \in S!RowId : sigfoxRows[x] # S!NoRow}}
    OBVIOUS
  <2>2. cleanup' = [cleanup EXCEPT !.listed = TRUE, !.rows = l] /\ cleanup.stage # "idle"
    BY <1>6, <2>1 DEF S!FindAllSigFoxDevices
  <2>3. l \subseteq S!RowId \X SigFoxDevice /\ \A y \in l : sigfoxRows[y[1]].device = y[2]
    BY <1>3, <2>1
  <2>4. cleanup' \in S!Job
    BY <1>1, <2>2, <2>3 DEF S!Job
  <2>5. cleanup'.stage = cleanup.stage /\ cleanup'.rows = l /\ cleanup'.found = cleanup.found
    BY <1>1, <2>2 DEF S!Job
  <2>6. CleanupKnown'
    BY <1>1, <1>4, <2>2, <2>3, <2>5 DEF SigFoxInv, CleanupKnown
  <2> QED  BY <1>1, <2>4, <2>6, DeletesStay DEF SigFoxInv, Forms, S!TypeOK
<1>7. CASE S!ListBackend
  <2>1. PICK f : f = S!Present
    OBVIOUS
  <2>2. cleanup' = [cleanup EXCEPT !.stage = "delete", !.found = f]
    BY <1>7, <2>1 DEF S!ListBackend
  <2>3. f \subseteq SigFoxDevice /\ \A d \in SigFoxDevice \ f : backend[d] = None
    BY <2>1 DEF S!Present
  <2>4. cleanup' \in S!Job
    BY <1>1, <2>2, <2>3 DEF S!Job
  <2>5. cleanup'.stage = "delete" /\ cleanup'.rows = cleanup.rows /\ cleanup'.found = f
    BY <1>1, <2>2 DEF S!Job
  <2>6. \A x \in S!RowId : sigfoxRows[x] # S!NoRow /\ sigfoxRows[x].device \notin f => x \in missing
    BY <1>1, <1>3, <2>3 DEF SigFoxInv, CleanupKnown, S!Unbacked
  <2>7. CleanupKnown'
    BY <1>1, <1>4, <2>5, <2>6 DEF SigFoxInv, CleanupKnown
  <2> QED  BY <1>1, <2>4, <2>7, DeletesStay DEF SigFoxInv, Forms, S!TypeOK
<1>8. CASE S!ListBackendFails
  <2>1. cleanup' = S!Resting
    BY <1>8 DEF S!ListBackendFails, S!ListFails
  <2>2. CleanupKnown'
    BY <1>1, <1>2, <1>4, <2>1 DEF SigFoxInv, CleanupKnown
  <2> QED  BY <1>1, <1>2, <2>1, <2>2, DeletesStay DEF SigFoxInv, Forms, S!TypeOK
<1> QED  BY <1>5, <1>6, <1>7, <1>8

(* ... and what it deletes: a row that has the device it was listed with,  *)
(* which SigFox did not list.                                              *)
LEMMA MissingDeleted ==
    ASSUME SigFoxInv, S!DeleteMissing, missing' = missing \cup S!Unbacked'
    PROVE  SigFoxInv'
<1>1. PICK gone : gone = {x \in S!ToDelete : sigfoxRows[x] # S!NoRow}
  OBVIOUS
<1>2. /\ S!TypeOK /\ cleanup \in S!Job /\ cleanup.stage = "delete" /\ cleanup' = S!Resting
      /\ sigfoxRows' = [x \in S!RowId |-> IF x \in gone THEN S!NoRow ELSE sigfoxRows[x]]
      /\ cleaned' = cleaned \cup (gone \ missing)
      /\ UNCHANGED <<backend, callbacks, downlinkOn, sf, answered, replaced, overwritten, unchecked, late, twice, faults>>
  BY <1>1 DEF SigFoxInv, S!DeleteMissing, S!TypeOK
<1>3. S!Resting \in S!Job /\ S!Resting.stage = "idle" /\ S!Resting.rows = {}
  BY DEF S!Resting, S!Job
<1>4. gone \subseteq S!RowId /\ gone \subseteq missing \cup late
  <2> SUFFICES ASSUME NEW x \in gone PROVE x \in S!RowId /\ x \in missing \cup late
    OBVIOUS
  <2>1. x \in S!RowId /\ sigfoxRows[x] # S!NoRow
    BY <1>1 DEF S!ToDelete
  <2>2. PICK d \in SigFoxDevice \ cleanup.found : <<x, d>> \in cleanup.rows
    BY <1>1 DEF S!ToDelete
  <2>3. x \in late \/ sigfoxRows[x].device = d
    BY <2>1, <2>2 DEF SigFoxInv, CleanupKnown
  <2> QED  BY <1>2, <2>1, <2>2, <2>3 DEF SigFoxInv, CleanupKnown
<1>5. CleanupKnown'
  BY <1>2, <1>3, <1>4 DEF SigFoxInv, CleanupKnown
<1>6. sigfoxRows' \in [S!RowId -> S!Row \cup {S!NoRow}] /\ \A x \in S!RowId : sigfoxRows'[x] \in {sigfoxRows[x], S!NoRow}
  BY <1>2 DEF S!TypeOK
<1>7. cleaned' \subseteq S!RowId
  BY <1>2, <1>4 DEF S!TypeOK
<1> QED  BY <1>2, <1>3, <1>5, <1>6, <1>7, DeletesStay DEF SigFoxInv, Forms, S!TypeOK

(* A device is removed at SigFox: its rows are missing from now on. *)
LEMMA RemovedAtSigFox ==
    ASSUME SigFoxInv, NEW d \in SigFoxDevice, S!RemoveAtSigFox(d), missing' = missing \cup S!Unbacked'
    PROVE  SigFoxInv'
<1>1. /\ S!TypeOK /\ backend' = [backend EXCEPT ![d] = None] /\ faults' \in 0..MaxFaults
      /\ UNCHANGED <<sigfoxRows, callbacks, downlinkOn, sf, cleanup, answered, replaced, overwritten, unchecked,
                     late, cleaned, twice>>
  BY SigFoxConstants DEF SigFoxInv, S!RemoveAtSigFox, S!history, S!TypeOK
<1>2. CleanupKnown'
  <2>1. \A x \in S!RowId : \/ sigfoxRows'[x] = S!NoRow \/ x \in late' \/ cleanup.stage = "idle"
                           \/ (sigfoxRows[x] # S!NoRow /\ sigfoxRows'[x].device = sigfoxRows[x].device)
    BY <1>1
  <2> QED  BY <1>1, <2>1, CleanupStays
<1>3. backend' \in [SigFoxDevice -> Type \cup {None}]
  BY <1>1 DEF S!TypeOK
<1> QED  BY <1>1, <1>2, <1>3, DeletesStay DEF SigFoxInv, Forms, S!TypeOK

(* One row, whose type has its callback and whose device is at SigFox. *)
LEMMA SigFoxInit == S!Init => SigFoxInv
<1> SUFFICES ASSUME S!Init PROVE SigFoxInv
  OBVIOUS
<1>1. PICK w : w = [device |-> OldSigFoxDevice, type |-> OldType, downlink |-> OldRow, owned |-> TRUE]
  OBVIOUS
<1>2. w \in S!Row /\ w.device = OldSigFoxDevice /\ w.type = OldType /\ w.downlink = OldRow
  BY <1>1, SigFoxConstants DEF S!Row
<1>3. /\ sigfoxRows = [x \in S!RowId |-> IF x = OldRow THEN w ELSE S!NoRow]
      /\ callbacks = [u \in Type |-> IF u = OldType THEN 1 ELSE 0] /\ downlinkOn = {OldType}
      /\ sf = [r \in Request |-> S!Fresh] /\ cleanup = S!Resting
      /\ answered = {} /\ replaced = {} /\ overwritten = {} /\ unchecked = {}
      /\ missing = {} /\ late = {} /\ cleaned = {} /\ twice = {} /\ faults = 0
  BY <1>1 DEF S!Init
<1>4. backend \in [SigFoxDevice -> Type \cup {None}] /\ backend[OldSigFoxDevice] # None
  BY SigFoxConstants DEF S!Init
<1>5. S!Resting \in S!Job /\ S!Resting.stage = "idle" /\ S!Resting.rows = {}
  BY DEF S!Resting, S!Job
<1>6. S!TypeOK
  <2>1. callbacks \in [Type -> 0..MaxCallbacks]
    BY <1>3, SigFoxConstants
  <2> QED  BY <1>2, <1>3, <1>4, <1>5, <2>1, FreshWish, SigFoxConstants DEF S!TypeOK
<1>7. Forms
  BY <1>3, FreshWish DEF Forms, Formed, WorkingOn
<1>8. Unmade /\ DownlinksKnown /\ AnsweredOnce /\ Waiting
  BY <1>2, <1>3, FreshWish, NoRows, SigFoxConstants DEF Unmade, DownlinksKnown, AnsweredOnce, Waiting, HasDownlinkOf,
     DownlinkOf
<1>9. CallbacksKnown
  BY <1>2, <1>3, FreshWish, NoRows, SigFoxConstants DEF CallbacksKnown, SeenToBy, SeenTo
<1>10. CleanupKnown
  BY <1>2, <1>3, <1>4, <1>5 DEF CleanupKnown, S!Unbacked
<1> QED  BY <1>6, <1>7, <1>8, <1>9, <1>10 DEF SigFoxInv

(* The steps of the requests, of the job, and of SigFox. *)
LEMMA SigFoxStep == SigFoxInv /\ S!Next => SigFoxInv'
<1> SUFFICES ASSUME SigFoxInv, S!Next PROVE SigFoxInv'
  OBVIOUS
<1>1. missing' = missing \cup S!Unbacked'
  BY DEF S!Next
<1>2. ASSUME NEW r \in Request, S!Step(r) PROVE SigFoxInv'
  BY <1>1, <1>2, DeviceAsked, DeviceDeleted, DownlinkBegins, UplinkBegins, DevicePosted, DeviceFound, DeviceTransferred,
     CallbacksRead, CallbackPosted, DownlinkActivated, DeviceStored, DownlinkSaved, UplinkSent, DownlinkAnswered,
     CallFails DEF S!Step
<1>3. CASE S!StartCleanup \/ S!FindAllSigFoxDevices \/ S!ListBackend \/ S!ListBackendFails
  BY <1>1, <1>3, CleanupReads
<1>4. CASE S!DeleteMissing
  BY <1>1, <1>4, MissingDeleted
<1>5. ASSUME NEW d \in SigFoxDevice, S!RemoveAtSigFox(d) PROVE SigFoxInv'
  BY <1>1, <1>5, RemovedAtSigFox
<1> QED  BY <1>2, <1>3, <1>4, <1>5 DEF S!Next

(* The invariant is of the state. *)
LEMMA SigFoxStutters == SigFoxInv /\ UNCHANGED vars => SigFoxInv'
<1> SUFFICES ASSUME SigFoxInv, UNCHANGED vars PROVE SigFoxInv'
  OBVIOUS
<1>1. UNCHANGED <<sigfoxRows, backend, callbacks, downlinkOn, sf, cleanup, answered, replaced, overwritten,
                  unchecked, missing, late, cleaned, twice, faults>>
  BY DEF vars, sigfoxVars
<1>2. S!TypeOK'
  BY <1>1 DEF SigFoxInv, S!TypeOK
<1>3. Forms' /\ Unmade'
  BY <1>1 DEF SigFoxInv, Forms, Unmade
<1>4. DownlinksKnown' /\ AnsweredOnce' /\ Waiting'
  BY <1>1 DEF SigFoxInv, DownlinksKnown, DownlinkOf, HasDownlinkOf, AnsweredOnce, Waiting, Waits
<1>5. CallbacksKnown' /\ CleanupKnown'
  BY <1>1 DEF SigFoxInv, CallbacksKnown, SeenToBy, SeenTo, CleanupKnown, S!Unbacked
<1> QED  BY <1>2, <1>3, <1>4, <1>5 DEF SigFoxInv

SigFoxHere == on = "sigfox" => SigFoxInv

(* In the composition it holds whenever SigFox is the part followed.       *)
LEMMA SigFoxAlways == Spec => []SigFoxHere
<1>1. Init => SigFoxHere
  BY SigFoxInit DEF Init, SigFoxHere
<1>2. SigFoxHere /\ [Next]_vars => SigFoxHere'
  <2> SUFFICES ASSUME SigFoxHere, [Next]_vars, on' = "sigfox" PROVE SigFoxInv'
    BY DEF SigFoxHere
  <2>1. CASE UNCHANGED vars
    <3>1. on' = on
      BY <2>1 DEF vars
    <3> QED  BY <2>1, <3>1, SigFoxStutters DEF SigFoxHere
  <2>2. CASE Next
    <3>1. on = "sigfox" /\ S!Next
      BY <2>2 DEF Next
    <3> QED  BY <3>1, SigFoxStep DEF SigFoxHere
  <2> QED  BY <2>1, <2>2
<1> QED  BY <1>1, <1>2, PTL DEF Spec

(* The clean-up (periodic-sigfox-cleanup.service.ts): for any number of    *)
(* rows and devices, whatever fails and whatever the two lists miss, it    *)
(* deletes no row of a device that has been at SigFox ever since the row   *)
(* was made, except one saved for another device while it was running.     *)
THEOREM AlwaysCleanedRightly == Spec => []CleanedRightly
<1>1. SigFoxHere => CleanedRightly
  BY DEF SigFoxHere, CleanedRightly, SigFoxInv, CleanupKnown, S!CleanedRightly
<1> QED  BY <1>1, SigFoxAlways, PTL

(* Downlinks (iot-device-downlink.service.ts and the listener): for any    *)
(* number of requests, a downlink that was accepted waits in its row until *)
(* it is answered with, once, or replaced, or deleted with the row, except *)
(* when a request saves over a change it had not read.                     *)
THEOREM DownlinksAlwaysKept == Spec => []DownlinksKept
<1>1. SigFoxHere => DownlinksKept
  <2> SUFFICES ASSUME on = "sigfox", SigFoxInv PROVE S!DownlinksKept
    BY DEF SigFoxHere, DownlinksKept
  <2>1. \A r \in S!Accepted : Waits(r)
    BY DEF SigFoxInv, Waiting, S!Accepted
  <2>2. \A a, b \in answered : a[1] = b[1] => a = b \/ sf[a[2]].id \in overwritten
    BY DEF SigFoxInv, AnsweredOnce
  <2> QED  BY <2>1, <2>2 DEF Waits, S!DownlinksKept
<1> QED  BY <1>1, SigFoxAlways, PTL

(* Callbacks (sigfox-api-device-type.service.ts): for any number of        *)
(* requests, the type of a row that SigFox has accepted has a callback,    *)
(* its downlinks come by it, and it has one, unless two requests have      *)
(* found none at the same time.                                            *)
THEOREM AlwaysOneCallback == Spec => []OneCallback
<1>1. SigFoxHere => OneCallback
  <2> SUFFICES ASSUME on = "sigfox", SigFoxInv, NEW x \in S!Settled
               PROVE  LET t == sigfoxRows[x].type IN
                      t \in downlinkOn /\ callbacks[t] > 0 /\ (callbacks[t] > 1 => t \in twice)
    BY DEF SigFoxHere, OneCallback, S!OneCallback
  <2>1. x \in S!RowId \ unchecked /\ sigfoxRows[x] # S!NoRow
    BY DEF S!Settled
  <2>2. sigfoxRows[x].type \in Type
    BY <2>1, NoRows DEF SigFoxInv, S!TypeOK
  <2> QED  BY <2>1, <2>2 DEF SigFoxInv, CallbacksKnown, SeenTo
<1> QED  BY <1>1, SigFoxAlways, PTL
-----------------------------------------------------------------------------
(***************************************************************************)
(* Connections of devices, decoders and targets, for any number of         *)
(* requests and of rows: what is joined is of one application, a device    *)
(* has a model of its organization, and what is published is of the        *)
(* organization that asks; with the exceptions the properties name.        *)
(***************************************************************************)
(* Request r is of one of the kinds, and at the stage. *)
Doing(q, kinds, s) == q.kind \in kinds /\ q.stage = s
Connecting(q) == q.kind = "connection" /\ q.stage \in {"target", "decoder", "save"}

(* What a request has read has the type its kind needs. *)
WishTyped(q) ==
    /\ Connecting(q) =>
          /\ q.id \in C!Connection /\ q.want \in C!Decoder \cup {None, C!Keep}
          /\ \E t \in C!Target, ds \in SUBSET Device : q.found = ds \cup {t}
    /\ Doing(q, {"target"}, "save") =>
          q.id \in C!Target /\ q.app \in Applications /\ q.want \in C!Dataset \cup {None, C!Another}
    /\ Doing(q, {"device", "devices"}, "model") \/ Doing(q, {"device", "devices"}, "save") =>
          q.id \in Device /\ q.app \in Applications /\ q.want \in C!Model \cup {None}
    /\ Doing(q, {"unlink"}, "save") => q.id \in Device
    /\ Doing(q, {"application"}, "save") => q.id \in Applications /\ q.org \in Org
    /\ Doing(q, {"definition"}, "save") => q.id \in C!Decoder \cup C!Model /\ q.org \in Org
    /\ Doing(q, {"share"}, "read") => q.id \in C!Dataset /\ q.org \in Org

(***************************************************************************)
(* A request that connects: as long as nothing it has found has been       *)
(* moved, it knows the applications of all that it has looked at.  A       *)
(* target that is deleted is not there when the connection is saved.       *)
(***************************************************************************)
PartsKnown(q) ==
    Connecting(q) =>
        /\ q.stage = "save" => C!SameApplication(q)
        /\ ~q.moved =>
              /\ \A d \in q.found \cap Device : devices[d] # None /\ devices[d].app \in q.seen
              /\ q.stage # "target" => targets[C!TargetOf(q)] \in q.seen \cup {None}

(* So a connection joins parts of one application, until one is moved. *)
OfOneApplication ==
    \A c \in C!Connection \ crossed : connections[c] # None =>
        \E a \in Applications : /\ targets[connections[c].target] = a
                                /\ \A d \in connections[c].devices : devices[d].app = a

(***************************************************************************)
(* A device model has one organization for ever, f[x], even when it is     *)
(* deleted and inserted again by a request that was editing it; so what a  *)
(* device's request has been told of its model stays true.  The id of a    *)
(* new model is used by the request that creates it first.                 *)
(***************************************************************************)
OrganizationKnown(q, f) ==
    /\ Doing(q, {"definition"}, "save") /\ q.id \in C!Model => q.org = f[q.id]
    /\ Doing(q, {"device", "devices"}, "save") /\ q.want # None /\ ~q.error /\ ~q.moved =>
          f[q.want] = appOrg[q.app]
NotOfModel(q, x) ==
    /\ Doing(q, {"definition"}, "save") => q.id # x
    /\ Doing(q, {"device", "devices"}, "save") /\ ~q.error => q.want # x
OrganizationsAre(f) ==
    /\ \A x \in C!Model : definitions[x] \in {None, f[x]}
    /\ \A r \in Asker : OrganizationKnown(wish[r], f)
    /\ \A r \in Asker : wish[r].kind = "none" =>
          definitions[<<r, "model">>] = None /\ \A p \in Asker : NotOfModel(wish[p], <<r, "model">>)

(***************************************************************************)
(* A dataset belongs to one target for ever, g[s], so the one who asks for *)
(* its data is asking for those of the target it was found with.           *)
(***************************************************************************)
TargetKnown(r, q, g) ==
    /\ Doing(q, {"target"}, "save") =>
          /\ q.want \in C!Dataset => g[q.want] = q.id
          /\ q.want = C!Another => g[r] = q.id
    /\ Doing(q, {"share"}, "read") =>
          /\ q.found = {g[q.id]}
          /\ ~q.moved /\ targets[g[q.id]] # None =>
                targets[g[q.id]] \in Applications /\ appOrg[targets[g[q.id]]] = q.org
NotOfDataset(q, s) ==
    /\ Doing(q, {"target"}, "save") => q.want # s
    /\ Doing(q, {"share"}, "read") => q.id # s
TargetsAre(g) ==
    /\ \A s \in C!Dataset : datasets[s] \in {None, "orphan", g[s]}
    /\ \A r \in Asker : TargetKnown(r, wish[r], g)
    /\ \A r \in Asker : wish[r].kind = "none" =>
          datasets[r] = None /\ \A p \in Asker : NotOfDataset(wish[p], r)

(* What was published is of the organization that asked. *)
SharedRight(q) == q.kind = "share" /\ q.stage = "done" /\ ~q.moved => q.seen \subseteq {q.org}

ConnectionsInv ==
    /\ C!TypeOK /\ OfOneApplication /\ C!ModelsMatch
    /\ \A r \in Asker : WishTyped(wish[r]) /\ PartsKnown(wish[r]) /\ SharedRight(wish[r])
    /\ \E f \in [C!Model -> Org] : OrganizationsAre(f)
    /\ \E g \in [C!Dataset -> C!Target] : TargetsAre(g)
-----------------------------------------------------------------------------
(* The assumptions, as the steps need them. *)
LEMMA Assumed ==
    /\ DeviceApp \in [Device -> Applications] /\ TargetApp \in Applications
    /\ AppOrg \in [Applications -> Org] /\ ModelOrg \in Org
    /\ Device \cap C!Target = {} /\ C!Decoder \cap C!Model = {}
    /\ \A r \in Asker : r \notin OldDataset /\ <<r, "model">> \notin OldModel
    /\ C!Nowhere \notin Applications /\ "orphan" \notin C!Target /\ C!Another \notin C!Dataset
    /\ None \notin Device /\ None \notin Applications /\ None \notin Org /\ None \notin C!Target
    /\ None \notin C!Connection /\ None \notin C!Dataset /\ None \notin C!Decoder /\ None \notin C!Model
    /\ None \notin C!DeviceRow /\ None # C!Keep /\ None # C!Another
    /\ None \notin C!Place
  BY AdministrationAssumption DEF C!ConnectionsAssumption, C!Place

(* The ids of what requests create. *)
LEMMA Created ==
    \A r \in Asker : /\ r \in C!Target /\ r \in C!Connection /\ r \in C!Dataset
                     /\ <<r, "model">> \in C!Model /\ <<r, "decoder">> \in C!Decoder
  BY DEF C!Target, C!Connection, C!Dataset, C!Model, C!Decoder

(* The record of a request that has not begun. *)
LEMMA IdleTyped == /\ C!Idle \in C!Wish /\ C!Idle.kind = "none" /\ C!Idle.stage = "new"
                   /\ C!Idle.id = None /\ C!Idle.app = None /\ C!Idle.org = None /\ C!Idle.found = {}
                   /\ C!Idle.want = None /\ C!Idle.seen = {} /\ C!Idle.error = FALSE /\ C!Idle.moved = FALSE
  BY DEF C!Idle, C!Wish, C!Kind, C!Stage, C!Id, C!Want, C!Seen

(* The record of a request that has just begun. *)
LEMMA AskTyped ==
    \A k \in C!Kind, s \in C!Stage, x \in C!Id :
        /\ C!Ask(k, s, x) \in C!Wish
        /\ C!Ask(k, s, x).kind = k /\ C!Ask(k, s, x).stage = s /\ C!Ask(k, s, x).id = x
        /\ C!Ask(k, s, x).seen = {}
  BY IdleTyped DEF C!Ask, C!Wish

(* No row has left a request that has just begun. *)
LEMMA AskUnmoved ==
    \A k \in C!Kind, s \in C!Stage, x \in C!Id : ~C!Ask(k, s, x).moved
  BY IdleTyped DEF C!Ask, C!Wish
-----------------------------------------------------------------------------
(* No request has begun: what is joined is so in the stored rows. *)
LEMMA ConnectionsInit == C!Init => ConnectionsInv
<1> SUFFICES ASSUME C!Init PROVE ConnectionsInv
  OBVIOUS
<1> USE Assumed, Created
<1>1. /\ appOrg = AppOrg /\ wish = [r \in Asker |-> C!Idle] /\ crossed = {} /\ unmatched = {}
      /\ targets = [t \in C!Target |-> IF t \in OldTarget THEN TargetApp ELSE None]
      /\ definitions = [x \in C!Decoder \cup C!Model |-> IF x \in OldDecoder \cup OldModel THEN ModelOrg ELSE None]
  BY DEF C!Init
<1>2. PICK m \in {x \in OldModel : ModelOrg = AppOrg[TargetApp]} \cup {None} :
         devices = [d \in Device |-> [app |-> DeviceApp[d],
                                      model |-> IF DeviceApp[d] = TargetApp THEN m ELSE None]]
  BY DEF C!Init
<1>13. PICK t \in OldTarget :
         /\ datasets = [s \in C!Dataset |-> IF s \in OldDataset THEN t ELSE None]
         /\ \E p \in OldDecoder \cup {None} :
              connections = [c \in C!Connection |->
                  IF c \in OldConnection
                  THEN [devices |-> {d \in Device : DeviceApp[d] = TargetApp}, decoder |-> p, target |-> t]
                  ELSE None]
  BY DEF C!Init
<1>3. PICK p \in OldDecoder \cup {None} :
         /\ datasets = [s \in C!Dataset |-> IF s \in OldDataset THEN t ELSE None]
         /\ connections = [c \in C!Connection |->
                  IF c \in OldConnection
                  THEN [devices |-> {d \in Device : DeviceApp[d] = TargetApp}, decoder |-> p, target |-> t]
                  ELSE None]
  BY <1>13
<1>4. /\ OldTarget \subseteq C!Target /\ OldDataset \subseteq C!Dataset
      /\ OldDecoder \subseteq C!Decoder /\ OldModel \subseteq C!Model
  BY DEF C!Target, C!Dataset, C!Decoder, C!Model
<1>5. \A d \in Device : devices[d] \in C!DeviceRow
  BY <1>2, <1>4 DEF C!DeviceRow, C!Place
<1>6. \A c \in OldConnection \cap C!Connection : connections[c] \in C!Link
  BY <1>3, <1>4 DEF C!Link
<1>7. C!TypeOK
  <2>1. devices \in [Device -> C!DeviceRow \cup {None}]
    BY <1>2, <1>5
  <2>2. connections \in [C!Connection -> C!Link \cup {None}]
    BY <1>3, <1>6
  <2>3. targets \in [C!Target -> C!Place \cup {None}] /\ wish \in [Asker -> C!Wish]
    BY <1>1, IdleTyped DEF C!Place
  <2>4. datasets \in [C!Dataset -> C!Target \cup {None, "orphan"}]
    BY <1>3, <1>4
  <2>5. definitions \in [C!Decoder \cup C!Model -> Org \cup {None}]
    BY <1>1
  <2>6. \A d \in Device : devices[d].model # None => definitions[devices[d].model] # None
    BY <1>1, <1>2, <1>4
  <2>7. \A s \in C!Dataset : datasets[s] \in C!Target => targets[datasets[s]] # None
    BY <1>1, <1>3, <1>4
  <2>8. \A c \in C!Connection : connections[c] # None =>
           /\ \A d \in connections[c].devices : devices[d] # None
           /\ targets[connections[c].target] # None
           /\ connections[c].decoder # None => definitions[connections[c].decoder] # None
    BY <1>1, <1>3, <1>4, <1>5
  <2> QED  BY <1>1, <2>1, <2>2, <2>3, <2>4, <2>5, <2>6, <2>7, <2>8 DEF C!TypeOK
<1>8. OfOneApplication
  BY <1>1, <1>2, <1>3, <1>4 DEF OfOneApplication
<1>9. C!ModelsMatch
  BY <1>1, <1>2, <1>4 DEF C!ModelsMatch
<1>10. \A r \in Asker : WishTyped(wish[r]) /\ PartsKnown(wish[r]) /\ SharedRight(wish[r])
  BY <1>1, IdleTyped DEF WishTyped, PartsKnown, SharedRight, Connecting, Doing
<1>11. \E f \in [C!Model -> Org] : OrganizationsAre(f)
  <2>1. \A x \in C!Model : definitions[x] \in {None, ModelOrg}
    BY <1>1
  <2>2. \A r \in Asker : definitions[<<r, "model">>] = None
    <3> SUFFICES ASSUME NEW r \in Asker PROVE definitions[<<r, "model">>] = None
      OBVIOUS
    <3>1. <<r, "model">> \notin OldDecoder \cup OldModel
      BY <1>4
    <3> QED  BY <1>1, <3>1
  <2>3. OrganizationsAre([x \in C!Model |-> ModelOrg])
    BY <1>1, <2>1, <2>2, IdleTyped DEF OrganizationsAre, OrganizationKnown, NotOfModel, Doing
  <2> QED  BY <2>3
<1>12. \E g \in [C!Dataset -> C!Target] : TargetsAre(g)
  <2>1. TargetsAre([s \in C!Dataset |-> t])
    BY <1>1, <1>3, IdleTyped DEF TargetsAre, TargetKnown, NotOfDataset, Doing
  <2> QED  BY <1>4, <2>1
<1> QED  BY <1>7, <1>8, <1>9, <1>10, <1>11, <1>12 DEF ConnectionsInv
-----------------------------------------------------------------------------
(***************************************************************************)
(* The others' requests, when one is answered: they keep what they have    *)
(* read, and those that had read what has been moved are marked.           *)
(***************************************************************************)
SameRequest(q, n) ==
    /\ n.kind = q.kind /\ n.stage = q.stage /\ n.id = q.id /\ n.app = q.app /\ n.org = q.org
    /\ n.found = q.found /\ n.want = q.want /\ n.seen = q.seen /\ n.error = q.error
    /\ q.moved => n.moved

Answering(r, marked) ==
    /\ wish' \in [Asker -> C!Wish]
    /\ wish[r].kind \in C!Kind /\ wish'[r].kind # "none" /\ wish'[r].stage = "done" /\ wish'[r].seen = {}
    /\ \A p \in Asker \ {r} :
          /\ SameRequest(wish[p], wish'[p])
          /\ ~wish'[p].moved => (wish[p].found \cup {wish[p].app}) \cap marked = {}

(* A request that saves a row has it marked in all the others. *)
LEMMA AnswerMarks ==
    ASSUME C!TypeOK, NEW r \in Asker, NEW marked, C!AnswerAndMark(r, marked), wish[r].kind # "none"
    PROVE  Answering(r, marked)
<1>1. wish \in [Asker -> C!Wish] /\ wish[r].kind \in C!Kind
  BY DEF C!TypeOK, C!Wish
<1>2. "done" \in C!Stage
  BY DEF C!Stage
<1>3. /\ C!Answered(r, "done") \in C!Wish /\ C!Answered(r, "done").kind = wish[r].kind
      /\ C!Answered(r, "done").stage = "done" /\ C!Answered(r, "done").seen = {}
  BY <1>1, <1>2, IdleTyped DEF C!Answered, C!Wish
<1>4. wish'[r] = C!Answered(r, "done")
  BY DEF C!AnswerAndMark
<1>5. ASSUME NEW p \in Asker \ {r}
      PROVE  /\ wish'[p] \in C!Wish /\ SameRequest(wish[p], wish'[p])
             /\ ~wish'[p].moved => (wish[p].found \cup {wish[p].app}) \cap marked = {}
  <2> DEFINE m == wish[p].moved \/ (wish[p].found \cup {wish[p].app}) \cap marked # {}
  <2>1. wish'[p] = [wish[p] EXCEPT !.moved = m]
    BY DEF C!AnswerAndMark
  <2>2. m \in BOOLEAN /\ wish[p] \in C!Wish
    BY <1>1
  <2>3. wish[p].moved => m
    OBVIOUS
  <2>4. ~m => (wish[p].found \cup {wish[p].app}) \cap marked = {}
    OBVIOUS
  <2> HIDE DEF m
  <2>5. wish'[p] \in C!Wish /\ SameRequest(wish[p], wish'[p]) /\ wish'[p].moved = m
    BY <2>1, <2>2, <2>3 DEF C!Wish, SameRequest
  <2> QED  BY <2>4, <2>5
<1>6. wish' = [p \in Asker |-> wish'[p]]
  BY DEF C!AnswerAndMark
<1>7. wish' \in [Asker -> C!Wish]
  BY <1>3, <1>4, <1>5, <1>6
<1> QED  BY <1>1, <1>3, <1>4, <1>5, <1>7 DEF Answering

(* A deletion, which is done at once, answers without a mark. *)
LEMMA DeleteAnswers ==
    ASSUME C!TypeOK, NEW r \in Asker, wish' = [wish EXCEPT ![r] = C!Ask("delete", "done", None)]
    PROVE  Answering(r, {})
<1>1. "delete" \in C!Kind /\ "done" \in C!Stage /\ None \in C!Id
  BY DEF C!Kind, C!Stage, C!Id
<1>2. /\ C!Ask("delete", "done", None) \in C!Wish /\ C!Ask("delete", "done", None).kind = "delete"
      /\ C!Ask("delete", "done", None).stage = "done" /\ C!Ask("delete", "done", None).seen = {}
  BY <1>1, AskTyped
<1>3. wish \in [Asker -> C!Wish] /\ wish[r].kind \in C!Kind
  BY DEF C!TypeOK, C!Wish
<1> QED  BY <1>2, <1>3 DEF Answering, SameRequest

(***************************************************************************)
(* What the rows may do to the requests that are not marked: devices and   *)
(* targets keep their applications, or go; applications keep their         *)
(* organizations.                                                          *)
(***************************************************************************)
Marks(marked) ==
    /\ \A d \in Device \ marked : devices[d] # None => devices'[d] # None /\ devices'[d].app = devices[d].app
    /\ \A t \in C!Target \ marked : targets'[t] \in {targets[t], None}
    /\ \A a \in Applications : appOrg'[a] # appOrg[a] =>
          a \in marked /\ \A t \in C!Target : targets[t] = a => t \in marked

(* What the others have read is theirs until a row they found is marked. *)
LEMMA RequestsKept ==
    ASSUME ConnectionsInv, NEW r \in Asker, NEW marked, Answering(r, marked), Marks(marked)
    PROVE  \A p \in Asker : WishTyped(wish'[p]) /\ PartsKnown(wish[p])' /\ SharedRight(wish'[p])
<1>1. WishTyped(wish'[r]) /\ PartsKnown(wish[r])' /\ SharedRight(wish'[r])
  BY DEF Answering, WishTyped, PartsKnown, SharedRight, Connecting, Doing
<1>2. ASSUME NEW p \in Asker \ {r}
      PROVE  WishTyped(wish'[p]) /\ PartsKnown(wish[p])' /\ SharedRight(wish'[p])
  <2>1. /\ SameRequest(wish[p], wish'[p])
        /\ ~wish'[p].moved => wish[p].found \cap marked = {}
        /\ WishTyped(wish[p]) /\ PartsKnown(wish[p]) /\ SharedRight(wish[p])
    BY DEF Answering, ConnectionsInv
  <2>2. WishTyped(wish'[p])
    BY <2>1 DEF SameRequest, WishTyped, Connecting, Doing
  <2>3. SharedRight(wish'[p])
    BY <2>1 DEF SameRequest, SharedRight
  <2>4. PartsKnown(wish[p])'
    <3> SUFFICES ASSUME Connecting(wish'[p]) PROVE PartsKnown(wish[p])'
      BY DEF PartsKnown
    <3>1. Connecting(wish[p])
      BY <2>1 DEF SameRequest, Connecting
    <3>2. wish'[p].stage = "save" => C!SameApplication(wish'[p])
      BY <2>1, <3>1 DEF SameRequest, PartsKnown, C!SameApplication
    <3>3. C!TargetOf(wish'[p]) = C!TargetOf(wish[p])
      BY <2>1 DEF SameRequest, C!TargetOf
    <3>4. C!TargetOf(wish[p]) \in C!Target \cap wish[p].found
      BY <2>1, <3>1 DEF WishTyped, C!TargetOf
    <3>5. ~wish'[p].moved =>
             /\ \A d \in wish'[p].found \cap Device : devices'[d] # None /\ devices'[d].app \in wish'[p].seen
             /\ wish'[p].stage # "target" => targets'[C!TargetOf(wish'[p])] \in wish'[p].seen \cup {None}
      BY <2>1, <3>1, <3>3, <3>4 DEF SameRequest, PartsKnown, Marks
    <3> QED  BY <3>2, <3>5 DEF PartsKnown
  <2> QED  BY <2>2, <2>3, <2>4
<1> QED  BY <1>1, <1>2

(* The models the others have found keep their organization. *)
LEMMA OrganizationsKnown ==
    ASSUME ConnectionsInv, NEW r \in Asker, NEW marked, Answering(r, marked), Marks(marked),
           NEW f \in [C!Model -> Org], OrganizationsAre(f)
    PROVE  /\ \A p \in Asker : OrganizationKnown(wish[p], f)'
           /\ \A p \in Asker : wish'[p].kind = "none" =>
                 definitions[<<p, "model">>] = None /\ \A q \in Asker : NotOfModel(wish'[q], <<p, "model">>)
<1>1. OrganizationKnown(wish[r], f)' /\ \A p \in Asker : NotOfModel(wish'[r], <<p, "model">>)
  BY DEF Answering, OrganizationKnown, NotOfModel, Doing
<1>2. ASSUME NEW p \in Asker \ {r} PROVE OrganizationKnown(wish[p], f)'
  <2>1. /\ SameRequest(wish[p], wish'[p])
        /\ ~wish'[p].moved => wish[p].app \notin marked
        /\ WishTyped(wish[p]) /\ OrganizationKnown(wish[p], f)
    BY DEF Answering, ConnectionsInv, OrganizationsAre
  <2>2. Doing(wish[p], {"device", "devices"}, "save") /\ ~wish'[p].moved => appOrg'[wish[p].app] = appOrg[wish[p].app]
    BY <2>1 DEF Marks, WishTyped
  <2> QED  BY <2>1, <2>2 DEF SameRequest, OrganizationKnown, Doing
<1>3. ASSUME NEW p \in Asker, wish'[p].kind = "none"
      PROVE  definitions[<<p, "model">>] = None /\ \A q \in Asker : NotOfModel(wish'[q], <<p, "model">>)
  <2>1. p # r /\ wish[p].kind = "none"
    BY <1>3 DEF Answering, SameRequest
  <2>2. \A q \in Asker \ {r} : NotOfModel(wish'[q], <<p, "model">>)
    <3> SUFFICES ASSUME NEW q \in Asker \ {r} PROVE NotOfModel(wish'[q], <<p, "model">>)
      OBVIOUS
    <3>1. NotOfModel(wish[q], <<p, "model">>) /\ SameRequest(wish[q], wish'[q])
      BY <2>1 DEF Answering, OrganizationsAre
    <3> QED  BY <3>1 DEF SameRequest, NotOfModel, Doing
  <2> QED  BY <1>1, <2>1, <2>2 DEF OrganizationsAre
<1> QED  BY <1>1, <1>2, <1>3

(* The datasets the others have found keep their target. *)
LEMMA TargetsKnown ==
    ASSUME ConnectionsInv, NEW r \in Asker, NEW marked, Answering(r, marked), Marks(marked),
           NEW g \in [C!Dataset -> C!Target], TargetsAre(g)
    PROVE  /\ \A p \in Asker : TargetKnown(p, wish[p], g)'
           /\ \A p \in Asker : wish'[p].kind = "none" =>
                 datasets[p] = None /\ \A q \in Asker : NotOfDataset(wish'[q], p)
<1>1. TargetKnown(r, wish[r], g)' /\ \A p \in Asker : NotOfDataset(wish'[r], p)
  BY DEF Answering, TargetKnown, NotOfDataset, Doing
<1>2. ASSUME NEW p \in Asker \ {r} PROVE TargetKnown(p, wish[p], g)'
  <2>1. /\ SameRequest(wish[p], wish'[p])
        /\ ~wish'[p].moved => wish[p].found \cap marked = {}
        /\ WishTyped(wish[p]) /\ TargetKnown(p, wish[p], g)
    BY DEF Answering, ConnectionsInv, TargetsAre
  <2>2. ASSUME Doing(wish[p], {"share"}, "read"), ~wish'[p].moved, targets'[g[wish[p].id]] # None
        PROVE  LET t == g[wish[p].id] IN targets'[t] \in Applications /\ appOrg'[targets'[t]] = wish[p].org
    <3>1. g[wish[p].id] \in C!Target \ marked
      BY <2>1, <2>2 DEF WishTyped, TargetKnown
    <3>2. targets'[g[wish[p].id]] = targets[g[wish[p].id]]
      BY <2>2, <3>1 DEF Marks
    <3> QED  BY <2>1, <2>2, <3>1, <3>2 DEF SameRequest, TargetKnown, Marks
  <2> QED  BY <2>1, <2>2 DEF SameRequest, TargetKnown, Doing
<1>3. ASSUME NEW p \in Asker, wish'[p].kind = "none"
      PROVE  datasets[p] = None /\ \A q \in Asker : NotOfDataset(wish'[q], p)
  <2>1. p # r /\ wish[p].kind = "none"
    BY <1>3 DEF Answering, SameRequest
  <2>2. \A q \in Asker \ {r} : NotOfDataset(wish'[q], p)
    BY <2>1 DEF Answering, SameRequest, TargetsAre, NotOfDataset, Doing
  <2> QED  BY <1>1, <2>1, <2>2 DEF TargetsAre
<1> QED  BY <1>1, <1>2, <1>3

(***************************************************************************)
(* A step that only one request takes, without touching a row: what it     *)
(* leaves to show is what the request knows now.                           *)
(***************************************************************************)
rowsAndHistory == <<appOrg, devices, targets, datasets, definitions, connections, crossed, unmatched>>

(* A step of one request that changes no row. *)
LEMMA OneRequest ==
    ASSUME ConnectionsInv, NEW r \in Asker, NEW q \in C!Wish, wish' = [wish EXCEPT ![r] = q], q.kind # "none",
           UNCHANGED rowsAndHistory, WishTyped(q), PartsKnown(q), SharedRight(q),
           \/ \E f \in [C!Model -> Org] : /\ OrganizationsAre(f) /\ OrganizationKnown(q, f)
                                        /\ \A p \in Asker \ {r} : wish[p].kind = "none" => NotOfModel(q, <<p, "model">>)
           \/ \E f \in [C!Model -> Org] : OrganizationsAre(f)',
           \/ \E g \in [C!Dataset -> C!Target] : /\ TargetsAre(g) /\ TargetKnown(r, q, g)
                                              /\ \A p \in Asker \ {r} : wish[p].kind = "none" => NotOfDataset(q, p)
           \/ \E g \in [C!Dataset -> C!Target] : TargetsAre(g)'
    PROVE  ConnectionsInv'
<1> USE DEF rowsAndHistory
<1>1. wish \in [Asker -> C!Wish] /\ wish'[r] = q /\ \A p \in Asker \ {r} : wish'[p] = wish[p]
  BY DEF ConnectionsInv, C!TypeOK
<1>2. C!TypeOK'
  BY <1>1 DEF ConnectionsInv, C!TypeOK
<1>3. OfOneApplication' /\ C!ModelsMatch'
  BY DEF ConnectionsInv, OfOneApplication, C!ModelsMatch
<1>4. \A p \in Asker : WishTyped(wish'[p]) /\ PartsKnown(wish[p])' /\ SharedRight(wish'[p])
  <2>1. \A p \in Asker : PartsKnown(wish'[p])
    BY <1>1 DEF ConnectionsInv
  <2>2. \A p \in Asker : PartsKnown(wish[p])'
    BY <2>1 DEF PartsKnown
  <2>3. \A p \in Asker : WishTyped(wish'[p]) /\ SharedRight(wish'[p])
    BY <1>1 DEF ConnectionsInv
  <2> QED  BY <2>2, <2>3
<1>5. \E f \in [C!Model -> Org] : OrganizationsAre(f)'
  <2>1. ASSUME NEW f \in [C!Model -> Org], OrganizationsAre(f), OrganizationKnown(q, f),
               \A p \in Asker \ {r} : wish[p].kind = "none" => NotOfModel(q, <<p, "model">>)
        PROVE  OrganizationsAre(f)'
    <3>1. \A p \in Asker : OrganizationKnown(wish'[p], f)
      BY <1>1, <2>1 DEF OrganizationsAre
    <3>2. \A p \in Asker : OrganizationKnown(wish[p], f)'
      BY <3>1 DEF OrganizationKnown
    <3>3. \A p \in Asker : wish'[p].kind = "none" =>
            definitions[<<p, "model">>] = None /\ \A x \in Asker : NotOfModel(wish'[x], <<p, "model">>)
      BY <1>1, <2>1 DEF OrganizationsAre
    <3> QED  BY <2>1, <3>2, <3>3 DEF OrganizationsAre
  <2> QED  BY <2>1
<1>6. \E g \in [C!Dataset -> C!Target] : TargetsAre(g)'
  <2>1. ASSUME NEW g \in [C!Dataset -> C!Target], TargetsAre(g), TargetKnown(r, q, g),
               \A p \in Asker \ {r} : wish[p].kind = "none" => NotOfDataset(q, p)
        PROVE  TargetsAre(g)'
    <3>1. \A p \in Asker : TargetKnown(p, wish'[p], g)
      BY <1>1, <2>1 DEF TargetsAre
    <3>2. \A p \in Asker : TargetKnown(p, wish[p], g)'
      BY <3>1 DEF TargetKnown
    <3>3. \A p \in Asker : wish'[p].kind = "none" =>
            datasets[p] = None /\ \A x \in Asker : NotOfDataset(wish'[x], p)
      BY <1>1, <2>1 DEF TargetsAre
    <3> QED  BY <2>1, <3>2, <3>3 DEF TargetsAre
  <2> QED  BY <2>1
<1> QED  BY <1>2, <1>3, <1>4, <1>5, <1>6 DEF ConnectionsInv

(* A request that fails knows nothing more. *)
LEMMA ConnectionsFail ==
    ASSUME ConnectionsInv, NEW r \in Asker, C!Fail(r), wish[r].kind # "none"
    PROVE  ConnectionsInv'
<1> DEFINE q == C!Answered(r, "failed")
<1>1. wish \in [Asker -> C!Wish] /\ wish[r].kind \in C!Kind /\ "failed" \in C!Stage
  BY DEF ConnectionsInv, C!TypeOK, C!Wish, C!Stage
<1>2. q \in C!Wish /\ q.kind = wish[r].kind /\ q.stage = "failed"
  BY <1>1, IdleTyped DEF C!Answered, C!Wish
<1>3. wish' = [wish EXCEPT ![r] = q] /\ UNCHANGED rowsAndHistory
  BY DEF C!Fail, C!tables, rowsAndHistory
<1> HIDE DEF q
<1>4. WishTyped(q) /\ PartsKnown(q) /\ SharedRight(q)
  BY <1>2 DEF WishTyped, PartsKnown, SharedRight, Connecting, Doing
<1>5. /\ \A f : OrganizationKnown(q, f) /\ \A p \in Asker : NotOfModel(q, <<p, "model">>)
      /\ \A g : TargetKnown(r, q, g) /\ \A p \in Asker : NotOfDataset(q, p)
  BY <1>2 DEF OrganizationKnown, NotOfModel, TargetKnown, NotOfDataset, Doing
<1>6. /\ \E f \in [C!Model -> Org] : OrganizationsAre(f)
      /\ \E g \in [C!Dataset -> C!Target] : TargetsAre(g)
  BY DEF ConnectionsInv
<1> QED  BY <1>2, <1>3, <1>4, <1>5, <1>6, OneRequest
-----------------------------------------------------------------------------
(***************************************************************************)
(* Requests begin, and go on.  Most kinds know nothing that the rows of    *)
(* definitions and datasets could contradict.                              *)
(***************************************************************************)
LEMMA ConnectionsBegin ==
    ASSUME ConnectionsInv, NEW r \in Asker, NEW q \in C!Wish, C!Begin(r, q) \/ C!Goto(r, q),
           q.kind \in {"connection", "device", "devices", "unlink", "application"},
           q.stage \in {"target", "decoder", "model", "save"},
           q.kind \in {"device", "devices"} => q.stage = "model",
           WishTyped(q), PartsKnown(q)
    PROVE  ConnectionsInv'
<1>1. wish' = [wish EXCEPT ![r] = q] /\ UNCHANGED rowsAndHistory
  BY DEF C!Begin, C!Goto, C!tables, rowsAndHistory
<1>2. SharedRight(q) /\ q.kind # "none"
  BY DEF SharedRight
<1>3. /\ \A f : OrganizationKnown(q, f) /\ \A p \in Asker : NotOfModel(q, <<p, "model">>)
      /\ \A g : TargetKnown(r, q, g) /\ \A p \in Asker : NotOfDataset(q, p)
  BY DEF OrganizationKnown, NotOfModel, TargetKnown, NotOfDataset, Doing
<1>4. /\ \E f \in [C!Model -> Org] : OrganizationsAre(f)
      /\ \E g \in [C!Dataset -> C!Target] : TargetsAre(g)
  BY DEF ConnectionsInv
<1> QED  BY <1>1, <1>2, <1>3, <1>4, OneRequest

(* A connection is saved from the devices and the target it has found. *)
LEMMA ConnectBegins ==
    ASSUME ConnectionsInv, NEW r \in Asker, NEW c \in C!Connection, NEW ds \in SUBSET Device, NEW t \in C!Target,
           NEW p \in C!Decoder \cup {None, C!Keep}, C!BeginConnect(r, c, ds, t, p)
    PROVE  ConnectionsInv'
<1> DEFINE here == {d \in ds : devices[d] # None}
           apps == {devices[d].app : d \in here}
           a == C!Ask("connection", "target", c)
           q == [a EXCEPT !.found = here \cup {t}, !.want = p, !.seen = apps]
<1>1. C!Begin(r, q)
  BY DEF C!BeginConnect
<1>2. "connection" \in C!Kind /\ "target" \in C!Stage /\ c \in C!Id /\ p \in C!Want
  BY DEF C!Kind, C!Stage, C!Id, C!Want
<1>3. a \in C!Wish /\ a.kind = "connection" /\ a.stage = "target" /\ a.id = c
  BY <1>2, AskTyped
<1>4. apps \in C!Seen
  BY DEF ConnectionsInv, C!TypeOK, C!DeviceRow, C!Seen
<1>5. here \cup {t} \in SUBSET (Device \cup C!Target)
  OBVIOUS
<1>6. (here \cup {t}) \cap Device = here /\ here \in SUBSET Device
  BY Assumed
<1>7. \A d \in here : devices[d] # None /\ devices[d].app \in apps
  OBVIOUS
<1> HIDE DEF a, apps, here
<1>8. q \in C!Wish /\ q.kind = "connection" /\ q.stage = "target" /\ q.id = c /\ q.found = here \cup {t}
      /\ q.want = p /\ q.seen = apps
  BY <1>2, <1>3, <1>4, <1>5 DEF C!Wish
<1> HIDE DEF q
<1>9. WishTyped(q)
  BY <1>6, <1>8 DEF WishTyped, Connecting, Doing
<1>10. PartsKnown(q)
  BY <1>6, <1>7, <1>8 DEF PartsKnown
<1> QED  BY <1>1, <1>8, <1>9, <1>10, ConnectionsBegin

(* A device is updated or deleted from what it was asked for. *)
LEMMA DeviceBegins ==
    ASSUME ConnectionsInv, NEW r \in Asker, NEW d \in Device,
           \/ \E a \in Applications, m \in C!Model \cup {None} : C!BeginUpdateDevice(r, d, a, m)
           \/ C!BeginDeleteDevice(r, d)
    PROVE  ConnectionsInv'
<1>1. /\ "device" \in C!Kind /\ "devices" \in C!Kind /\ "unlink" \in C!Kind
      /\ "model" \in C!Stage /\ "save" \in C!Stage /\ d \in C!Id
  BY DEF C!Kind, C!Stage, C!Id
<1>2. ASSUME NEW a \in Applications, NEW m \in C!Model \cup {None}, C!BeginUpdateDevice(r, d, a, m)
      PROVE  ConnectionsInv'
  <2>1. PICK k \in {"device", "devices"} : C!Begin(r, [C!Ask(k, "model", d) EXCEPT !.app = a, !.want = m])
    BY <1>2 DEF C!BeginUpdateDevice
  <2> DEFINE b == C!Ask(k, "model", d)
             q == [b EXCEPT !.app = a, !.want = m]
  <2>2. b \in C!Wish /\ b.kind = k /\ b.stage = "model" /\ b.id = d
    BY <1>1, AskTyped
  <2>3. m \in C!Want
    BY DEF C!Want
  <2> HIDE DEF b
  <2>4. q \in C!Wish /\ q.kind = k /\ q.stage = "model" /\ q.id = d /\ q.app = a /\ q.want = m
    BY <2>2, <2>3 DEF C!Wish
  <2>5. C!Begin(r, q)
    BY <2>1 DEF b
  <2> HIDE DEF q
  <2>6. WishTyped(q) /\ PartsKnown(q)
    BY <2>4 DEF WishTyped, PartsKnown, Connecting, Doing
  <2> QED  BY <2>4, <2>5, <2>6, ConnectionsBegin
<1>3. CASE C!BeginDeleteDevice(r, d)
  <2> DEFINE b == C!Ask("unlink", "save", d)
             q == [b EXCEPT !.seen = C!Linking(d)]
  <2>1. C!Begin(r, q)
    BY <1>3 DEF C!BeginDeleteDevice
  <2>2. b \in C!Wish /\ b.kind = "unlink" /\ b.stage = "save" /\ b.id = d
    BY <1>1, AskTyped
  <2>3. C!Linking(d) \in C!Seen
    BY DEF C!Linking, C!Seen
  <2> HIDE DEF b
  <2>4. q \in C!Wish /\ q.kind = "unlink" /\ q.stage = "save" /\ q.id = d
    BY <2>2, <2>3 DEF C!Wish
  <2> HIDE DEF q
  <2>5. WishTyped(q) /\ PartsKnown(q)
    BY <2>4 DEF WishTyped, PartsKnown, Connecting, Doing
  <2> QED  BY <2>1, <2>4, <2>5, ConnectionsBegin
<1> QED  BY <1>2, <1>3

(* An application is moved with the devices and targets it has found. *)
LEMMA ApplicationBegins ==
    ASSUME ConnectionsInv, NEW r \in Asker, NEW a \in Applications, NEW o \in Org, C!BeginUpdateApplication(r, a, o)
    PROVE  ConnectionsInv'
<1> DEFINE b == C!Ask("application", "save", a)
           hits == {d \in Device : devices[d] # None /\ devices[d].app = a} \cup {t \in C!Target : targets[t] = a}
           q == [b EXCEPT !.org = o, !.found = hits]
<1>1. C!Begin(r, q)
  BY DEF C!BeginUpdateApplication
<1>2. "application" \in C!Kind /\ "save" \in C!Stage /\ a \in C!Id
  BY DEF C!Kind, C!Stage, C!Id
<1>3. b \in C!Wish /\ b.kind = "application" /\ b.stage = "save" /\ b.id = a
  BY <1>2, AskTyped
<1>4. hits \in SUBSET (Device \cup C!Target)
  OBVIOUS
<1> HIDE DEF b, hits
<1>5. q \in C!Wish /\ q.kind = "application" /\ q.stage = "save" /\ q.id = a /\ q.org = o
  BY <1>3, <1>4 DEF C!Wish
<1> HIDE DEF q
<1>6. WishTyped(q) /\ PartsKnown(q)
  BY <1>5 DEF WishTyped, PartsKnown, Connecting, Doing
<1> QED  BY <1>1, <1>5, <1>6, ConnectionsBegin

(* A target that is given a dataset: it has one, which is its own, or the  *)
(* one that the request makes will be.                                     *)
LEMMA TargetBegins ==
    ASSUME ConnectionsInv, NEW r \in Asker, NEW t \in C!Target, NEW a \in Applications, NEW shared \in BOOLEAN,
           C!BeginTarget(r, t, a, shared)
    PROVE  ConnectionsInv'
<1> USE Assumed, Created
<1> DEFINE b == C!Ask("target", "save", t)
           s == IF ~shared THEN None
                ELSE IF C!DatasetOf(t) = {} THEN C!Another ELSE CHOOSE x \in C!DatasetOf(t) : TRUE
           q == [b EXCEPT !.app = a, !.want = s]
<1>1. C!Begin(r, q) /\ wish[r] = C!Idle
  BY DEF C!BeginTarget, C!Begin
<1>2. s \in {None, C!Another} \/ (s \in C!Dataset /\ datasets[s] = t)
  BY DEF C!DatasetOf
<1>3. "target" \in C!Kind /\ "save" \in C!Stage /\ t \in C!Id /\ s \in C!Want
  BY <1>2 DEF C!Kind, C!Stage, C!Id, C!Want
<1>4. b \in C!Wish /\ b.kind = "target" /\ b.stage = "save" /\ b.id = t
  BY <1>3, AskTyped
<1> HIDE DEF b, s
<1>5. q \in C!Wish /\ q.kind = "target" /\ q.stage = "save" /\ q.id = t /\ q.app = a /\ q.want = s
  BY <1>3, <1>4 DEF C!Wish
<1> HIDE DEF q
<1>6. wish' = [wish EXCEPT ![r] = q] /\ UNCHANGED rowsAndHistory
  BY <1>1 DEF C!Begin, C!tables, rowsAndHistory
<1>7. WishTyped(q) /\ PartsKnown(q) /\ SharedRight(q)
  BY <1>2, <1>5 DEF WishTyped, PartsKnown, SharedRight, Connecting, Doing
<1>8. (\A f : OrganizationKnown(q, f)) /\ \A p \in Asker : NotOfModel(q, <<p, "model">>)
  BY <1>5 DEF OrganizationKnown, NotOfModel, Doing
<1>9. \E f \in [C!Model -> Org] : OrganizationsAre(f)
  BY DEF ConnectionsInv
<1>10. PICK g \in [C!Dataset -> C!Target] : TargetsAre(g)
  BY DEF ConnectionsInv
<1>11. \/ TargetKnown(r, q, g) /\ \A p \in Asker \ {r} : wish[p].kind = "none" => NotOfDataset(q, p)
       \/ \E h \in [C!Dataset -> C!Target] : TargetsAre(h)'
  <2>1. CASE s = None
    BY <1>5, <2>1 DEF TargetKnown, NotOfDataset, Doing
  <2>2. CASE s \in C!Dataset /\ datasets[s] = t
    BY <1>5, <1>10, <2>2 DEF TargetsAre, TargetKnown, NotOfDataset, Doing
  <2>3. CASE s = C!Another
    <3> DEFINE h == [g EXCEPT ![r] = t]
    <3>1. h \in [C!Dataset -> C!Target] /\ h[r] = t /\ \A x \in C!Dataset \ {r} : h[x] = g[x]
      OBVIOUS
    <3> HIDE DEF h
    <3>2. datasets' = datasets /\ targets' = targets /\ appOrg' = appOrg /\ datasets[r] = None
          /\ wish'[r] = q /\ \A p \in Asker \ {r} : wish'[p] = wish[p] /\ NotOfDataset(wish[p], r)
      BY <1>1, <1>6, <1>10, IdleTyped DEF rowsAndHistory, ConnectionsInv, C!TypeOK, TargetsAre
    <3>3. \A x \in C!Dataset : datasets'[x] \in {None, "orphan", h[x]}
      BY <1>10, <3>1, <3>2 DEF TargetsAre
    <3>4. ASSUME NEW p \in Asker \ {r} PROVE TargetKnown(p, wish[p], h)'
      <4>1. TargetKnown(p, wish[p], g) /\ NotOfDataset(wish[p], r) /\ WishTyped(wish[p]) /\ wish'[p] = wish[p]
        BY <1>10, <3>2 DEF TargetsAre, ConnectionsInv
      <4>2. Doing(wish[p], {"target"}, "save") =>
              /\ wish[p].want \in C!Dataset => h[wish[p].want] = wish[p].id
              /\ wish[p].want = C!Another => h[p] = wish[p].id
        BY <3>1, <4>1 DEF TargetKnown, NotOfDataset, WishTyped
      <4>3. Doing(wish[p], {"share"}, "read") => h[wish[p].id] = g[wish[p].id]
        BY <3>1, <4>1 DEF NotOfDataset, WishTyped
      <4> QED  BY <3>2, <4>1, <4>2, <4>3 DEF TargetKnown, Doing
    <3>5. TargetKnown(r, wish[r], h)'
      BY <1>5, <2>3, <3>1, <3>2 DEF TargetKnown, Doing
    <3>6. ASSUME NEW p \in Asker, wish'[p].kind = "none"
          PROVE  datasets'[p] = None /\ \A x \in Asker : NotOfDataset(wish'[x], p)
      <4>1. p # r /\ wish[p].kind = "none"
        BY <1>5, <3>2, <3>6
      <4>2. NotOfDataset(q, p)
        BY <1>5, <2>3 DEF NotOfDataset, Doing
      <4> QED  BY <1>10, <3>2, <4>1, <4>2 DEF TargetsAre
    <3>7. TargetsAre(h)'
      BY <3>3, <3>4, <3>5, <3>6 DEF TargetsAre
    <3> QED  BY <3>1, <3>7
  <2> QED  BY <1>2, <2>1, <2>2, <2>3
<1> QED  BY <1>5, <1>6, <1>7, <1>8, <1>9, <1>10, <1>11, OneRequest

(* Editing a definition: a model keeps its organization, and a new one has *)
(* the one it is given.                                                    *)
LEMMA DefinitionBegins ==
    ASSUME ConnectionsInv, NEW r \in Asker, NEW x \in C!Decoder \cup C!Model, NEW o \in Org,
           C!BeginEditDefinition(r, x, o)
    PROVE  ConnectionsInv'
<1> USE Assumed, Created
<1> DEFINE b == C!Ask("definition", "save", x)
           q == [b EXCEPT !.org = o]
<1>1. C!Begin(r, q) /\ wish[r] = C!Idle
  BY DEF C!BeginEditDefinition, C!Begin
<1>2. "definition" \in C!Kind /\ "save" \in C!Stage /\ x \in C!Id
  BY DEF C!Kind, C!Stage, C!Id
<1>3. b \in C!Wish /\ b.kind = "definition" /\ b.stage = "save" /\ b.id = x
  BY <1>2, AskTyped
<1> HIDE DEF b
<1>4. q \in C!Wish /\ q.kind = "definition" /\ q.stage = "save" /\ q.id = x /\ q.org = o
  BY <1>3 DEF C!Wish
<1> HIDE DEF q
<1>5. wish' = [wish EXCEPT ![r] = q] /\ UNCHANGED rowsAndHistory
  BY <1>1 DEF C!Begin, C!tables, rowsAndHistory
<1>6. WishTyped(q) /\ PartsKnown(q) /\ SharedRight(q)
  BY <1>4 DEF WishTyped, PartsKnown, SharedRight, Connecting, Doing
<1>7. (\A g : TargetKnown(r, q, g)) /\ \A p \in Asker : NotOfDataset(q, p)
  BY <1>4 DEF TargetKnown, NotOfDataset, Doing
<1>8. \E g \in [C!Dataset -> C!Target] : TargetsAre(g)
  BY DEF ConnectionsInv
<1>9. PICK f \in [C!Model -> Org] : OrganizationsAre(f)
  BY DEF ConnectionsInv
<1>10. \/ OrganizationKnown(q, f) /\ \A p \in Asker \ {r} : wish[p].kind = "none" => NotOfModel(q, <<p, "model">>)
       \/ \E h \in [C!Model -> Org] : OrganizationsAre(h)'
  <2>1. CASE x # <<r, "model">>
    <3>1. x \in C!Model => definitions[x] = o \/ x = <<r, "decoder">>
      BY <2>1 DEF C!BeginEditDefinition
    <3>2. x \in C!Model => definitions[x] = o /\ o = f[x]
      BY <1>9, <3>1 DEF OrganizationsAre
    <3>3. \A p \in Asker \ {r} : wish[p].kind = "none" => x # <<p, "model">>
      BY <1>9, <3>2 DEF OrganizationsAre
    <3> QED  BY <1>4, <3>2, <3>3 DEF OrganizationKnown, NotOfModel, Doing
  <2>2. CASE x = <<r, "model">>
    <3> DEFINE h == [f EXCEPT ![x] = o]
    <3>1. h \in [C!Model -> Org] /\ h[x] = o /\ \A y \in C!Model \ {x} : h[y] = f[y]
      BY <2>2
    <3> HIDE DEF h
    <3>2. definitions' = definitions /\ appOrg' = appOrg /\ definitions[x] = None
          /\ wish'[r] = q /\ \A p \in Asker \ {r} : wish'[p] = wish[p] /\ NotOfModel(wish[p], x)
      BY <1>1, <1>5, <1>9, <2>2, IdleTyped DEF rowsAndHistory, ConnectionsInv, C!TypeOK, OrganizationsAre
    <3>3. \A y \in C!Model : definitions'[y] \in {None, h[y]}
      BY <1>9, <3>1, <3>2 DEF OrganizationsAre
    <3>4. ASSUME NEW p \in Asker \ {r} PROVE OrganizationKnown(wish[p], h)'
      <4>1. OrganizationKnown(wish[p], f) /\ NotOfModel(wish[p], x) /\ WishTyped(wish[p]) /\ wish'[p] = wish[p]
        BY <1>9, <3>2 DEF OrganizationsAre, ConnectionsInv
      <4> QED  BY <3>1, <3>2, <4>1 DEF OrganizationKnown, NotOfModel, WishTyped, Doing
    <3>5. OrganizationKnown(wish[r], h)'
      BY <1>4, <3>1, <3>2 DEF OrganizationKnown, Doing
    <3>6. ASSUME NEW p \in Asker, wish'[p].kind = "none"
          PROVE  definitions'[<<p, "model">>] = None /\ \A y \in Asker : NotOfModel(wish'[y], <<p, "model">>)
      <4>1. p # r /\ wish[p].kind = "none"
        BY <1>4, <3>2, <3>6
      <4>2. NotOfModel(q, <<p, "model">>)
        BY <1>4, <2>2, <4>1 DEF NotOfModel, Doing
      <4> QED  BY <1>9, <3>2, <4>1, <4>2 DEF OrganizationsAre
    <3>7. OrganizationsAre(h)'
      BY <3>3, <3>4, <3>5, <3>6 DEF OrganizationsAre
    <3> QED  BY <3>1, <3>7
  <2> QED  BY <2>1, <2>2
<1> QED  BY <1>4, <1>5, <1>6, <1>7, <1>8, <1>9, <1>10, OneRequest

(* A dataset is asked for: it has the target that it will always have.     *)
LEMMA ShareBegins ==
    ASSUME ConnectionsInv, NEW r \in Asker, NEW s \in C!Dataset, NEW o \in Org, C!GetData(r, s, o)
    PROVE  ConnectionsInv'
<1> USE Assumed, Created
<1> DEFINE b == C!Ask("share", "read", s)
           q == [b EXCEPT !.org = o, !.found = {datasets[s]}]
<1>1. C!Begin(r, q) /\ wish[r] = C!Idle /\ datasets[s] \in C!Target /\ C!OrgOfTarget(datasets[s]) = o
  BY DEF C!GetData, C!Begin, C!FindShared
<1>2. "share" \in C!Kind /\ "read" \in C!Stage /\ s \in C!Id
  BY DEF C!Kind, C!Stage, C!Id
<1>3. b \in C!Wish /\ b.kind = "share" /\ b.stage = "read" /\ b.id = s
  BY <1>2, AskTyped
<1> HIDE DEF b
<1>4. q \in C!Wish /\ q.kind = "share" /\ q.stage = "read" /\ q.id = s /\ q.org = o /\ q.found = {datasets[s]}
  BY <1>1, <1>3 DEF C!Wish
<1> HIDE DEF q
<1>5. wish' = [wish EXCEPT ![r] = q] /\ UNCHANGED rowsAndHistory
  BY <1>1 DEF C!Begin, C!tables, rowsAndHistory
<1>6. WishTyped(q) /\ PartsKnown(q) /\ SharedRight(q)
  BY <1>4 DEF WishTyped, PartsKnown, SharedRight, Connecting, Doing
<1>7. (\A f : OrganizationKnown(q, f)) /\ \A p \in Asker : NotOfModel(q, <<p, "model">>)
  BY <1>4 DEF OrganizationKnown, NotOfModel, Doing
<1>8. \E f \in [C!Model -> Org] : OrganizationsAre(f)
  BY DEF ConnectionsInv
<1>9. PICK g \in [C!Dataset -> C!Target] : TargetsAre(g)
  BY DEF ConnectionsInv
<1>10. datasets[s] = g[s] /\ targets[g[s]] \in Applications /\ appOrg[targets[g[s]]] = o
  BY <1>1, <1>9 DEF TargetsAre, C!OrgOfTarget
<1>11. TargetKnown(r, q, g) /\ \A p \in Asker \ {r} : wish[p].kind = "none" => NotOfDataset(q, p)
  BY <1>1, <1>4, <1>9, <1>10 DEF TargetsAre, TargetKnown, NotOfDataset, Doing
<1> QED  BY <1>4, <1>5, <1>6, <1>7, <1>8, <1>9, <1>11, OneRequest
-----------------------------------------------------------------------------
(* The steps of a request that only reads: the target, and the decoder, of *)
(* a connection ...                                                        *)
LEMMA TargetMapped ==
    ASSUME ConnectionsInv, NEW r \in Asker, C!MapDataTarget(r)
    PROVE  ConnectionsInv'
<1> DEFINE w == wish[r]
           t == C!TargetOf(w)
           q == [w EXCEPT !.stage = "decoder", !.seen = @ \cup {targets[t]}]
<1>1. w \in C!Wish /\ w.kind = "connection" /\ w.stage = "target" /\ "decoder" \in C!Stage
  BY DEF C!MapDataTarget, C!At, ConnectionsInv, C!TypeOK, C!Stage
<1>2. WishTyped(w) /\ PartsKnown(w)
  BY DEF ConnectionsInv
<1>3. t \in C!Target
  BY <1>1, <1>2 DEF WishTyped, Connecting, C!TargetOf
<1>4. CASE C!Fail(r)
  BY <1>1, <1>4, ConnectionsFail
<1>5. CASE targets[t] # None /\ C!Goto(r, q)
  <2>1. targets[t] \in C!Place
    BY <1>3, <1>5 DEF ConnectionsInv, C!TypeOK
  <2>2. w.seen \cup {targets[t]} \in C!Seen
    BY <1>1, <2>1 DEF C!Wish, C!Seen
  <2>3. /\ q \in C!Wish /\ q.kind = "connection" /\ q.stage = "decoder" /\ q.id = w.id /\ q.found = w.found
        /\ q.want = w.want /\ q.seen = w.seen \cup {targets[t]} /\ q.moved = w.moved
    BY <1>1, <2>2 DEF C!Wish
  <2>4. C!TargetOf(q) = t
    BY <2>3 DEF C!TargetOf
  <2> HIDE DEF q
  <2>5. WishTyped(q)
    BY <1>1, <1>2, <2>3 DEF WishTyped, Connecting, Doing
  <2>6. PartsKnown(q)
    BY <1>1, <1>2, <2>3, <2>4 DEF PartsKnown, Connecting
  <2> QED  BY <1>5, <2>3, <2>5, <2>6, ConnectionsBegin
<1> QED  BY <1>4, <1>5 DEF C!MapDataTarget

(* The devices were found to be of one application with the target. *)
LEMMA DecoderMapped ==
    ASSUME ConnectionsInv, NEW r \in Asker, C!MapPayloadDecoder(r)
    PROVE  ConnectionsInv'
<1> DEFINE w == wish[r]
           q == [w EXCEPT !.stage = "save"]
<1>1. w \in C!Wish /\ w.kind = "connection" /\ w.stage = "decoder" /\ "save" \in C!Stage
  BY DEF C!MapPayloadDecoder, C!At, ConnectionsInv, C!TypeOK, C!Stage
<1>2. WishTyped(w) /\ PartsKnown(w)
  BY DEF ConnectionsInv
<1>3. CASE C!Fail(r)
  BY <1>1, <1>3, ConnectionsFail
<1>4. CASE C!SameApplication(w) /\ C!Goto(r, q)
  <2>1. /\ q \in C!Wish /\ q.kind = "connection" /\ q.stage = "save" /\ q.id = w.id /\ q.found = w.found
        /\ q.want = w.want /\ q.seen = w.seen /\ q.moved = w.moved
    BY <1>1 DEF C!Wish
  <2>2. C!TargetOf(q) = C!TargetOf(w) /\ C!SameApplication(q)
    BY <1>4, <2>1 DEF C!TargetOf, C!SameApplication
  <2> HIDE DEF q
  <2>3. WishTyped(q)
    BY <1>1, <1>2, <2>1 DEF WishTyped, Connecting, Doing
  <2>4. PartsKnown(q)
    BY <1>1, <1>2, <2>1, <2>2 DEF PartsKnown, Connecting
  <2> QED  BY <1>4, <2>1, <2>3, <2>4, ConnectionsBegin
<1> QED  BY <1>3, <1>4 DEF C!MapPayloadDecoder

(* ... the model of a device ...                                           *)
LEMMA ModelMapped ==
    ASSUME ConnectionsInv, NEW r \in Asker, C!MapDeviceModel(r)
    PROVE  ConnectionsInv'
<1> USE Assumed, Created
<1> DEFINE w == wish[r]
           e == w.want # None /\ ~C!Assignable(w.want, w.app)
           q == [w EXCEPT !.stage = "save", !.error = e]
<1>1. w \in C!Wish /\ w.kind \in {"device", "devices"} /\ w.stage = "model" /\ "save" \in C!Stage
  BY DEF C!MapDeviceModel, C!At, ConnectionsInv, C!TypeOK, C!Stage
<1>2. WishTyped(w)
  BY DEF ConnectionsInv
<1>3. CASE C!Fail(r)
  BY <1>1, <1>3, ConnectionsFail
<1>4. CASE C!Goto(r, q)
  <2>1. e \in BOOLEAN /\ (~e => w.want = None \/ definitions[w.want] = appOrg[w.app])
    BY DEF C!Assignable
  <2> HIDE DEF e
  <2>2. /\ q \in C!Wish /\ q.kind = w.kind /\ q.stage = "save" /\ q.id = w.id /\ q.app = w.app
        /\ q.want = w.want
    BY <1>1, <2>1 DEF C!Wish
  <2>3. q.error <=> e
    BY <1>1, <2>1 DEF C!Wish
  <2> HIDE DEF q
  <2>4. WishTyped(q) /\ PartsKnown(q) /\ SharedRight(q)
    BY <1>1, <1>2, <2>2 DEF WishTyped, PartsKnown, SharedRight, Connecting, Doing
  <2>5. wish' = [wish EXCEPT ![r] = q] /\ UNCHANGED rowsAndHistory
    BY <1>4 DEF C!Goto, C!tables, rowsAndHistory
  <2>6. (\A g : TargetKnown(r, q, g)) /\ \A p \in Asker : NotOfDataset(q, p)
    BY <1>1, <2>2 DEF TargetKnown, NotOfDataset, Doing
  <2>7. \E g \in [C!Dataset -> C!Target] : TargetsAre(g)
    BY DEF ConnectionsInv
  <2>8. PICK f \in [C!Model -> Org] : OrganizationsAre(f)
    BY DEF ConnectionsInv
  <2>9. w.want \in C!Model \cup {None} /\ w.app \in Applications /\ appOrg \in [Applications -> Org]
    BY <1>1, <1>2 DEF WishTyped, Doing, ConnectionsInv, C!TypeOK
  <2>10. OrganizationKnown(q, f)
    BY <1>1, <2>1, <2>2, <2>3, <2>8, <2>9 DEF OrganizationsAre, OrganizationKnown, Doing
  <2>11. \A p \in Asker \ {r} : wish[p].kind = "none" => NotOfModel(q, <<p, "model">>)
    <3> SUFFICES ASSUME NEW p \in Asker \ {r}, wish[p].kind = "none" PROVE NotOfModel(q, <<p, "model">>)
      OBVIOUS
    <3>1. ~e => w.want # <<p, "model">>
      <4>1. definitions[<<p, "model">>] = None
        BY <2>8 DEF OrganizationsAre
      <4>2. <<p, "model">> # None
        <5>1. <<p, "model">> \in C!Model /\ None \notin C!Model
          BY Assumed, Created
        <5> QED  BY <5>1
      <4>3. ~e => w.want = None \/ definitions[w.want] # None
        BY <2>1, <2>9
      <4> QED  BY <4>1, <4>2, <4>3
    <3> QED  BY <1>1, <2>2, <2>3, <3>1 DEF NotOfModel, Doing
  <2> QED  BY <1>1, <2>2, <2>4, <2>5, <2>6, <2>7, <2>8, <2>10, <2>11, OneRequest
<1> QED  BY <1>3, <1>4 DEF C!MapDeviceModel

(* ... and the data of a dataset: the devices that are connected to its    *)
(* target are of the target's application, hence of its organization.      *)
LEMMA DataGiven ==
    ASSUME ConnectionsInv, NEW r \in Asker, C!GetDecodedDataInDataset(r)
    PROVE  ConnectionsInv'
<1> USE Assumed, Created
<1> DEFINE w == wish[r]
           shared == {c \in C!Connection : connections[c] # None /\ connections[c].target = datasets[w.id]}
           given == {d \in Device : C!Linking(d) \cap (shared \ crossed) # {}}
           orgs == {appOrg[a] : a \in Applications \cap {devices[d].app : d \in given}}
           b == C!Ask("share", "done", None)
           q == [b EXCEPT !.org = w.org, !.moved = w.moved, !.seen = orgs]
<1>1. w \in C!Wish /\ w.kind = "share" /\ w.stage = "read" /\ C!Goto(r, q)
  BY DEF C!GetDecodedDataInDataset, C!At, ConnectionsInv, C!TypeOK
<1>2. "share" \in C!Kind /\ "done" \in C!Stage /\ None \in C!Id
  BY DEF C!Kind, C!Stage, C!Id
<1>3. b \in C!Wish /\ b.kind = "share" /\ b.stage = "done"
  BY <1>2, AskTyped
<1>4. PICK g \in [C!Dataset -> C!Target] : TargetsAre(g)
  BY DEF ConnectionsInv
<1>5. w.id \in C!Dataset /\ TargetKnown(r, w, g) /\ datasets[w.id] \in {None, "orphan", g[w.id]}
  BY <1>1, <1>4 DEF ConnectionsInv, WishTyped, Doing, TargetsAre
<1>6. ASSUME NEW a \in Applications \cap {devices[d].app : d \in given}, ~w.moved PROVE appOrg[a] = w.org
  <2>1. PICK d \in Device : d \in given /\ a = devices[d].app
    OBVIOUS
  <2>2. PICK c \in C!Connection \ crossed :
           connections[c] # None /\ connections[c].target = datasets[w.id] /\ d \in connections[c].devices
    BY <2>1 DEF C!Linking
  <2>3. targets[connections[c].target] = a /\ connections[c].target \in C!Target
    BY <2>1, <2>2 DEF ConnectionsInv, OfOneApplication, C!TypeOK, C!Link
  <2>4. datasets[w.id] = g[w.id]
    BY <1>5, <2>2, <2>3
  <2> QED  BY <1>1, <1>5, <1>6, <2>2, <2>3, <2>4 DEF TargetKnown, Doing
<1>7. orgs \in C!Seen /\ (~w.moved => orgs \subseteq {w.org})
  <2>1. \A a \in Applications : appOrg[a] \in Org
    BY DEF ConnectionsInv, C!TypeOK
  <2> QED  BY <1>6, <2>1 DEF C!Seen
<1> HIDE DEF b, orgs
<1>8. q \in C!Wish /\ q.kind = "share" /\ q.stage = "done" /\ q.org = w.org /\ q.seen = orgs /\ q.moved = w.moved
  BY <1>1, <1>3, <1>7 DEF C!Wish
<1> HIDE DEF q
<1>9. wish' = [wish EXCEPT ![r] = q] /\ UNCHANGED rowsAndHistory
  BY <1>1 DEF C!Goto, C!tables, rowsAndHistory
<1>10. WishTyped(q) /\ PartsKnown(q) /\ SharedRight(q)
  BY <1>7, <1>8 DEF WishTyped, PartsKnown, SharedRight, Connecting, Doing
<1>11. /\ (\A f : OrganizationKnown(q, f)) /\ \A p \in Asker : NotOfModel(q, <<p, "model">>)
       /\ (\A h : TargetKnown(r, q, h)) /\ \A p \in Asker : NotOfDataset(q, p)
  BY <1>8 DEF OrganizationKnown, NotOfModel, TargetKnown, NotOfDataset, Doing
<1>12. \E f \in [C!Model -> Org] : OrganizationsAre(f)
  BY DEF ConnectionsInv
<1> QED  BY <1>4, <1>8, <1>9, <1>10, <1>11, <1>12, OneRequest
-----------------------------------------------------------------------------
(***************************************************************************)
(* The steps that save or delete rows.  A model's organization and a       *)
(* dataset's target are what they were, or what the request r that saves   *)
(* them has read, or been given.                                           *)
(***************************************************************************)
DefinitionsKept(r) ==
    \A x \in C!Model :
        \/ definitions'[x] \in {None, definitions[x]}
        \/ Doing(wish[r], {"definition"}, "save") /\ x = wish[r].id /\ definitions'[x] = wish[r].org
DatasetsKept(r) ==
    \A s \in C!Dataset :
        \/ datasets'[s] \in {None, datasets[s]}
        \/ datasets[s] # None /\ datasets'[s] = "orphan"
        \/ /\ Doing(wish[r], {"target"}, "save") /\ datasets'[s] = wish[r].id
           /\ s = wish[r].want \/ (wish[r].want = C!Another /\ s = r)

(* What is left to show of such a step is what becomes of the rows.        *)
LEMMA RowsChanged ==
    ASSUME ConnectionsInv, NEW r \in Asker, NEW marked, Answering(r, marked), Marks(marked),
           C!TypeOK', OfOneApplication', C!ModelsMatch', DefinitionsKept(r), DatasetsKept(r)
    PROVE  ConnectionsInv'
<1> USE Assumed, Created
<1>1. \A p \in Asker : (WishTyped(wish[p]) /\ PartsKnown(wish[p]) /\ SharedRight(wish[p]))'
  BY RequestsKept
<1>2. \A p \in Asker : wish'[p].kind = "none" => p # r /\ wish[p].kind = "none"
  BY DEF Answering, SameRequest
<1>3. \E f \in [C!Model -> Org] : OrganizationsAre(f)'
  <2>1. PICK f \in [C!Model -> Org] : OrganizationsAre(f)
    BY DEF ConnectionsInv
  <2>2. \A x \in C!Model : definitions'[x] \in {None, f[x]}
    BY <2>1 DEF DefinitionsKept, OrganizationsAre, OrganizationKnown, Doing
  <2>3. ASSUME NEW p \in Asker, wish'[p].kind = "none" PROVE definitions'[<<p, "model">>] = None
    <3>1. definitions[<<p, "model">>] = None /\ NotOfModel(wish[r], <<p, "model">>)
      BY <1>2, <2>1, <2>3 DEF OrganizationsAre
    <3> QED  BY <3>1 DEF DefinitionsKept, NotOfModel
  <2>4. /\ \A p \in Asker : OrganizationKnown(wish[p], f)'
        /\ \A p \in Asker : wish'[p].kind = "none" => \A q \in Asker : NotOfModel(wish'[q], <<p, "model">>)
    BY <2>1, OrganizationsKnown
  <2> QED  BY <2>2, <2>3, <2>4 DEF OrganizationsAre
<1>4. \E g \in [C!Dataset -> C!Target] : TargetsAre(g)'
  <2>1. PICK g \in [C!Dataset -> C!Target] : TargetsAre(g)
    BY DEF ConnectionsInv
  <2>2. \A s \in C!Dataset : datasets'[s] \in {None, "orphan", g[s]}
    BY <2>1 DEF DatasetsKept, TargetsAre, TargetKnown, Doing
  <2>3. ASSUME NEW p \in Asker, wish'[p].kind = "none" PROVE datasets'[p] = None
    <3>1. datasets[p] = None /\ NotOfDataset(wish[r], p) /\ p # r
      BY <1>2, <2>1, <2>3 DEF TargetsAre
    <3> QED  BY <3>1 DEF DatasetsKept, NotOfDataset
  <2>4. /\ \A p \in Asker : TargetKnown(p, wish[p], g)'
        /\ \A p \in Asker : wish'[p].kind = "none" => \A q \in Asker : NotOfDataset(wish'[q], p)
    BY <2>1, TargetsKnown
  <2> QED  BY <2>2, <2>3, <2>4 DEF TargetsAre
<1> QED  BY <1>1, <1>3, <1>4 DEF ConnectionsInv

(* A connection is saved: its target is there, and its devices and it are  *)
(* of the application that all of them had, unless one has been moved.     *)
LEMMA ConnectionSaved ==
    ASSUME ConnectionsInv, NEW r \in Asker, C!SaveConnection(r)
    PROVE  ConnectionsInv'
<1> USE Assumed
<1> DEFINE q == wish[r]
           kept == IF connections[q.id] = None THEN None ELSE connections[q.id].decoder
           decoder == IF q.want = C!Keep THEN kept ELSE q.want
           t == C!TargetOf(q)
           link == [devices |-> q.found \cap Device, decoder |-> decoder, target |-> t]
<1>1. q \in C!Wish /\ q.kind = "connection" /\ q.stage = "save" /\ C!TypeOK
  BY DEF C!SaveConnection, C!At, ConnectionsInv, C!TypeOK
<1>2. WishTyped(q) /\ PartsKnown(q)
  BY DEF ConnectionsInv
<1>3. /\ t \in C!Target /\ t \in q.found /\ q.id \in C!Connection
      /\ q.want \in C!Decoder \cup {None, C!Keep}
  BY <1>1, <1>2 DEF WishTyped, Connecting, C!TargetOf
<1>4. CASE C!Fail(r)
  BY <1>1, <1>4, ConnectionsFail
<1>5. ASSUME \A d \in q.found \cap Device : devices[d] # None, targets[t] # None,
             decoder # None => definitions[decoder] # None,
             connections' = [connections EXCEPT ![q.id] = link],
             crossed' = (crossed \ {q.id}) \cup (IF q.moved THEN {q.id} ELSE {}),
             C!AnswerAndMark(r, {}),
             UNCHANGED <<appOrg, devices, targets, datasets, definitions, unmatched>>
      PROVE  ConnectionsInv'
  <2>1. Answering(r, {}) /\ Marks({})
    BY <1>1, <1>5, AnswerMarks DEF Marks
  <2>2. decoder \in C!Decoder \cup {None}
    BY <1>1, <1>3 DEF C!TypeOK, C!Link
  <2>3. link \in C!Link
    BY <1>3, <2>2 DEF C!Link
  <2>4. link.devices = q.found \cap Device /\ link.decoder = decoder /\ link.target = t
    OBVIOUS
  <2> HIDE DEF link, decoder
  <2>5. C!TypeOK'
    <3>1. connections' \in [C!Connection -> C!Link \cup {None}] /\ wish' \in [Asker -> C!Wish]
      BY <1>1, <1>5, <2>1, <2>3 DEF C!TypeOK, Answering
    <3>2. \A c \in C!Connection : connections'[c] # None =>
           /\ \A d \in connections'[c].devices : devices[d] # None
           /\ targets[connections'[c].target] # None
           /\ connections'[c].decoder # None => definitions[connections'[c].decoder] # None
      BY <1>1, <1>3, <1>5, <2>4 DEF C!TypeOK
    <3>3. crossed' \subseteq C!Connection
      BY <1>1, <1>3, <1>5 DEF C!TypeOK
    <3> QED  BY <1>1, <1>5, <3>1, <3>2, <3>3 DEF C!TypeOK
  <2>6. OfOneApplication'
    <3>1. ~q.moved => \E a \in Applications : targets[t] = a /\ \A d \in link.devices : devices[d].app = a
      BY <1>1, <1>2, <1>5, <2>4 DEF PartsKnown, Connecting, C!SameApplication
    <3>2. connections \in [C!Connection -> C!Link \cup {None}]
      BY <1>1 DEF C!TypeOK
    <3>3. ASSUME NEW c \in C!Connection \ crossed', connections'[c] # None
          PROVE  \E a \in Applications : /\ targets[connections'[c].target] = a
                                         /\ \A d \in connections'[c].devices : devices[d].app = a
      <4>1. CASE c = q.id
        BY <1>3, <1>5, <2>4, <3>1, <3>2, <3>3, <4>1
      <4>2. CASE c # q.id
        BY <1>5, <3>2, <3>3, <4>2 DEF ConnectionsInv, OfOneApplication
      <4> QED  BY <4>1, <4>2
    <3> QED  BY <1>5, <3>3 DEF OfOneApplication
  <2>7. C!ModelsMatch' /\ DefinitionsKept(r) /\ DatasetsKept(r)
    BY <1>5 DEF ConnectionsInv, C!ModelsMatch, DefinitionsKept, DatasetsKept
  <2> QED  BY <2>1, <2>5, <2>6, <2>7, RowsChanged
<1> QED  BY <1>4, <1>5 DEF C!SaveConnection

(* A deleted connection joins nothing. *)
LEMMA ConnectionDeleted ==
    ASSUME ConnectionsInv, NEW r \in Asker, NEW c \in C!Connection, C!DeleteConnection(r, c)
    PROVE  ConnectionsInv'
<1> USE Assumed DEF C!DeleteConnection
<1>1. Answering(r, {}) /\ Marks({})
  BY DeleteAnswers DEF ConnectionsInv, Marks
<1>2. C!TypeOK'
  <2>1. C!TypeOK /\ wish' \in [Asker -> C!Wish]
    BY <1>1 DEF ConnectionsInv, Answering
  <2>2. connections' \in [C!Connection -> C!Link \cup {None}]
    BY <2>1 DEF C!TypeOK
  <2> QED  BY <2>1, <2>2 DEF C!TypeOK
<1>3. OfOneApplication' /\ C!ModelsMatch' /\ DefinitionsKept(r) /\ DatasetsKept(r)
  BY DEF ConnectionsInv, C!TypeOK, OfOneApplication, C!ModelsMatch, DefinitionsKept, DatasetsKept
<1> QED  BY <1>1, <1>2, <1>3, RowsChanged

(* A target that is given another application takes its connections along: *)
(* they count as crossed.                                                  *)
LEMMA TargetSaved ==
    ASSUME ConnectionsInv, NEW r \in Asker, C!SaveTarget(r)
    PROVE  ConnectionsInv'
<1> USE Assumed, Created
<1> DEFINE q == wish[r]
           s == IF q.want = C!Another THEN r ELSE q.want
           leaving == IF targets[q.id] = q.app THEN {} ELSE {q.id}
<1>1. q \in C!Wish /\ q.kind = "target" /\ q.stage = "save" /\ C!TypeOK
  BY DEF C!SaveTarget, C!At, ConnectionsInv, C!TypeOK
<1>2. q.id \in C!Target /\ q.app \in Applications /\ q.want \in C!Dataset \cup {None, C!Another}
  BY <1>1 DEF ConnectionsInv, WishTyped, Doing
<1>3. CASE C!Fail(r)
  BY <1>1, <1>3, ConnectionsFail
<1>4. ASSUME targets' = [targets EXCEPT ![q.id] = q.app], datasets' = C!Relinked(q.id, s),
             C!AnswerAndMark(r, leaving), crossed' = crossed \cup C!ConnectionsOf(leaving),
             UNCHANGED <<appOrg, devices, definitions, connections, unmatched>>
      PROVE  ConnectionsInv'
  <2>1. leaving \subseteq {q.id} /\ (q.id \notin leaving => targets' = targets)
    BY <1>1, <1>2, <1>4 DEF C!TypeOK
  <2> HIDE DEF leaving
  <2>2. targets' \in [C!Target -> C!Place \cup {None}] /\ \A t \in C!Target : targets[t] # None => targets'[t] # None
    BY <1>1, <1>2, <1>4 DEF C!TypeOK, C!Place
  <2>3. Answering(r, leaving) /\ Marks(leaving)
    <3>1. Answering(r, leaving)
      BY <1>1, <1>4, AnswerMarks
    <3>2. \A t \in C!Target \ leaving : targets'[t] = targets[t]
      BY <1>1, <1>2, <1>4, <2>1 DEF C!TypeOK
    <3> QED  BY <1>4, <3>1, <3>2 DEF Marks
  <2>4. \A x \in C!Dataset : datasets'[x] = IF x = s THEN q.id ELSE IF datasets[x] = q.id THEN "orphan" ELSE datasets[x]
    BY <1>4 DEF C!Relinked
  <2>5. C!TypeOK'
    <3>1. datasets' = [x \in C!Dataset |-> datasets'[x]]
      BY <1>4 DEF C!Relinked
    <3>2. datasets' \in [C!Dataset -> C!Target \cup {None, "orphan"}]
      BY <1>1, <1>2, <2>4, <3>1 DEF C!TypeOK
    <3>3. \A x \in C!Dataset : datasets'[x] \in C!Target => targets'[datasets'[x]] # None
      BY <1>1, <1>2, <1>4, <2>2, <2>4 DEF C!TypeOK
    <3>4. crossed' \subseteq C!Connection /\ wish' \in [Asker -> C!Wish]
      BY <1>1, <1>4, <2>3 DEF C!TypeOK, C!ConnectionsOf, Answering
    <3>5. \A c \in C!Connection : connections[c] # None => connections[c].target \in C!Target
      BY <1>1 DEF C!TypeOK, C!Link
    <3> QED  BY <1>1, <1>4, <2>2, <3>2, <3>3, <3>4, <3>5 DEF C!TypeOK
  <2>6. OfOneApplication'
    <3>1. ASSUME NEW c \in C!Connection \ crossed', connections[c] # None
          PROVE  c \notin crossed /\ targets'[connections[c].target] = targets[connections[c].target]
      <4>1. connections[c].target \in C!Target \ leaving
        BY <1>1, <1>4, <3>1 DEF C!ConnectionsOf, C!TypeOK, C!Link
      <4> QED  BY <1>1, <1>2, <1>4, <2>1, <3>1, <4>1 DEF C!TypeOK
    <3> QED  BY <1>4, <3>1 DEF ConnectionsInv, OfOneApplication
  <2>7. C!ModelsMatch' /\ DefinitionsKept(r)
    BY <1>4 DEF ConnectionsInv, C!ModelsMatch, DefinitionsKept
  <2>8. DatasetsKept(r)
    BY <1>1, <1>2, <2>4 DEF DatasetsKept, Doing
  <2> QED  BY <2>3, <2>5, <2>6, <2>7, <2>8, RowsChanged
<1> QED  BY <1>3, <1>4 DEF C!SaveTarget

(* A deleted target takes its dataset and its connections with it. *)
LEMMA TargetDeleted ==
    ASSUME ConnectionsInv, NEW r \in Asker, NEW t \in C!Target, C!DeleteTarget(r, t)
    PROVE  ConnectionsInv'
<1> USE Assumed
<1>1. C!TypeOK /\ wish' = [wish EXCEPT ![r] = C!Ask("delete", "done", None)]
  BY DEF ConnectionsInv, C!DeleteTarget
<1>2. /\ targets' = [targets EXCEPT ![t] = None]
      /\ datasets' = [s \in C!Dataset |-> IF datasets[s] = t THEN None ELSE datasets[s]]
      /\ connections' = [c \in C!Connection |-> IF c \in C!ConnectionsOf({t}) THEN None ELSE connections[c]]
      /\ UNCHANGED <<appOrg, devices, definitions, crossed, unmatched>>
  BY DEF C!DeleteTarget
<1>3. \A c \in C!Connection : connections'[c] # None =>
         connections'[c] = connections[c] /\ connections[c] \in C!Link /\ connections[c].target \in C!Target \ {t}
  BY <1>1, <1>2 DEF C!ConnectionsOf, C!TypeOK, C!Link
<1>4. Answering(r, {}) /\ Marks({})
  BY <1>1, <1>2, DeleteAnswers DEF Marks, C!TypeOK
<1>5. C!TypeOK'
  <2>1. targets' \in [C!Target -> C!Place \cup {None}] /\ wish' \in [Asker -> C!Wish]
    BY <1>1, <1>2, <1>4 DEF C!TypeOK, Answering
  <2>2. /\ datasets' \in [C!Dataset -> C!Target \cup {None, "orphan"}]
        /\ \A s \in C!Dataset : datasets'[s] \in C!Target => targets'[datasets'[s]] # None
    BY <1>1, <1>2 DEF C!TypeOK
  <2>3. connections' \in [C!Connection -> C!Link \cup {None}]
    BY <1>2, <1>3
  <2>4. \A c \in C!Connection : connections'[c] # None =>
           /\ \A d \in connections'[c].devices : devices'[d] # None
           /\ targets'[connections'[c].target] # None
           /\ connections'[c].decoder # None => definitions'[connections'[c].decoder] # None
    BY <1>1, <1>2, <1>3 DEF C!TypeOK
  <2> QED  BY <1>1, <1>2, <2>1, <2>2, <2>3, <2>4 DEF C!TypeOK
<1>6. OfOneApplication'
  <2>1. \A c \in C!Connection : connections'[c] # None => targets'[connections[c].target] = targets[connections[c].target]
    BY <1>1, <1>2, <1>3 DEF C!TypeOK
  <2>2. ASSUME NEW c \in C!Connection \ crossed', connections'[c] # None
        PROVE  \E a \in Applications : /\ targets'[connections'[c].target] = a
                                       /\ \A d \in connections'[c].devices : devices'[d].app = a
    <3>1. connections[c] = connections'[c] /\ c \notin crossed /\ devices' = devices
      BY <1>2, <1>3, <2>2
    <3> QED  BY <2>1, <2>2, <3>1 DEF ConnectionsInv, OfOneApplication
  <2> QED  BY <2>2 DEF OfOneApplication
<1>7. C!ModelsMatch' /\ DefinitionsKept(r) /\ DatasetsKept(r)
  BY <1>2 DEF ConnectionsInv, C!ModelsMatch, DefinitionsKept, DatasetsKept
<1> QED  BY <1>4, <1>5, <1>6, <1>7, RowsChanged

(* A device is saved with the model that was found to be of its            *)
(* application's organization, or with the one that it has.                *)
LEMMA DeviceSaved ==
    ASSUME ConnectionsInv, NEW r \in Asker, C!SaveDevice(r)
    PROVE  ConnectionsInv'
<1> USE Assumed
<1> DEFINE q == wish[r]
           d == q.id
           old == devices[d]
           kept == q.error \/ q.want = None
           model == IF ~kept THEN q.want ELSE IF old = None THEN None ELSE old.model
           leaving == IF old # None /\ old.app = q.app THEN {} ELSE {d}
           row == [app |-> q.app, model |-> model]
<1>1. q \in C!Wish /\ q.kind \in {"device", "devices"} /\ q.stage = "save" /\ C!TypeOK
  BY DEF C!SaveDevice, C!At, ConnectionsInv, C!TypeOK
<1>2. d \in Device /\ q.app \in Applications /\ q.want \in C!Model \cup {None}
  BY <1>1 DEF ConnectionsInv, WishTyped, Doing
<1>3. CASE C!Fail(r)
  BY <1>1, <1>3, ConnectionsFail
<1>4. ASSUME model # None => definitions[model] # None,
             devices' = [devices EXCEPT ![d] = row],
             unmatched' = IF (kept /\ leaving # {}) \/ q.moved THEN unmatched \cup {d}
                          ELSE IF kept THEN unmatched ELSE unmatched \ {d},
             C!AnswerAndMark(r, leaving), crossed' = crossed \cup C!ConnectionsOf(leaving),
             UNCHANGED <<appOrg, targets, datasets, definitions, connections>>
      PROVE  ConnectionsInv'
  <2>1. old \in C!DeviceRow \cup {None} /\ (old # None => old.model \in C!Model \cup {None})
    BY <1>1, <1>2 DEF C!TypeOK, C!DeviceRow
  <2>2. model \in C!Model \cup {None}
    BY <1>2, <2>1
  <2>3. row \in C!DeviceRow /\ row.app = q.app /\ row.model = model
    BY <1>2, <2>2 DEF C!DeviceRow, C!Place
  <2>4. leaving \subseteq {d} /\ (d \notin leaving => old # None /\ old.app = q.app)
    OBVIOUS
  <2>5. kept /\ d \notin unmatched' => d \notin unmatched /\ leaving = {} /\ model = old.model
    BY <1>4, <2>4
  <2>6. ~kept /\ d \notin unmatched' => ~q.moved /\ ~q.error /\ q.want # None /\ model = q.want
    BY <1>4
  <2>7. unmatched' \subseteq Device /\ unmatched \ {d} \subseteq unmatched'
    BY <1>1, <1>2, <1>4 DEF C!TypeOK
  <2> HIDE DEF row, model, kept, leaving
  <2>8. devices'[d] = row /\ \A e \in Device \ {d} : devices'[e] = devices[e]
    BY <1>1, <1>2, <1>4 DEF C!TypeOK
  <2>9. Answering(r, leaving) /\ Marks(leaving)
    <3>1. Answering(r, leaving)
      BY <1>1, <1>4, AnswerMarks
    <3> QED  BY <1>4, <2>3, <2>4, <2>8, <3>1 DEF Marks
  <2>10. C!TypeOK'
    <3>1. devices' \in [Device -> C!DeviceRow \cup {None}]
      BY <1>1, <1>2, <1>4, <2>3 DEF C!TypeOK
    <3>2. \A e \in Device : devices'[e] # None /\ devices'[e].model # None => definitions[devices'[e].model] # None
      BY <1>1, <1>4, <2>3, <2>8 DEF C!TypeOK
    <3>3. \A e \in Device : devices[e] # None => devices'[e] # None
      BY <2>3, <2>8
    <3>4. crossed' \subseteq C!Connection /\ wish' \in [Asker -> C!Wish]
      BY <1>1, <1>4, <2>9 DEF C!TypeOK, C!ConnectionsOf, Answering
    <3>5. \A c \in C!Connection : connections[c] # None => connections[c].devices \subseteq Device
      BY <1>1 DEF C!TypeOK, C!Link
    <3> QED  BY <1>1, <1>4, <2>7, <3>1, <3>2, <3>3, <3>4, <3>5 DEF C!TypeOK
  <2>11. OfOneApplication'
    <3>1. ASSUME NEW c \in C!Connection \ crossed', connections[c] # None
          PROVE  c \notin crossed /\ \A e \in connections[c].devices : devices'[e].app = devices[e].app
      <4>1. c \notin crossed /\ connections[c].devices \subseteq Device \ leaving
        BY <1>1, <1>4, <3>1 DEF C!ConnectionsOf, C!TypeOK, C!Link
      <4> QED  BY <2>3, <2>4, <2>8, <4>1
    <3> QED  BY <1>4, <3>1 DEF ConnectionsInv, OfOneApplication
  <2>12. C!ModelsMatch'
    <3>1. PICK f \in [C!Model -> Org] : OrganizationsAre(f)
      BY DEF ConnectionsInv
    <3>2. ASSUME d \notin unmatched', model # None
          PROVE  q.app \in Applications /\ definitions[model] = appOrg[q.app]
      <4>1. CASE kept
        BY <1>2, <2>1, <2>4, <2>5, <3>2, <4>1 DEF ConnectionsInv, C!ModelsMatch
      <4>2. CASE ~kept
        <5>1. f[q.want] = appOrg[q.app] /\ model = q.want
          BY <1>1, <2>6, <3>1, <3>2, <4>2 DEF OrganizationsAre, OrganizationKnown, Doing
        <5> QED  BY <1>2, <1>4, <3>1, <3>2, <5>1 DEF OrganizationsAre
      <4> QED  BY <4>1, <4>2
    <3>3. ASSUME NEW e \in Device \ unmatched', devices'[e] # None, devices'[e].model # None
          PROVE  devices'[e].app \in Applications /\ definitions[devices'[e].model] = appOrg[devices'[e].app]
      <4>1. CASE e = d
        BY <2>3, <2>8, <3>2, <3>3, <4>1
      <4>2. CASE e # d
        BY <2>7, <2>8, <3>3, <4>2 DEF ConnectionsInv, C!ModelsMatch
      <4> QED  BY <4>1, <4>2
    <3> QED  BY <1>4, <3>3 DEF C!ModelsMatch
  <2>13. DefinitionsKept(r) /\ DatasetsKept(r)
    BY <1>4 DEF DefinitionsKept, DatasetsKept
  <2> QED  BY <2>9, <2>10, <2>11, <2>12, <2>13, RowsChanged
<1> QED  BY <1>3, <1>4 DEF C!SaveDevice

(* A device that is deleted is taken out of its connections with it.       *)
LEMMA DeviceRemoved ==
    ASSUME ConnectionsInv, NEW r \in Asker, C!RemoveDevice(r)
    PROVE  ConnectionsInv'
<1> USE Assumed
<1> DEFINE q == wish[r]
           d == q.id
<1>1. q \in C!Wish /\ q.kind = "unlink" /\ q.stage = "save" /\ C!TypeOK
  BY DEF C!RemoveDevice, C!At, ConnectionsInv, C!TypeOK
<1>2. d \in Device
  BY <1>1 DEF ConnectionsInv, WishTyped, Doing
<1>3. CASE C!Fail(r)
  BY <1>1, <1>3, ConnectionsFail
<1>4. ASSUME devices' = [devices EXCEPT ![d] = None],
             connections' = [c \in C!Connection |->
                 IF c \in C!Linking(d) THEN [connections[c] EXCEPT !.devices = @ \ {d}] ELSE connections[c]],
             C!AnswerAndMark(r, {d}),
             UNCHANGED <<appOrg, targets, datasets, definitions, crossed, unmatched>>
      PROVE  ConnectionsInv'
  <2>1. /\ devices' \in [Device -> C!DeviceRow \cup {None}] /\ devices'[d] = None
        /\ \A e \in Device \ {d} : devices'[e] = devices[e]
    BY <1>1, <1>2, <1>4 DEF C!TypeOK
  <2>2. Answering(r, {d}) /\ Marks({d})
    <3>1. Answering(r, {d})
      BY <1>1, <1>4, AnswerMarks
    <3> QED  BY <1>4, <2>1, <3>1 DEF Marks
  <2>3. ASSUME NEW c \in C!Connection
        PROVE  /\ connections'[c] \in C!Link \cup {None} /\ (connections'[c] # None => connections[c] # None)
               /\ connections'[c] # None => connections'[c].devices = connections[c].devices \ {d}
               /\ connections'[c] # None => connections'[c].target = connections[c].target
               /\ connections'[c] # None => connections'[c].decoder = connections[c].decoder
               /\ connections[c] # None => connections[c].devices \subseteq Device
    <3>1. connections[c] \in C!Link \cup {None}
      BY <1>1 DEF C!TypeOK
    <3>2. CASE c \in C!Linking(d)
      BY <1>4, <3>1, <3>2 DEF C!Linking, C!Link
    <3>3. CASE c \notin C!Linking(d)
      BY <1>4, <3>1, <3>3 DEF C!Linking, C!Link
    <3> QED  BY <3>2, <3>3
  <2>4. C!TypeOK'
    <3>1. connections' = [c \in C!Connection |-> connections'[c]]
      BY <1>4
    <3>2. connections' \in [C!Connection -> C!Link \cup {None}] /\ wish' \in [Asker -> C!Wish]
      BY <2>2, <2>3, <3>1 DEF Answering
    <3>3. ASSUME NEW c \in C!Connection, connections'[c] # None
          PROVE  /\ \A e \in connections'[c].devices : devices'[e] # None
                 /\ targets[connections'[c].target] # None
                 /\ connections'[c].decoder # None => definitions[connections'[c].decoder] # None
      <4>1. /\ \A e \in connections[c].devices : devices[e] # None
            /\ targets[connections[c].target] # None
            /\ connections[c].decoder # None => definitions[connections[c].decoder] # None
        BY <1>1, <2>3, <3>3 DEF C!TypeOK
      <4> QED  BY <2>1, <2>3, <3>3, <4>1
    <3>4. \A e \in Device : devices'[e] # None /\ devices'[e].model # None => definitions'[devices'[e].model] # None
      BY <1>1, <1>4, <2>1 DEF C!TypeOK
    <3> QED  BY <1>1, <1>4, <2>1, <3>2, <3>3, <3>4 DEF C!TypeOK
  <2>5. OfOneApplication'
    <3>1. ASSUME NEW c \in C!Connection \ crossed', connections'[c] # None
          PROVE  \E a \in Applications : /\ targets'[connections'[c].target] = a
                                         /\ \A e \in connections'[c].devices : devices'[e].app = a
      <4>1. PICK a \in Applications : /\ targets[connections[c].target] = a
                                     /\ \A e \in connections[c].devices : devices[e].app = a
        BY <1>4, <2>3, <3>1 DEF ConnectionsInv, OfOneApplication
      <4>2. targets'[connections'[c].target] = a
        BY <1>4, <2>3, <3>1, <4>1
      <4>3. \A e \in connections'[c].devices : devices'[e].app = a
        BY <2>1, <2>3, <3>1, <4>1
      <4> QED  BY <4>2, <4>3
    <3> QED  BY <3>1 DEF OfOneApplication
  <2>6. C!ModelsMatch' /\ DefinitionsKept(r) /\ DatasetsKept(r)
    BY <1>4, <2>1 DEF ConnectionsInv, C!ModelsMatch, DefinitionsKept, DatasetsKept
  <2> QED  BY <2>2, <2>4, <2>5, <2>6, RowsChanged
<1> QED  BY <1>3, <1>4 DEF C!RemoveDevice

(* An application is saved: what has changed application counts as moved,  *)
(* and so does what is in it when it changes its organization.             *)
LEMMA ApplicationSaved ==
    ASSUME ConnectionsInv, NEW r \in Asker, C!SaveApplication(r)
    PROVE  ConnectionsInv'
<1> DEFINE q == wish[r]
           movedDevices == {d \in Device : devices[d] # None /\ C!Reclaimed(q, d, devices[d].app) # devices[d].app}
           movedTargets == {t \in C!Target : targets[t] # None /\ C!Reclaimed(q, t, targets[t]) # targets[t]}
           away == IF appOrg[q.id] = q.org THEN {} ELSE {q.id}
           marked == UNION {movedDevices, movedTargets, away, {t \in C!Target : away # {} /\ targets[t] = q.id}}
<1>1. q \in C!Wish /\ q.kind = "application" /\ q.stage = "save" /\ C!TypeOK
  BY DEF C!SaveApplication, C!At, ConnectionsInv, C!TypeOK
<1>2. q.id \in Applications /\ q.org \in Org
  BY <1>1 DEF ConnectionsInv, WishTyped, Doing
<1>3. /\ appOrg' = [appOrg EXCEPT ![q.id] = q.org]
      /\ devices' = [d \in Device |-> IF devices[d] = None THEN None
                        ELSE [devices[d] EXCEPT !.app = C!Reclaimed(q, d, @)]]
      /\ targets' = [t \in C!Target |-> IF targets[t] = None THEN None ELSE C!Reclaimed(q, t, targets[t])]
      /\ crossed' = crossed \cup C!ConnectionsOf(movedDevices \cup movedTargets)
      /\ unmatched' = unmatched \cup movedDevices
             \cup {d \in Device : away # {} /\ devices[d] # None /\ devices[d].app = q.id}
      /\ C!AnswerAndMark(r, marked)
      /\ UNCHANGED <<datasets, definitions, connections>>
  BY DEF C!SaveApplication
<1>4. \A x, p : p \in C!Place => C!Reclaimed(q, x, p) \in C!Place
  BY <1>2 DEF C!Reclaimed, C!Place
<1>5. ASSUME NEW d \in Device
      PROVE  /\ devices[d] = None => devices'[d] = None
             /\ devices[d] # None => devices'[d] \in C!DeviceRow /\ devices'[d] # None
             /\ devices[d] # None => devices'[d].model = devices[d].model
             /\ devices[d] # None /\ d \notin movedDevices => devices'[d].app = devices[d].app
  <2>1. CASE devices[d] = None
    BY <1>3, <2>1
  <2>2. CASE devices[d] # None
    <3> DEFINE p == C!Reclaimed(q, d, devices[d].app)
    <3>1. devices[d] \in C!DeviceRow
      BY <1>1, <2>2 DEF C!TypeOK
    <3>2. p \in C!Place /\ (d \notin movedDevices => p = devices[d].app)
      BY <1>4, <2>2, <3>1 DEF C!DeviceRow
    <3>3. devices'[d] = [devices[d] EXCEPT !.app = p]
      BY <1>3, <2>2
    <3> HIDE DEF p
    <3>4. devices'[d] \in C!DeviceRow /\ devices'[d].model = devices[d].model /\ devices'[d].app = p
      BY <3>1, <3>2, <3>3 DEF C!DeviceRow
    <3> QED  BY <2>2, <3>2, <3>4, Assumed
  <2> QED  BY <2>1, <2>2
<1>6. movedDevices \subseteq Device /\ connections' = connections
  BY <1>3
<1> HIDE DEF movedDevices
<1>7. /\ \A d \in Device : devices'[d] \in C!DeviceRow \cup {None} /\ (devices[d] # None <=> devices'[d] # None)
      /\ \A d \in Device : devices[d] # None => devices'[d].model = devices[d].model
      /\ \A d \in Device : devices[d] # None /\ d \notin movedDevices => devices'[d].app = devices[d].app
  BY <1>5
<1>8. ASSUME NEW t \in C!Target
      PROVE  /\ targets[t] = None => targets'[t] = None
             /\ targets[t] # None => targets'[t] \in C!Place /\ targets'[t] # None
             /\ t \notin movedTargets => targets'[t] = targets[t]
  <2>1. targets[t] \in C!Place \cup {None} /\ None \notin C!Place
    BY <1>1, Assumed DEF C!TypeOK
  <2> QED  BY <1>3, <1>4, <2>1
<1>9. /\ \A t \in C!Target : targets'[t] \in C!Place \cup {None} /\ (targets[t] # None <=> targets'[t] # None)
      /\ \A t \in C!Target \ movedTargets : targets'[t] = targets[t]
  BY <1>8, Assumed
<1> HIDE DEF movedTargets
<1>10. \A a \in Applications : appOrg'[a] # appOrg[a] => a = q.id /\ away # {}
  BY <1>1, <1>2, <1>3 DEF C!TypeOK
<1>11. Answering(r, marked) /\ Marks(marked)
  <2>1. Answering(r, marked)
    BY <1>1, <1>3, AnswerMarks
  <2>2. away # {} => away = {q.id}
    OBVIOUS
  <2> QED  BY <1>7, <1>9, <1>10, <2>1, <2>2 DEF Marks
<1>12. C!TypeOK'
  <2>1. appOrg' \in [Applications -> Org]
    BY <1>1, <1>2, <1>3 DEF C!TypeOK
  <2>2. devices' \in [Device -> C!DeviceRow \cup {None}]
    <3>1. devices' = [d \in Device |-> devices'[d]]
      BY <1>3
    <3> QED  BY <1>7, <3>1
  <2>3. targets' \in [C!Target -> C!Place \cup {None}]
    <3>1. targets' = [t \in C!Target |-> targets'[t]]
      BY <1>3
    <3> QED  BY <1>9, <3>1
  <2>4. crossed' \subseteq C!Connection /\ unmatched' \subseteq Device /\ wish' \in [Asker -> C!Wish]
    BY <1>1, <1>3, <1>11, <1>6 DEF C!TypeOK, C!ConnectionsOf, Answering
  <2>5. \A d \in Device : devices'[d] # None /\ devices'[d].model # None => definitions[devices'[d].model] # None
    BY <1>1, <1>7 DEF C!TypeOK
  <2>6. \A c \in C!Connection : connections[c] # None =>
           connections[c].devices \subseteq Device /\ connections[c].target \in C!Target
    BY <1>1 DEF C!TypeOK, C!Link
  <2>7. \A c \in C!Connection : connections[c] # None =>
           /\ \A d \in connections[c].devices : devices'[d] # None
           /\ targets'[connections[c].target] # None
    BY <1>1, <1>7, <1>9, <2>6 DEF C!TypeOK
  <2>8. \A s \in C!Dataset : datasets[s] \in C!Target => targets'[datasets[s]] # None
    BY <1>1, <1>9 DEF C!TypeOK
  <2> QED  BY <1>1, <1>3, <2>1, <2>2, <2>3, <2>4, <2>5, <2>7, <2>8 DEF C!TypeOK
<1>13. OfOneApplication'
  <2>1. ASSUME NEW c \in C!Connection \ crossed', connections[c] # None
        PROVE  \E a \in Applications : /\ targets'[connections[c].target] = a
                                       /\ \A d \in connections[c].devices : devices'[d].app = a
    <3>1. connections[c].devices \subseteq Device /\ connections[c].target \in C!Target /\ c \notin crossed
      BY <1>1, <1>3, <2>1 DEF C!TypeOK, C!Link
    <3>2. connections[c].devices \cap movedDevices = {} /\ connections[c].target \notin movedTargets
      BY <1>3, <2>1 DEF C!ConnectionsOf
    <3>3. \A d \in connections[c].devices : devices[d] # None
      BY <1>1, <2>1 DEF C!TypeOK
    <3> QED  BY <1>7, <1>9, <2>1, <3>1, <3>2, <3>3 DEF ConnectionsInv, OfOneApplication
  <2> QED  BY <1>6, <2>1 DEF OfOneApplication
<1>14. C!ModelsMatch'
  <2>1. ASSUME NEW d \in Device \ unmatched', devices'[d] # None, devices'[d].model # None
        PROVE  devices'[d].app \in Applications /\ definitions[devices'[d].model] = appOrg'[devices'[d].app]
    <3>1. d \notin unmatched /\ d \notin movedDevices /\ devices[d] # None /\ ~(away # {} /\ devices[d].app = q.id)
      BY <1>3, <1>7, <2>1
    <3>2. devices'[d].model = devices[d].model /\ devices'[d].app = devices[d].app
      BY <1>7, <3>1
    <3>3. devices[d].app \in Applications /\ definitions[devices[d].model] = appOrg[devices[d].app]
      BY <2>1, <3>1, <3>2 DEF ConnectionsInv, C!ModelsMatch
    <3> HIDE DEF away
    <3> QED  BY <1>10, <3>1, <3>2, <3>3
  <2> QED  BY <1>3, <2>1 DEF C!ModelsMatch
<1>15. DefinitionsKept(r) /\ DatasetsKept(r)
  BY <1>3 DEF DefinitionsKept, DatasetsKept
<1> HIDE DEF marked
<1> QED  BY <1>11, <1>12, <1>13, <1>14, <1>15, RowsChanged

(* A definition is saved: a model with the organization it has always had. *)
LEMMA DefinitionSaved ==
    ASSUME ConnectionsInv, NEW r \in Asker, C!SaveDefinition(r)
    PROVE  ConnectionsInv'
<1> DEFINE q == wish[r]
<1>1. q \in C!Wish /\ q.kind = "definition" /\ q.stage = "save" /\ C!TypeOK
  BY DEF C!SaveDefinition, C!At, ConnectionsInv, C!TypeOK
<1>2. q.id \in C!Decoder \cup C!Model /\ q.org \in Org /\ q.org # None
  BY <1>1, Assumed DEF ConnectionsInv, WishTyped, Doing
<1>3. /\ definitions' = [definitions EXCEPT ![q.id] = q.org] /\ C!AnswerAndMark(r, {})
      /\ UNCHANGED <<appOrg, devices, targets, datasets, connections, crossed, unmatched>>
  BY DEF C!SaveDefinition
<1>4. /\ definitions' \in [C!Decoder \cup C!Model -> Org \cup {None}] /\ definitions'[q.id] = q.org
      /\ \A x \in (C!Decoder \cup C!Model) \ {q.id} : definitions'[x] = definitions[x]
  BY <1>1, <1>2, <1>3 DEF C!TypeOK
<1>5. Answering(r, {}) /\ Marks({})
  BY <1>1, <1>3, AnswerMarks DEF Marks
<1>6. C!TypeOK'
  <2>1. wish' \in [Asker -> C!Wish]
    BY <1>5 DEF Answering
  <2>2. \A c \in C!Connection : connections[c] # None => connections[c].decoder \in C!Decoder \cup {None}
    BY <1>1 DEF C!TypeOK, C!Link
  <2>3. \A d \in Device : devices[d] # None => devices[d].model \in C!Model \cup {None}
    BY <1>1 DEF C!TypeOK, C!DeviceRow
  <2>4. \A x \in C!Decoder \cup C!Model : definitions[x] # None => definitions'[x] # None
    BY <1>2, <1>4
  <2> QED  BY <1>1, <1>3, <1>4, <2>1, <2>2, <2>3, <2>4 DEF C!TypeOK
<1>7. OfOneApplication' /\ DatasetsKept(r)
  BY <1>3 DEF ConnectionsInv, OfOneApplication, DatasetsKept
<1>8. DefinitionsKept(r)
  BY <1>1, <1>4 DEF DefinitionsKept, Doing
<1>9. C!ModelsMatch'
  <2>1. PICK f \in [C!Model -> Org] : OrganizationsAre(f)
    BY DEF ConnectionsInv
  <2>2. q.id \in C!Model => q.org = f[q.id]
    BY <1>1, <2>1 DEF OrganizationsAre, OrganizationKnown, Doing
  <2>3. ASSUME NEW d \in Device \ unmatched, devices[d] # None, devices[d].model # None
        PROVE  devices[d].app \in Applications /\ definitions'[devices[d].model] = appOrg[devices[d].app]
    <3>1. devices[d].model \in C!Model
      BY <1>1, <2>3 DEF C!TypeOK, C!DeviceRow
    <3>2. devices[d].app \in Applications /\ definitions[devices[d].model] = appOrg[devices[d].app]
      BY <2>3 DEF ConnectionsInv, C!ModelsMatch
    <3>3. definitions[devices[d].model] # None
      BY <1>1, <2>3 DEF C!TypeOK
    <3>4. definitions[devices[d].model] = f[devices[d].model]
      BY <2>1, <3>1, <3>3 DEF OrganizationsAre
    <3> QED  BY <1>4, <2>2, <3>1, <3>2, <3>4
  <2> QED  BY <1>3, <2>3 DEF C!ModelsMatch
<1> QED  BY <1>5, <1>6, <1>7, <1>8, <1>9, RowsChanged

(* A model or a decoder is deleted only when no row has it. *)
LEMMA DefinitionDeleted ==
    ASSUME ConnectionsInv, NEW r \in Asker, NEW x \in C!Decoder \cup C!Model, C!DeleteDefinition(r, x)
    PROVE  ConnectionsInv'
<1>1. C!TypeOK /\ wish' = [wish EXCEPT ![r] = C!Ask("delete", "done", None)]
  BY DEF ConnectionsInv, C!DeleteDefinition
<1>2. /\ definitions' = [definitions EXCEPT ![x] = None] /\ ~C!InUse(x)
      /\ UNCHANGED <<appOrg, devices, targets, datasets, connections, crossed, unmatched>>
  BY DEF C!DeleteDefinition
<1>3. /\ definitions' \in [C!Decoder \cup C!Model -> Org \cup {None}] /\ definitions'[x] = None
      /\ \A y \in (C!Decoder \cup C!Model) \ {x} : definitions'[y] = definitions[y]
  BY <1>1, <1>2 DEF C!TypeOK
<1>4. Answering(r, {}) /\ Marks({})
  BY <1>1, <1>2, DeleteAnswers DEF Marks
<1>5. \A c \in C!Connection : connections[c] # None =>
         connections[c].decoder \in C!Decoder \cup {None} /\ connections[c].decoder # x
  BY <1>1, <1>2 DEF C!InUse, C!TypeOK, C!Link
<1>6. \A d \in Device : devices[d] # None =>
         devices[d].model \in C!Model \cup {None} /\ devices[d].model # x
  BY <1>1, <1>2 DEF C!InUse, C!TypeOK, C!DeviceRow
<1>7. C!TypeOK'
  <2>1. wish' \in [Asker -> C!Wish]
    BY <1>4 DEF Answering
  <2> QED  BY <1>1, <1>2, <1>3, <1>5, <1>6, <2>1 DEF C!TypeOK
<1>8. OfOneApplication' /\ DatasetsKept(r) /\ DefinitionsKept(r)
  BY <1>2, <1>3 DEF ConnectionsInv, OfOneApplication, DatasetsKept, DefinitionsKept
<1>9. C!ModelsMatch'
  BY <1>2, <1>3, <1>6 DEF ConnectionsInv, C!ModelsMatch
<1> QED  BY <1>4, <1>7, <1>8, <1>9, RowsChanged
-----------------------------------------------------------------------------
(* The steps of a request, the deletions among them. *)
LEMMA ConnectionsStep == ConnectionsInv /\ C!Next => ConnectionsInv'
<1> SUFFICES ASSUME ConnectionsInv, NEW r \in Asker,
                    \/ C!New(r)
                    \/ C!MapDataTarget(r) \/ C!MapPayloadDecoder(r) \/ C!SaveConnection(r)
                    \/ C!SaveTarget(r) \/ C!MapDeviceModel(r) \/ C!SaveDevice(r) \/ C!RemoveDevice(r)
                    \/ C!SaveApplication(r) \/ C!SaveDefinition(r) \/ C!GetDecodedDataInDataset(r)
             PROVE  ConnectionsInv'
  BY DEF C!Next
<1>1. CASE C!New(r)
  BY <1>1, ConnectBegins, ConnectionDeleted, TargetBegins, TargetDeleted, DeviceBegins, ApplicationBegins,
     DefinitionBegins, ShareBegins, DefinitionDeleted DEF C!New
<1> QED  BY <1>1, TargetMapped, DecoderMapped, ConnectionSaved, TargetSaved, ModelMapped, DeviceSaved, DeviceRemoved,
            ApplicationSaved, DefinitionSaved, DataGiven

(* The lists show a connection of one application to those who may read    *)
(* that application, and to nobody else.                                   *)
LEMMA ListsRight == ConnectionsInv => C!WithinApplication
<1> SUFFICES ASSUME ConnectionsInv, NEW c \in C!Connection \ crossed, connections[c] # None, connections[c].devices # {}
             PROVE  \E a \in Applications :
                /\ \A as \in SUBSET Applications :
                       /\ c \in C!FindAll(as) <=> a \in as
                       /\ c \in C!FindAllByDataTargetId(connections[c].target, as) <=> a \in as
                       /\ \A d \in connections[c].devices : c \in C!FindAllByIoTDeviceId(d, as) <=> a \in as
                /\ \A os \in SUBSET Org : connections[c].decoder # None =>
                       (c \in C!FindAllByPayloadDecoderId(connections[c].decoder, os) <=> appOrg[a] \in os)
  BY DEF C!WithinApplication
<1>1. PICK a \in Applications : /\ targets[connections[c].target] = a
                               /\ \A d \in connections[c].devices : devices[d].app = a
  BY DEF ConnectionsInv, OfOneApplication
<1>2. C!OrgOfTarget(connections[c].target) = appOrg[a] /\ appOrg[a] # None
  BY <1>1, Assumed DEF C!OrgOfTarget, ConnectionsInv, C!TypeOK
<1>3. ASSUME NEW as \in SUBSET Applications
      PROVE  /\ c \in C!FindAll(as) <=> a \in as
             /\ c \in C!FindAllByDataTargetId(connections[c].target, as) <=> a \in as
             /\ \A d \in connections[c].devices : c \in C!FindAllByIoTDeviceId(d, as) <=> a \in as
  BY <1>1, <1>2 DEF C!FindAll, C!FindAllByDataTargetId, C!FindAllByIoTDeviceId, C!Linking
<1>4. ASSUME NEW os \in SUBSET Org, connections[c].decoder # None
      PROVE  c \in C!FindAllByPayloadDecoderId(connections[c].decoder, os) <=> appOrg[a] \in os
  BY <1>1, <1>2 DEF C!FindAllByPayloadDecoderId
<1> QED  BY <1>3, <1>4

(* A step is one of the part that is followed. *)
LEMMA ConnectionsPart ==
    ASSUME [Next]_vars
    PROVE  on' = on /\ (on = "connections" => C!Next \/ UNCHANGED connectionVars)
<1>1. CASE Next
  BY <1>1 DEF Next
<1>2. CASE UNCHANGED vars
  BY <1>2 DEF vars
<1> QED  BY <1>1, <1>2

(* In the composition the invariant holds while connections are followed.  *)
LEMMA ConnectionsAlways == Spec => [](on = "connections" => ConnectionsInv)
<1> DEFINE Here == on = "connections" => ConnectionsInv
<1>1. Init => Here
  BY ConnectionsInit DEF Init
<1>2. Here /\ [Next]_vars => Here'
  <2> SUFFICES ASSUME on = "connections", ConnectionsInv, C!Next \/ UNCHANGED connectionVars PROVE ConnectionsInv'
    BY ConnectionsPart
  <2>1. CASE UNCHANGED connectionVars
    <3> USE <2>1 DEF connectionVars
    <3>1. C!TypeOK' /\ OfOneApplication' /\ C!ModelsMatch'
      BY DEF ConnectionsInv, C!TypeOK, OfOneApplication, C!ModelsMatch
    <3>2. \A r \in Asker : (WishTyped(wish[r]) /\ PartsKnown(wish[r]) /\ SharedRight(wish[r]))'
      BY DEF ConnectionsInv, PartsKnown
    <3>3. (\E f \in [C!Model -> Org] : OrganizationsAre(f))'
      BY DEF ConnectionsInv, OrganizationsAre, OrganizationKnown
    <3>4. (\E g \in [C!Dataset -> C!Target] : TargetsAre(g))'
      BY DEF ConnectionsInv, TargetsAre, TargetKnown
    <3> QED  BY <3>1, <3>2, <3>3, <3>4 DEF ConnectionsInv
  <2> QED  BY <2>1, ConnectionsStep
<1> QED  BY <1>1, <1>2, PTL DEF Spec

(* Connections: for any number of requests and rows, whoever moves devices,*)
(* targets and applications meanwhile, a connection has parts of one       *)
(* application, and is listed for those who may read it and for nobody     *)
(* else; a device's model is of its application's organization; and what   *)
(* is published is the organization's own; each with the exceptions that   *)
(* the history variables record (iot-device-payload-decoder-data-target-   *)
(* connection.service.ts, iot-device.service.ts, application.service.ts,   *)
(* open-data-dk-sharing.service.ts).                                       *)
THEOREM ConnectionsAlwaysWhole == Spec => []ConnectionsWhole
<1>1. (on = "connections" => ConnectionsInv) => ConnectionsWhole
  BY ListsRight DEF ConnectionsInv, ConnectionsWhole, C!SharedRightly, SharedRight
<1> QED  BY <1>1, ConnectionsAlways, PTL
=============================================================================
