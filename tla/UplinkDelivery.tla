--------------------------- MODULE UplinkDelivery ---------------------------
(***************************************************************************)
(* What the data path of OS2IoT promises, without Kafka, without handlers  *)
(* and without failures: a message of a registered device may reach a      *)
(* data target in the form one payload decoder gives it only along a       *)
(* connection (device, payload decoder, data target) that existed at some  *)
(* moment since the backend took the message, and only if that decoder can *)
(* decode it.  UplinkPipeline is shown to implement this.                  *)
(***************************************************************************)
CONSTANTS
    Uplink,        \* messages sent by devices
    Device,        \* registered devices
    Decoder,       \* payload decoders
    NoDecoder,     \* "payloadDecoder is null": the raw JSON is forwarded
    Target,        \* data targets
    SourceOf,      \* SourceOf[u]: the device that sent u
    Undecodable    \* pairs <<u, d>>: decoder d throws on message u

Form  == Decoder \cup {NoDecoder}
Route == Form \X Target
Link  == Device \X Form \X Target

VARIABLES
    links,      \* connections, one triple per (device, decoder, target)
    accepted,   \* messages the backend has taken from their device
    entitled,   \* entitled[u]: routes u's device has had since u was accepted
    delivered   \* triples <<u, form, target>> that reached the target

vars == <<links, accepted, entitled, delivered>>

RoutesOf(u, ls) == {r \in Route : <<SourceOf[u], r[1], r[2]>> \in ls}

TypeOK ==
    /\ links \subseteq Link
    /\ accepted \subseteq Uplink
    /\ entitled \in [Uplink -> SUBSET Route]
    /\ delivered \subseteq Uplink \X Form \X Target

Init ==
    /\ links \subseteq Link
    /\ accepted = {}
    /\ entitled = [u \in Uplink |-> {}]
    /\ delivered = {}

(* A message arrives and its device is known. *)
Accept(u) ==
    /\ u \notin accepted
    /\ accepted' = accepted \cup {u}
    /\ entitled' = [entitled EXCEPT ![u] = RoutesOf(u, links)]
    /\ UNCHANGED <<links, delivered>>

(* An administrator edits the connections in any way. *)
Relink(ls) ==
    /\ links' = ls
    /\ entitled' = [u \in Uplink |->
                       IF u \in accepted THEN entitled[u] \cup RoutesOf(u, ls)
                                         ELSE entitled[u]]
    /\ UNCHANGED <<accepted, delivered>>

(* A message reaches a data target it is entitled to, once or again. *)
Deliver(u, f, t) ==
    /\ u \in accepted
    /\ <<f, t>> \in entitled[u]
    /\ <<u, f>> \notin Undecodable
    /\ delivered' = delivered \cup {<<u, f, t>>}
    /\ UNCHANGED <<links, accepted, entitled>>

Next ==
    \/ \E u \in Uplink : Accept(u)
    \/ \E ls \in SUBSET Link : Relink(ls)
    \/ \E u \in Uplink, f \in Form, t \in Target : Deliver(u, f, t)

Spec == Init /\ [][Next]_vars
=============================================================================
