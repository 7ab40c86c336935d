--------------------------- MODULE UplinkPipeline ---------------------------
(***************************************************************************)
(* The data path: a device's message is produced to the Kafka topic        *)
(* RAW_REQUEST, consumed by the payload decoder listener, which produces   *)
(* one TRANSFORMED_REQUEST per payload decoder connected to the device,    *)
(* which the data target listener consumes and sends to every target       *)
(* connected to (device, decoder).                                         *)
(*                                                                         *)
(* One action is one stretch of a handler between two awaits.  Handlers    *)
(* run concurrently: kafka.service.ts does not await the subscriber (it is *)
(* called in a forEach(async ...)), so the consumer moves on, and commits, *)
(* as soon as a handler has been started.                                  *)
(***************************************************************************)
EXTENDS Naturals, Sequences

CONSTANTS
    Uplink, Device, Decoder, NoDecoder, Target, SourceOf, Undecodable,
    Unsupported,   \* targets whose type sendToDataTargets throws on (OPENDATADK)
    TokenTargets,  \* FIWARE targets with a token endpoint: a failed send is retried
    InitialLinks,  \* connections at the start
    MaxFaults,     \* bound: failed calls to Kafka, ChirpStack or a target
    MaxCrashes,    \* bound: process deaths from outside
    MaxEdits       \* bound: edits of connections and deletions of devices

Form  == Decoder \cup {NoDecoder}
Route == Form \X Target
Link  == Device \X Form \X Target

ASSUME PipelineAssumption ==
    /\ NoDecoder \notin Decoder
    /\ SourceOf \in [Uplink -> Device]
    /\ Undecodable \subseteq Uplink \X Decoder
    /\ Unsupported \subseteq Target /\ TokenTargets \subseteq Target
    /\ InitialLinks \subseteq Link
    /\ MaxFaults \in Nat /\ MaxCrashes \in Nat /\ MaxEdits \in Nat

VARIABLES
    up,         \* the Node process is running
    joined,     \* its Kafka consumer has been assigned the partitions
    devices,    \* rows of iot_device
    links,      \* connections, one triple per (device, decoder, target)
    intake,     \* the request or MQTT callback that carries an uplink
    raw,        \* topic RAW_REQUEST
    rawPos,     \* messages of raw the consumer has passed
    transformed,\* topic TRANSFORMED_REQUEST: pairs <<uplink, form>>
    transformedPos,
    decodes,    \* invocations of PayloadDecoderListenerService
    pushes,     \* invocations of DataTargetKafkaListenerService
    copies,     \* copies[<<u, f, t>>]: times target t got u decoded by f
    entitled,   \* history: routes u's device has had since u arrived
    steady,     \* history: routes u's device has had ever since u arrived
    lost,       \* history: uplinks a failure or a restart took something from
    faults, crashes, edits

pathVars == <<intake, raw, rawPos, transformed, transformedPos, decodes, pushes>>
linkVars == <<devices, links, entitled, steady, edits>>
vars == <<up, joined, pathVars, linkVars, copies, lost, faults, crashes>>

IntakeStage == {"new", "sending", "resending", "done", "failed"}
DecodeRun == [uplink : Uplink, stage : {"query", "loop", "send", "resend", "done"},
              form : Form, todo : SUBSET Form]
PushRun   == [uplink : Uplink, form : Form,
              stage : {"find", "lookup", "sending", "done"},
              todo : SUBSET Target, retried : SUBSET Target]

(* Every variable has its type. *)
TypeOK ==
    /\ up \in BOOLEAN /\ joined \in BOOLEAN
    /\ devices \subseteq Device
    /\ links \subseteq Link
    /\ intake \in [Uplink -> IntakeStage]
    /\ raw \in Seq(Uplink) /\ rawPos \in 0..Len(raw)
    /\ transformed \in Seq(Uplink \X Form) /\ transformedPos \in 0..Len(transformed)
    /\ decodes \in Seq(DecodeRun)
    /\ pushes \in Seq(PushRun)
    /\ copies \in [Uplink \X Form \X Target -> Nat]
    /\ entitled \in [Uplink -> SUBSET Route]
    /\ steady \in [Uplink -> SUBSET Route]
    /\ lost \subseteq Uplink
    /\ faults \in 0..MaxFaults /\ crashes \in 0..MaxCrashes /\ edits \in 0..MaxEdits
-----------------------------------------------------------------------------
RoutesOf(u, ls) == {r \in Route : <<SourceOf[u], r[1], r[2]>> \in ls}

(* findAllByIoTDeviceIdWithDeviceModel, then uniqBy payloadDecoder?.id *)
FormsOf(u) == {r[1] : r \in RoutesOf(u, links)}

(* findDataTargetsByConnectionPayloadDecoderAndIoTDevice *)
TargetsOf(u, f) == {t \in Target : <<f, t>> \in RoutesOf(u, links)}

UnreadRaw == {raw[i] : i \in rawPos + 1 .. Len(raw)}
UnreadTransformed == {transformed[i] : i \in transformedPos + 1 .. Len(transformed)}

Accepted == {u \in Uplink : intake[u] # "new"}

(* Uplinks something of which is still under way. *)
Unfinished ==
    {u \in Uplink : intake[u] \in {"sending", "resending"}}
      \cup UnreadRaw
      \cup {decodes[i].uplink : i \in {j \in DOMAIN decodes : decodes[j].stage # "done"}}
      \cup {p[1] : p \in UnreadTransformed}
      \cup {pushes[i].uplink : i \in {j \in DOMAIN pushes : pushes[j].stage # "done"}}

Fault == faults < MaxFaults /\ faults' = faults + 1

Init ==
    /\ up = TRUE /\ joined = FALSE
    /\ devices = Device
    /\ links = InitialLinks
    /\ intake = [u \in Uplink |-> "new"]
    /\ raw = <<>> /\ rawPos = 0
    /\ transformed = <<>> /\ transformedPos = 0
    /\ decodes = <<>> /\ pushes = <<>>
    /\ copies = [x \in Uplink \X Form \X Target |-> 0]
    /\ entitled = [u \in Uplink |-> {}]
    /\ steady = [u \in Uplink |-> {}]
    /\ lost = {}
    /\ faults = 0 /\ crashes = 0 /\ edits = 0
-----------------------------------------------------------------------------
(* The process ends: everything that lives in memory is gone, and, because *)
(* the consumer group gets a random suffix and starts at the end of each   *)
(* topic, so is every message it had not read yet.                         *)
Die ==
    /\ up' = FALSE /\ joined' = FALSE
    /\ intake' = [u \in Uplink |->
                     IF intake[u] \in {"sending", "resending"} THEN "failed" ELSE intake[u]]
    /\ decodes' = <<>> /\ pushes' = <<>>
    /\ lost' = lost \cup Unfinished
    /\ UNCHANGED <<raw, rawPos, transformed, transformedPos, copies, linkVars>>

Crash ==
    /\ up /\ crashes < MaxCrashes
    /\ crashes' = crashes + 1
    /\ Die
    /\ UNCHANGED faults

(* bootstrap(): app.init() connects producer and consumer but does not     *)
(* await the subscriptions, then the HTTP server listens.                  *)
Restart ==
    /\ ~up /\ up' = TRUE
    /\ UNCHANGED <<joined, pathVars, linkVars, copies, lost, faults, crashes>>

(* Mutant of Join: the position is one past the end. *)
JoinPastTheEnd ==
    /\ up /\ ~joined
    /\ joined' = TRUE
    /\ rawPos' = Len(raw) + 1 /\ transformedPos' = Len(transformed)
    /\ lost' = lost \cup UnreadRaw \cup {p[1] : p \in UnreadTransformed}
    /\ UNCHANGED <<up, intake, raw, transformed, decodes, pushes, linkVars, copies,
                   faults, crashes>>

(* The group is assigned its partitions; fromBeginning: false puts it at   *)
(* the end, past whatever was produced since the server began to listen.   *)
Join ==
    /\ up /\ ~joined
    /\ joined' = TRUE
    /\ rawPos' = Len(raw) /\ transformedPos' = Len(transformed)
    /\ lost' = lost \cup UnreadRaw \cup {p[1] : p \in UnreadTransformed}
    /\ UNCHANGED <<up, intake, raw, transformed, decodes, pushes, linkVars, copies,
                   faults, crashes>>
-----------------------------------------------------------------------------
(* ReceiveDataController.receive, SigFoxListenerController, the MQTT       *)
(* listeners: the device is found, the message is handed to the producer.  *)
Receive(u) ==
    /\ up /\ intake[u] = "new" /\ SourceOf[u] \in devices
    /\ intake' = [intake EXCEPT ![u] = "sending"]
    /\ entitled' = [entitled EXCEPT ![u] = RoutesOf(u, links)]
    /\ steady' = [steady EXCEPT ![u] = RoutesOf(u, links)]
    /\ UNCHANGED <<up, joined, raw, rawPos, transformed, transformedPos, decodes, pushes,
                   devices, links, edits, copies, lost, faults, crashes>>

(* Mutant of IntakeSent: sent once more although it was acknowledged. *)
IntakeSentTwice(u) ==
    /\ up /\ intake[u] \in {"sending", "resending"}
    /\ intake' = [intake EXCEPT ![u] = IF @ = "sending" THEN "resending" ELSE "done"]
    /\ raw' = Append(raw, u)
    /\ UNCHANGED <<up, joined, rawPos, transformed, transformedPos, decodes, pushes,
                   linkVars, copies, lost, faults, crashes>>

(* sendMessage: the broker appends and acknowledges. *)
IntakeSent(u) ==
    /\ up /\ intake[u] \in {"sending", "resending"}
    /\ intake' = [intake EXCEPT ![u] = "done"]
    /\ raw' = Append(raw, u)
    /\ UNCHANGED <<up, joined, rawPos, transformed, transformedPos, decodes, pushes,
                   linkVars, copies, lost, faults, crashes>>

(* The first send rejects, before or after the broker appended.            *)
IntakeSendFails(u) ==
    /\ up /\ intake[u] = "sending" /\ Fault
    /\ intake' = [intake EXCEPT ![u] = "resending"]
    /\ raw' \in {raw, Append(raw, u)}
    /\ UNCHANGED <<up, joined, rawPos, transformed, transformedPos, decodes, pushes,
                   linkVars, copies, lost, crashes>>

(* The second send rejects too: logged, and the caller is told nothing.    *)
IntakeResendFails(u) ==
    /\ up /\ intake[u] = "resending" /\ Fault
    /\ intake' = [intake EXCEPT ![u] = "done"]
    /\ raw' \in {raw, Append(raw, u)}
    /\ lost' = lost \cup {u}
    /\ UNCHANGED <<up, joined, rawPos, transformed, transformedPos, decodes, pushes,
                   linkVars, copies, crashes>>

(* producer.connect() rejects inside the catch.  A message that came by    *)
(* MQTT was handed over in a callback: the rejection is unhandled and the  *)
(* process ends.  One that came by HTTP is answered with status 500.       *)
IntakeReconnectFails(u) ==
    /\ up /\ intake[u] = "resending" /\ Fault
    /\ \/ Die
       \/ /\ intake' = [intake EXCEPT ![u] = "failed"]
          /\ lost' = lost \cup {u}
          /\ UNCHANGED <<up, joined, raw, rawPos, transformed, transformedPos, decodes,
                         pushes, linkVars, copies>>
    /\ UNCHANGED crashes
-----------------------------------------------------------------------------
NewDecode(u) == [uplink |-> u, stage |-> "query", form |-> NoDecoder, todo |-> {}]

(* eachMessage on RAW_REQUEST: start the handler, do not wait for it.      *)
ConsumeRaw ==
    /\ up /\ joined /\ rawPos < Len(raw)
    /\ rawPos' = rawPos + 1
    /\ decodes' = Append(decodes, NewDecode(raw[rawPos + 1]))
    /\ UNCHANGED <<up, joined, intake, raw, transformed, transformedPos, pushes, linkVars,
                   copies, lost, faults, crashes>>

(* The consumer rejoins before its last offset was committed.              *)
RedeliverRaw ==
    /\ up /\ joined /\ decodes # <<>> /\ Fault
    /\ decodes' = Append(decodes, NewDecode(decodes[Len(decodes)].uplink))
    /\ UNCHANGED <<up, joined, intake, raw, rawPos, transformed, transformedPos, pushes,
                   linkVars, copies, lost, crashes>>

LoopOrDone(todo) == IF todo = {} THEN "done" ELSE "loop"

DecodeFrame == UNCHANGED <<up, joined, intake, raw, rawPos, transformedPos, pushes,
                           linkVars, copies, crashes>>

(* rawRequestListener: the connections of the device are read.             *)
DecodeQuery(i) ==
    /\ up /\ decodes[i].stage = "query"
    /\ LET forms == FormsOf(decodes[i].uplink) IN
         decodes' = [decodes EXCEPT ![i].todo = forms, ![i].stage = LoopOrDone(forms)]
    /\ DecodeFrame /\ UNCHANGED <<transformed, lost, faults>>

(* Mutant of Decode: what the decoder cannot decode is forwarded as it is. *)
DecodeAnything(i, f) ==
    /\ up /\ decodes[i].stage = "loop" /\ f \in decodes[i].todo
    /\ decodes' = [decodes EXCEPT ![i].todo = @ \ {f}, ![i].form = f, ![i].stage = "send"]
    /\ DecodeFrame /\ UNCHANGED <<transformed, lost, faults>>

(* doTransformationsAndSend, one iteration whose decoder succeeds.         *)
Decode(i, f) ==
    /\ up /\ decodes[i].stage = "loop" /\ f \in decodes[i].todo
    /\ <<decodes[i].uplink, f>> \notin Undecodable
    /\ decodes' = [decodes EXCEPT ![i].todo = @ \ {f}, ![i].form = f, ![i].stage = "send"]
    /\ DecodeFrame /\ UNCHANGED <<transformed, lost, faults>>

(* Mutant of DecoderThrows: the error ends the loop over the decoders. *)
DecoderEndsLoop(i, f) ==
    /\ up /\ decodes[i].stage = "loop" /\ f \in decodes[i].todo
    /\ <<decodes[i].uplink, f>> \in Undecodable
    /\ decodes' = [decodes EXCEPT ![i].todo = {}, ![i].stage = "done"]
    /\ DecodeFrame /\ UNCHANGED <<transformed, lost, faults>>

(* The decoder throws: logged, the loop continues with the next one.       *)
DecoderThrows(i, f) ==
    /\ up /\ decodes[i].stage = "loop" /\ f \in decodes[i].todo
    /\ <<decodes[i].uplink, f>> \in Undecodable
    /\ decodes' = [decodes EXCEPT ![i].todo = @ \ {f},
                                  ![i].stage = LoopOrDone(decodes[i].todo \ {f})]
    /\ DecodeFrame /\ UNCHANGED <<transformed, lost, faults>>

(* enrichLoRaWANDevice fails in ChirpStack: logged, next decoder.          *)
EnrichmentFails(i, f) ==
    /\ up /\ decodes[i].stage = "loop" /\ f \in decodes[i].todo \ {NoDecoder} /\ Fault
    /\ decodes' = [decodes EXCEPT ![i].todo = @ \ {f},
                                  ![i].stage = LoopOrDone(decodes[i].todo \ {f})]
    /\ lost' = lost \cup {decodes[i].uplink}
    /\ DecodeFrame /\ UNCHANGED transformed

Emit(i) == Append(transformed, <<decodes[i].uplink, decodes[i].form>>)

(* sendTransformedRequest: the broker appends and acknowledges.            *)
DecodeSent(i) ==
    /\ up /\ decodes[i].stage \in {"send", "resend"}
    /\ transformed' = Emit(i)
    /\ decodes' = [decodes EXCEPT ![i].stage = LoopOrDone(decodes[i].todo)]
    /\ DecodeFrame /\ UNCHANGED <<lost, faults>>

(* Mutant of DecodeSendFails: no second attempt, and nobody notices. *)
DecodeSendGivesUp(i) ==
    /\ up /\ decodes[i].stage = "send" /\ Fault
    /\ decodes' = [decodes EXCEPT ![i].stage = LoopOrDone(decodes[i].todo)]
    /\ DecodeFrame /\ UNCHANGED <<transformed, lost>>

(* The first send rejects, before or after the broker appended.            *)
DecodeSendFails(i) ==
    /\ up /\ decodes[i].stage = "send" /\ Fault
    /\ transformed' \in {transformed, Emit(i)}
    /\ decodes' = [decodes EXCEPT ![i].stage = "resend"]
    /\ DecodeFrame /\ UNCHANGED lost

(* The retry or the reconnection before it fails: next decoder.            *)
DecodeResendFails(i) ==
    /\ up /\ decodes[i].stage = "resend" /\ Fault
    /\ transformed' \in {transformed, Emit(i)}
    /\ decodes' = [decodes EXCEPT ![i].stage = LoopOrDone(decodes[i].todo)]
    /\ lost' = lost \cup {decodes[i].uplink}
    /\ DecodeFrame
-----------------------------------------------------------------------------
NewPush(p) == [uplink |-> p[1], form |-> p[2], stage |-> "find",
               todo |-> {}, retried |-> {}]

ConsumeTransformed ==
    /\ up /\ joined /\ transformedPos < Len(transformed)
    /\ transformedPos' = transformedPos + 1
    /\ pushes' = Append(pushes, NewPush(transformed[transformedPos + 1]))
    /\ UNCHANGED <<up, joined, intake, raw, rawPos, transformed, decodes, linkVars,
                   copies, lost, faults, crashes>>

RedeliverTransformed ==
    /\ up /\ joined /\ pushes # <<>> /\ Fault
    /\ LET last == pushes[Len(pushes)] IN
         pushes' = Append(pushes, NewPush(<<last.uplink, last.form>>))
    /\ UNCHANGED <<up, joined, intake, raw, rawPos, transformed, transformedPos, decodes,
                   linkVars, copies, lost, crashes>>

PushFrame == UNCHANGED <<up, joined, intake, raw, rawPos, transformed, transformedPos,
                         decodes, linkVars, crashes>>

(* transformedRequestListener: findOne, and stop if the device is gone.    *)
FindDevice(i) ==
    /\ up /\ pushes[i].stage = "find"
    /\ pushes' = [pushes EXCEPT ![i].stage =
                     IF SourceOf[pushes[i].uplink] \in devices THEN "lookup" ELSE "done"]
    /\ PushFrame /\ UNCHANGED <<copies, lost, faults>>

(* findDataTargetsAndSend: the targets are read and all sends started.     *)
LookupTargets(i) ==
    /\ up /\ pushes[i].stage = "lookup"
    /\ LET ts == TargetsOf(pushes[i].uplink, pushes[i].form) IN
         /\ ts \cap Unsupported = {}
         /\ pushes' = [pushes EXCEPT ![i].todo = ts,
                                     ![i].stage = IF ts = {} THEN "done" ELSE "sending"]
    /\ PushFrame /\ UNCHANGED <<copies, lost, faults>>

(* NotImplementedException inside the async forEach callback: an unhandled *)
(* rejection, and the process ends before any send of this pass goes out.  *)
LookupUnsupported(i) ==
    /\ up /\ pushes[i].stage = "lookup"
    /\ TargetsOf(pushes[i].uplink, pushes[i].form) \cap Unsupported # {}
    /\ Die
    /\ UNCHANGED <<faults, crashes>>

SentTo(i, t) ==
    LET rest == pushes[i].todo \ {t} IN
    pushes' = [pushes EXCEPT ![i].todo = rest,
                             ![i].stage = IF rest = {} THEN "done" ELSE "sending"]

Received(i, t) == [copies EXCEPT ![<<pushes[i].uplink, pushes[i].form, t>>] = @ + 1]

(* HttpPush, Fiware and MQTT targets: the request reaches the target.      *)
Push(i, t) ==
    /\ up /\ pushes[i].stage = "sending" /\ t \in pushes[i].todo
    /\ copies' = Received(i, t)
    /\ SentTo(i, t)
    /\ PushFrame /\ UNCHANGED <<lost, faults>>

(* The request or its answer is lost.  Only FiwareDataTargetService.retry   *)
(* tries once more, with a new token ...                                   *)
PushRetries(i, t) ==
    /\ up /\ pushes[i].stage = "sending" /\ t \in pushes[i].todo /\ Fault
    /\ t \in TokenTargets \ pushes[i].retried
    /\ copies' \in {copies, Received(i, t)}
    /\ pushes' = [pushes EXCEPT ![i].retried = @ \cup {t}]
    /\ PushFrame /\ UNCHANGED lost

(* ... and then, as for any other target, the error is logged.             *)
PushFails(i, t) ==
    /\ up /\ pushes[i].stage = "sending" /\ t \in pushes[i].todo /\ Fault
    /\ t \notin TokenTargets \ pushes[i].retried
    /\ copies' \in {copies, Received(i, t)}
    /\ lost' = lost \cup {pushes[i].uplink}
    /\ SentTo(i, t)
    /\ PushFrame
-----------------------------------------------------------------------------
(* Connections are created, changed and removed by administrators while    *)
(* messages are on their way.  A connection row names several devices; a   *)
(* link is what it means for one of them.                                  *)
Relinked(ls) ==
    /\ links' = ls
    /\ entitled' = [u \in Uplink |->
                       IF u \in Accepted THEN entitled[u] \cup RoutesOf(u, ls)
                                         ELSE entitled[u]]
    /\ steady' = [u \in Uplink |-> steady[u] \cap RoutesOf(u, ls)]
    /\ edits < MaxEdits /\ edits' = edits + 1
    /\ UNCHANGED <<up, joined, pathVars, copies, lost, faults, crashes>>

Connect(l) == l[1] \in devices /\ l \notin links /\ Relinked(links \cup {l})
             /\ UNCHANGED devices

Disconnect(l) == l \in links /\ Relinked(links \ {l}) /\ UNCHANGED devices

Reconnect(l, m) ==
    /\ l \in links /\ m[1] \in devices /\ m \notin links
    /\ Relinked((links \ {l}) \cup {m}) /\ UNCHANGED devices

DeleteDevice(d) ==
    /\ d \in devices /\ devices' = devices \ {d}
    /\ Relinked({l \in links : l[1] # d})
-----------------------------------------------------------------------------
Handle ==
    \/ \E u \in Uplink : IntakeSent(u)
    \/ ConsumeRaw
    \/ \E i \in DOMAIN decodes :
         \/ DecodeQuery(i)
         \/ \E f \in Form : Decode(i, f) \/ DecoderThrows(i, f)
         \/ DecodeSent(i)
    \/ ConsumeTransformed
    \/ \E i \in DOMAIN pushes :
         \/ FindDevice(i)
         \/ LookupTargets(i)
         \/ LookupUnsupported(i)
         \/ \E t \in Target : Push(i, t)

Fail ==
    \/ \E u \in Uplink :
         IntakeSendFails(u) \/ IntakeResendFails(u) \/ IntakeReconnectFails(u)
    \/ RedeliverRaw
    \/ \E i \in DOMAIN decodes :
         \/ \E f \in Form : EnrichmentFails(i, f)
         \/ DecodeSendFails(i)
         \/ DecodeResendFails(i)
    \/ RedeliverTransformed
    \/ \E i \in DOMAIN pushes, t \in Target : PushRetries(i, t) \/ PushFails(i, t)

Edit ==
    \/ \E l \in Link : Connect(l) \/ Disconnect(l)
    \/ \E l, m \in Link : Reconnect(l, m)
    \/ \E d \in Device : DeleteDevice(d)

Next ==
    \/ Crash \/ Restart \/ Join
    \/ \E u \in Uplink : Receive(u)
    \/ Handle
    \/ Fail
    \/ Edit

Spec == Init /\ [][Next]_vars

(* Join, because the group coordinator answers; Handle, because the event  *)
(* loop never idles while a broker, a database or a target has answered.   *)
(* Nothing is assumed of Receive, Restart, edits or failures.              *)
FairSpec == Spec /\ WF_vars(Join) /\ WF_vars(Handle)
-----------------------------------------------------------------------------
(* Uplink u, in form f, is still on its way to target t.                   *)
OnItsWay(u, f, t) ==
    \/ intake[u] \in {"sending", "resending"}
    \/ u \in UnreadRaw
    \/ \E i \in DOMAIN decodes :
         /\ decodes[i].uplink = u
         /\ \/ decodes[i].stage = "query"
            \/ decodes[i].stage # "done" /\ f \in decodes[i].todo
            \/ decodes[i].stage \in {"send", "resend"} /\ f = decodes[i].form
    \/ <<u, f>> \in UnreadTransformed
    \/ \E i \in DOMAIN pushes :
         /\ pushes[i].uplink = u /\ pushes[i].form = f
         /\ \/ pushes[i].stage \in {"find", "lookup"}
            \/ pushes[i].stage = "sending" /\ t \in pushes[i].todo

(* No uplink disappears without a cause: for every route its device has    *)
(* had ever since it arrived, an uplink has reached the target, or is on   *)
(* its way, or met a failure, a restart or a decoder that throws.  So one  *)
(* broken decoder or one dead target never costs another route a message,  *)
(* and an edit of other connections never does.                            *)
Accounted ==
    \A u \in Uplink : \A r \in steady[u] :
        \/ <<u, r[1]>> \in Undecodable
        \/ u \in lost
        \/ copies[<<u, r[1], r[2]>>] > 0
        \/ OnItsWay(u, r[1], r[2])

(* A target gets a message at most once more than there were failed or     *)
(* repeated deliveries, by Kafka or to the target: the handlers themselves *)
(* never duplicate, however they interleave.                               *)
CopiesBounded ==
    \A x \in Uplink \X Form \X Target : copies[x] <= 1 + faults

(* Every accepted uplink is settled in the end: delivered along each route *)
(* that stays connected, unless a failure, a restart or its decoder took   *)
(* it.                                                                     *)
EventuallySettled ==
    \A u \in Uplink, r \in Route :
        (r \in steady[u] /\ <<u, r[1]>> \notin Undecodable)
          ~> (u \in lost \/ copies[<<u, r[1], r[2]>>] > 0 \/ r \notin steady[u])

(* The abstract specification, with what the targets have received as a    *)
(* set of triples.                                                         *)
Promise == INSTANCE UplinkDelivery WITH
    accepted  <- Accepted,
    delivered <- {x \in Uplink \X Form \X Target : copies[x] > 0}

(* Data reaches a target only along a connection that existed at some      *)
(* moment since the message arrived, and only if the decoder accepts it.   *)
ImplementsDelivery == Promise!Spec
=============================================================================
