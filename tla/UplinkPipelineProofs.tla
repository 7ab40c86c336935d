------------------------ MODULE UplinkPipelineProofs ------------------------
(***************************************************************************)
(* Proofs about UplinkPipeline for any devices, decoders, targets and      *)
(* connections, and any number of faults, crashes and edits: it is type    *)
(* correct, every uplink is accounted for, and the copies of a message are *)
(* bounded; and it implements UplinkDelivery.                              *)
(***************************************************************************)
EXTENDS UplinkPipeline, FiniteSets, SequenceTheorems, FiniteSetTheorems, TLAPS

(* The element of a nonempty sequence a consumer reads, or reads again. *)
LEMMA ElementsOfSeq ==
    ASSUME NEW S, NEW s \in Seq(S)
    PROVE  /\ \A i \in DOMAIN s : s[i] \in S
           /\ DOMAIN s = 1 .. Len(s) /\ Len(s) \in Nat
           /\ s # <<>> => Len(s) \in DOMAIN s
  OBVIOUS
-----------------------------------------------------------------------------
(* Shorthands for the definitions that only group variables or stages.     *)
USE DEF pathVars, linkVars, IntakeStage

(* The initial state is well typed. *)
LEMMA InitTypeOK == Init => TypeOK
<1> SUFFICES ASSUME Init PROVE TypeOK
  OBVIOUS
<1>1. links \in SUBSET Link
  BY PipelineAssumption DEF Init
<1>2. copies \in [Uplink \X Form \X Target -> Nat]
  BY DEF Init
<1>3. raw \in Seq(Uplink) /\ rawPos \in 0..Len(raw)
  BY DEF Init
<1>4. transformed \in Seq(Uplink \X Form) /\ transformedPos \in 0..Len(transformed)
  BY DEF Init
<1>5. decodes \in Seq(DecodeRun) /\ pushes \in Seq(PushRun)
  BY DEF Init
<1>6. /\ intake \in [Uplink -> IntakeStage]
      /\ entitled \in [Uplink -> SUBSET Route]
      /\ steady \in [Uplink -> SUBSET Route]
  BY DEF Init
<1>7. faults \in 0..MaxFaults /\ crashes \in 0..MaxCrashes /\ edits \in 0..MaxEdits
  BY PipelineAssumption DEF Init
<1>8. up \in BOOLEAN /\ joined \in BOOLEAN /\ devices \subseteq Device /\ lost \subseteq Uplink
  BY DEF Init
<1> QED
  BY <1>1, <1>2, <1>3, <1>4, <1>5, <1>6, <1>7, <1>8 DEF TypeOK

(* A new handler is a record of its type. *)
LEMMA NewDecodeTyped ==
    ASSUME NEW u \in Uplink PROVE NewDecode(u) \in DecodeRun
  BY DEF NewDecode, DecodeRun, Form

(* A new invocation of the target listener is well typed. *)
LEMMA NewPushTyped ==
    ASSUME NEW p \in Uplink \X Form PROVE NewPush(p) \in PushRun
  BY DEF NewPush, PushRun

(* What is under way are uplinks. *)
LEMMA UnfinishedTyped ==
    ASSUME TypeOK
    PROVE  /\ UnreadRaw \subseteq Uplink
           /\ UnreadTransformed \subseteq Uplink \X Form
           /\ Unfinished \subseteq Uplink
<1>1. UnreadRaw \subseteq Uplink
  BY DEF UnreadRaw, TypeOK
<1>2. UnreadTransformed \subseteq Uplink \X Form
  BY DEF UnreadTransformed, TypeOK
<1>3. \A j \in DOMAIN decodes : decodes[j].uplink \in Uplink
  <2>1. \A j \in DOMAIN decodes : decodes[j] \in DecodeRun
    BY ElementsOfSeq DEF TypeOK
  <2> QED
    BY <2>1 DEF DecodeRun
<1>4. \A j \in DOMAIN pushes : pushes[j].uplink \in Uplink
  <2>1. \A j \in DOMAIN pushes : pushes[j] \in PushRun
    BY ElementsOfSeq DEF TypeOK
  <2> QED
    BY <2>1 DEF PushRun
<1> QED
  BY <1>1, <1>2, <1>3, <1>4 DEF Unfinished

(* The end of the process keeps the type of all it changes. *)
LEMMA DieTypeOK ==
    ASSUME TypeOK, Die, faults' \in 0..MaxFaults, crashes' \in 0..MaxCrashes
    PROVE  TypeOK'
<1>1. lost' \subseteq Uplink
  <2>1. Unfinished \subseteq Uplink
    BY UnfinishedTyped
  <2> QED
    BY <2>1 DEF Die, TypeOK
<1>2. intake' \in [Uplink -> IntakeStage]
  BY DEF Die, TypeOK
<1>3. decodes' \in Seq(DecodeRun) /\ pushes' \in Seq(PushRun)
  BY DEF Die
<1> QED
  BY <1>1, <1>2, <1>3 DEF Die, TypeOK

(* Starting, restarting and ending the process keeps every type. *)
LEMMA ProcessTypeOK ==
    ASSUME TypeOK, Crash \/ Restart \/ Join
    PROVE  TypeOK'
<1>1. CASE Crash
  BY <1>1, DieTypeOK, PipelineAssumption DEF Crash, TypeOK
<1>2. CASE Restart
  BY <1>2 DEF Restart, TypeOK
<1>3. CASE Join
  <2>1. lost' \subseteq Uplink
    <3>1. UnreadRaw \subseteq Uplink /\ UnreadTransformed \subseteq Uplink \X Form
      BY UnfinishedTyped
    <3> QED
      BY <1>3, <3>1 DEF Join, TypeOK
  <2> QED
    BY <1>3, <2>1 DEF Join, TypeOK
<1> QED  BY <1>1, <1>2, <1>3

(* Taking an uplink in and producing it to RAW_REQUEST keeps every type. *)
LEMMA IntakeTypeOK ==
    ASSUME TypeOK, NEW u \in Uplink,
           Receive(u) \/ IntakeSent(u) \/ IntakeSendFails(u) \/ IntakeResendFails(u)
             \/ IntakeReconnectFails(u)
    PROVE  TypeOK'
<1>1. /\ Append(raw, u) \in Seq(Uplink) /\ Len(Append(raw, u)) = Len(raw) + 1
      /\ Len(raw) \in Nat /\ rawPos \in 0..Len(raw)
  BY AppendProperties, ElementsOfSeq DEF TypeOK
<1>2. ASSUME raw' \in {raw, Append(raw, u)}, rawPos' = rawPos
      PROVE  raw' \in Seq(Uplink) /\ rawPos' \in 0..Len(raw')
  <2>1. CASE raw' = raw
    BY <1>2, <2>1 DEF TypeOK
  <2>2. CASE raw' = Append(raw, u)
    BY <1>1, <1>2, <2>2
  <2> QED  BY <1>2, <2>1, <2>2
<1>3. ASSUME Fault PROVE faults' \in 0..MaxFaults
  BY <1>3, PipelineAssumption DEF Fault, TypeOK
<1>4. CASE Receive(u)
  <2>1. RoutesOf(u, links) \in SUBSET Route
    BY DEF RoutesOf
  <2> QED
    BY <1>4, <2>1 DEF Receive, TypeOK
<1>5. CASE IntakeSent(u)
  BY <1>1, <1>2, <1>5 DEF IntakeSent, TypeOK
<1>6. CASE IntakeSendFails(u)
  BY <1>2, <1>3, <1>6 DEF IntakeSendFails, TypeOK
<1>7. CASE IntakeResendFails(u)
  BY <1>2, <1>3, <1>7 DEF IntakeResendFails, TypeOK
<1>8. CASE IntakeReconnectFails(u)
  <2>1. crashes' \in 0..MaxCrashes /\ faults' \in 0..MaxFaults
    BY <1>3, <1>8 DEF IntakeReconnectFails, TypeOK
  <2>2. CASE Die
    BY <2>1, <2>2, DieTypeOK
  <2>3. CASE ~Die
    BY <1>8, <2>1, <2>3 DEF IntakeReconnectFails, TypeOK
  <2> QED  BY <2>2, <2>3
<1> QED  BY <1>4, <1>5, <1>6, <1>7, <1>8

(* Reading a topic, once or again, keeps every type. *)
LEMMA ConsumeTypeOK ==
    ASSUME TypeOK, ConsumeRaw \/ RedeliverRaw \/ ConsumeTransformed \/ RedeliverTransformed
    PROVE  TypeOK'
<1>1. \A u \in Uplink : Append(decodes, NewDecode(u)) \in Seq(DecodeRun)
  BY NewDecodeTyped, AppendProperties DEF TypeOK
<1>2. \A p \in Uplink \X Form : Append(pushes, NewPush(p)) \in Seq(PushRun)
  BY NewPushTyped, AppendProperties DEF TypeOK
<1>3. ASSUME Fault PROVE faults' \in 0..MaxFaults
  BY <1>3, PipelineAssumption DEF Fault, TypeOK
<1>4. CASE ConsumeRaw
  <2>1. raw[rawPos + 1] \in Uplink /\ rawPos' \in 0..Len(raw)
    BY <1>4 DEF ConsumeRaw, TypeOK
  <2>2. decodes' \in Seq(DecodeRun)
    BY <1>1, <1>4, <2>1 DEF ConsumeRaw
  <2> QED
    BY <1>4, <2>1, <2>2 DEF ConsumeRaw, TypeOK
<1>5. CASE RedeliverRaw
  <2>1. decodes[Len(decodes)] \in DecodeRun
    BY <1>5, ElementsOfSeq DEF RedeliverRaw, TypeOK
  <2>2. decodes' \in Seq(DecodeRun)
    BY <1>1, <1>5, <2>1 DEF RedeliverRaw, DecodeRun
  <2> QED
    BY <1>3, <1>5, <2>2 DEF RedeliverRaw, TypeOK
<1>6. CASE ConsumeTransformed
  <2>1. transformed[transformedPos + 1] \in Uplink \X Form /\ transformedPos' \in 0..Len(transformed)
    BY <1>6 DEF ConsumeTransformed, TypeOK
  <2>2. pushes' \in Seq(PushRun)
    BY <1>2, <1>6, <2>1 DEF ConsumeTransformed
  <2> QED
    BY <1>6, <2>1, <2>2 DEF ConsumeTransformed, TypeOK
<1>7. CASE RedeliverTransformed
  <2>1. pushes[Len(pushes)] \in PushRun
    BY <1>7, ElementsOfSeq DEF RedeliverTransformed, TypeOK
  <2>2. pushes' \in Seq(PushRun)
    BY <1>2, <1>7, <2>1 DEF RedeliverTransformed, PushRun
  <2> QED
    BY <1>3, <1>7, <2>2 DEF RedeliverTransformed, TypeOK
<1> QED  BY <1>4, <1>5, <1>6, <1>7

DecodeStep(i) ==
    \/ DecodeQuery(i)
    \/ \E f \in Form : Decode(i, f) \/ DecoderThrows(i, f) \/ EnrichmentFails(i, f)
    \/ DecodeSent(i) \/ DecodeSendFails(i) \/ DecodeResendFails(i)

(* A step of the payload decoder listener keeps every type. *)
LEMMA DecodeTypeOK ==
    ASSUME TypeOK, NEW i \in DOMAIN decodes, DecodeStep(i)
    PROVE  TypeOK'
<1> DEFINE r == decodes[i]
<1>1. r \in DecodeRun
  BY ElementsOfSeq DEF TypeOK
<1>2. \A e \in DecodeRun : [decodes EXCEPT ![i] = e] \in Seq(DecodeRun)
  BY ExceptSeq DEF TypeOK
<1>3. \A todo \in SUBSET Form : LoopOrDone(todo) \in {"loop", "done"}
  BY DEF LoopOrDone
<1>4. Emit(i) \in Seq(Uplink \X Form) /\ Len(Emit(i)) = Len(transformed) + 1
  <2>1. <<r.uplink, r.form>> \in Uplink \X Form
    BY <1>1 DEF DecodeRun
  <2> QED
    BY <2>1, AppendProperties DEF Emit, TypeOK
<1>5. ASSUME transformed' \in {transformed, Emit(i)}
      PROVE  transformed' \in Seq(Uplink \X Form) /\ transformedPos \in 0..Len(transformed')
  <2>1. Len(transformed) \in Nat
    BY ElementsOfSeq DEF TypeOK
  <2> QED
    BY <1>4, <1>5, <2>1 DEF TypeOK
<1>6. ASSUME Fault PROVE faults' \in 0..MaxFaults
  BY <1>6, PipelineAssumption DEF Fault, TypeOK
<1>7. r.uplink \in Uplink
  BY <1>1 DEF DecodeRun
<1>8. /\ decodes' \in Seq(DecodeRun)
      /\ transformed' \in {transformed, Emit(i)}
      /\ lost' \subseteq Uplink /\ faults' \in 0..MaxFaults
  <2>1. CASE DecodeQuery(i)
    <3>1. FormsOf(r.uplink) \in SUBSET Form
      BY DEF FormsOf, RoutesOf, Route
    <3>2. [r EXCEPT !.todo = FormsOf(r.uplink), !.stage = LoopOrDone(FormsOf(r.uplink))]
            \in DecodeRun
      BY <1>1, <1>3, <3>1 DEF DecodeRun
    <3>3. decodes' \in Seq(DecodeRun)
      BY <1>2, <2>1, <3>2 DEF DecodeQuery
    <3> QED
      BY <2>1, <3>3 DEF DecodeQuery, TypeOK
  <2>2. ASSUME NEW f \in Form, Decode(i, f)
        PROVE  /\ decodes' \in Seq(DecodeRun)
               /\ UNCHANGED <<transformed, lost, faults>>
    <3>1. [r EXCEPT !.todo = r.todo \ {f}, !.form = f, !.stage = "send"] \in DecodeRun
      BY <1>1 DEF DecodeRun
    <3> QED
      BY <1>2, <2>2, <3>1 DEF Decode
  <2>3. \A f \in Form :
          [r EXCEPT !.todo = r.todo \ {f}, !.stage = LoopOrDone(r.todo \ {f})] \in DecodeRun
    BY <1>1, <1>3 DEF DecodeRun
  <2>4. ASSUME NEW f \in Form, DecoderThrows(i, f)
        PROVE  /\ decodes' \in Seq(DecodeRun)
               /\ UNCHANGED <<transformed, lost, faults>>
    BY <1>2, <2>3, <2>4 DEF DecoderThrows
  <2>5. ASSUME NEW f \in Form, EnrichmentFails(i, f)
        PROVE  /\ decodes' \in Seq(DecodeRun)
               /\ transformed' = transformed
               /\ lost' \subseteq Uplink /\ faults' \in 0..MaxFaults
    <3>1. decodes' \in Seq(DecodeRun)
      BY <1>2, <2>3, <2>5 DEF EnrichmentFails
    <3> QED
      BY <1>6, <1>7, <2>5, <3>1 DEF EnrichmentFails, TypeOK
  <2>6. [r EXCEPT !.stage = LoopOrDone(r.todo)] \in DecodeRun
    BY <1>1, <1>3 DEF DecodeRun
  <2>7. CASE DecodeSent(i)
    <3>1. decodes' \in Seq(DecodeRun)
      BY <1>2, <2>6, <2>7 DEF DecodeSent
    <3> QED
      BY <2>7, <3>1 DEF DecodeSent, TypeOK
  <2>8. CASE DecodeSendFails(i)
    <3>1. [r EXCEPT !.stage = "resend"] \in DecodeRun
      BY <1>1 DEF DecodeRun
    <3>2. decodes' \in Seq(DecodeRun)
      BY <1>2, <2>8, <3>1 DEF DecodeSendFails
    <3> QED
      BY <1>6, <2>8, <3>2 DEF DecodeSendFails, TypeOK
  <2>9. CASE DecodeResendFails(i)
    <3>1. decodes' \in Seq(DecodeRun)
      BY <1>2, <2>6, <2>9 DEF DecodeResendFails
    <3> QED
      BY <1>6, <1>7, <2>9, <3>1 DEF DecodeResendFails, TypeOK
  <2>10. UNCHANGED <<transformed, lost, faults>>
           => transformed' = transformed /\ lost' \subseteq Uplink /\ faults' \in 0..MaxFaults
    BY DEF TypeOK
  <2> QED
    BY <2>1, <2>2, <2>4, <2>5, <2>7, <2>8, <2>9, <2>10 DEF DecodeStep
<1>9. DecodeFrame
  BY DEF DecodeStep, DecodeQuery, Decode, DecoderThrows, EnrichmentFails, DecodeSent,
         DecodeSendFails, DecodeResendFails
<1> QED
  BY <1>5, <1>8, <1>9 DEF DecodeFrame, TypeOK

PushStep(i) ==
    \/ FindDevice(i) \/ LookupTargets(i) \/ LookupUnsupported(i)
    \/ \E t \in Target : Push(i, t) \/ PushRetries(i, t) \/ PushFails(i, t)

(* A step of the data target listener keeps every type. *)
LEMMA PushTypeOK ==
    ASSUME TypeOK, NEW i \in DOMAIN pushes, PushStep(i)
    PROVE  TypeOK'
<1> DEFINE p == pushes[i]
<1>1. p \in PushRun
  BY ElementsOfSeq DEF TypeOK
<1>2. \A e \in PushRun : [pushes EXCEPT ![i] = e] \in Seq(PushRun)
  BY ExceptSeq DEF TypeOK
<1>3. CASE FindDevice(i)
  <2>1. \A st \in {"lookup", "done"} : [p EXCEPT !.stage = st] \in PushRun
    BY <1>1 DEF PushRun
  <2>2. pushes' \in Seq(PushRun)
    BY <1>2, <1>3, <2>1 DEF FindDevice
  <2> QED
    BY <1>3, <2>2 DEF FindDevice, PushFrame, TypeOK
<1>4. CASE LookupTargets(i)
  <2>1. \A st \in {"sending", "done"} :
          [p EXCEPT !.todo = TargetsOf(p.uplink, p.form), !.stage = st] \in PushRun
    BY <1>1 DEF PushRun, TargetsOf
  <2>2. pushes' \in Seq(PushRun)
    BY <1>2, <1>4, <2>1 DEF LookupTargets
  <2> QED
    BY <1>4, <2>2 DEF LookupTargets, PushFrame, TypeOK
<1>5. CASE LookupUnsupported(i)
  BY <1>5, DieTypeOK DEF LookupUnsupported, TypeOK
<1>6. ASSUME NEW t \in Target, SentTo(i, t)
      PROVE  pushes' \in Seq(PushRun)
  <2>1. \A st \in {"sending", "done"} :
          [p EXCEPT !.todo = p.todo \ {t}, !.stage = st] \in PushRun
    BY <1>1 DEF PushRun
  <2> QED
    BY <1>2, <1>6, <2>1 DEF SentTo
<1>7. ASSUME NEW t \in Target, Push(i, t)
      PROVE  TypeOK'
  <2>1. <<p.uplink, p.form, t>> \in Uplink \X Form \X Target
    BY <1>1 DEF PushRun
  <2>2. copies' \in [Uplink \X Form \X Target -> Nat]
    BY <1>7, <2>1 DEF Push, Received, TypeOK
  <2>3. pushes' \in Seq(PushRun)
    BY <1>6, <1>7 DEF Push
  <2> QED
    BY <1>7, <2>2, <2>3 DEF Push, PushFrame, TypeOK
<1>8. ASSUME NEW t \in Target, PushFails(i, t)
      PROVE  TypeOK'
  <2>1. pushes' \in Seq(PushRun)
    BY <1>6, <1>8 DEF PushFails
  <2>2. lost' \subseteq Uplink /\ faults' \in 0..MaxFaults
    BY <1>1, <1>8, PipelineAssumption DEF PushFails, Fault, PushRun, TypeOK
  <2>3. <<p.uplink, p.form, t>> \in Uplink \X Form \X Target
    BY <1>1 DEF PushRun
  <2>4. Received(i, t) \in [Uplink \X Form \X Target -> Nat]
    BY <2>3 DEF Received, TypeOK
  <2>5. copies' \in [Uplink \X Form \X Target -> Nat]
    BY <1>8, <2>4 DEF PushFails, TypeOK
  <2> QED
    BY <1>8, <2>1, <2>2, <2>5 DEF PushFails, PushFrame, TypeOK
<1>9. ASSUME NEW t \in Target, PushRetries(i, t)
      PROVE  TypeOK'
  <2>1. [p EXCEPT !.retried = p.retried \cup {t}] \in PushRun
    BY <1>1 DEF PushRun
  <2>2. pushes' \in Seq(PushRun)
    BY <1>2, <1>9, <2>1 DEF PushRetries
  <2>3. faults' \in 0..MaxFaults
    BY <1>9, PipelineAssumption DEF PushRetries, Fault, TypeOK
  <2>4. <<p.uplink, p.form, t>> \in Uplink \X Form \X Target
    BY <1>1 DEF PushRun
  <2>5. Received(i, t) \in [Uplink \X Form \X Target -> Nat]
    BY <2>4 DEF Received, TypeOK
  <2>6. copies' \in [Uplink \X Form \X Target -> Nat]
    BY <1>9, <2>5 DEF PushRetries, TypeOK
  <2> QED
    BY <1>9, <2>2, <2>3, <2>6 DEF PushRetries, PushFrame, TypeOK
<1> QED  BY <1>3, <1>4, <1>5, <1>7, <1>8, <1>9 DEF PushStep

(* Editing connections and deleting devices keeps every type. *)
LEMMA EditTypeOK ==
    ASSUME TypeOK, Edit
    PROVE  TypeOK'
<1>1. ASSUME NEW ls \in SUBSET Link, Relinked(ls), devices' \subseteq Device
      PROVE  TypeOK'
  <2>1. \A u \in Uplink : RoutesOf(u, ls) \in SUBSET Route
    BY DEF RoutesOf
  <2>2. /\ entitled' \in [Uplink -> SUBSET Route]
        /\ steady' \in [Uplink -> SUBSET Route]
    BY <1>1, <2>1 DEF Relinked, TypeOK
  <2>3. edits' \in 0..MaxEdits
    BY <1>1, PipelineAssumption DEF Relinked, TypeOK
  <2> QED
    BY <1>1, <2>2, <2>3 DEF Relinked, TypeOK
<1>2. ASSUME NEW l \in Link, Connect(l) \/ Disconnect(l)
      PROVE  TypeOK'
  BY <1>1, <1>2 DEF Connect, Disconnect, TypeOK
<1>3. ASSUME NEW l \in Link, NEW m \in Link, Reconnect(l, m)
      PROVE  TypeOK'
  BY <1>1, <1>3 DEF Reconnect, TypeOK
<1>4. ASSUME NEW d \in Device, DeleteDevice(d)
      PROVE  TypeOK'
  BY <1>1, <1>4 DEF DeleteDevice, TypeOK
<1> QED  BY <1>2, <1>3, <1>4 DEF Edit

(* The ways a step can be taken, grouped by what takes it. *)
LEMMA NextCases ==
    ASSUME Next
    PROVE  \/ Crash \/ Restart \/ Join
           \/ \E u \in Uplink :
                \/ Receive(u) \/ IntakeSent(u) \/ IntakeSendFails(u) \/ IntakeResendFails(u)
                \/ IntakeReconnectFails(u)
           \/ ConsumeRaw \/ RedeliverRaw \/ ConsumeTransformed \/ RedeliverTransformed
           \/ \E i \in DOMAIN decodes : DecodeStep(i)
           \/ \E i \in DOMAIN pushes : PushStep(i)
           \/ Edit
  BY DEF Next, Handle, Fail, DecodeStep, PushStep

(* Type correctness of the data path. *)
THEOREM TypeCorrect == Spec => []TypeOK
<1>1. TypeOK /\ [Next]_vars => TypeOK'
  <2> SUFFICES ASSUME TypeOK, [Next]_vars PROVE TypeOK'
    OBVIOUS
  <2>1. CASE Next
    BY <2>1, NextCases, ProcessTypeOK, IntakeTypeOK, ConsumeTypeOK, DecodeTypeOK, PushTypeOK,
       EditTypeOK
  <2>2. CASE UNCHANGED vars
    BY <2>2 DEF vars, TypeOK
  <2> QED  BY <2>1, <2>2
<1> QED  BY InitTypeOK, <1>1, PTL DEF Spec
-----------------------------------------------------------------------------
(* What Accounted says of one route r of one uplink u. *)
Settled(u, r) ==
    \/ <<u, r[1]>> \in Undecodable
    \/ u \in lost
    \/ copies[<<u, r[1], r[2]>>] > 0
    \/ OnItsWay(u, r[1], r[2])

(* The inductive invariant: connections are those of devices that exist,   *)
(* and a steady route is still connected, so whoever looks the connections *)
(* or the device up on behalf of an uplink finds the route again.          *)
AccountedInv ==
    /\ TypeOK
    /\ \A l \in links : l[1] \in devices
    /\ \A u \in Uplink : steady[u] \subseteq RoutesOf(u, links)
    /\ Accounted

(* At the start no route is steady and every device exists. *)
LEMMA InitAccounted == Init => AccountedInv
<1> SUFFICES ASSUME Init PROVE AccountedInv
  OBVIOUS
<1>1. \A l \in links : l[1] \in devices
  BY PipelineAssumption DEF Init, Link
<1> QED  BY <1>1, InitTypeOK DEF Init, AccountedInv, Accounted

(* Whatever is on its way is unfinished. *)
LEMMA OnItsWayUnfinished ==
    ASSUME NEW u \in Uplink, NEW f, NEW t, OnItsWay(u, f, t)
    PROVE  u \in Unfinished
<1>1. CASE intake[u] \in {"sending", "resending"} \/ u \in UnreadRaw
  BY <1>1 DEF Unfinished
<1>2. ASSUME NEW i \in DOMAIN decodes, decodes[i].uplink = u, decodes[i].stage # "done"
      PROVE  u \in Unfinished
  BY <1>2 DEF Unfinished
<1>3. CASE <<u, f>> \in UnreadTransformed
  <2>1. <<u, f>>[1] = u
    OBVIOUS
  <2> QED  BY <1>3, <2>1 DEF Unfinished
<1>4. ASSUME NEW i \in DOMAIN pushes, pushes[i].uplink = u, pushes[i].stage # "done"
      PROVE  u \in Unfinished
  BY <1>4 DEF Unfinished
<1> QED  BY <1>1, <1>2, <1>3, <1>4 DEF OnItsWay

(* The end of the process writes off all that was under way. *)
LEMMA DieSettled ==
    ASSUME Die, NEW u \in Uplink, NEW r \in Route, Settled(u, r)
    PROVE  Settled(u, r)'
  BY OnItsWayUnfinished DEF Die, Settled

(* The process ends, starts again or joins its consumer group. *)
LEMMA ProcessSettled ==
    ASSUME Crash \/ Restart \/ Join, NEW u \in Uplink, NEW r \in Route, Settled(u, r)
    PROVE  Settled(u, r)'
<1>1. CASE Crash
  BY <1>1, DieSettled DEF Crash
<1>2. CASE Restart
  BY <1>2 DEF Restart, Settled, OnItsWay, UnreadRaw, UnreadTransformed
<1>3. CASE Join
  <2>1. CASE u \in UnreadRaw \/ <<u, r[1]>> \in UnreadTransformed
    <3>1. <<u, r[1]>>[1] = u
      OBVIOUS
    <3> QED  BY <1>3, <2>1, <3>1 DEF Join, Settled
  <2>2. CASE u \notin UnreadRaw /\ <<u, r[1]>> \notin UnreadTransformed
    BY <1>3, <2>2 DEF Join, Settled, OnItsWay
  <2> QED  BY <2>1, <2>2
<1> QED  BY <1>1, <1>2, <1>3

(* What a topic gets is appended to what is unread. *)
LEMMA UnreadGrows ==
    ASSUME NEW S, NEW s \in Seq(S), NEW e \in S, NEW p \in 0..Len(s)
    PROVE  {s[i] : i \in p + 1 .. Len(s)} \cup {e}
             \subseteq {Append(s, e)[i] : i \in p + 1 .. Len(Append(s, e))}
<1>1. Len(Append(s, e)) = Len(s) + 1 /\ Append(s, e)[Len(s) + 1] = e /\ Len(s) \in Nat
  OBVIOUS
<1>2. \A i \in 1 .. Len(s) : Append(s, e)[i] = s[i]
  OBVIOUS
<1>3. Len(s) + 1 \in p + 1 .. Len(Append(s, e))
  BY <1>1
<1>4. \A i \in p + 1 .. Len(s) : i \in p + 1 .. Len(Append(s, e)) /\ i \in 1 .. Len(s)
  BY <1>1
<1> QED  BY <1>1, <1>2, <1>3, <1>4

(* Taking uplink v in and sending it settles v, and disturbs no other.     *)
LEMMA IntakeSettled ==
    ASSUME TypeOK, NEW v \in Uplink,
           Receive(v) \/ IntakeSent(v) \/ IntakeSendFails(v) \/ IntakeResendFails(v)
             \/ IntakeReconnectFails(v),
           NEW u \in Uplink, NEW r \in Route,
           Settled(u, r) \/ (Receive(v) /\ u = v)
    PROVE  Settled(u, r)'
<1>1. /\ {raw[i] : i \in rawPos + 1 .. Len(raw)} \cup {v}
           \subseteq {Append(raw, v)[i] : i \in rawPos + 1 .. Len(Append(raw, v))}
  <2>1. raw \in Seq(Uplink) /\ rawPos \in 0..Len(raw)
    BY DEF TypeOK
  <2> HIDE DEF pathVars
  <2> QED  BY <2>1, UnreadGrows
<1>2. ASSUME raw' \in {raw, Append(raw, v)}, rawPos' = rawPos
      PROVE  UnreadRaw \subseteq UnreadRaw'
  BY <1>1, <1>2 DEF UnreadRaw
<1>3. CASE Receive(v)
  <2>1. intake' = [intake EXCEPT ![v] = "sending"] /\ intake \in [Uplink -> IntakeStage]
    BY <1>3 DEF Receive, TypeOK
  <2>2. CASE u = v
    BY <2>1, <2>2 DEF Settled, OnItsWay
  <2>3. CASE u # v
    BY <1>3, <2>1, <2>3 DEF Receive, Settled, OnItsWay, UnreadRaw, UnreadTransformed
  <2> QED  BY <2>2, <2>3
<1>4. ASSUME UnreadRaw \subseteq UnreadRaw', lost \subseteq lost',
             UNCHANGED <<transformed, transformedPos, decodes, pushes, copies>>,
             \/ intake'[u] = intake[u]
             \/ intake'[u] \in {"sending", "resending"}
             \/ u \in UnreadRaw'
             \/ u \in lost',
             Settled(u, r)
      PROVE  Settled(u, r)'
  BY <1>4 DEF Settled, OnItsWay, UnreadTransformed
<1>5. CASE IntakeSent(v)
  <2>1. v \in UnreadRaw' /\ UnreadRaw \subseteq UnreadRaw'
    BY <1>1, <1>5 DEF IntakeSent, UnreadRaw
  <2>2. Settled(u, r)
    BY <1>5 DEF IntakeSent, Receive, TypeOK
  <2>3. u # v => intake'[u] = intake[u]
    BY <1>5 DEF IntakeSent, TypeOK
  <2> QED  BY <1>4, <1>5, <2>1, <2>2, <2>3 DEF IntakeSent
<1>6. CASE IntakeSendFails(v)
  <2>1. Settled(u, r)
    BY <1>6 DEF IntakeSendFails, Receive, TypeOK
  <2>2. intake'[u] = intake[u] \/ intake'[u] = "resending"
    BY <1>6 DEF IntakeSendFails, TypeOK
  <2> QED  BY <1>2, <1>4, <1>6, <2>1, <2>2 DEF IntakeSendFails
<1>7. CASE IntakeResendFails(v)
  <2>1. Settled(u, r)
    BY <1>7 DEF IntakeResendFails, Receive, TypeOK
  <2>2. intake'[u] = intake[u] \/ u \in lost'
    BY <1>7 DEF IntakeResendFails, TypeOK
  <2> QED  BY <1>2, <1>4, <1>7, <2>1, <2>2 DEF IntakeResendFails
<1>8. CASE IntakeReconnectFails(v)
  <2>1. Settled(u, r)
    BY <1>8 DEF IntakeReconnectFails, Receive, TypeOK
  <2>2. CASE Die
    BY <2>1, <2>2, DieSettled
  <2>3. CASE ~Die
    <3>1. intake'[u] = intake[u] \/ u \in lost'
      BY <1>8, <2>3 DEF IntakeReconnectFails, TypeOK
    <3> QED  BY <1>4, <1>8, <2>1, <2>3, <3>1 DEF IntakeReconnectFails, UnreadRaw
  <2> QED  BY <2>2, <2>3
<1> QED  BY <1>3, <1>5, <1>6, <1>7, <1>8

(* What a consumer passes, a handler has taken over. *)
LEMMA UnreadShrinks ==
    ASSUME NEW S, NEW s \in Seq(S), NEW p \in 0..Len(s), p < Len(s)
    PROVE  {s[i] : i \in p + 1 .. Len(s)}
             \subseteq {s[i] : i \in p + 2 .. Len(s)} \cup {s[p + 1]}
<1>1. \A i \in p + 1 .. Len(s) : i = p + 1 \/ i \in p + 2 .. Len(s)
  OBVIOUS
<1> QED  BY <1>1

(* A handler that is added leaves the others as they are. *)
LEMMA AppendKeeps ==
    ASSUME NEW S, NEW s \in Seq(S), NEW e \in S
    PROVE  /\ Append(s, e) \in Seq(S)
           /\ \A i \in DOMAIN s : i \in DOMAIN Append(s, e) /\ Append(s, e)[i] = s[i]
           /\ Len(s) + 1 \in DOMAIN Append(s, e) /\ Append(s, e)[Len(s) + 1] = e
  OBVIOUS

(* Reading a topic hands the uplink over to a handler, which starts anew. *)
LEMMA ConsumeSettled ==
    ASSUME TypeOK, ConsumeRaw \/ RedeliverRaw \/ ConsumeTransformed \/ RedeliverTransformed,
           NEW u \in Uplink, NEW r \in Route, Settled(u, r)
    PROVE  Settled(u, r)'
<1>0. /\ raw \in Seq(Uplink) /\ rawPos \in 0..Len(raw)
      /\ transformed \in Seq(Uplink \X Form) /\ transformedPos \in 0..Len(transformed)
      /\ decodes \in Seq(DecodeRun) /\ pushes \in Seq(PushRun)
  BY DEF TypeOK
<1>1. ASSUME NEW d \in DecodeRun, decodes' = Append(decodes, d)
      PROVE  /\ \A i \in DOMAIN decodes : i \in DOMAIN decodes' /\ decodes'[i] = decodes[i]
             /\ \E i \in DOMAIN decodes' : decodes'[i] = d
  BY <1>0, <1>1, AppendKeeps
<1>2. ASSUME NEW p \in PushRun, pushes' = Append(pushes, p)
      PROVE  /\ \A i \in DOMAIN pushes : i \in DOMAIN pushes' /\ pushes'[i] = pushes[i]
             /\ \E i \in DOMAIN pushes' : pushes'[i] = p
  BY <1>0, <1>2, AppendKeeps
<1>3. CASE ConsumeRaw
  <2>1. raw[rawPos + 1] \in Uplink /\ NewDecode(raw[rawPos + 1]) \in DecodeRun
    BY <1>0, <1>3, NewDecodeTyped DEF ConsumeRaw
  <2>2. UnreadRaw \subseteq UnreadRaw' \cup {raw[rawPos + 1]}
    <3>1. rawPos < Len(raw) /\ rawPos' = rawPos + 1 /\ raw' = raw /\ rawPos' + 1 = rawPos + 2
      BY <1>0, <1>3 DEF ConsumeRaw
    <3> QED  BY <1>0, <3>1, UnreadShrinks DEF UnreadRaw
  <2>3. /\ \A i \in DOMAIN decodes : i \in DOMAIN decodes' /\ decodes'[i] = decodes[i]
        /\ \E i \in DOMAIN decodes' : decodes'[i] = NewDecode(raw[rawPos + 1])
    BY <1>1, <1>3, <2>1 DEF ConsumeRaw
  <2>4. CASE u = raw[rawPos + 1]
    BY <2>3, <2>4 DEF NewDecode, Settled, OnItsWay
  <2>5. CASE u # raw[rawPos + 1]
    BY <1>3, <2>2, <2>3, <2>5 DEF ConsumeRaw, Settled, OnItsWay, UnreadTransformed
  <2> QED  BY <2>4, <2>5
<1>4. CASE RedeliverRaw
  <2>1. decodes[Len(decodes)] \in DecodeRun
    BY <1>0, <1>4, ElementsOfSeq DEF RedeliverRaw
  <2>2. NewDecode(decodes[Len(decodes)].uplink) \in DecodeRun
    BY <2>1, NewDecodeTyped DEF DecodeRun
  <2>3. \A i \in DOMAIN decodes : i \in DOMAIN decodes' /\ decodes'[i] = decodes[i]
    BY <1>1, <1>4, <2>2 DEF RedeliverRaw
  <2> QED
    BY <1>4, <2>3 DEF RedeliverRaw, Settled, OnItsWay, UnreadRaw, UnreadTransformed
<1>5. CASE ConsumeTransformed
  <2> DEFINE p == transformed[transformedPos + 1]
  <2>1. p \in Uplink \X Form /\ NewPush(p) \in PushRun
    BY <1>0, <1>5, NewPushTyped DEF ConsumeTransformed
  <2>2. UnreadTransformed \subseteq UnreadTransformed' \cup {p}
    <3>1. /\ transformedPos < Len(transformed) /\ transformedPos' = transformedPos + 1
          /\ transformed' = transformed /\ transformedPos' + 1 = transformedPos + 2
      BY <1>0, <1>5 DEF ConsumeTransformed
    <3> QED  BY <1>0, <3>1, UnreadShrinks DEF UnreadTransformed
  <2>3. /\ \A i \in DOMAIN pushes : i \in DOMAIN pushes' /\ pushes'[i] = pushes[i]
        /\ \E i \in DOMAIN pushes' : pushes'[i] = NewPush(p)
    BY <1>2, <1>5, <2>1 DEF ConsumeTransformed
  <2>4. CASE <<u, r[1]>> = p
    <3>1. p[1] = u /\ p[2] = r[1]
      BY <2>4
    <3> QED  BY <2>3, <3>1 DEF NewPush, Settled, OnItsWay
  <2>5. CASE <<u, r[1]>> # p
    BY <1>5, <2>2, <2>3, <2>5 DEF ConsumeTransformed, Settled, OnItsWay, UnreadRaw
  <2> QED  BY <2>4, <2>5
<1>6. CASE RedeliverTransformed
  <2> DEFINE last == pushes[Len(pushes)]
  <2>1. last \in PushRun
    BY <1>0, <1>6, ElementsOfSeq DEF RedeliverTransformed
  <2>2. NewPush(<<last.uplink, last.form>>) \in PushRun
    BY <2>1, NewPushTyped DEF PushRun
  <2>3. \A i \in DOMAIN pushes : i \in DOMAIN pushes' /\ pushes'[i] = pushes[i]
    BY <1>2, <1>6, <2>2 DEF RedeliverTransformed
  <2> QED
    BY <1>6, <2>3 DEF RedeliverTransformed, Settled, OnItsWay, UnreadRaw, UnreadTransformed
<1> QED  BY <1>3, <1>4, <1>5, <1>6

(* What keeps uplink u in form f with a run of the decoder listener. *)
Decoding(run, u, f) ==
    /\ run.uplink = u
    /\ \/ run.stage = "query"
       \/ run.stage # "done" /\ f \in run.todo
       \/ run.stage \in {"send", "resend"} /\ f = run.form

(* A step of one handler settles a route if what that handler was bringing *)
(* on its way along the route is still so or has come to an account.       *)
LEMMA HandlerSettles ==
    ASSUME DecodeFrame, NEW i \in DOMAIN decodes, NEW e,
           decodes' = [decodes EXCEPT ![i] = e],
           UnreadTransformed \subseteq UnreadTransformed', lost \subseteq lost',
           NEW u \in Uplink, NEW r \in Route, Settled(u, r),
           Decoding(decodes[i], u, r[1])
             => \/ Decoding(e, u, r[1])
                \/ <<u, r[1]>> \in Undecodable
                \/ u \in lost'
                \/ <<u, r[1]>> \in UnreadTransformed'
    PROVE  Settled(u, r)'
<1>1. /\ DOMAIN decodes' = DOMAIN decodes /\ decodes'[i] = e
      /\ \A j \in DOMAIN decodes : j # i => decodes'[j] = decodes[j]
  OBVIOUS
<1>2. CASE \E j \in DOMAIN decodes : Decoding(decodes[j], u, r[1])
  <2>1. \/ \E j \in DOMAIN decodes' : Decoding(decodes'[j], u, r[1])
        \/ <<u, r[1]>> \in Undecodable
        \/ u \in lost'
        \/ <<u, r[1]>> \in UnreadTransformed'
    BY <1>1, <1>2
  <2> QED  BY <2>1 DEF Decoding, Settled, OnItsWay
<1>3. CASE ~\E j \in DOMAIN decodes : Decoding(decodes[j], u, r[1])
  BY <1>3 DEF Decoding, DecodeFrame, Settled, OnItsWay, UnreadRaw
<1> QED  BY <1>2, <1>3

(* A step of the payload decoder listener: the connections it reads still  *)
(* hold the route; a form is taken, skipped for a cause, or sent.          *)
LEMMA DecodeSettled ==
    ASSUME TypeOK, NEW i \in DOMAIN decodes, DecodeStep(i),
           NEW u \in Uplink, NEW r \in RoutesOf(u, links), Settled(u, r)
    PROVE  Settled(u, r)'
<1> DEFINE d == decodes[i]
           f == r[1]
<1>1. r \in Route /\ f \in FormsOf(u)
  BY DEF RoutesOf, FormsOf
<1>2. d \in DecodeRun /\ decodes \in Seq(DecodeRun)
  BY ElementsOfSeq DEF TypeOK
<1>3. \A todo : f \in todo => LoopOrDone(todo) = "loop"
  BY DEF LoopOrDone
<1>4. /\ transformed' = transformed => UnreadTransformed' = UnreadTransformed
      /\ transformed' = Emit(i) =>
           UnreadTransformed \cup {<<d.uplink, d.form>>} \subseteq UnreadTransformed'
  <2>1. transformed \in Seq(Uplink \X Form) /\ transformedPos \in 0..Len(transformed)
    BY DEF TypeOK
  <2>2. <<d.uplink, d.form>> \in Uplink \X Form
    BY <1>2 DEF DecodeRun
  <2>3. transformedPos' = transformedPos
    BY DEF DecodeStep, DecodeQuery, Decode, DecoderThrows, EnrichmentFails, DecodeSent,
           DecodeSendFails, DecodeResendFails, DecodeFrame
  <2>4. {transformed[j] : j \in transformedPos + 1 .. Len(transformed)}
            \cup {<<d.uplink, d.form>>}
          \subseteq {Emit(i)[j] : j \in transformedPos + 1 .. Len(Emit(i))}
    <3> DEFINE p == <<d.uplink, d.form>>
    <3>1. p \in Uplink \X Form /\ Emit(i) = Append(transformed, p)
      BY <2>2 DEF Emit
    <3> HIDE DEF p
    <3>2. {transformed[j] : j \in transformedPos + 1 .. Len(transformed)} \cup {p}
            \subseteq {Append(transformed, p)[j] :
                          j \in transformedPos + 1 .. Len(Append(transformed, p))}
      BY <2>1, <3>1, UnreadGrows
    <3> QED  BY <3>1, <3>2 DEF p
  <2> QED  BY <2>3, <2>4 DEF UnreadTransformed
<1>5. CASE DecodeQuery(i)
  <2> DEFINE e == [d EXCEPT !.todo = FormsOf(d.uplink), !.stage = LoopOrDone(FormsOf(d.uplink))]
  <2>1. decodes' = [decodes EXCEPT ![i] = e]
    BY <1>2, <1>5 DEF DecodeQuery
  <2>2. Decoding(d, u, f) => Decoding(e, u, f)
    BY <1>1, <1>2, <1>3 DEF Decoding, DecodeRun
  <2> QED  BY <1>1, <1>4, <1>5, <2>1, <2>2, HandlerSettles DEF DecodeQuery
<1>6. ASSUME NEW g \in Form, Decode(i, g)
      PROVE  Settled(u, r)'
  <2> DEFINE e == [d EXCEPT !.todo = d.todo \ {g}, !.form = g, !.stage = "send"]
  <2>1. decodes' = [decodes EXCEPT ![i] = e]
    BY <1>2, <1>6 DEF Decode
  <2>2. Decoding(d, u, f) => Decoding(e, u, f)
    BY <1>2, <1>6 DEF Decoding, DecodeRun, Decode
  <2> QED  BY <1>1, <1>4, <1>6, <2>1, <2>2, HandlerSettles DEF Decode
<1>7. ASSUME NEW g \in Form, DecoderThrows(i, g) \/ EnrichmentFails(i, g)
      PROVE  Settled(u, r)'
  <2> DEFINE e == [d EXCEPT !.todo = d.todo \ {g}, !.stage = LoopOrDone(d.todo \ {g})]
  <2>1. decodes' = [decodes EXCEPT ![i] = e] /\ DecodeFrame /\ d.stage = "loop"
    BY <1>2, <1>7 DEF DecoderThrows, EnrichmentFails
  <2>2. CASE g = f /\ d.uplink = u
    <3>1. <<u, f>> \in Undecodable \/ u \in lost'
      BY <1>7, <2>2 DEF DecoderThrows, EnrichmentFails
    <3> QED  BY <3>1, <1>7 DEF Settled, DecoderThrows, EnrichmentFails
  <2>3. CASE ~(g = f /\ d.uplink = u)
    <3>1. Decoding(d, u, f) => Decoding(e, u, f)
      BY <1>2, <1>3, <2>1, <2>3 DEF Decoding, DecodeRun
    <3>2. UnreadTransformed \subseteq UnreadTransformed' /\ lost \subseteq lost'
      BY <1>4, <1>7 DEF DecoderThrows, EnrichmentFails
    <3> QED  BY <1>1, <2>1, <3>1, <3>2, HandlerSettles
  <2> QED  BY <2>2, <2>3
<1>8. CASE DecodeSendFails(i)
  <2> DEFINE e == [d EXCEPT !.stage = "resend"]
  <2>1. decodes' = [decodes EXCEPT ![i] = e] /\ DecodeFrame /\ lost \subseteq lost'
    BY <1>2, <1>8 DEF DecodeSendFails
  <2>2. Decoding(d, u, f) => Decoding(e, u, f)
    BY <1>2, <1>8 DEF Decoding, DecodeRun, DecodeSendFails
  <2>3. UnreadTransformed \subseteq UnreadTransformed'
    BY <1>4, <1>8 DEF DecodeSendFails
  <2> QED  BY <1>1, <2>1, <2>2, <2>3, HandlerSettles
<1>9. CASE DecodeSent(i) \/ DecodeResendFails(i)
  <2> DEFINE e == [d EXCEPT !.stage = LoopOrDone(d.todo)]
  <2>1. /\ decodes' = [decodes EXCEPT ![i] = e] /\ DecodeFrame /\ lost \subseteq lost'
        /\ d.stage \in {"send", "resend"}
    BY <1>2, <1>9 DEF DecodeSent, DecodeResendFails
  <2>2. Decoding(d, u, f) => Decoding(e, u, f) \/ (d.uplink = u /\ f = d.form)
    BY <1>2, <1>3, <2>1 DEF Decoding, DecodeRun
  <2>3. d.uplink = u /\ f = d.form => u \in lost' \/ <<u, f>> \in UnreadTransformed'
    BY <1>4, <1>9 DEF DecodeSent, DecodeResendFails
  <2>4. UnreadTransformed \subseteq UnreadTransformed'
    BY <1>4, <1>9 DEF DecodeSent, DecodeResendFails
  <2> QED  BY <1>1, <2>1, <2>2, <2>3, <2>4, HandlerSettles
<1> QED  BY <1>5, <1>6, <1>7, <1>8, <1>9 DEF DecodeStep

(* What keeps uplink u in form f to target t with a run of the target      *)
(* listener. *)
Pushing(run, u, f, t) ==
    /\ run.uplink = u /\ run.form = f
    /\ \/ run.stage \in {"find", "lookup"}
       \/ run.stage = "sending" /\ t \in run.todo

(* The same for one step of a handler of the data target listener.         *)
LEMMA PusherSettles ==
    ASSUME PushFrame, NEW i \in DOMAIN pushes, NEW e,
           pushes' = [pushes EXCEPT ![i] = e],
           lost \subseteq lost',
           NEW u \in Uplink, NEW r \in Route, Settled(u, r),
           copies[<<u, r[1], r[2]>>] > 0 => copies'[<<u, r[1], r[2]>>] > 0,
           Pushing(pushes[i], u, r[1], r[2])
             => \/ Pushing(e, u, r[1], r[2])
                \/ u \in lost'
                \/ copies'[<<u, r[1], r[2]>>] > 0
    PROVE  Settled(u, r)'
<1>1. /\ DOMAIN pushes' = DOMAIN pushes /\ pushes'[i] = e
      /\ \A j \in DOMAIN pushes : j # i => pushes'[j] = pushes[j]
  OBVIOUS
<1>2. CASE \E j \in DOMAIN pushes : Pushing(pushes[j], u, r[1], r[2])
  <2>1. \/ \E j \in DOMAIN pushes' : Pushing(pushes'[j], u, r[1], r[2])
        \/ u \in lost'
        \/ copies'[<<u, r[1], r[2]>>] > 0
    BY <1>1, <1>2
  <2> QED  BY <2>1 DEF Pushing, Settled, OnItsWay
<1>3. CASE ~\E j \in DOMAIN pushes : Pushing(pushes[j], u, r[1], r[2])
  BY <1>3 DEF Pushing, PushFrame, Settled, OnItsWay, UnreadRaw, UnreadTransformed
<1> QED  BY <1>2, <1>3

(* A step of the data target listener: the device is still there, the      *)
(* target is still connected; a send arrives, is retried or is given up.   *)
LEMMA PushSettled ==
    ASSUME AccountedInv, NEW i \in DOMAIN pushes, PushStep(i),
           NEW u \in Uplink, NEW r \in RoutesOf(u, links), Settled(u, r)
    PROVE  Settled(u, r)'
<1> DEFINE p == pushes[i]
           f == r[1]
           t == r[2]
           x == <<u, f, t>>
<1>1. r \in Route /\ f \in Form /\ t \in Target /\ t \in TargetsOf(u, f) /\ SourceOf[u] \in devices
  <2>1. r \in Route /\ <<SourceOf[u], f, t>> \in links
    BY DEF RoutesOf
  <2>2. <<SourceOf[u], f, t>>[1] \in devices
    BY <2>1 DEF AccountedInv
  <2> QED  BY <2>1, <2>2 DEF TargetsOf, RoutesOf, Route
<1>2. p \in PushRun /\ copies \in [Uplink \X Form \X Target -> Nat]
  BY ElementsOfSeq DEF AccountedInv, TypeOK
<1>3. ASSUME NEW g \in Target
      PROVE  /\ copies[x] > 0 => Received(i, g)[x] > 0
             /\ p.uplink = u /\ p.form = f /\ g = t => Received(i, g)[x] > 0
  <2>1. x \in Uplink \X Form \X Target /\ <<p.uplink, p.form, g>> \in Uplink \X Form \X Target
    BY <1>1, <1>2 DEF PushRun
  <2>2. copies[x] \in Nat /\ copies[<<p.uplink, p.form, g>>] \in Nat
    BY <1>2, <2>1
  <2>3. Received(i, g) = [copies EXCEPT ![<<p.uplink, p.form, g>>] =
                             copies[<<p.uplink, p.form, g>>] + 1]
    BY DEF Received
  <2> HIDE DEF x, p
  <2>4. \/ x = <<p.uplink, p.form, g>> /\ Received(i, g)[x] = copies[x] + 1
        \/ x # <<p.uplink, p.form, g>> /\ Received(i, g)[x] = copies[x]
    BY <1>2, <2>1, <2>2, <2>3
  <2> QED  BY <2>2, <2>4 DEF x
<1>4. CASE FindDevice(i)
  <2> DEFINE st == IF SourceOf[p.uplink] \in devices THEN "lookup" ELSE "done"
             e == [p EXCEPT !.stage = st]
  <2>1. pushes' = [pushes EXCEPT ![i] = e] /\ PushFrame /\ UNCHANGED <<copies, lost>>
    BY <1>2, <1>4 DEF FindDevice
  <2>2. Pushing(p, u, f, t) => Pushing(e, u, f, t)
    BY <1>1, <1>2, <1>4 DEF Pushing, PushRun
  <2> QED  BY <1>1, <2>1, <2>2, PusherSettles
<1>5. CASE LookupTargets(i)
  <2> DEFINE ts == TargetsOf(p.uplink, p.form)
             e == [p EXCEPT !.todo = ts, !.stage = IF ts = {} THEN "done" ELSE "sending"]
  <2>1. pushes' = [pushes EXCEPT ![i] = e] /\ PushFrame /\ UNCHANGED <<copies, lost>>
    BY <1>2, <1>5 DEF LookupTargets
  <2>2. Pushing(p, u, f, t) => Pushing(e, u, f, t)
    BY <1>1, <1>2 DEF Pushing, PushRun
  <2> QED  BY <1>1, <2>1, <2>2, PusherSettles
<1>6. CASE LookupUnsupported(i)
  BY <1>1, <1>6, DieSettled DEF LookupUnsupported
<1>7. ASSUME NEW g \in Target, SentTo(i, g), PushFrame, p.stage = "sending",
             \/ copies' = Received(i, g) /\ lost' = lost
             \/ copies' \in {copies, Received(i, g)} /\ lost' = lost \cup {p.uplink}
      PROVE  Settled(u, r)'
  <2> DEFINE rest == p.todo \ {g}
             e == [p EXCEPT !.todo = rest, !.stage = IF rest = {} THEN "done" ELSE "sending"]
  <2>1. pushes' = [pushes EXCEPT ![i] = e]
    BY <1>2, <1>7 DEF SentTo
  <2>2. Pushing(p, u, f, t)
          => \/ Pushing(e, u, f, t)
             \/ p.uplink = u /\ p.form = f /\ g = t
    BY <1>2, <1>7 DEF Pushing, PushRun
  <2>3. copies[x] > 0 => copies'[x] > 0
    BY <1>3, <1>7
  <2>4. p.uplink = u /\ p.form = f /\ g = t => u \in lost' \/ copies'[x] > 0
    BY <1>3, <1>7
  <2> QED  BY <1>1, <1>7, <2>1, <2>2, <2>3, <2>4, PusherSettles
<1>8. ASSUME NEW g \in Target, PushRetries(i, g)
      PROVE  Settled(u, r)'
  <2> DEFINE e == [p EXCEPT !.retried = p.retried \cup {g}]
  <2>1. /\ pushes' = [pushes EXCEPT ![i] = e] /\ PushFrame /\ lost' = lost
        /\ copies' \in {copies, Received(i, g)}
    BY <1>2, <1>8 DEF PushRetries
  <2>2. Pushing(p, u, f, t) => Pushing(e, u, f, t)
    BY <1>2 DEF Pushing, PushRun
  <2>3. copies[x] > 0 => copies'[x] > 0
    BY <1>3, <2>1
  <2> QED  BY <1>1, <2>1, <2>2, <2>3, PusherSettles
<1> QED
  BY <1>4, <1>5, <1>6, <1>7, <1>8 DEF PushStep, Push, PushFails

(* An edit takes routes away from the steady ones, and settles nothing.    *)
LEMMA EditSettled ==
    ASSUME AccountedInv, Edit
    PROVE  /\ \A l \in links' : l[1] \in devices'
           /\ \A u \in Uplink : steady'[u] \subseteq steady[u] \cap RoutesOf(u, links')
           /\ \A u \in Uplink, r \in Route : Settled(u, r) => Settled(u, r)'
<1>1. ASSUME NEW ls, Relinked(ls)
      PROVE  /\ links' = ls
             /\ \A u \in Uplink : steady'[u] \subseteq steady[u] \cap RoutesOf(u, links')
             /\ \A u \in Uplink, r \in Route : Settled(u, r) => Settled(u, r)'
  BY <1>1 DEF Relinked, Settled, OnItsWay, UnreadRaw, UnreadTransformed, AccountedInv, TypeOK
<1>2. ASSUME NEW l \in Link, Connect(l) \/ Disconnect(l)
      PROVE  /\ \E ls : Relinked(ls)
             /\ \A k \in links' : k[1] \in devices'
  BY <1>2 DEF Connect, Disconnect, Relinked, AccountedInv
<1>3. ASSUME NEW l \in Link, NEW m \in Link, Reconnect(l, m)
      PROVE  /\ \E ls : Relinked(ls)
             /\ \A k \in links' : k[1] \in devices'
  BY <1>3 DEF Reconnect, Relinked, AccountedInv
<1>4. ASSUME NEW d \in Device, DeleteDevice(d)
      PROVE  /\ \E ls : Relinked(ls)
             /\ \A k \in links' : k[1] \in devices'
  BY <1>4 DEF DeleteDevice, Relinked, AccountedInv
<1> QED  BY <1>1, <1>2, <1>3, <1>4 DEF Edit

(* Everything but intake and edits leaves connections and steady routes.   *)
LEMMA LinksStill ==
    ASSUME Next
    PROVE  \/ UNCHANGED <<links, devices, steady>>
           \/ \E u \in Uplink : Receive(u)
           \/ Edit
<1>1. CASE Crash \/ Restart \/ Join
  BY <1>1 DEF Crash, Restart, Join, Die
<1>2. ASSUME NEW u \in Uplink,
             IntakeSent(u) \/ IntakeSendFails(u) \/ IntakeResendFails(u) \/ IntakeReconnectFails(u)
      PROVE  UNCHANGED <<links, devices, steady>>
  BY <1>2 DEF IntakeSent, IntakeSendFails, IntakeResendFails, IntakeReconnectFails, Die
<1>3. CASE ConsumeRaw \/ RedeliverRaw \/ ConsumeTransformed \/ RedeliverTransformed
  BY <1>3 DEF ConsumeRaw, RedeliverRaw, ConsumeTransformed, RedeliverTransformed
<1>4. ASSUME NEW i \in DOMAIN decodes, DecodeStep(i)
      PROVE  UNCHANGED <<links, devices, steady>>
  BY <1>4 DEF DecodeStep, DecodeQuery, Decode, DecoderThrows, EnrichmentFails, DecodeSent,
         DecodeSendFails, DecodeResendFails, DecodeFrame
<1>5. ASSUME NEW i \in DOMAIN pushes, PushStep(i)
      PROVE  UNCHANGED <<links, devices, steady>>
  BY <1>5 DEF PushStep, FindDevice, LookupTargets, LookupUnsupported, Push, PushRetries,
         PushFails, PushFrame, Die
<1> QED  BY <1>1, <1>2, <1>3, <1>4, <1>5, NextCases

(* A stuttering step changes no account. *)
LEMMA StutterSettled ==
    ASSUME UNCHANGED vars, NEW u, NEW r, Settled(u, r)
    PROVE  Settled(u, r)'
  BY DEF vars, Settled, OnItsWay, UnreadRaw, UnreadTransformed

(* Along every route its device has had ever since it arrived, an uplink   *)
(* has reached the target, is on its way, or met a failure, a restart or a *)
(* decoder that throws (kafka.service.ts and the two listeners).           *)
THEOREM UplinksAccounted == Spec => []Accounted
<1>1. AccountedInv /\ [Next]_vars => AccountedInv'
  <2> SUFFICES ASSUME AccountedInv, [Next]_vars PROVE AccountedInv'
    OBVIOUS
  <2>1. TypeOK'
    <3>1. CASE Next
      BY <3>1, NextCases, ProcessTypeOK, IntakeTypeOK, ConsumeTypeOK, DecodeTypeOK, PushTypeOK,
         EditTypeOK DEF AccountedInv
    <3>2. CASE UNCHANGED vars
      BY <3>2 DEF vars, TypeOK, AccountedInv
    <3> QED  BY <3>1, <3>2
  <2>2. ASSUME NEW u \in Uplink, NEW r \in steady[u]
        PROVE  r \in RoutesOf(u, links) /\ r \in Route /\ Settled(u, r)
    BY DEF AccountedInv, Accounted, Settled, RoutesOf
  <2>3. CASE Edit
    <3>1. \A u \in Uplink : \A r \in steady'[u] : Settled(u, r)'
      BY <2>2, <2>3, EditSettled
    <3>2. Accounted'
      BY <3>1 DEF Accounted, Settled
    <3>3. /\ \A l \in links' : l[1] \in devices'
          /\ \A u \in Uplink : steady'[u] \subseteq RoutesOf(u, links')
      BY <2>3, EditSettled
    <3> QED  BY <2>1, <3>2, <3>3 DEF AccountedInv, RoutesOf
  <2>4. ASSUME NEW v \in Uplink, Receive(v)
        PROVE  AccountedInv'
    <3>1. /\ UNCHANGED <<links, devices>>
          /\ steady' = [steady EXCEPT ![v] = RoutesOf(v, links)]
          /\ steady \in [Uplink -> SUBSET Route]
      BY <2>4 DEF Receive, AccountedInv, TypeOK
    <3>2. ASSUME NEW u \in Uplink, NEW r \in steady'[u]
          PROVE  r \in RoutesOf(u, links) /\ Settled(u, r)'
      <4>1. \/ u = v /\ r \in RoutesOf(u, links)
            \/ r \in steady[u]
        BY <3>1, <3>2
      <4>2. r \in RoutesOf(u, links) /\ r \in Route
        BY <2>2, <4>1 DEF RoutesOf
      <4>3. Settled(u, r) \/ (Receive(v) /\ u = v)
        BY <2>2, <2>4, <4>1
      <4> QED  BY <2>4, <4>2, <4>3, IntakeSettled DEF AccountedInv
    <3>3. Accounted'
      BY <3>2 DEF Accounted, Settled
    <3> QED  BY <2>1, <3>1, <3>2, <3>3 DEF AccountedInv, RoutesOf
  <2>5. CASE Next /\ UNCHANGED <<links, devices, steady>> /\ ~\E v \in Uplink : Receive(v)
    <3>1. ASSUME NEW u \in Uplink, NEW r \in steady[u]
          PROVE  Settled(u, r)'
      <4>1. r \in RoutesOf(u, links) /\ r \in Route /\ Settled(u, r)
        BY <2>2
      <4>2. CASE Crash \/ Restart \/ Join
        BY <4>1, <4>2, ProcessSettled
      <4>3. CASE \E v \in Uplink :
                   \/ Receive(v) \/ IntakeSent(v) \/ IntakeSendFails(v)
                   \/ IntakeResendFails(v) \/ IntakeReconnectFails(v)
        BY <4>1, <4>3, IntakeSettled DEF AccountedInv
      <4>4. CASE ConsumeRaw \/ RedeliverRaw \/ ConsumeTransformed \/ RedeliverTransformed
        BY <4>1, <4>4, ConsumeSettled DEF AccountedInv
      <4>5. CASE \E i \in DOMAIN decodes : DecodeStep(i)
        BY <4>1, <4>5, DecodeSettled DEF AccountedInv
      <4>6. CASE \E i \in DOMAIN pushes : PushStep(i)
        BY <4>1, <4>6, PushSettled
      <4>7. CASE Edit
        BY <4>1, <4>7, EditSettled
      <4> QED  BY <2>5, <4>2, <4>3, <4>4, <4>5, <4>6, <4>7, NextCases
    <3>2. Accounted'
      BY <2>5, <3>1 DEF Accounted, Settled
    <3> QED  BY <2>1, <2>5, <3>2 DEF AccountedInv, RoutesOf
  <2>6. CASE UNCHANGED vars
    <3>1. \A u \in Uplink : \A r \in steady[u] : Settled(u, r)'
      BY <2>2, <2>6, StutterSettled
    <3>2. UNCHANGED <<links, devices, steady>>
      BY <2>6 DEF vars
    <3>3. Accounted'
      BY <3>1, <3>2 DEF Accounted, Settled
    <3> QED  BY <2>1, <3>2, <3>3 DEF AccountedInv, RoutesOf
  <2> QED  BY <2>3, <2>4, <2>5, <2>6, LinksStill
<1>2. AccountedInv => Accounted
  BY DEF AccountedInv
<1> QED  BY InitAccounted, <1>1, <1>2, PTL DEF Spec
-----------------------------------------------------------------------------
(* The bound on copies.  Each of these may still become a copy of uplink u *)
(* in form f at target t: the intake, an unread message, a handler.        *)
Coming(u) == IF intake[u] \in {"new", "sending", "resending"} THEN 1 ELSE 0
RawOf(u) == {i \in rawPos + 1 .. Len(raw) : raw[i] = u}
DecodesOf(u, f) == {i \in DOMAIN decodes : Decoding(decodes[i], u, f)}
TransformedOf(u, f) ==
    {i \in transformedPos + 1 .. Len(transformed) : transformed[i] = <<u, f>>}
PushesOf(u, f, t) == {i \in DOMAIN pushes : Pushing(pushes[i], u, f, t)}

(* Copies made and still possible. *)
Owed(u, f, t) ==
    Coming(u) + Cardinality(RawOf(u)) + Cardinality(DecodesOf(u, f))
      + Cardinality(TransformedOf(u, f)) + Cardinality(PushesOf(u, f, t))
      + copies[<<u, f, t>>]

(* The inductive invariant: a handler never holds a form twice, and only a *)
(* failure or a repeated delivery adds to what is owed.                    *)
CopiesInv ==
    /\ TypeOK
    /\ \A i \in DOMAIN decodes :
         decodes[i].stage \in {"send", "resend"} => decodes[i].form \notin decodes[i].todo
    /\ \A u \in Uplink, f \in Form, t \in Target : Owed(u, f, t) <= 1 + faults

(* What counting the elements of a finite set comes to when it changes. *)
LEMMA Counting ==
    ASSUME NEW S, IsFiniteSet(S), NEW T, NEW k
    PROVE  /\ Cardinality(S) \in Nat
           /\ T \subseteq S \cup {k} => /\ Cardinality(T) \in Nat
                                        /\ Cardinality(T) <= Cardinality(S) + 1
           /\ T \subseteq S => /\ Cardinality(T) \in Nat
                               /\ Cardinality(T) <= Cardinality(S)
           /\ k \in S /\ T \subseteq S \ {k} => /\ Cardinality(T) \in Nat
                                                /\ Cardinality(T) <= Cardinality(S) - 1
<1>1. Cardinality(S) \in Nat
  BY FS_CardinalityType
<1>2. ASSUME T \subseteq S
      PROVE  Cardinality(T) \in Nat /\ Cardinality(T) <= Cardinality(S)
  BY <1>2, FS_Subset, FS_CardinalityType
<1>3. ASSUME T \subseteq S \cup {k}
      PROVE  Cardinality(T) \in Nat /\ Cardinality(T) <= Cardinality(S) + 1
  <2>1. IsFiniteSet(S \cup {k}) /\ Cardinality(S \cup {k}) <= Cardinality(S) + 1
    BY <1>1, FS_AddElement
  <2>2. /\ IsFiniteSet(T) /\ Cardinality(T) <= Cardinality(S \cup {k})
    BY <1>3, <2>1, FS_Subset
  <2> QED  BY <1>1, <2>1, <2>2, FS_CardinalityType
<1>4. ASSUME k \in S, T \subseteq S \ {k}
      PROVE  Cardinality(T) \in Nat /\ Cardinality(T) <= Cardinality(S) - 1
  <2>1. IsFiniteSet(S \ {k}) /\ Cardinality(S \ {k}) = Cardinality(S) - 1
    BY <1>4, FS_RemoveElement
  <2>2. /\ IsFiniteSet(T) /\ Cardinality(T) <= Cardinality(S \ {k})
    BY <1>4, <2>1, FS_Subset
  <2> QED  BY <1>1, <2>1, <2>2, FS_CardinalityType
<1> QED  BY <1>1, <1>2, <1>3, <1>4

CountsFinite ==
    \A u, f, t :
        /\ IsFiniteSet(RawOf(u)) /\ IsFiniteSet(DecodesOf(u, f))
        /\ IsFiniteSet(TransformedOf(u, f)) /\ IsFiniteSet(PushesOf(u, f, t))

(* The sets that are counted are finite. *)
LEMMA OwedFinite == TypeOK => CountsFinite
<1> SUFFICES ASSUME TypeOK, NEW u, NEW f, NEW t
             PROVE  /\ IsFiniteSet(RawOf(u)) /\ IsFiniteSet(DecodesOf(u, f))
                    /\ IsFiniteSet(TransformedOf(u, f)) /\ IsFiniteSet(PushesOf(u, f, t))
  BY DEF CountsFinite
<1>1. /\ Len(raw) \in Nat /\ Len(transformed) \in Nat
      /\ Len(decodes) \in Nat /\ Len(pushes) \in Nat
      /\ DOMAIN decodes = 1 .. Len(decodes) /\ DOMAIN pushes = 1 .. Len(pushes)
      /\ rawPos \in Nat /\ transformedPos \in Nat
  BY ElementsOfSeq DEF TypeOK
<1>2. /\ IsFiniteSet(rawPos + 1 .. Len(raw)) /\ IsFiniteSet(DOMAIN decodes)
      /\ IsFiniteSet(transformedPos + 1 .. Len(transformed)) /\ IsFiniteSet(DOMAIN pushes)
  <2>1. \A m, n \in Nat : IsFiniteSet(m + 1 .. n) /\ IsFiniteSet(1 .. n)
    <3>1. \A m, n \in Int : IsFiniteSet(m .. n)
      BY FS_Interval
    <3> QED  BY <3>1
  <2> QED  BY <1>1, <2>1
<1>3. /\ RawOf(u) \in SUBSET (rawPos + 1 .. Len(raw))
      /\ DecodesOf(u, f) \in SUBSET DOMAIN decodes
      /\ TransformedOf(u, f) \in SUBSET (transformedPos + 1 .. Len(transformed))
      /\ PushesOf(u, f, t) \in SUBSET DOMAIN pushes
  BY DEF RawOf, DecodesOf, TransformedOf, PushesOf
<1> QED  BY <1>2, <1>3, FS_Subset

(* The numbers that make up what is owed. *)
LEMMA OwedTyped ==
    ASSUME TypeOK, NEW u \in Uplink, NEW f \in Form, NEW t \in Target
    PROVE  /\ Coming(u) \in {0, 1}
           /\ Cardinality(RawOf(u)) \in Nat /\ Cardinality(DecodesOf(u, f)) \in Nat
           /\ Cardinality(TransformedOf(u, f)) \in Nat
           /\ Cardinality(PushesOf(u, f, t)) \in Nat
           /\ copies[<<u, f, t>>] \in Nat
<1>1. copies[<<u, f, t>>] \in Nat
  BY DEF TypeOK
<1> QED  BY <1>1, OwedFinite, FS_CardinalityType DEF Coming, CountsFinite

(* At the start only the intake of each uplink may become a copy. *)
LEMMA InitCopies == Init => CopiesInv
<1> SUFFICES ASSUME Init PROVE CopiesInv
  OBVIOUS
<1>1. TypeOK
  BY InitTypeOK
<1>2. ASSUME NEW u \in Uplink, NEW f \in Form, NEW t \in Target
      PROVE  Owed(u, f, t) <= 1 + faults
  <2>1. /\ RawOf(u) = {} /\ DecodesOf(u, f) = {}
        /\ TransformedOf(u, f) = {} /\ PushesOf(u, f, t) = {}
    BY DEF Init, RawOf, DecodesOf, TransformedOf, PushesOf
  <2>2. copies[<<u, f, t>>] = 0 /\ faults = 0 /\ Coming(u) = 1
    BY DEF Init, Coming
  <2> QED  BY <2>1, <2>2, FS_EmptySet DEF Owed
<1>3. DOMAIN decodes = {}
  BY DEF Init
<1> QED  BY <1>1, <1>2, <1>3 DEF CopiesInv

(* By how much a step may change the numbers that make up what is owed.    *)
Change(u, f, t, a, b, c, d, e, k) ==
    /\ Coming(u)' <= Coming(u) + a
    /\ Cardinality(RawOf(u)') <= Cardinality(RawOf(u)) + b
    /\ Cardinality(DecodesOf(u, f)') <= Cardinality(DecodesOf(u, f)) + c
    /\ Cardinality(TransformedOf(u, f)') <= Cardinality(TransformedOf(u, f)) + d
    /\ Cardinality(PushesOf(u, f, t)') <= Cardinality(PushesOf(u, f, t)) + e
    /\ copies'[<<u, f, t>>] <= copies[<<u, f, t>>] + k

(* A step by which no more becomes possible than was possible or failed.   *)
LEMMA OwedBalance ==
    ASSUME TypeOK, TypeOK', NEW u \in Uplink, NEW f \in Form, NEW t \in Target,
           NEW a \in Int, NEW b \in Int, NEW c \in Int, NEW d \in Int, NEW e \in Int, NEW k \in Int,
           Change(u, f, t, a, b, c, d, e, k),
           a + b + c + d + e + k + faults <= faults'
    PROVE  Owed(u, f, t)' + faults <= Owed(u, f, t) + faults'
<1>1. /\ Coming(u) \in {0, 1}
      /\ Cardinality(RawOf(u)) \in Nat /\ Cardinality(DecodesOf(u, f)) \in Nat
      /\ Cardinality(TransformedOf(u, f)) \in Nat /\ Cardinality(PushesOf(u, f, t)) \in Nat
      /\ copies[<<u, f, t>>] \in Nat
  BY OwedTyped
<1>2. CountsFinite'
  BY OwedFinite, PTL
<1>3. /\ Cardinality(RawOf(u)') \in Nat /\ Cardinality(DecodesOf(u, f)') \in Nat
      /\ Cardinality(TransformedOf(u, f)') \in Nat /\ Cardinality(PushesOf(u, f, t)') \in Nat
  BY <1>2, FS_CardinalityType DEF CountsFinite
<1>4. Coming(u)' \in {0, 1} /\ copies'[<<u, f, t>>] \in Nat
  BY DEF Coming, TypeOK
<1>5. faults \in Nat /\ faults' \in Nat
  BY PipelineAssumption DEF TypeOK
<1> QED  BY <1>1, <1>3, <1>4, <1>5 DEF Owed, Change

(* Nothing more becomes possible when the process ends. *)
LEMMA DieOwed ==
    ASSUME TypeOK, TypeOK', Die, faults <= faults',
           NEW u \in Uplink, NEW f \in Form, NEW t \in Target
    PROVE  Owed(u, f, t)' + faults <= Owed(u, f, t) + faults'
<1>1. Coming(u)' <= Coming(u)
  BY DEF Die, Coming, TypeOK
<1>2. /\ RawOf(u)' = RawOf(u) /\ TransformedOf(u, f)' = TransformedOf(u, f)
      /\ DecodesOf(u, f)' = {} /\ PushesOf(u, f, t)' = {} /\ copies' = copies
  BY DEF Die, RawOf, TransformedOf, DecodesOf, PushesOf
<1>3. faults \in Nat /\ faults' \in Nat
  BY PipelineAssumption DEF TypeOK
<1>4. Change(u, f, t, 0, 0, 0, 0, 0, 0)
  BY <1>1, <1>2, OwedTyped, FS_EmptySet DEF Coming, Change
<1>5. 0 + 0 + 0 + 0 + 0 + 0 + faults <= faults'
  BY <1>3
<1> QED  BY <1>4, <1>5, OwedBalance

(* The process ends, starts again, or joins its consumer group. *)
LEMMA ProcessOwed ==
    ASSUME TypeOK, TypeOK', Crash \/ Restart \/ Join,
           NEW u \in Uplink, NEW f \in Form, NEW t \in Target
    PROVE  Owed(u, f, t)' + faults <= Owed(u, f, t) + faults'
<1>1. faults' = faults /\ faults \in Nat
  BY PipelineAssumption DEF Crash, Restart, Join, TypeOK
<1>2. CASE Crash
  BY <1>1, <1>2, DieOwed DEF Crash
<1>3. CASE Restart \/ Join
  <2>1. /\ RawOf(u)' \subseteq RawOf(u) /\ TransformedOf(u, f)' \subseteq TransformedOf(u, f)
        /\ DecodesOf(u, f)' = DecodesOf(u, f) /\ PushesOf(u, f, t)' = PushesOf(u, f, t)
        /\ Coming(u)' = Coming(u) /\ copies' = copies
    <3>1. /\ Len(raw) \in Nat /\ Len(transformed) \in Nat
      BY ElementsOfSeq DEF TypeOK
    <3>2. CASE Restart
      BY <3>2 DEF Restart, RawOf, TransformedOf, DecodesOf, PushesOf, Coming
    <3>3. CASE Join
      <4>1. Len(raw) + 1 .. Len(raw) = {} /\ Len(transformed) + 1 .. Len(transformed) = {}
        BY <3>1
      <4>2. RawOf(u)' = {} /\ TransformedOf(u, f)' = {}
        BY <3>3, <4>1 DEF Join, RawOf, TransformedOf
      <4> QED  BY <3>3, <4>2 DEF Join, DecodesOf, PushesOf, Coming
    <3> QED  BY <1>3, <3>2, <3>3
  <2>2. Change(u, f, t, 0, 0, 0, 0, 0, 0)
    <3>1. /\ Cardinality(RawOf(u)') <= Cardinality(RawOf(u))
          /\ Cardinality(TransformedOf(u, f)') <= Cardinality(TransformedOf(u, f))
      BY <2>1, OwedFinite, Counting DEF CountsFinite
    <3> QED  BY <2>1, <3>1, OwedTyped DEF Change
  <2>3. 0 + 0 + 0 + 0 + 0 + 0 + faults <= faults'
    BY <1>1
  <2> QED  BY <2>2, <2>3, OwedBalance
<1> QED  BY <1>2, <1>3

(* What a topic gets adds one place to those that hold it, and none to     *)
(* those that hold something else.                                         *)
LEMMA PlacesGrow ==
    ASSUME NEW S, NEW s \in Seq(S), NEW e \in S, NEW p \in 0..Len(s), NEW v
    PROVE  {i \in p + 1 .. Len(Append(s, e)) : Append(s, e)[i] = v}
             \subseteq {i \in p + 1 .. Len(s) : s[i] = v} \cup (IF e = v THEN {Len(s) + 1} ELSE {})
<1>1. /\ Len(Append(s, e)) = Len(s) + 1 /\ Append(s, e)[Len(s) + 1] = e /\ Len(s) \in Nat
      /\ \A i \in 1 .. Len(s) : Append(s, e)[i] = s[i]
  OBVIOUS
<1>2. \A i \in p + 1 .. Len(s) + 1 : i = Len(s) + 1 \/ (i \in p + 1 .. Len(s) /\ i \in 1 .. Len(s))
  BY <1>1
<1> QED  BY <1>1, <1>2

(* The intake of uplink v: what it gives up, the topic gets; a send that   *)
(* fails may have been received nevertheless, and counts as a fault.       *)
LEMMA IntakeOwed ==
    ASSUME TypeOK, TypeOK', NEW v \in Uplink,
           Receive(v) \/ IntakeSent(v) \/ IntakeSendFails(v) \/ IntakeResendFails(v)
             \/ IntakeReconnectFails(v),
           NEW u \in Uplink, NEW f \in Form, NEW t \in Target
    PROVE  Owed(u, f, t)' + faults <= Owed(u, f, t) + faults'
<1>0. /\ raw \in Seq(Uplink) /\ rawPos \in 0..Len(raw) /\ intake \in [Uplink -> IntakeStage]
      /\ faults \in Nat /\ faults' \in Nat
  BY PipelineAssumption DEF TypeOK
<1> HIDE DEF IntakeStage
<1>1. CASE IntakeReconnectFails(v) /\ Die
  <2>1. faults <= faults'
    BY <1>0, <1>1 DEF IntakeReconnectFails, Fault
  <2> QED  BY <1>1, <2>1, DieOwed
<1>2. CASE ~(IntakeReconnectFails(v) /\ Die)
  <2>1. /\ UNCHANGED <<decodes, transformed, transformedPos, pushes, copies, rawPos>>
        /\ raw' \in {raw, Append(raw, v)}
        /\ \/ faults' = faults + 1
           \/ faults' = faults /\ (raw' = raw \/ IntakeSent(v))
    BY <1>2 DEF Receive, IntakeSent, IntakeSendFails, IntakeResendFails, IntakeReconnectFails,
           Fault
  <2>2. /\ DecodesOf(u, f)' = DecodesOf(u, f) /\ PushesOf(u, f, t)' = PushesOf(u, f, t)
        /\ TransformedOf(u, f)' = TransformedOf(u, f)
    BY <2>1 DEF DecodesOf, PushesOf, TransformedOf
  <2>3. Coming(u)' <= Coming(u) /\ (IntakeSent(u) => Coming(u)' = Coming(u) - 1)
    BY <1>0, <1>2 DEF Receive, IntakeSent, IntakeSendFails, IntakeResendFails,
           IntakeReconnectFails, Coming, IntakeStage
  <2>4. /\ Cardinality(RawOf(u)') <= Cardinality(RawOf(u)) + 1
        /\ v # u \/ raw' = raw => Cardinality(RawOf(u)') <= Cardinality(RawOf(u))
    <3>1. IsFiniteSet(RawOf(u))
      BY OwedFinite DEF CountsFinite
    <3>2. /\ RawOf(u)' \subseteq RawOf(u) \cup {Len(raw) + 1}
          /\ v # u \/ raw' = raw => RawOf(u)' \subseteq RawOf(u)
      <4>1. CASE raw' = raw
        BY <2>1, <4>1 DEF RawOf
      <4>2. CASE raw' = Append(raw, v)
        <5>1. {i \in rawPos + 1 .. Len(Append(raw, v)) : Append(raw, v)[i] = u}
                \subseteq {i \in rawPos + 1 .. Len(raw) : raw[i] = u}
                            \cup (IF v = u THEN {Len(raw) + 1} ELSE {})
          BY <1>0, PlacesGrow
        <5>2. RawOf(u)' \subseteq RawOf(u) \cup (IF v = u THEN {Len(raw) + 1} ELSE {})
          BY <2>1, <4>2, <5>1 DEF RawOf
        <5>3. raw' # raw
          BY <1>0, <4>2
        <5> QED  BY <5>2, <5>3
      <4> QED  BY <2>1, <4>1, <4>2
    <3> QED  BY <3>1, <3>2, Counting
  <2>5. CASE IntakeSent(u) /\ v = u /\ faults' = faults
    <3>1. Change(u, f, t, -1, 1, 0, 0, 0, 0)
      BY <2>1, <2>2, <2>3, <2>4, <2>5, OwedTyped DEF Change
    <3>2. (-1) + 1 + 0 + 0 + 0 + 0 + faults <= faults'
      BY <1>0, <2>5
    <3> QED  BY <3>1, <3>2, OwedBalance
  <2>6. CASE faults' = faults /\ (v # u \/ raw' = raw)
    <3>1. Change(u, f, t, 0, 0, 0, 0, 0, 0)
      BY <2>1, <2>2, <2>3, <2>4, <2>6, OwedTyped DEF Change
    <3>2. 0 + 0 + 0 + 0 + 0 + 0 + faults <= faults'
      BY <1>0, <2>6
    <3> QED  BY <3>1, <3>2, OwedBalance
  <2>7. CASE faults' = faults + 1
    <3>1. Change(u, f, t, 0, 1, 0, 0, 0, 0)
      BY <2>1, <2>2, <2>3, <2>4, <2>7, OwedTyped DEF Change
    <3>2. 0 + 1 + 0 + 0 + 0 + 0 + faults <= faults'
      BY <1>0, <2>7
    <3> QED  BY <3>1, <3>2, OwedBalance
  <2> QED  BY <2>1, <2>5, <2>6, <2>7
<1> QED  BY <1>1, <1>2

(* A handler that is started takes the place after the others. *)
LEMMA AppendElements ==
    ASSUME NEW S, NEW s \in Seq(S), NEW e \in S
    PROVE  /\ \A i \in DOMAIN Append(s, e) : i = Len(s) + 1 \/ i \in DOMAIN s
           /\ Append(s, e)[Len(s) + 1] = e
           /\ \A i \in DOMAIN s : Append(s, e)[i] = s[i] /\ i # Len(s) + 1
  OBVIOUS

(* A message that is read leaves the unread ones and starts one handler; a *)
(* message read again starts one more, and counts as a fault.              *)
LEMMA ConsumeOwed ==
    ASSUME TypeOK, TypeOK', ConsumeRaw \/ RedeliverRaw \/ ConsumeTransformed \/ RedeliverTransformed,
           NEW u \in Uplink, NEW f \in Form, NEW t \in Target
    PROVE  Owed(u, f, t)' + faults <= Owed(u, f, t) + faults'
<1>0. /\ raw \in Seq(Uplink) /\ rawPos \in 0..Len(raw)
      /\ transformed \in Seq(Uplink \X Form) /\ transformedPos \in 0..Len(transformed)
      /\ decodes \in Seq(DecodeRun) /\ pushes \in Seq(PushRun)
      /\ faults \in Nat /\ faults' \in Nat
  BY PipelineAssumption DEF TypeOK
<1>1. /\ IsFiniteSet(RawOf(u)) /\ IsFiniteSet(DecodesOf(u, f))
      /\ IsFiniteSet(TransformedOf(u, f)) /\ IsFiniteSet(PushesOf(u, f, t))
  BY OwedFinite DEF CountsFinite
<1>sizes. /\ Coming(u) \in Nat /\ Cardinality(RawOf(u)) \in Nat
          /\ Cardinality(DecodesOf(u, f)) \in Nat /\ Cardinality(TransformedOf(u, f)) \in Nat
          /\ Cardinality(PushesOf(u, f, t)) \in Nat /\ copies[<<u, f, t>>] \in Nat
  BY OwedTyped
<1>2. ASSUME NEW v \in Uplink, decodes' = Append(decodes, NewDecode(v))
      PROVE  /\ v # u => DecodesOf(u, f)' \subseteq DecodesOf(u, f)
             /\ DecodesOf(u, f)' \subseteq DecodesOf(u, f) \cup {Len(decodes) + 1}
  <2> DEFINE n == NewDecode(v)
  <2>1. n \in DecodeRun /\ (v # u => ~Decoding(n, u, f))
    BY NewDecodeTyped DEF NewDecode, Decoding
  <2> HIDE DEF n
  <2>2. /\ \A i \in DOMAIN decodes' : i = Len(decodes) + 1 \/ i \in DOMAIN decodes
        /\ decodes'[Len(decodes) + 1] = n
        /\ \A i \in DOMAIN decodes : decodes'[i] = decodes[i]
    <3>1. decodes' = Append(decodes, n)
      BY <1>2 DEF n
    <3> QED  BY <1>0, <2>1, <3>1, AppendElements
  <2> QED  BY <2>1, <2>2 DEF DecodesOf
<1>3. ASSUME NEW v \in Uplink \X Form, pushes' = Append(pushes, NewPush(v))
      PROVE  /\ v # <<u, f>> => PushesOf(u, f, t)' \subseteq PushesOf(u, f, t)
             /\ PushesOf(u, f, t)' \subseteq PushesOf(u, f, t) \cup {Len(pushes) + 1}
  <2> DEFINE n == NewPush(v)
  <2>1. n \in PushRun /\ (v # <<u, f>> => ~Pushing(n, u, f, t))
    BY NewPushTyped DEF NewPush, Pushing
  <2> HIDE DEF n
  <2>2. /\ \A i \in DOMAIN pushes' : i = Len(pushes) + 1 \/ i \in DOMAIN pushes
        /\ pushes'[Len(pushes) + 1] = n
        /\ \A i \in DOMAIN pushes : pushes'[i] = pushes[i]
    <3>1. pushes' = Append(pushes, n)
      BY <1>3 DEF n
    <3> QED  BY <1>0, <2>1, <3>1, AppendElements
  <2> QED  BY <2>1, <2>2 DEF PushesOf
<1>4. CASE ConsumeRaw
  <2> DEFINE v == raw[rawPos + 1]
  <2>1. v \in Uplink /\ rawPos + 1 \in rawPos + 1 .. Len(raw)
    BY <1>0, <1>4 DEF ConsumeRaw
  <2>2. /\ RawOf(u)' \subseteq RawOf(u)
        /\ v = u => rawPos + 1 \in RawOf(u) /\ RawOf(u)' \subseteq RawOf(u) \ {rawPos + 1}
    BY <1>0, <1>4, <2>1 DEF ConsumeRaw, RawOf
  <2>3. /\ UNCHANGED <<intake, transformed, transformedPos, pushes, copies, faults>>
        /\ decodes' = Append(decodes, NewDecode(v))
    BY <1>4 DEF ConsumeRaw
  <2>4. /\ Coming(u)' = Coming(u) /\ TransformedOf(u, f)' = TransformedOf(u, f)
        /\ PushesOf(u, f, t)' = PushesOf(u, f, t)
    BY <2>3 DEF Coming, TransformedOf, PushesOf
  <2>5. CASE v = u
    <3>1. Cardinality(RawOf(u)') <= Cardinality(RawOf(u)) - 1
      BY <1>1, <2>2, <2>5, Counting
    <3>2. Cardinality(DecodesOf(u, f)') <= Cardinality(DecodesOf(u, f)) + 1
      BY <1>1, <1>2, <2>1, <2>3, Counting
    <3>3. Change(u, f, t, 0, -1, 1, 0, 0, 0)
      BY <1>sizes, <2>3, <2>4, <3>1, <3>2 DEF Change
    <3>4. 0 + (-1) + 1 + 0 + 0 + 0 + faults <= faults'
      BY <1>0, <2>3
    <3> QED  BY <3>3, <3>4, OwedBalance
  <2>6. CASE v # u
    <3>1. Cardinality(RawOf(u)') <= Cardinality(RawOf(u))
      BY <1>1, <2>2, Counting
    <3>2. Cardinality(DecodesOf(u, f)') <= Cardinality(DecodesOf(u, f))
      BY <1>1, <1>2, <2>1, <2>3, <2>6, Counting
    <3>3. Change(u, f, t, 0, 0, 0, 0, 0, 0)
      BY <1>sizes, <2>3, <2>4, <3>1, <3>2 DEF Change
    <3>4. 0 + 0 + 0 + 0 + 0 + 0 + faults <= faults'
      BY <1>0, <2>3
    <3> QED  BY <3>3, <3>4, OwedBalance
  <2> QED  BY <2>5, <2>6
<1>5. CASE RedeliverRaw
  <2> DEFINE v == decodes[Len(decodes)].uplink
  <2>1. v \in Uplink
    <3>1. decodes[Len(decodes)] \in DecodeRun
      BY <1>0, <1>5, ElementsOfSeq DEF RedeliverRaw
    <3> QED  BY <3>1 DEF DecodeRun
  <2>2. /\ UNCHANGED <<intake, raw, rawPos, transformed, transformedPos, pushes, copies>>
        /\ decodes' = Append(decodes, NewDecode(v)) /\ faults' = faults + 1
    BY <1>5 DEF RedeliverRaw, Fault
  <2>3. /\ Coming(u)' = Coming(u) /\ TransformedOf(u, f)' = TransformedOf(u, f)
        /\ PushesOf(u, f, t)' = PushesOf(u, f, t) /\ RawOf(u)' = RawOf(u)
    BY <2>2 DEF Coming, TransformedOf, PushesOf, RawOf
  <2>4. Cardinality(DecodesOf(u, f)') <= Cardinality(DecodesOf(u, f)) + 1
    BY <1>1, <1>2, <2>1, <2>2, Counting
  <2>5. Change(u, f, t, 0, 0, 1, 0, 0, 0)
    BY <1>sizes, <2>2, <2>3, <2>4 DEF Change
  <2>6. 0 + 0 + 1 + 0 + 0 + 0 + faults <= faults'
    BY <1>0, <2>2
  <2> QED  BY <2>5, <2>6, OwedBalance
<1>6. CASE ConsumeTransformed
  <2> DEFINE v == transformed[transformedPos + 1]
  <2>1. v \in Uplink \X Form /\ transformedPos + 1 \in transformedPos + 1 .. Len(transformed)
    BY <1>0, <1>6 DEF ConsumeTransformed
  <2>2. /\ TransformedOf(u, f)' \subseteq TransformedOf(u, f)
        /\ v = <<u, f>> => /\ transformedPos + 1 \in TransformedOf(u, f)
                           /\ TransformedOf(u, f)' \subseteq TransformedOf(u, f) \ {transformedPos + 1}
    BY <1>0, <1>6, <2>1 DEF ConsumeTransformed, TransformedOf
  <2>3. /\ UNCHANGED <<intake, raw, rawPos, decodes, copies, faults>>
        /\ pushes' = Append(pushes, NewPush(v))
    BY <1>6 DEF ConsumeTransformed
  <2>4. /\ Coming(u)' = Coming(u) /\ RawOf(u)' = RawOf(u)
        /\ DecodesOf(u, f)' = DecodesOf(u, f)
    BY <2>3 DEF Coming, RawOf, DecodesOf
  <2>5. CASE v = <<u, f>>
    <3>1. Cardinality(TransformedOf(u, f)') <= Cardinality(TransformedOf(u, f)) - 1
      BY <1>1, <2>2, <2>5, Counting
    <3>2. Cardinality(PushesOf(u, f, t)') <= Cardinality(PushesOf(u, f, t)) + 1
      BY <1>1, <1>3, <2>1, <2>3, Counting
    <3>3. Change(u, f, t, 0, 0, 0, -1, 1, 0)
      <4>1. Coming(u)' <= Coming(u) + 0 /\ copies'[<<u, f, t>>] <= copies[<<u, f, t>>] + 0
        BY <1>sizes, <2>3, <2>4
      <4>2. /\ Cardinality(RawOf(u)') <= Cardinality(RawOf(u)) + 0
            /\ Cardinality(DecodesOf(u, f)') <= Cardinality(DecodesOf(u, f)) + 0
        BY <1>sizes, <2>4
      <4>3. Cardinality(TransformedOf(u, f)') <= Cardinality(TransformedOf(u, f)) + (-1)
        BY <1>sizes, <3>1
      <4> QED  BY <3>2, <4>1, <4>2, <4>3 DEF Change
    <3>4. 0 + 0 + 0 + (-1) + 1 + 0 + faults <= faults'
      BY <1>0, <2>3
    <3> QED  BY <3>3, <3>4, OwedBalance
  <2>6. CASE v # <<u, f>>
    <3>1. Cardinality(TransformedOf(u, f)') <= Cardinality(TransformedOf(u, f))
      BY <1>1, <2>2, Counting
    <3>2. Cardinality(PushesOf(u, f, t)') <= Cardinality(PushesOf(u, f, t))
      BY <1>1, <1>3, <2>1, <2>3, <2>6, Counting
    <3>3. Change(u, f, t, 0, 0, 0, 0, 0, 0)
      BY <1>sizes, <2>3, <2>4, <3>1, <3>2 DEF Change
    <3>4. 0 + 0 + 0 + 0 + 0 + 0 + faults <= faults'
      BY <1>0, <2>3
    <3> QED  BY <3>3, <3>4, OwedBalance
  <2> QED  BY <2>5, <2>6
<1>7. CASE RedeliverTransformed
  <2> DEFINE last == pushes[Len(pushes)]
             v == <<last.uplink, last.form>>
  <2>1. v \in Uplink \X Form
    <3>1. last \in PushRun
      BY <1>0, <1>7, ElementsOfSeq DEF RedeliverTransformed
    <3> QED  BY <3>1 DEF PushRun
  <2>2. /\ UNCHANGED <<intake, raw, rawPos, transformed, transformedPos, decodes, copies>>
        /\ pushes' = Append(pushes, NewPush(v)) /\ faults' = faults + 1
    BY <1>7 DEF RedeliverTransformed, Fault
  <2>3. /\ Coming(u)' = Coming(u) /\ TransformedOf(u, f)' = TransformedOf(u, f)
        /\ DecodesOf(u, f)' = DecodesOf(u, f) /\ RawOf(u)' = RawOf(u)
    BY <2>2 DEF Coming, TransformedOf, DecodesOf, RawOf
  <2>4. Cardinality(PushesOf(u, f, t)') <= Cardinality(PushesOf(u, f, t)) + 1
    BY <1>1, <1>3, <2>1, <2>2, Counting
  <2>5. Change(u, f, t, 0, 0, 0, 0, 1, 0)
    BY <1>sizes, <2>2, <2>3, <2>4 DEF Change
  <2>6. 0 + 0 + 0 + 0 + 1 + 0 + faults <= faults'
    BY <1>0, <2>2
  <2> QED  BY <2>5, <2>6, OwedBalance
<1> QED  BY <1>4, <1>5, <1>6, <1>7

(* A step of one handler of the decoder listener makes no more of a form   *)
(* possible than it did before, and nothing of one it has given up.        *)
LEMMA HandlerCounts ==
    ASSUME TypeOK, NEW i \in DOMAIN decodes, NEW e, decodes' = [decodes EXCEPT ![i] = e],
           NEW u, NEW f, Decoding(e, u, f) => Decoding(decodes[i], u, f)
    PROVE  /\ Cardinality(DecodesOf(u, f)') <= Cardinality(DecodesOf(u, f))
           /\ Decoding(decodes[i], u, f) /\ ~Decoding(e, u, f)
                => Cardinality(DecodesOf(u, f)') <= Cardinality(DecodesOf(u, f)) - 1
<1>1. /\ DOMAIN decodes' = DOMAIN decodes /\ decodes'[i] = e
      /\ \A j \in DOMAIN decodes : j # i => decodes'[j] = decodes[j]
  OBVIOUS
<1>2. /\ DecodesOf(u, f)' \subseteq DecodesOf(u, f)
      /\ Decoding(decodes[i], u, f) /\ ~Decoding(e, u, f)
           => i \in DecodesOf(u, f) /\ DecodesOf(u, f)' \subseteq DecodesOf(u, f) \ {i}
  BY <1>1 DEF DecodesOf
<1>3. IsFiniteSet(DecodesOf(u, f))
  BY OwedFinite DEF CountsFinite
<1> QED  BY <1>2, <1>3, Counting

(* The same of one handler of the target listener. *)
LEMMA PusherCounts ==
    ASSUME TypeOK, NEW i \in DOMAIN pushes, NEW e, pushes' = [pushes EXCEPT ![i] = e],
           NEW u, NEW f, NEW t, Pushing(e, u, f, t) => Pushing(pushes[i], u, f, t)
    PROVE  /\ Cardinality(PushesOf(u, f, t)') <= Cardinality(PushesOf(u, f, t))
           /\ Pushing(pushes[i], u, f, t) /\ ~Pushing(e, u, f, t)
                => Cardinality(PushesOf(u, f, t)') <= Cardinality(PushesOf(u, f, t)) - 1
<1>1. /\ DOMAIN pushes' = DOMAIN pushes /\ pushes'[i] = e
      /\ \A j \in DOMAIN pushes : j # i => pushes'[j] = pushes[j]
  OBVIOUS
<1>2. /\ PushesOf(u, f, t)' \subseteq PushesOf(u, f, t)
      /\ Pushing(pushes[i], u, f, t) /\ ~Pushing(e, u, f, t)
           => i \in PushesOf(u, f, t) /\ PushesOf(u, f, t)' \subseteq PushesOf(u, f, t) \ {i}
  BY <1>1 DEF PushesOf
<1>3. IsFiniteSet(PushesOf(u, f, t))
  BY OwedFinite DEF CountsFinite
<1> QED  BY <1>2, <1>3, Counting

(* A step of the decoder listener: what it sends, the topic gets. *)
LEMMA DecodeOwed ==
    ASSUME CopiesInv, TypeOK', NEW i \in DOMAIN decodes, DecodeStep(i),
           NEW u \in Uplink, NEW f \in Form, NEW t \in Target
    PROVE  Owed(u, f, t)' + faults <= Owed(u, f, t) + faults'
<1> DEFINE d == decodes[i]
<1>0. /\ TypeOK /\ d \in DecodeRun /\ faults \in Nat
      /\ transformed \in Seq(Uplink \X Form) /\ transformedPos \in 0..Len(transformed)
      /\ (d.stage \in {"send", "resend"} => d.form \notin d.todo)
  <2>1. TypeOK /\ (d.stage \in {"send", "resend"} => d.form \notin d.todo)
    BY DEF CopiesInv
  <2>2. /\ decodes \in Seq(DecodeRun) /\ transformed \in Seq(Uplink \X Form)
        /\ transformedPos \in 0..Len(transformed)
    BY <2>1 DEF TypeOK
  <2>3. faults \in Nat
    BY <2>1, PipelineAssumption DEF TypeOK
  <2>4. decodes[i] \in DecodeRun
    BY <2>2, ElementsOfSeq
  <2> QED  BY <2>1, <2>2, <2>3, <2>4
<1>1. UNCHANGED <<intake, raw, rawPos, transformedPos, pushes, copies>>
  BY DEF DecodeStep, DecodeQuery, Decode, DecoderThrows, EnrichmentFails, DecodeSent,
         DecodeSendFails, DecodeResendFails, DecodeFrame
<1>2. /\ Coming(u)' = Coming(u) /\ RawOf(u)' = RawOf(u)
      /\ PushesOf(u, f, t)' = PushesOf(u, f, t)
  BY <1>1 DEF Coming, RawOf, PushesOf
<1>3. /\ transformed' = transformed => TransformedOf(u, f)' = TransformedOf(u, f)
      /\ transformed' = Emit(i) =>
           /\ Cardinality(TransformedOf(u, f)') <= Cardinality(TransformedOf(u, f)) + 1
           /\ <<d.uplink, d.form>> # <<u, f>> =>
                Cardinality(TransformedOf(u, f)') <= Cardinality(TransformedOf(u, f))
  <2>1. IsFiniteSet(TransformedOf(u, f))
    BY <1>0, OwedFinite DEF CountsFinite
  <2> DEFINE p == <<d.uplink, d.form>>
  <2>2. p \in Uplink \X Form /\ Emit(i) = Append(transformed, p)
    BY <1>0 DEF Emit, DecodeRun
  <2> HIDE DEF p
  <2>3. {j \in transformedPos + 1 .. Len(Append(transformed, p)) :
             Append(transformed, p)[j] = <<u, f>>}
          \subseteq {j \in transformedPos + 1 .. Len(transformed) : transformed[j] = <<u, f>>}
                      \cup (IF p = <<u, f>> THEN {Len(transformed) + 1} ELSE {})
    BY <1>0, <2>2, PlacesGrow
  <2>4. transformed' = Emit(i) =>
          TransformedOf(u, f)' \subseteq TransformedOf(u, f)
             \cup (IF p = <<u, f>> THEN {Len(transformed) + 1} ELSE {})
    BY <1>1, <2>2, <2>3 DEF TransformedOf
  <2>5. transformed' = transformed => TransformedOf(u, f)' = TransformedOf(u, f)
    BY <1>1 DEF TransformedOf
  <2>6. transformed' = Emit(i) =>
          /\ Cardinality(TransformedOf(u, f)') <= Cardinality(TransformedOf(u, f)) + 1
          /\ p # <<u, f>> =>
               Cardinality(TransformedOf(u, f)') <= Cardinality(TransformedOf(u, f))
    BY <2>1, <2>4, Counting
  <2> QED  BY <2>5, <2>6 DEF p
<1>4. ASSUME transformed' = transformed, faults <= faults',
             Cardinality(DecodesOf(u, f)') <= Cardinality(DecodesOf(u, f))
      PROVE  Owed(u, f, t)' + faults <= Owed(u, f, t) + faults'
  <2>1. Change(u, f, t, 0, 0, 0, 0, 0, 0)
    BY <1>0, <1>1, <1>2, <1>3, <1>4, OwedTyped DEF Change
  <2>2. 0 + 0 + 0 + 0 + 0 + 0 + faults <= faults'
    BY <1>0, <1>4
  <2> QED  BY <1>0, <2>1, <2>2, OwedBalance
<1>5. CASE DecodeQuery(i)
  <2> DEFINE e == [d EXCEPT !.todo = FormsOf(d.uplink), !.stage = LoopOrDone(FormsOf(d.uplink))]
  <2>1. decodes' = [decodes EXCEPT ![i] = e] /\ transformed' = transformed /\ faults' = faults
    BY <1>0, <1>5 DEF DecodeQuery
  <2>2. Decoding(e, u, f) => Decoding(d, u, f)
    BY <1>0, <1>5 DEF Decoding, DecodeRun, DecodeQuery
  <2>3. Cardinality(DecodesOf(u, f)') <= Cardinality(DecodesOf(u, f))
    BY <1>0, <2>1, <2>2, HandlerCounts
  <2> QED  BY <1>0, <1>4, <2>1, <2>3
<1>6. ASSUME NEW g \in Form, Decode(i, g)
      PROVE  Owed(u, f, t)' + faults <= Owed(u, f, t) + faults'
  <2> DEFINE e == [d EXCEPT !.todo = d.todo \ {g}, !.form = g, !.stage = "send"]
  <2>1. decodes' = [decodes EXCEPT ![i] = e] /\ transformed' = transformed /\ faults' = faults
    BY <1>0, <1>6 DEF Decode
  <2>2. Decoding(e, u, f) => Decoding(d, u, f)
    BY <1>0, <1>6 DEF Decoding, DecodeRun, Decode
  <2>3. Cardinality(DecodesOf(u, f)') <= Cardinality(DecodesOf(u, f))
    BY <1>0, <2>1, <2>2, HandlerCounts
  <2> QED  BY <1>0, <1>4, <2>1, <2>3
<1>7. ASSUME NEW g \in Form, DecoderThrows(i, g) \/ EnrichmentFails(i, g)
      PROVE  Owed(u, f, t)' + faults <= Owed(u, f, t) + faults'
  <2> DEFINE e == [d EXCEPT !.todo = d.todo \ {g}, !.stage = LoopOrDone(d.todo \ {g})]
  <2>1. /\ decodes' = [decodes EXCEPT ![i] = e] /\ transformed' = transformed
        /\ faults' = faults \/ faults' = faults + 1
    BY <1>0, <1>7 DEF DecoderThrows, EnrichmentFails, Fault
  <2>2. Decoding(e, u, f) => Decoding(d, u, f)
    BY <1>0, <1>7 DEF Decoding, DecodeRun, DecoderThrows, EnrichmentFails, LoopOrDone
  <2>3. Cardinality(DecodesOf(u, f)') <= Cardinality(DecodesOf(u, f))
    BY <1>0, <2>1, <2>2, HandlerCounts
  <2> QED  BY <1>0, <1>4, <2>1, <2>3
<1>8. CASE DecodeSendFails(i)
  <2> DEFINE e == [d EXCEPT !.stage = "resend"]
  <2>1. /\ decodes' = [decodes EXCEPT ![i] = e] /\ faults' = faults + 1
        /\ transformed' \in {transformed, Emit(i)}
    BY <1>0, <1>8 DEF DecodeSendFails, Fault
  <2>2. Decoding(e, u, f) => Decoding(d, u, f)
    BY <1>0, <1>8 DEF Decoding, DecodeRun, DecodeSendFails
  <2>3. Cardinality(DecodesOf(u, f)') <= Cardinality(DecodesOf(u, f))
    BY <1>0, <2>1, <2>2, HandlerCounts
  <2>4. CASE transformed' = Emit(i)
    <3>1. Change(u, f, t, 0, 0, 0, 1, 0, 0)
      BY <1>0, <1>1, <1>2, <1>3, <2>3, <2>4, OwedTyped DEF Change
    <3>2. 0 + 0 + 0 + 1 + 0 + 0 + faults <= faults'
      BY <1>0, <2>1
    <3> QED  BY <1>0, <3>1, <3>2, OwedBalance
  <2> QED  BY <1>0, <1>4, <2>1, <2>3, <2>4
<1>9. CASE DecodeSent(i) \/ DecodeResendFails(i)
  <2> DEFINE e == [d EXCEPT !.stage = LoopOrDone(d.todo)]
  <2>1. /\ decodes' = [decodes EXCEPT ![i] = e] /\ d.stage \in {"send", "resend"}
        /\ transformed' \in {transformed, Emit(i)}
        /\ faults' = faults \/ faults' = faults + 1
    BY <1>0, <1>9 DEF DecodeSent, DecodeResendFails, Fault
  <2>2. /\ Decoding(e, u, f) => Decoding(d, u, f)
        /\ d.uplink = u /\ d.form = f => Decoding(d, u, f) /\ ~Decoding(e, u, f)
    BY <1>0, <2>1 DEF Decoding, DecodeRun, LoopOrDone
  <2>3. /\ Cardinality(DecodesOf(u, f)') <= Cardinality(DecodesOf(u, f))
        /\ d.uplink = u /\ d.form = f
             => Cardinality(DecodesOf(u, f)') <= Cardinality(DecodesOf(u, f)) - 1
    BY <1>0, <2>1, <2>2, HandlerCounts
  <2>4. CASE transformed' = Emit(i) /\ d.uplink = u /\ d.form = f
    <3>1. Change(u, f, t, 0, 0, -1, 1, 0, 0)
      BY <1>0, <1>1, <1>2, <1>3, <2>3, <2>4, OwedTyped DEF Change
    <3>2. 0 + 0 + (-1) + 1 + 0 + 0 + faults <= faults'
      BY <1>0, <2>1
    <3>3. TypeOK /\ -1 \in Int
      BY <1>0
    <3> QED  BY <3>1, <3>2, <3>3, OwedBalance
  <2>5. CASE transformed' = Emit(i) /\ ~(d.uplink = u /\ d.form = f)
    <3>1. <<d.uplink, d.form>> # <<u, f>>
      BY <2>5
    <3>2. Change(u, f, t, 0, 0, 0, 0, 0, 0)
      BY <1>0, <1>1, <1>2, <1>3, <2>3, <2>5, <3>1, OwedTyped DEF Change
    <3>3. 0 + 0 + 0 + 0 + 0 + 0 + faults <= faults'
      BY <1>0, <2>1
    <3> QED  BY <1>0, <3>2, <3>3, OwedBalance
  <2> QED  BY <1>0, <1>4, <2>1, <2>3, <2>4, <2>5
<1> QED  BY <1>5, <1>6, <1>7, <1>8, <1>9 DEF DecodeStep

(* A step of the target listener: a send that arrives is not repeated, one *)
(* that fails may have arrived, and counts as a fault.                     *)
LEMMA PushOwed ==
    ASSUME TypeOK, TypeOK', NEW i \in DOMAIN pushes, PushStep(i),
           NEW u \in Uplink, NEW f \in Form, NEW t \in Target
    PROVE  Owed(u, f, t)' + faults <= Owed(u, f, t) + faults'
<1> DEFINE p == pushes[i]
           x == <<u, f, t>>
<1>0. p \in PushRun /\ faults \in Nat /\ copies \in [Uplink \X Form \X Target -> Nat]
  <2>1. pushes \in Seq(PushRun) /\ copies \in [Uplink \X Form \X Target -> Nat]
    BY DEF TypeOK
  <2>2. faults \in Nat
    BY PipelineAssumption DEF TypeOK
  <2> QED  BY <2>1, <2>2, ElementsOfSeq
<1>1. CASE LookupUnsupported(i)
  BY <1>0, <1>1, DieOwed DEF LookupUnsupported
<1>2. ASSUME PushFrame
      PROVE  /\ Coming(u)' = Coming(u) /\ RawOf(u)' = RawOf(u)
             /\ DecodesOf(u, f)' = DecodesOf(u, f)
             /\ TransformedOf(u, f)' = TransformedOf(u, f)
  BY <1>2 DEF PushFrame, Coming, RawOf, DecodesOf, TransformedOf
<1>3. ASSUME PushFrame, copies' = copies, faults <= faults',
             Cardinality(PushesOf(u, f, t)') <= Cardinality(PushesOf(u, f, t))
      PROVE  Owed(u, f, t)' + faults <= Owed(u, f, t) + faults'
  <2>1. Change(u, f, t, 0, 0, 0, 0, 0, 0)
    BY <1>2, <1>3, OwedTyped DEF Change
  <2>2. 0 + 0 + 0 + 0 + 0 + 0 + faults <= faults'
    BY <1>0, <1>3
  <2> QED  BY <2>1, <2>2, OwedBalance
<1>4. ASSUME NEW g \in Target
      PROVE  /\ Received(i, g)[x] <= copies[x] + 1
             /\ ~(p.uplink = u /\ p.form = f /\ g = t) => Received(i, g)[x] = copies[x]
  <2>1. x \in Uplink \X Form \X Target /\ <<p.uplink, p.form, g>> \in Uplink \X Form \X Target
    BY <1>0 DEF PushRun
  <2>2. copies[x] \in Nat /\ copies[<<p.uplink, p.form, g>>] \in Nat
    BY <1>0, <2>1
  <2>3. Received(i, g) = [copies EXCEPT ![<<p.uplink, p.form, g>>] =
                             copies[<<p.uplink, p.form, g>>] + 1]
    BY DEF Received
  <2>4. ~(p.uplink = u /\ p.form = f /\ g = t) => x # <<p.uplink, p.form, g>>
    OBVIOUS
  <2> HIDE DEF x, p
  <2> QED  BY <1>0, <2>1, <2>2, <2>3, <2>4
<1>5. CASE FindDevice(i)
  <2> DEFINE st == IF SourceOf[p.uplink] \in devices THEN "lookup" ELSE "done"
             e == [p EXCEPT !.stage = st]
  <2>1. pushes' = [pushes EXCEPT ![i] = e] /\ PushFrame /\ UNCHANGED <<copies, faults>>
    BY <1>0, <1>5 DEF FindDevice
  <2>2. Pushing(e, u, f, t) => Pushing(p, u, f, t)
    BY <1>0, <1>5 DEF Pushing, PushRun, FindDevice
  <2>3. Cardinality(PushesOf(u, f, t)') <= Cardinality(PushesOf(u, f, t))
    BY <2>1, <2>2, PusherCounts
  <2> QED  BY <1>0, <1>3, <2>1, <2>3
<1>6. CASE LookupTargets(i)
  <2> DEFINE ts == TargetsOf(p.uplink, p.form)
             e == [p EXCEPT !.todo = ts, !.stage = IF ts = {} THEN "done" ELSE "sending"]
  <2>1. pushes' = [pushes EXCEPT ![i] = e] /\ PushFrame /\ UNCHANGED <<copies, faults>>
    BY <1>0, <1>6 DEF LookupTargets
  <2>2. Pushing(e, u, f, t) => Pushing(p, u, f, t)
    BY <1>0, <1>6 DEF Pushing, PushRun, LookupTargets
  <2>3. Cardinality(PushesOf(u, f, t)') <= Cardinality(PushesOf(u, f, t))
    BY <2>1, <2>2, PusherCounts
  <2> QED  BY <1>0, <1>3, <2>1, <2>3
<1>7. ASSUME NEW g \in Target, SentTo(i, g), PushFrame, p.stage = "sending", g \in p.todo,
             \/ copies' = Received(i, g) /\ faults' = faults
             \/ copies' \in {copies, Received(i, g)} /\ faults' = faults + 1
      PROVE  Owed(u, f, t)' + faults <= Owed(u, f, t) + faults'
  <2> DEFINE rest == p.todo \ {g}
             e == [p EXCEPT !.todo = rest, !.stage = IF rest = {} THEN "done" ELSE "sending"]
  <2>1. pushes' = [pushes EXCEPT ![i] = e]
    BY <1>0, <1>7 DEF SentTo
  <2>2. /\ Pushing(e, u, f, t) => Pushing(p, u, f, t)
        /\ p.uplink = u /\ p.form = f /\ g = t => Pushing(p, u, f, t) /\ ~Pushing(e, u, f, t)
    BY <1>0, <1>7 DEF Pushing, PushRun
  <2>3. /\ Cardinality(PushesOf(u, f, t)') <= Cardinality(PushesOf(u, f, t))
        /\ p.uplink = u /\ p.form = f /\ g = t
             => Cardinality(PushesOf(u, f, t)') <= Cardinality(PushesOf(u, f, t)) - 1
    BY <2>1, <2>2, PusherCounts
  <2>4. CASE p.uplink = u /\ p.form = f /\ g = t
    <3>1. copies'[x] <= copies[x] + 1
      BY <1>4, <1>7, OwedTyped
    <3>2. Change(u, f, t, 0, 0, 0, 0, -1, 1)
      BY <1>2, <1>7, <2>3, <2>4, <3>1, OwedTyped DEF Change
    <3>3. 0 + 0 + 0 + 0 + (-1) + 1 + faults <= faults'
      BY <1>0, <1>7
    <3> QED  BY <3>2, <3>3, OwedBalance
  <2>5. CASE ~(p.uplink = u /\ p.form = f /\ g = t)
    <3>1. copies'[x] = copies[x]
      BY <1>4, <1>7, <2>5
    <3>2. Change(u, f, t, 0, 0, 0, 0, 0, 0)
      BY <1>2, <1>7, <2>3, <3>1, OwedTyped DEF Change
    <3>3. 0 + 0 + 0 + 0 + 0 + 0 + faults <= faults'
      BY <1>0, <1>7
    <3> QED  BY <3>2, <3>3, OwedBalance
  <2> QED  BY <2>4, <2>5
<1>8. ASSUME NEW g \in Target, Push(i, g) \/ PushFails(i, g)
      PROVE  Owed(u, f, t)' + faults <= Owed(u, f, t) + faults'
  BY <1>7, <1>8 DEF Push, PushFails, Fault
<1>9. ASSUME NEW g \in Target, PushRetries(i, g)
      PROVE  Owed(u, f, t)' + faults <= Owed(u, f, t) + faults'
  <2> DEFINE e == [p EXCEPT !.retried = p.retried \cup {g}]
  <2>1. /\ pushes' = [pushes EXCEPT ![i] = e] /\ PushFrame /\ faults' = faults + 1
        /\ copies' \in {copies, Received(i, g)}
    BY <1>0, <1>9 DEF PushRetries, Fault
  <2>2. Pushing(e, u, f, t) => Pushing(p, u, f, t)
    BY <1>0 DEF Pushing, PushRun
  <2>3. Cardinality(PushesOf(u, f, t)') <= Cardinality(PushesOf(u, f, t))
    BY <2>1, <2>2, PusherCounts
  <2>4. copies'[x] <= copies[x] + 1
    BY <1>4, <2>1, OwedTyped
  <2>5. Change(u, f, t, 0, 0, 0, 0, 0, 1)
    BY <1>2, <2>1, <2>3, <2>4, OwedTyped DEF Change
  <2>6. 0 + 0 + 0 + 0 + 0 + 1 + faults <= faults'
    BY <1>0, <2>1
  <2> QED  BY <2>5, <2>6, OwedBalance
<1> QED  BY <1>1, <1>5, <1>6, <1>8, <1>9 DEF PushStep

(* An edit of connections, or a step of nobody, moves no message. *)
LEMMA EditOwed ==
    ASSUME TypeOK, TypeOK', Edit \/ UNCHANGED vars,
           NEW u \in Uplink, NEW f \in Form, NEW t \in Target
    PROVE  Owed(u, f, t)' + faults <= Owed(u, f, t) + faults'
<1>1. /\ UNCHANGED <<intake, raw, rawPos, transformed, transformedPos, decodes, pushes>>
      /\ copies' = copies /\ faults' = faults
  BY DEF Edit, Connect, Disconnect, Reconnect, DeleteDevice, Relinked, vars
<1>2. /\ Coming(u)' = Coming(u) /\ RawOf(u)' = RawOf(u) /\ DecodesOf(u, f)' = DecodesOf(u, f)
      /\ TransformedOf(u, f)' = TransformedOf(u, f) /\ PushesOf(u, f, t)' = PushesOf(u, f, t)
  BY <1>1 DEF Coming, RawOf, DecodesOf, TransformedOf, PushesOf
<1>3. Change(u, f, t, 0, 0, 0, 0, 0, 0)
  BY <1>1, <1>2, OwedTyped DEF Change
<1>4. 0 + 0 + 0 + 0 + 0 + 0 + faults <= faults'
  BY <1>1, PipelineAssumption DEF TypeOK
<1> QED  BY <1>3, <1>4, OwedBalance

(* The form a handler is sending is not among those it has yet to send. *)
FormOnce(run) == run.stage \in {"send", "resend"} => run.form \notin run.todo

(* A form is taken out of what is left to do before it is sent. *)
LEMMA FormsOnce ==
    ASSUME TypeOK, Next, \A i \in DOMAIN decodes : FormOnce(decodes[i])
    PROVE  \A i \in DOMAIN decodes' : FormOnce(decodes'[i])
<1>0. decodes \in Seq(DecodeRun) /\ \A i \in DOMAIN decodes : decodes[i] \in DecodeRun
  BY ElementsOfSeq DEF TypeOK
<1>1. ASSUME decodes' = decodes \/ decodes' = <<>>
      PROVE  \A i \in DOMAIN decodes' : FormOnce(decodes'[i])
  BY <1>1
<1>2. ASSUME NEW u \in Uplink, decodes' = Append(decodes, NewDecode(u))
      PROVE  \A i \in DOMAIN decodes' : FormOnce(decodes'[i])
  <2> DEFINE n == NewDecode(u)
  <2>1. n \in DecodeRun /\ FormOnce(n)
    BY NewDecodeTyped DEF NewDecode, FormOnce
  <2> HIDE DEF n
  <2>2. /\ \A i \in DOMAIN decodes' : i = Len(decodes) + 1 \/ i \in DOMAIN decodes
        /\ decodes'[Len(decodes) + 1] = n
        /\ \A i \in DOMAIN decodes : decodes'[i] = decodes[i]
    <3>1. decodes' = Append(decodes, n)
      BY <1>2 DEF n
    <3> QED  BY <1>0, <2>1, <3>1, AppendElements
  <2> QED  BY <2>1, <2>2
<1>3. ASSUME NEW i \in DOMAIN decodes, NEW e, decodes' = [decodes EXCEPT ![i] = e], FormOnce(e)
      PROVE  \A j \in DOMAIN decodes' : FormOnce(decodes'[j])
  BY <1>3
<1>4. ASSUME NEW i \in DOMAIN decodes, DecodeStep(i)
      PROVE  \A j \in DOMAIN decodes' : FormOnce(decodes'[j])
  <2> DEFINE d == decodes[i]
  <2>0. d \in DecodeRun /\ FormOnce(d)
    BY <1>0
  <2>1. \A todo : LoopOrDone(todo) \notin {"send", "resend"}
    BY DEF LoopOrDone
  <2>2. CASE DecodeQuery(i)
    <3> DEFINE e == [d EXCEPT !.todo = FormsOf(d.uplink), !.stage = LoopOrDone(FormsOf(d.uplink))]
    <3>1. decodes' = [decodes EXCEPT ![i] = e] /\ FormOnce(e)
      BY <2>0, <2>1, <2>2 DEF DecodeQuery, FormOnce, DecodeRun
    <3> QED  BY <1>3, <3>1
  <2>3. ASSUME NEW g \in Form, Decode(i, g)
        PROVE  \A j \in DOMAIN decodes' : FormOnce(decodes'[j])
    <3> DEFINE e == [d EXCEPT !.todo = d.todo \ {g}, !.form = g, !.stage = "send"]
    <3>1. decodes' = [decodes EXCEPT ![i] = e] /\ FormOnce(e)
      BY <2>0, <2>3 DEF Decode, FormOnce, DecodeRun
    <3> QED  BY <1>3, <3>1
  <2>4. ASSUME NEW g \in Form, DecoderThrows(i, g) \/ EnrichmentFails(i, g)
        PROVE  \A j \in DOMAIN decodes' : FormOnce(decodes'[j])
    <3> DEFINE e == [d EXCEPT !.todo = d.todo \ {g}, !.stage = LoopOrDone(d.todo \ {g})]
    <3>1. decodes' = [decodes EXCEPT ![i] = e] /\ FormOnce(e)
      BY <2>0, <2>1, <2>4 DEF DecoderThrows, EnrichmentFails, FormOnce, DecodeRun
    <3> QED  BY <1>3, <3>1
  <2>5. CASE DecodeSent(i) \/ DecodeResendFails(i)
    <3> DEFINE e == [d EXCEPT !.stage = LoopOrDone(d.todo)]
    <3>1. decodes' = [decodes EXCEPT ![i] = e] /\ FormOnce(e)
      BY <2>0, <2>1, <2>5 DEF DecodeSent, DecodeResendFails, FormOnce, DecodeRun
    <3> QED  BY <1>3, <3>1
  <2>6. CASE DecodeSendFails(i)
    <3> DEFINE e == [d EXCEPT !.stage = "resend"]
    <3>1. decodes' = [decodes EXCEPT ![i] = e] /\ FormOnce(e)
      BY <2>0, <2>6 DEF DecodeSendFails, FormOnce, DecodeRun
    <3> QED  BY <1>3, <3>1
  <2> QED  BY <1>4, <2>2, <2>3, <2>4, <2>5, <2>6 DEF DecodeStep
<1>5. CASE Crash \/ Restart \/ Join \/ Edit \/ ConsumeTransformed \/ RedeliverTransformed
  <2>1. decodes' = decodes \/ decodes' = <<>>
    BY <1>5 DEF Crash, Restart, Join, Die, ConsumeTransformed, RedeliverTransformed, Edit,
           Connect, Disconnect, Reconnect, DeleteDevice, Relinked
  <2> QED  BY <1>1, <2>1
<1>6. ASSUME NEW u \in Uplink,
             Receive(u) \/ IntakeSent(u) \/ IntakeSendFails(u) \/ IntakeResendFails(u)
               \/ IntakeReconnectFails(u)
      PROVE  decodes' = decodes \/ decodes' = <<>>
  BY <1>6 DEF Receive, IntakeSent, IntakeSendFails, IntakeResendFails, IntakeReconnectFails, Die
<1>7. CASE ConsumeRaw
  <2>1. raw[rawPos + 1] \in Uplink
    BY <1>7 DEF ConsumeRaw, TypeOK
  <2> QED  BY <1>2, <1>7, <2>1 DEF ConsumeRaw
<1>8. CASE RedeliverRaw
  <2>1. decodes[Len(decodes)] \in DecodeRun
    BY <1>0, <1>8, ElementsOfSeq DEF RedeliverRaw
  <2>2. decodes[Len(decodes)].uplink \in Uplink
    BY <2>1 DEF DecodeRun
  <2> QED  BY <1>2, <1>8, <2>2 DEF RedeliverRaw
<1>9. ASSUME NEW i \in DOMAIN pushes, PushStep(i)
      PROVE  decodes' = decodes \/ decodes' = <<>>
  BY <1>9 DEF PushStep, FindDevice, LookupTargets, LookupUnsupported, Push, PushRetries,
         PushFails, PushFrame, Die
<1> QED  BY <1>1, <1>4, <1>5, <1>6, <1>7, <1>8, <1>9, NextCases

(* A target gets a message at most once more than there were failed or     *)
(* repeated deliveries, however the handlers of the two Kafka listeners    *)
(* interleave and however often the process ends.                          *)
THEOREM CopiesAlwaysBounded == Spec => []CopiesBounded
<1>1. CopiesInv /\ [Next]_vars => CopiesInv'
  <2> SUFFICES ASSUME CopiesInv, [Next]_vars PROVE CopiesInv'
    OBVIOUS
  <2>1. TypeOK /\ TypeOK'
    <3>1. CASE Next
      BY <3>1, NextCases, ProcessTypeOK, IntakeTypeOK, ConsumeTypeOK, DecodeTypeOK, PushTypeOK,
         EditTypeOK DEF CopiesInv
    <3>2. CASE UNCHANGED vars
      BY <3>2 DEF vars, TypeOK, CopiesInv
    <3> QED  BY <3>1, <3>2 DEF CopiesInv
  <2>2. \A i \in DOMAIN decodes' : FormOnce(decodes'[i])
    <3>1. \A i \in DOMAIN decodes : FormOnce(decodes[i])
      BY DEF CopiesInv, FormOnce
    <3>2. CASE Next
      BY <2>1, <3>1, <3>2, FormsOnce
    <3>3. CASE UNCHANGED vars
      BY <3>1, <3>3 DEF vars
    <3> QED  BY <3>2, <3>3
  <2>3. ASSUME NEW u \in Uplink, NEW f \in Form, NEW t \in Target
        PROVE  Owed(u, f, t)' <= 1 + faults'
    <3>1. Owed(u, f, t)' + faults <= Owed(u, f, t) + faults'
      <4>1. CASE Crash \/ Restart \/ Join
        BY <2>1, <4>1, ProcessOwed
      <4>2. CASE \E v \in Uplink :
                   \/ Receive(v) \/ IntakeSent(v) \/ IntakeSendFails(v)
                   \/ IntakeResendFails(v) \/ IntakeReconnectFails(v)
        BY <2>1, <4>2, IntakeOwed
      <4>3. CASE ConsumeRaw \/ RedeliverRaw \/ ConsumeTransformed \/ RedeliverTransformed
        BY <2>1, <4>3, ConsumeOwed
      <4>4. CASE \E i \in DOMAIN decodes : DecodeStep(i)
        BY <2>1, <4>4, DecodeOwed
      <4>5. CASE \E i \in DOMAIN pushes : PushStep(i)
        BY <2>1, <4>5, PushOwed
      <4>6. CASE Edit \/ UNCHANGED vars
        BY <2>1, <4>6, EditOwed
      <4> QED  BY <4>1, <4>2, <4>3, <4>4, <4>5, <4>6, NextCases
    <3>2. Owed(u, f, t) <= 1 + faults
      BY DEF CopiesInv
    <3>3. Owed(u, f, t) \in Int /\ Owed(u, f, t)' \in Int /\ faults \in Int /\ faults' \in Int
      <4>1. Owed(u, f, t) \in Int
        BY <2>1, OwedTyped DEF Owed
      <4>2. CountsFinite'
        BY <2>1, OwedFinite, PTL
      <4>3. /\ Cardinality(RawOf(u)') \in Nat /\ Cardinality(DecodesOf(u, f)') \in Nat
            /\ Cardinality(TransformedOf(u, f)') \in Nat
            /\ Cardinality(PushesOf(u, f, t)') \in Nat
        BY <4>2, FS_CardinalityType DEF CountsFinite
      <4>4. Coming(u)' \in {0, 1} /\ copies'[<<u, f, t>>] \in Nat
        BY <2>1 DEF Coming, TypeOK
      <4>5. Owed(u, f, t)' \in Int
        BY <4>3, <4>4 DEF Owed
      <4> QED  BY <2>1, <4>1, <4>5, PipelineAssumption DEF TypeOK
    <3> QED  BY <3>1, <3>2, <3>3
  <2> QED  BY <2>1, <2>2, <2>3 DEF CopiesInv, FormOnce
<1>2. CopiesInv => CopiesBounded
  <2> SUFFICES ASSUME CopiesInv PROVE CopiesBounded
    OBVIOUS
  <2>1. ASSUME NEW u \in Uplink, NEW f \in Form, NEW t \in Target
        PROVE  copies[<<u, f, t>>] <= 1 + faults
    <3>1. Owed(u, f, t) <= 1 + faults /\ TypeOK
      BY DEF CopiesInv
    <3>2. faults \in Nat
      BY <3>1, PipelineAssumption DEF TypeOK
    <3> QED  BY <3>1, <3>2, OwedTyped DEF Owed
  <2> QED  BY <2>1 DEF CopiesBounded
<1> QED  BY InitCopies, <1>1, <1>2, PTL DEF Spec
-----------------------------------------------------------------------------
(***************************************************************************)
(* UplinkPipeline implements UplinkDelivery.  The inductive invariant says *)
(* that what is in the topics and in the memory of the handlers stands for *)
(* accepted uplinks, in forms their decoder can produce, and that a data   *)
(* target is about to be sent only what its connections entitled it to     *)
(* since the uplink was accepted.                                          *)
(***************************************************************************)

(* A decoded message the topic TRANSFORMED_REQUEST may hold. *)
SoundForm == {p \in Accepted \X Form : p \notin Undecodable}

(* A handler of the payload decoder listener that sends only such.         *)
SoundDecode ==
    {r \in DecodeRun : /\ r.uplink \in Accepted
                       /\ r.stage \in {"send", "resend"} => <<r.uplink, r.form>> \notin Undecodable}

(* A handler of the data target listener whose targets are entitled.       *)
SoundPush ==
    {r \in PushRun : /\ <<r.uplink, r.form>> \in SoundForm
                     /\ \A t \in r.todo : <<r.form, t>> \in entitled[r.uplink]}

(* The inductive invariant. *)
EntitledInv ==
    /\ TypeOK
    /\ raw \in Seq(Accepted)
    /\ transformed \in Seq(SoundForm)
    /\ decodes \in Seq(SoundDecode)
    /\ pushes \in Seq(SoundPush)
    /\ \A u \in Accepted : RoutesOf(u, links) \subseteq entitled[u]

(* It holds at the start, when nothing has been accepted.                  *)
LEMMA InitEntitled == Init => EntitledInv
  BY InitTypeOK DEF Init, EntitledInv, Accepted
-----------------------------------------------------------------------------
(* What can become of accepted uplinks, entitlements and copies: most      *)
(* steps leave them, Receive accepts, Edit re-links and Push delivers.     *)
Still == Accepted' = Accepted /\ UNCHANGED <<links, entitled, copies>>

(* The end of the process un-accepts nothing. *)
LEMMA DieStill ==
    ASSUME TypeOK, Die PROVE Still
  BY DEF Die, Still, Accepted, TypeOK

(* Crash, restart and join leave what is accepted, delivered and connected. *)
LEMMA ProcessStill ==
    ASSUME TypeOK, Crash \/ Restart \/ Join PROVE Still
  BY DieStill DEF Crash, Restart, Join, Still, Accepted

(* A send to RAW_REQUEST, with or without success, accepts nothing new. *)
LEMMA IntakeStill ==
    ASSUME TypeOK, NEW u \in Uplink,
           IntakeSent(u) \/ IntakeSendFails(u) \/ IntakeResendFails(u) \/ IntakeReconnectFails(u)
    PROVE  Still
<1>1. CASE IntakeSent(u)
  BY <1>1 DEF IntakeSent, Still, Accepted, TypeOK
<1>2. CASE IntakeSendFails(u)
  BY <1>2 DEF IntakeSendFails, Still, Accepted, TypeOK
<1>3. CASE IntakeResendFails(u)
  BY <1>3 DEF IntakeResendFails, Still, Accepted, TypeOK
<1>4. CASE IntakeReconnectFails(u)
  BY <1>4, DieStill DEF IntakeReconnectFails, Still, Accepted, TypeOK
<1> QED  BY <1>1, <1>2, <1>3, <1>4

(* Starting a handler accepts nothing and relinks nothing. *)
LEMMA ConsumeStill ==
    ASSUME ConsumeRaw \/ RedeliverRaw \/ ConsumeTransformed \/ RedeliverTransformed
    PROVE  Still
  BY DEF ConsumeRaw, RedeliverRaw, ConsumeTransformed, RedeliverTransformed, Still, Accepted

(* Decoding accepts nothing and relinks nothing. *)
LEMMA DecodeStill ==
    ASSUME NEW i, DecodeStep(i) PROVE Still
<1>1. DecodeFrame
  BY DEF DecodeStep, DecodeQuery, Decode, DecoderThrows, EnrichmentFails, DecodeSent,
         DecodeSendFails, DecodeResendFails
<1> QED
  BY <1>1 DEF DecodeFrame, Still, Accepted

(* Pushing accepts nothing and relinks nothing. *)
LEMMA PushStill ==
    ASSUME TypeOK, NEW i, PushStep(i), copies' = copies PROVE Still
  BY DieStill DEF PushStep, FindDevice, LookupTargets, LookupUnsupported, Push, PushRetries,
                  PushFails, PushFrame, Still, Accepted

(* An edit of connections accepts nothing. *)
LEMMA EditAccepted ==
    ASSUME TypeOK, Edit
    PROVE  /\ links' \in SUBSET Link
           /\ Accepted' = Accepted
           /\ entitled' = [u \in Uplink |-> IF u \in Accepted THEN entitled[u] \cup RoutesOf(u, links')
                                                              ELSE entitled[u]]
           /\ UNCHANGED <<copies, raw, transformed, decodes, pushes>>
<1>1. ASSUME NEW ls \in SUBSET Link, Relinked(ls)
      PROVE  /\ links' = ls
             /\ entitled' = [u \in Uplink |-> IF u \in Accepted THEN entitled[u] \cup RoutesOf(u, ls)
                                                                ELSE entitled[u]]
             /\ UNCHANGED <<copies, raw, transformed, decodes, pushes, intake>>
  BY <1>1 DEF Relinked
<1>2. \E ls \in SUBSET Link : Relinked(ls)
  <2>1. ASSUME NEW l \in Link, Connect(l)
        PROVE  Relinked(links \cup {l}) /\ links \cup {l} \in SUBSET Link
    BY <2>1 DEF Connect, TypeOK
  <2>2. ASSUME NEW l \in Link, Disconnect(l)
        PROVE  Relinked(links \ {l}) /\ links \ {l} \in SUBSET Link
    BY <2>2 DEF Disconnect, TypeOK
  <2>3. ASSUME NEW l \in Link, NEW m \in Link, Reconnect(l, m)
        PROVE  /\ Relinked((links \ {l}) \cup {m})
               /\ (links \ {l}) \cup {m} \in SUBSET Link
    BY <2>3 DEF Reconnect, TypeOK
  <2>4. ASSUME NEW d \in Device, DeleteDevice(d)
        PROVE  Relinked({l \in links : l[1] # d}) /\ {l \in links : l[1] # d} \in SUBSET Link
    BY <2>4 DEF DeleteDevice, TypeOK
  <2> QED  BY <2>1, <2>2, <2>3, <2>4 DEF Edit
<1> QED
  BY <1>1, <1>2 DEF Accepted
-----------------------------------------------------------------------------
(* What was sound stays sound as uplinks are accepted and connections added. *)
LEMMA SoundGrows ==
    ASSUME Accepted \subseteq Accepted',
           \A u \in Accepted : entitled[u] \subseteq entitled'[u]
    PROVE  /\ SoundForm \subseteq SoundForm'
           /\ SoundDecode \subseteq SoundDecode'
           /\ SoundPush \subseteq SoundPush'
<1>1. SoundForm \subseteq SoundForm'
  BY DEF SoundForm
<1>2. SoundDecode \subseteq SoundDecode'
  BY DEF SoundDecode
<1>3. SoundPush \subseteq SoundPush'
  BY <1>1 DEF SoundPush, SoundForm, PushRun
<1> QED  BY <1>1, <1>2, <1>3

(* So a step that adds to no topic and to no handler keeps the invariant.  *)
LEMMA SoundKept ==
    ASSUME EntitledInv, TypeOK',
           Accepted \subseteq Accepted',
           \A u \in Accepted : entitled[u] \subseteq entitled'[u],
           \A u \in Accepted' : RoutesOf(u, links') \subseteq entitled'[u],
           raw' \in Seq(Accepted) \/ raw' \in Seq(Accepted'),
           transformed' \in Seq(SoundForm),
           decodes' \in Seq(SoundDecode),
           pushes' \in Seq(SoundPush)
    PROVE  EntitledInv'
<1>1. raw' \in Seq(Accepted')
  BY SeqMonotonic
<1>2. transformed' \in Seq(SoundForm')
  BY SoundGrows, SeqMonotonic
<1>3. decodes' \in Seq(SoundDecode')
  BY SoundGrows, SeqMonotonic
<1>4. pushes' \in Seq(SoundPush')
  BY SoundGrows, SeqMonotonic
<1> QED
  BY <1>1, <1>2, <1>3, <1>4 DEF EntitledInv, RoutesOf

(* A step that changes neither side of the promise keeps what stays sound. *)
LEMMA StillKept ==
    ASSUME EntitledInv, TypeOK', Still,
           raw' \in Seq(Accepted), transformed' \in Seq(SoundForm),
           decodes' \in Seq(SoundDecode), pushes' \in Seq(SoundPush)
    PROVE  EntitledInv'
<1>1. \A u \in Accepted' : RoutesOf(u, links') \subseteq entitled'[u]
  BY DEF Still, EntitledInv, RoutesOf
<1> QED
  BY <1>1, SoundKept DEF Still

(* The end of the process keeps EntitledInv. *)
LEMMA DieEntitled ==
    ASSUME EntitledInv, TypeOK', Die PROVE EntitledInv'
<1>1. decodes' \in Seq(SoundDecode) /\ pushes' \in Seq(SoundPush)
  BY DEF Die
<1> QED
  BY <1>1, DieStill, StillKept DEF Die, EntitledInv

(* Crash, restart and join keep EntitledInv. *)
LEMMA ProcessEntitled ==
    ASSUME EntitledInv, TypeOK', Crash \/ Restart \/ Join
    PROVE  EntitledInv'
<1>1. CASE Crash
  BY <1>1, DieEntitled DEF Crash
<1>2. CASE Restart \/ Join
  <2>1. UNCHANGED <<raw, transformed, decodes, pushes>>
    BY <1>2 DEF Restart, Join
  <2> QED
    BY <1>2, <2>1, ProcessStill, StillKept DEF EntitledInv
<1> QED  BY <1>1, <1>2

(* Each step of the intake keeps EntitledInv. *)
LEMMA IntakeEntitled ==
    ASSUME EntitledInv, TypeOK', NEW u \in Uplink,
           Receive(u) \/ IntakeSent(u) \/ IntakeSendFails(u) \/ IntakeResendFails(u)
             \/ IntakeReconnectFails(u)
    PROVE  EntitledInv'
<1>1. CASE Receive(u)
  <2>1. UNCHANGED <<raw, transformed, decodes, pushes, links>>
    BY <1>1 DEF Receive
  <2>2. Accepted' = Accepted \cup {u} /\ u \notin Accepted
    BY <1>1 DEF Receive, Accepted, EntitledInv, TypeOK
  <2>3. \A v \in Uplink : entitled'[v] = IF v = u THEN RoutesOf(u, links) ELSE entitled[v]
    BY <1>1 DEF Receive, EntitledInv, TypeOK
  <2>4. \A v \in Accepted : v \in Uplink
    BY DEF Accepted
  <2>5. \A v \in Accepted' : RoutesOf(v, links') \subseteq entitled'[v]
    BY <2>1, <2>2, <2>3, <2>4 DEF EntitledInv
  <2>6. \A v \in Accepted : entitled[v] \subseteq entitled'[v]
    BY <2>2, <2>3, <2>4
  <2> QED
    BY <2>1, <2>2, <2>5, <2>6, SoundKept DEF EntitledInv
<1>2. CASE IntakeSent(u) \/ IntakeSendFails(u) \/ IntakeResendFails(u)
  <2>1. UNCHANGED <<transformed, decodes, pushes>> /\ raw' \in {raw, Append(raw, u)}
    BY <1>2 DEF IntakeSent, IntakeSendFails, IntakeResendFails
  <2>2. u \in Accepted
    BY <1>2 DEF IntakeSent, IntakeSendFails, IntakeResendFails, Accepted
  <2>3. raw' \in Seq(Accepted)
    <3>1. raw \in Seq(Accepted)
      BY DEF EntitledInv
    <3>2. Append(raw, u) \in Seq(Accepted)
      BY <2>2, <3>1, AppendProperties
    <3> QED
      BY <2>1, <3>1, <3>2
  <2>4. Still
    BY <1>2, IntakeStill DEF EntitledInv
  <2> QED
    BY <2>1, <2>3, <2>4, StillKept DEF EntitledInv
<1>3. CASE IntakeReconnectFails(u)
  <2>1. CASE Die
    BY <2>1, DieEntitled
  <2>2. CASE ~Die
    <3>1. UNCHANGED <<raw, transformed, decodes, pushes>>
      BY <1>3, <2>2 DEF IntakeReconnectFails
    <3>2. Still
      BY <1>3, IntakeStill DEF EntitledInv
    <3> QED
      BY <3>1, <3>2, StillKept DEF EntitledInv
  <2> QED  BY <2>1, <2>2
<1> QED  BY <1>1, <1>2, <1>3

(* Each delivery or redelivery by Kafka keeps EntitledInv. *)
LEMMA ConsumeEntitled ==
    ASSUME EntitledInv, TypeOK',
           ConsumeRaw \/ RedeliverRaw \/ ConsumeTransformed \/ RedeliverTransformed
    PROVE  EntitledInv'
<1>1. \A u \in Accepted : NewDecode(u) \in SoundDecode
  BY NewDecodeTyped DEF Accepted, NewDecode, SoundDecode
<1>2. \A p \in SoundForm : NewPush(p) \in SoundPush
  <2> SUFFICES ASSUME NEW p \in SoundForm PROVE NewPush(p) \in SoundPush
    OBVIOUS
  <2>1. p \in Uplink \X Form /\ <<p[1], p[2]>> = p
    BY DEF SoundForm, Accepted
  <2> QED
    BY <2>1, NewPushTyped DEF NewPush, SoundPush
<1>3. Still
  BY ConsumeStill
<1>4. CASE ConsumeRaw
  <2>1. rawPos + 1 \in DOMAIN raw
    BY <1>4, ElementsOfSeq DEF ConsumeRaw, EntitledInv, TypeOK
  <2>2. raw[rawPos + 1] \in Accepted
    BY <2>1, ElementsOfSeq DEF EntitledInv
  <2>3. decodes' \in Seq(SoundDecode)
    BY <1>1, <1>4, <2>2, AppendProperties DEF ConsumeRaw, EntitledInv
  <2> QED
    BY <1>3, <1>4, <2>3, StillKept DEF ConsumeRaw, EntitledInv
<1>5. CASE RedeliverRaw
  <2>1. decodes[Len(decodes)] \in SoundDecode
    BY <1>5, ElementsOfSeq DEF RedeliverRaw, EntitledInv
  <2>2. decodes' \in Seq(SoundDecode)
    BY <1>1, <1>5, <2>1, AppendProperties DEF RedeliverRaw, SoundDecode, EntitledInv
  <2> QED
    BY <1>3, <1>5, <2>2, StillKept DEF RedeliverRaw, EntitledInv
<1>6. CASE ConsumeTransformed
  <2>1. transformedPos + 1 \in DOMAIN transformed
    BY <1>6, ElementsOfSeq DEF ConsumeTransformed, EntitledInv, TypeOK
  <2>2. transformed[transformedPos + 1] \in SoundForm
    BY <2>1, ElementsOfSeq DEF EntitledInv
  <2>3. pushes' \in Seq(SoundPush)
    BY <1>2, <1>6, <2>2, AppendProperties DEF ConsumeTransformed, EntitledInv
  <2> QED
    BY <1>3, <1>6, <2>3, StillKept DEF ConsumeTransformed, EntitledInv
<1>7. CASE RedeliverTransformed
  <2>1. pushes[Len(pushes)] \in SoundPush
    BY <1>7, ElementsOfSeq DEF RedeliverTransformed, EntitledInv
  <2>2. pushes' \in Seq(SoundPush)
    BY <1>2, <1>7, <2>1, AppendProperties DEF RedeliverTransformed, SoundPush, EntitledInv
  <2> QED
    BY <1>3, <1>7, <2>2, StillKept DEF RedeliverTransformed, EntitledInv
<1> QED  BY <1>4, <1>5, <1>6, <1>7

(* One decode handler moves on: what it is about to send is decodable.     *)
LEMMA DecodeEntitled ==
    ASSUME EntitledInv, TypeOK', NEW i \in DOMAIN decodes, DecodeStep(i)
    PROVE  EntitledInv'
<1> DEFINE r == decodes[i]
           e == decodes'[i]
<1>1. r \in SoundDecode
  BY ElementsOfSeq DEF EntitledInv
<1>2. \A todo : LoopOrDone(todo) \in {"loop", "done"}
  BY DEF LoopOrDone
<1>3. /\ decodes' = [decodes EXCEPT ![i] = e]
      /\ e.uplink = r.uplink
      /\ e.stage \in {"send", "resend"} => <<e.uplink, e.form>> \notin Undecodable
      /\ transformed' \in Seq(SoundForm)
      /\ pushes' = pushes
  <2>1. ASSUME r.stage \in {"send", "resend"}
        PROVE  Emit(i) \in Seq(SoundForm)
    <3>1. <<r.uplink, r.form>> \in SoundForm
      BY <1>1, <2>1 DEF SoundDecode, SoundForm, DecodeRun
    <3> QED
      BY <3>1, AppendProperties DEF Emit, EntitledInv
  <2>2. r \in DecodeRun /\ decodes \in Seq(DecodeRun)
    BY <1>1 DEF SoundDecode, EntitledInv, TypeOK
  <2>3. CASE DecodeQuery(i)
    BY <1>2, <2>2, <2>3 DEF DecodeQuery, DecodeFrame, DecodeRun, EntitledInv
  <2>4. ASSUME NEW f \in Form, Decode(i, f) PROVE <1>3
    BY <2>2, <2>4 DEF Decode, DecodeFrame, DecodeRun, EntitledInv
  <2>5. ASSUME NEW f \in Form, DecoderThrows(i, f) PROVE <1>3
    BY <1>2, <2>2, <2>5 DEF DecoderThrows, DecodeFrame, DecodeRun, EntitledInv
  <2>6. ASSUME NEW f \in Form, EnrichmentFails(i, f) PROVE <1>3
    BY <1>2, <2>2, <2>6 DEF EnrichmentFails, DecodeFrame, DecodeRun, EntitledInv
  <2>7. CASE DecodeSent(i)
    BY <1>2, <2>1, <2>2, <2>7 DEF DecodeSent, DecodeFrame, DecodeRun, EntitledInv
  <2>8. CASE DecodeSendFails(i)
    BY <1>1, <2>1, <2>2, <2>8 DEF DecodeSendFails, DecodeFrame, DecodeRun, SoundDecode, EntitledInv
  <2>9. CASE DecodeResendFails(i)
    BY <1>2, <2>1, <2>2, <2>9 DEF DecodeResendFails, DecodeFrame, DecodeRun, EntitledInv
  <2> QED
    BY <2>3, <2>4, <2>5, <2>6, <2>7, <2>8, <2>9 DEF DecodeStep
<1>4. e \in DecodeRun
  BY <1>3, ElementsOfSeq DEF TypeOK, EntitledInv
<1>5. e \in SoundDecode
  BY <1>1, <1>3, <1>4 DEF SoundDecode
<1>6. decodes' \in Seq(SoundDecode)
  <2>1. \A y \in SoundDecode : [decodes EXCEPT ![i] = y] \in Seq(SoundDecode)
    BY ExceptSeq DEF EntitledInv
  <2> HIDE DEF e
  <2> QED
    BY <1>3, <1>5, <2>1
<1>7. Still /\ raw' = raw
  <2>1. DecodeFrame
    BY DEF DecodeStep, DecodeQuery, Decode, DecoderThrows, EnrichmentFails, DecodeSent,
           DecodeSendFails, DecodeResendFails
  <2> QED
    BY <2>1, DecodeStill DEF DecodeFrame
<1> QED
  BY <1>3, <1>6, <1>7, StillKept DEF EntitledInv

(* One push handler moves on: the targets it looks up are entitled now.    *)
LEMMA PushEntitled ==
    ASSUME EntitledInv, TypeOK', NEW i \in DOMAIN pushes, PushStep(i)
    PROVE  EntitledInv'
<1> DEFINE r == pushes[i]
           e == pushes'[i]
<1>1. r \in SoundPush /\ r \in PushRun
  BY ElementsOfSeq DEF EntitledInv, SoundPush
<1>2. CASE LookupUnsupported(i)
  BY <1>2, DieEntitled DEF LookupUnsupported
<1>3. CASE ~LookupUnsupported(i)
  <2>1. PushFrame
    BY <1>3 DEF PushStep, FindDevice, LookupTargets, Push, PushRetries, PushFails
  <2>2. r.uplink \in Accepted /\ r.uplink \in Uplink
    BY <1>1 DEF SoundPush, SoundForm, Accepted
  <2>3. \A t \in TargetsOf(r.uplink, r.form) : <<r.form, t>> \in entitled[r.uplink]
    BY <2>2 DEF EntitledInv, TargetsOf
  <2>4. /\ pushes' = [pushes EXCEPT ![i] = e]
        /\ e.uplink = r.uplink /\ e.form = r.form
        /\ \A t \in e.todo : <<r.form, t>> \in entitled[r.uplink]
    <3>1. CASE FindDevice(i)
      BY <1>1, <3>1 DEF FindDevice, SoundPush, PushRun
    <3>2. CASE LookupTargets(i)
      BY <1>1, <2>3, <3>2 DEF LookupTargets, PushRun
    <3>3. ASSUME NEW t \in Target, SentTo(i, t) PROVE <2>4
      BY <1>1, <3>3 DEF SentTo, SoundPush, PushRun
    <3>4. ASSUME NEW t \in Target, PushRetries(i, t) PROVE <2>4
      BY <1>1, <3>4 DEF PushRetries, SoundPush, PushRun
    <3> QED
      BY <1>3, <3>1, <3>2, <3>3, <3>4 DEF PushStep, Push, PushFails
  <2>5. e \in PushRun
    BY <2>4, ElementsOfSeq DEF TypeOK, EntitledInv
  <2>6. e \in SoundPush
    BY <1>1, <2>4, <2>5 DEF SoundPush
  <2>7. pushes' \in Seq(SoundPush)
    <3>1. \A y \in SoundPush : [pushes EXCEPT ![i] = y] \in Seq(SoundPush)
      BY ExceptSeq DEF EntitledInv
    <3> HIDE DEF e
    <3> QED
      BY <2>4, <2>6, <3>1
  <2>8. Accepted' = Accepted /\ UNCHANGED <<links, entitled, raw, transformed, decodes>>
    BY <2>1 DEF PushFrame, Accepted
  <2>9. \A u \in Accepted' : RoutesOf(u, links') \subseteq entitled'[u]
    BY <2>8 DEF EntitledInv
  <2> QED
    BY <2>7, <2>8, <2>9, SoundKept DEF EntitledInv
<1> QED  BY <1>2, <1>3

(* An edit entitles every accepted uplink of a device to its new routes.   *)
LEMMA EditEntitled ==
    ASSUME EntitledInv, TypeOK', Edit
    PROVE  EntitledInv'
<1>1. TypeOK /\ \A u \in Accepted : u \in Uplink
  BY DEF EntitledInv, Accepted
<1>2. /\ Accepted' = Accepted
      /\ \A u \in Accepted : entitled'[u] = entitled[u] \cup RoutesOf(u, links')
      /\ UNCHANGED <<raw, transformed, decodes, pushes>>
  BY <1>1, EditAccepted
<1> QED
  BY <1>2, SoundKept DEF EntitledInv

(* The invariant holds in every reachable state. *)
THEOREM EntitledInvariant == Spec => []EntitledInv
<1>1. EntitledInv /\ [Next]_vars => EntitledInv'
  <2> SUFFICES ASSUME EntitledInv, [Next]_vars PROVE EntitledInv'
    OBVIOUS
  <2>1. CASE UNCHANGED vars
    BY <2>1 DEF vars, EntitledInv, TypeOK, Accepted, SoundForm, SoundDecode, SoundPush
  <2>2. CASE Next
    <3>1. TypeOK'
      BY <2>2, NextCases, ProcessTypeOK, IntakeTypeOK, ConsumeTypeOK, DecodeTypeOK,
         PushTypeOK, EditTypeOK DEF EntitledInv
    <3> QED
      BY <2>2, <3>1, NextCases, ProcessEntitled, IntakeEntitled, ConsumeEntitled,
         DecodeEntitled, PushEntitled, EditEntitled
  <2> QED  BY <2>1, <2>2
<1> QED  BY InitEntitled, <1>1, PTL DEF Spec
-----------------------------------------------------------------------------
Delivered == {x \in Uplink \X Form \X Target : copies[x] > 0}

(* A step that leaves acceptance, connections and copies is a stutter.     *)
LEMMA StillStutters ==
    ASSUME Still PROVE UNCHANGED Promise!vars
  BY DEF Still, Promise!vars

(* A push that is received delivers one entitled form to one target. *)
LEMMA PushDelivers ==
    ASSUME EntitledInv, NEW i \in DOMAIN pushes, NEW t \in Target,
           Push(i, t) \/ PushRetries(i, t) \/ PushFails(i, t), copies' = Received(i, t)
    PROVE  Promise!Deliver(pushes[i].uplink, pushes[i].form, t)
<1> DEFINE r == pushes[i]
           x == <<r.uplink, r.form, t>>
<1>1. r \in SoundPush /\ r \in PushRun
  BY ElementsOfSeq DEF EntitledInv, SoundPush
<1>2. <<r.uplink, r.form>> \in SoundForm /\ <<r.form, t>> \in entitled[r.uplink]
  BY <1>1 DEF Push, PushRetries, PushFails, SoundPush
<1>3. x \in Uplink \X Form \X Target
  BY <1>1 DEF PushRun
<1>4. /\ copies \in [Uplink \X Form \X Target -> Nat]
      /\ copies' = [copies EXCEPT ![x] = copies[x] + 1]
  BY DEF Received, EntitledInv, TypeOK
<1>5. Delivered' = Delivered \cup {x}
  BY <1>3, <1>4 DEF Delivered
<1>6. UNCHANGED <<links, entitled>> /\ Accepted' = Accepted
  BY DEF Push, PushRetries, PushFails, PushFrame, Accepted
<1> QED
  BY <1>2, <1>5, <1>6 DEF Promise!Deliver, Delivered, SoundForm

(* Every step of the data path is a step of the promise, or a stutter.     *)
LEMMA StepImplements ==
    ASSUME EntitledInv, Next
    PROVE  [Promise!Next]_(Promise!vars)
<1> USE DEF EntitledInv
<1>1. CASE Crash \/ Restart \/ Join
  BY <1>1, ProcessStill, StillStutters
<1>2. ASSUME NEW u \in Uplink, Receive(u) PROVE Promise!Accept(u)
  <2>1. Accepted' = Accepted \cup {u} /\ u \notin Accepted
    BY <1>2 DEF Receive, Accepted, TypeOK
  <2>2. entitled' = [entitled EXCEPT ![u] = RoutesOf(u, links)] /\ UNCHANGED <<links, copies>>
    BY <1>2 DEF Receive
  <2>3. Promise!RoutesOf(u, links) = RoutesOf(u, links)
    BY DEF Promise!RoutesOf, RoutesOf, Promise!Route, Route, Promise!Form, Form
  <2> QED
    BY <2>1, <2>2, <2>3 DEF Promise!Accept
<1>3. ASSUME NEW u \in Uplink,
             IntakeSent(u) \/ IntakeSendFails(u) \/ IntakeResendFails(u) \/ IntakeReconnectFails(u)
      PROVE  UNCHANGED Promise!vars
  BY <1>3, IntakeStill, StillStutters
<1>4. CASE ConsumeRaw \/ RedeliverRaw \/ ConsumeTransformed \/ RedeliverTransformed
  BY <1>4, ConsumeStill, StillStutters
<1>5. ASSUME NEW i \in DOMAIN decodes, DecodeStep(i) PROVE UNCHANGED Promise!vars
  BY <1>5, DecodeStill, StillStutters
<1>6. ASSUME NEW i \in DOMAIN pushes, PushStep(i)
      PROVE  \/ UNCHANGED Promise!vars
             \/ \E u \in Uplink, f \in Promise!Form, t \in Target : Promise!Deliver(u, f, t)
  <2>1. CASE copies' = copies
    BY <1>6, <2>1, PushStill, StillStutters
  <2>2. ASSUME NEW t \in Target, Push(i, t) \/ PushRetries(i, t) \/ PushFails(i, t),
               copies' = Received(i, t)
        PROVE  \E u \in Uplink, f \in Promise!Form, tt \in Target : Promise!Deliver(u, f, tt)
    <3>1. pushes[i] \in PushRun
      BY ElementsOfSeq DEF TypeOK
    <3>2. pushes[i].uplink \in Uplink /\ pushes[i].form \in Promise!Form
      BY <3>1 DEF PushRun, Form, Promise!Form
    <3> QED
      BY <2>2, <3>2, PushDelivers
  <2>3. CASE LookupUnsupported(i) \/ FindDevice(i) \/ LookupTargets(i)
    BY <2>1, <2>3 DEF LookupUnsupported, Die, FindDevice, LookupTargets
  <2> QED
    BY <1>6, <2>1, <2>2, <2>3 DEF PushStep, Push, PushRetries, PushFails
<1>7. CASE Edit
  <2>1. \A u \in Uplink : Promise!RoutesOf(u, links') = RoutesOf(u, links')
    BY DEF Promise!RoutesOf, RoutesOf, Promise!Route, Route, Promise!Form, Form
  <2>2. links' \in SUBSET Promise!Link
    BY <1>7, EditAccepted DEF Link, Promise!Link, Form, Promise!Form
  <2>3. Promise!Relink(links')
    BY <1>7, <2>1, EditAccepted DEF Promise!Relink
  <2> QED
    BY <2>2, <2>3 DEF Promise!Next
<1> QED
  BY <1>1, <1>2, <1>3, <1>4, <1>5, <1>6, <1>7, NextCases DEF Promise!Next

(* The data path delivers a message only along a connection that existed   *)
(* since it was accepted, and only in a form its decoder can produce:      *)
(* whatever crashes, fails, is repeated or is edited meanwhile.            *)
THEOREM Implementation == Spec => ImplementsDelivery
<1>1. Init => Promise!Init
  BY PipelineAssumption DEF Init, Promise!Init, Accepted, Link, Promise!Link, Form, Promise!Form
<1>2. EntitledInv /\ [Next]_vars => [Promise!Next]_(Promise!vars)
  <2>1. UNCHANGED vars => UNCHANGED Promise!vars
    BY DEF vars, Promise!vars, Accepted
  <2> QED
    BY <2>1, StepImplements
<1> QED
  BY <1>1, <1>2, EntitledInvariant, PTL DEF Spec, ImplementsDelivery, Promise!Spec
=============================================================================
