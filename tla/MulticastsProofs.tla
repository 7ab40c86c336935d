---------------------------- MODULE MulticastsProofs ----------------------------
(***************************************************************************)
(* Proofs about the multicasts of Network, for any number of requests,     *)
(* multicasts and devices: a multicast and its group go together, the      *)
(* members follow, a group has one application, a queue one downlink.      *)
(***************************************************************************)
EXTENDS NetworkProofs

(* The inductive invariant for the multicasts.  Forms: what a request is   *)
(* about tells its stages, and what it has read.                           *)
Storing(r) == req[r].stage \in {"get", "check", "validate", "post", "put", "save"}
Deleting(r) == req[r].kind = "delete" /\ req[r].stage \in {"csDelete", "dbDelete"}
Leaving(r) == req[r].kind = "deleteDevice" /\ req[r].stage \in {"trim", "csDelete", "commit"}
Sending(r) == req[r].kind = "downlink" /\ req[r].stage \in {"flush", "enqueue"}
Wiping(r) == req[r].kind = "deleteApp" /\ req[r].stage = "wipe"
Over(r) == req[r].stage \in {"new", "done", "failed"}
Posted(r) == req[r].was.group = r

(* A request that may still create the multicast it is named for. *)
Unborn(r) == M!At(r, "new") \/ (Storing(r) /\ req[r].kind = "create")

Form(r) ==
    /\ \/ Storing(r) /\ req[r].kind \in {"create", "update"} /\ req[r].id \in M!Id
       \/ Deleting(r) /\ req[r].id \in M!Id
       \/ Leaving(r) /\ req[r].id \in Device
       \/ Sending(r) /\ req[r].id \in M!Target
       \/ Wiping(r)
       \/ Over(r)
    /\ Leaving(r) \/ Wiping(r) \/ Sending(r) \/ Over(r) => req[r].was.group = None
    /\ ~Leaving(r) => req[r].out = {} /\ req[r].in = {} /\ (Wiping(r) \/ req[r].todo = {})
    /\ Storing(r) /\ req[r].kind = "create" => req[r].id = r /\ req[r].was.group \in {None, r}
    /\ Posted(r) => req[r].stage = "save"
    /\ req[r].stage \in {"get", "validate", "put"} => req[r].was.group # None
    /\ M!At(r, "post") => req[r].was.group = None /\ M!SameApp(req[r].devs)
    /\ M!At(r, "save") => req[r].devs = {} \/ req[r].was.group # None
    /\ M!At(r, "csDelete") /\ Deleting(r) => req[r].was.devices # {}
    /\ M!At(r, "new") => req[r] = M!Idle
    /\ M!At(r, "commit") => req[r].id \notin devices /\ application

Forms == \A r \in Caller : Form(r)

(* Nobody else changes a multicast before it is there. *)
NotYet ==
    \A r \in Caller : Unborn(r) =>
        /\ multicasts[r] = None
        /\ \A q \in Caller \ {r} : req[q].kind # "downlink" => r \notin M!Works(req[q])

(* Two requests at work on a multicast contend for it. *)
OneWorker ==
    \A q, r \in Caller : q # r /\ M!Busy(q) /\ M!Busy(r) =>
        M!Works(req[q]) \cap M!Works(req[r]) \subseteq contended

(* Nobody knows a group before it is created, and only one multicast has   *)
(* it, in its row or on its way there.                                     *)
Fresh(r) == req[r].stage \in {"new", "get", "check", "post"}

Referred ==
    /\ \A r \in Caller : Fresh(r) =>
         /\ \A m \in M!Existing : multicasts[m].group # r
         /\ \A q \in Caller : req[q].was.group # r
         /\ \A x \in adding : x[2] # r
         /\ groups[r] = None
    /\ \A r \in Caller : Posted(r) => \A m \in M!Existing : multicasts[m].group # r
    /\ \A m, n \in M!Existing : multicasts[m].group = multicasts[n].group /\ m # n
                                   => multicasts[m].group = None
    /\ \A r \in Caller : req[r].was.group # None =>
         /\ \A n \in M!Existing : multicasts[n].group = req[r].was.group => n = req[r].id
         /\ \A q \in Caller : req[q].was.group = req[r].was.group => req[q].id = req[r].id
                                                                /\ (Posted(r) => q = r)

(* A multicast taken from no application has no group; one with devices    *)
(* has one.                                                                *)
Grouped ==
    \A m \in M!Existing :
        /\ ~multicasts[m].app => multicasts[m].group = None
        /\ m \notin contended /\ multicasts[m].devices # {} => multicasts[m].group # None

(* The row a request has read is what it was, if nobody else works on it.  *)
RowStays ==
    application =>
        \A r \in Caller :
            /\ ((Storing(r) /\ req[r].kind = "update") \/ Deleting(r)) /\ req[r].id \notin contended =>
                 /\ req[r].id \in M!Existing
                 /\ multicasts[req[r].id].group = IF Posted(r) THEN None ELSE req[r].was.group
            /\ \A x \in req[r].todo : Leaving(r) /\ x[1] \notin contended =>
                 /\ M!At(r, "trim") /\ x[1] \in M!Existing
                 /\ multicasts[x[1]].devices \subseteq x[2].devices
                 /\ x[2].devices \cap devices \subseteq multicasts[x[1]].devices
            /\ \A x \in req[r].in : x[1] \in contended
            /\ \A x \in req[r].out : x[1] \in contended \/ x[2] = req[r].id

(* The group of a multicast is there until a request, at work on it, has   *)
(* deleted it; that one does not come back.                                *)
GroupThere ==
    /\ \A m \in M!Existing \ (contended \cup hurt) : multicasts[m].group \notin {None} \cup hurt =>
         \/ groups[multicasts[m].group] # None
         \/ \E r \in Caller : M!At(r, "dbDelete") /\ req[r].id = m /\ req[r].was.devices # {}
                                /\ req[r].was.group = multicasts[m].group
    /\ \A r \in Caller : M!At(r, "dbDelete") /\ req[r].was.devices # {} => 
         req[r].was.group # None /\ groups[req[r].was.group] = None
    /\ \A r \in Caller : Posted(r) => groups[r] # None \/ ~application

(* A group nobody refers to is remembered. *)
GroupKnown ==
    contended = {} => \A g \in M!Id : groups[g] # None =>
        \/ \E m \in M!Existing : multicasts[m].group = g
        \/ g \in emptied \cup hurt
        \/ \E r \in Caller : Posted(r) /\ r = g

(* Without the application there are no devices. *)
AppGone == ~application => devices = {} /\ \A m \in M!Existing : multicasts[m].group = None

Joined(g) == groups[g].members \cup {x[1] : x \in {y \in adding : y[2] = g}}

(* The members of a group follow the devices of the row, or those the      *)
(* request that has created it is about to save.                           *)
MembersKnown ==
    /\ \A m \in M!Existing \ (contended \cup hurt) :
         multicasts[m].group \notin {None} \cup hurt \cup changed /\ groups[multicasts[m].group] # None =>
            multicasts[m].devices \cap devices = Joined(multicasts[m].group) \cap devices
    /\ \A r \in Caller : Posted(r) /\ groups[r] # None =>
         req[r].devs \cap devices = Joined(r) \cap devices

(* A downlink is ordered by one request, which has emptied the queue.      *)
QueueKnown ==
    \A t \in M!Target \ raced :
        /\ \A a, b \in queue[t] : a = b
        /\ \A q, r \in Caller : Sending(q) /\ Sending(r) /\ req[q].id = t /\ req[r].id = t => q = r
        /\ \A r \in Caller : M!At(r, "enqueue") /\ req[r].id = t => queue[t] = {}

MulticastsInv ==
    /\ M!TypeOK /\ Forms /\ NotYet /\ OneWorker /\ Referred /\ Grouped /\ RowStays
    /\ GroupThere /\ GroupKnown /\ AppGone /\ MembersKnown /\ M!OneApplication /\ QueueKnown

ReqStage == {"new", "check", "post", "get", "validate", "put", "save", "trim",
             "csDelete", "dbDelete", "flush", "enqueue", "commit", "wipe", "done", "failed"}

(* What the constants are taken for. *)
LEMMA MulticastConstants ==
    /\ OldMulticast \notin Caller /\ OldMulticast # None
    /\ \A r \in Caller : r # None /\ r \notin Device
    /\ \A d \in Device : d # None /\ CsAppOf[d] # None /\ CsAppOf[d] \in M!CsApps
    /\ None \notin M!Id /\ M!Id \cap Device = {} /\ Caller \subseteq M!Id
    /\ M!Id \subseteq M!Target /\ Device \subseteq M!Target
    /\ OldMulticast \in M!Id
    /\ OldDevices \subseteq Device /\ OldDevices # {}
    /\ \A d, e \in OldDevices : CsAppOf[d] = CsAppOf[e]
    /\ MaxFaults \in Nat
  BY NetworkAssumption DEF M!MulticastsAssumption, M!Id, M!CsApps, M!Target

(* What the requests and rows are taken for. *)
LEMMA RequestsTyped ==
    ASSUME M!TypeOK
    PROVE  /\ \A r \in Caller : /\ req[r] \in M!Req /\ req[r].stage \in ReqStage
                                /\ req[r].id \in M!Target \cup {None}
                                /\ req[r].devs \subseteq Device
                                /\ req[r].was \in M!Row
                                /\ req[r].todo \subseteq M!Id \X M!Row
                                /\ req[r].out \subseteq M!Id \X Device
                                /\ req[r].in \subseteq M!Id \X Device
           /\ \A w \in M!Row : w.devices \subseteq Device /\ w.group \in M!Id \cup {None}
           /\ \A m \in M!Existing : m \in M!Id /\ multicasts[m] # None /\ multicasts[m] \in M!Row
           /\ \A m \in M!Id : multicasts[m] # None => m \in M!Existing
           /\ \A g \in M!Id : groups[g] # None => groups[g] \in M!Group
  BY DEF M!TypeOK, M!Req, M!Row, M!Existing, ReqStage

(* Nothing in the store is mistaken for nothing. *)
LEMMA RowsAreNotNone ==
    \A w \in M!Row \cup M!Group : w # None
  BY NetworkAssumption DEF M!MulticastsAssumption

(* A request goes to another stage. *)
LEMMA Moves ==
    ASSUME M!TypeOK, NEW r \in Caller, NEW s \in ReqStage, M!Goto(r, s)
    PROVE  /\ req' \in [Caller -> M!Req]
           /\ req'[r].stage = s /\ req'[r].kind = req[r].kind /\ req'[r].id = req[r].id
           /\ req'[r].devs = req[r].devs /\ req'[r].was = req[r].was
           /\ req'[r].todo = req[r].todo /\ req'[r].out = req[r].out /\ req'[r].in = req[r].in
           /\ \A p \in Caller \ {r} : req'[p] = req[p]
<1>1. req \in [Caller -> M!Req] /\ req' = [req EXCEPT ![r].stage = s]
  BY DEF M!TypeOK, M!Goto
<1>2. req[r] \in M!Req
  BY <1>1
<1>3. s \in {"new", "check", "post", "get", "validate", "put", "save", "trim",
             "csDelete", "dbDelete", "flush", "enqueue", "commit", "wipe", "done", "failed"}
  BY DEF ReqStage
<1> HIDE DEF ReqStage
<1>4. [req[r] EXCEPT !.stage = s] \in M!Req
  BY <1>2, <1>3 DEF M!Req
<1>5. req' \in [Caller -> M!Req] /\ req'[r] = [req[r] EXCEPT !.stage = s]
      /\ \A p \in Caller \ {r} : req'[p] = req[p]
  BY <1>1, <1>4
<1>6. \A q \in M!Req : LET e == [q EXCEPT !.stage = s] IN
        /\ e.stage = s /\ e.kind = q.kind /\ e.id = q.id /\ e.devs = q.devs /\ e.was = q.was
        /\ e.todo = q.todo /\ e.out = q.out /\ e.in = q.in
  BY DEF M!Req
<1> QED  BY <1>2, <1>5, <1>6

Renamed(b, k, s, i) == [b EXCEPT !.kind = k, !.stage = s, !.id = i]

Named(e, b, k, s, i) ==
    /\ e \in M!Req /\ e.kind = k /\ e.stage = s /\ e.id = i
    /\ e.devs = b.devs /\ e.was = b.was /\ e.todo = b.todo /\ e.out = b.out /\ e.in = b.in

ReqKind == {"none", "create", "update", "delete", "downlink", "deleteDevice", "deleteApp"}

(* A request gets a kind, a stage and an id. *)
LEMMA ChangedRequest ==
    ASSUME NEW b \in M!Req, NEW i \in M!Target \cup {None}, NEW s \in ReqStage, NEW k \in ReqKind
    PROVE  Named(Renamed(b, k, s, i), b, k, s, i)
<1> HIDE DEF M!Row, M!Target, M!Id
<1>1. s \in {"new", "check", "post", "get", "validate", "put", "save", "trim", "csDelete",
             "dbDelete", "flush", "enqueue", "commit", "wipe", "done", "failed"}
      /\ k \in {"none", "create", "update", "delete", "downlink", "deleteDevice", "deleteApp"}
  BY DEF ReqStage, ReqKind
<1> DEFINE e == Renamed(b, k, s, i)
<1>2. e \in M!Req
  <2>1. [b EXCEPT !.kind = k] \in M!Req
    BY <1>1 DEF M!Req
  <2>2. [b EXCEPT !.kind = k, !.stage = s] \in M!Req
    <3>1. PICK c \in M!Req : c = [b EXCEPT !.kind = k]
      BY <2>1
    <3>2. [c EXCEPT !.stage = s] \in M!Req
      BY <1>1 DEF M!Req
    <3> QED  BY <3>1, <3>2
  <2>3. PICK c \in M!Req : c = [b EXCEPT !.kind = k, !.stage = s]
    BY <2>2
  <2>4. [c EXCEPT !.id = i] \in M!Req
    BY DEF M!Req
  <2> QED  BY <2>3, <2>4 DEF Renamed
<1>3. e.kind = k /\ e.stage = s /\ e.id = i
  BY DEF M!Req, Renamed
<1>4. e.devs = b.devs /\ e.was = b.was /\ e.todo = b.todo /\ e.out = b.out /\ e.in = b.in
  BY DEF M!Req, Renamed
<1> QED  BY <1>2, <1>3, <1>4 DEF Named

(* A request that has nothing to do. *)
LEMMA NewRequests ==
    /\ M!NoRow \in M!Row /\ M!NoRow.group = None /\ M!NoRow.devices = {}
    /\ M!Idle \in M!Req /\ M!Idle.kind = "none" /\ M!Idle.stage = "new" /\ M!Idle.id = None
    /\ M!Idle.devs = {} /\ M!Idle.was = M!NoRow /\ M!Idle.todo = {} /\ M!Idle.out = {}
    /\ M!Idle.in = {}
    /\ \A k \in ReqKind, s \in ReqStage, i \in M!Target \cup {None} :
         LET e == M!NewReq(k, s, i) IN
         /\ e \in M!Req /\ e.kind = k /\ e.stage = s /\ e.id = i
         /\ e.devs = {} /\ e.was = M!NoRow /\ e.todo = {} /\ e.out = {} /\ e.in = {}
<1>1. \A a \in BOOLEAN : LET w == [devices |-> {}, group |-> None, app |-> a] IN
        w \in M!Row /\ w.group = None /\ w.devices = {}
  BY DEF M!Row
<1>2. M!NoRow = [devices |-> {}, group |-> None, app |-> TRUE]
  BY DEF M!NoRow, M!Idle
<1>3. M!NoRow \in M!Row /\ M!NoRow.group = None /\ M!NoRow.devices = {}
  BY <1>1, <1>2
<1>4. M!Idle = [kind |-> "none", stage |-> "new", id |-> None, devs |-> {},
                was |-> M!NoRow, todo |-> {}, out |-> {}, in |-> {}]
  BY <1>2 DEF M!Idle
<1>5. ASSUME NEW n \in M!Row, NEW b,
             b = [kind |-> "none", stage |-> "new", id |-> None, devs |-> {}, was |-> n,
                  todo |-> {}, out |-> {}, in |-> {}]
      PROVE  /\ b \in M!Req /\ b.kind = "none" /\ b.stage = "new" /\ b.id = None
             /\ b.devs = {} /\ b.was = n /\ b.todo = {} /\ b.out = {} /\ b.in = {}
  <2> HIDE DEF M!Row, M!Target, M!Id
  <2> QED  BY <1>5 DEF M!Req
<1>6. /\ M!Idle \in M!Req /\ M!Idle.kind = "none" /\ M!Idle.stage = "new" /\ M!Idle.id = None
      /\ M!Idle.devs = {} /\ M!Idle.was = M!NoRow /\ M!Idle.todo = {} /\ M!Idle.out = {}
      /\ M!Idle.in = {}
  BY <1>3, <1>4, <1>5
<1>8. \A k, s, i : M!NewReq(k, s, i) = Renamed(M!Idle, k, s, i)
  BY DEF M!NewReq, Renamed
<1>9. ASSUME NEW i \in M!Target \cup {None}, NEW s \in ReqStage,
             NEW k \in ReqKind,
             NEW e, e = M!NewReq(k, s, i)
      PROVE  /\ e \in M!Req /\ e.kind = k /\ e.stage = s /\ e.id = i
             /\ e.devs = {} /\ e.was = M!NoRow /\ e.todo = {} /\ e.out = {} /\ e.in = {}
  <2>1. e = Renamed(M!Idle, k, s, i) /\ M!Idle \in M!Req
    BY <1>6, <1>8, <1>9
  <2>2. /\ e \in M!Req /\ e.kind = k /\ e.stage = s /\ e.id = i
        /\ e.devs = M!Idle.devs /\ e.was = M!Idle.was /\ e.todo = M!Idle.todo
        /\ e.out = M!Idle.out /\ e.in = M!Idle.in
    <3>1. Named(e, M!Idle, k, s, i)
      BY <2>1, ChangedRequest
    <3> QED  BY <3>1 DEF Named
  <2> QED  BY <1>6, <2>2
<1> QED  BY <1>3, <1>6, <1>9

(* A request is answered: it knows nothing any more. *)
LEMMA Answers ==
    ASSUME M!TypeOK, NEW r \in Caller, NEW s \in {"done", "failed"}, M!Answer(r, s)
    PROVE  /\ req' \in [Caller -> M!Req]
           /\ req'[r].stage = s /\ req'[r].id = None
           /\ req'[r].was.group = None
           /\ req'[r].todo = {} /\ req'[r].out = {} /\ req'[r].in = {}
           /\ \A p \in Caller \ {r} : req'[p] = req[p]
<1>1. req \in [Caller -> M!Req] /\ req' = [req EXCEPT ![r] = M!NewReq(req[r].kind, s, None)]
  BY DEF M!TypeOK, M!Answer
<1>2. s \in ReqStage
  BY DEF ReqStage
<1>3. req[r].kind \in ReqKind
  BY <1>1 DEF M!Req, ReqKind
<1> QED  BY <1>1, <1>2, <1>3, NewRequests

(* At the start there is one multicast with its group. *)
LEMMA MulticastsInit == M!Init => MulticastsInv
<1> SUFFICES ASSUME M!Init PROVE MulticastsInv
  OBVIOUS
<1>1. /\ application = TRUE /\ devices = Device /\ adding = {}
      /\ multicasts = [m \in M!Id |-> IF m # OldMulticast THEN None
                        ELSE [devices |-> OldDevices, group |-> OldMulticast, app |-> TRUE]]
      /\ groups = [g \in M!Id |-> IF g # OldMulticast THEN None
                        ELSE [members |-> OldDevices, app |-> M!OldApp]]
      /\ queue = [t \in M!Target |-> {}] /\ req = [r \in Caller |-> M!Idle]
      /\ contended = {} /\ hurt = {} /\ changed = {} /\ emptied = {} /\ raced = {} /\ faults = 0
  BY DEF M!Init
<1>2. M!OldApp \in M!CsApps /\ \A d \in OldDevices : CsAppOf[d] = M!OldApp
  <2>1. PICK d \in OldDevices : TRUE
    BY MulticastConstants
  <2>2. CsAppOf[d] \in M!CsApps
    BY MulticastConstants
  <2>3. M!OldApp \in M!CsApps /\ \E e \in OldDevices : M!OldApp = CsAppOf[e]
    BY <2>2 DEF M!OldApp
  <2> QED  BY <2>3, MulticastConstants
<1>3. ASSUME NEW a \in BOOLEAN, NEW w, w = [devices |-> OldDevices, group |-> OldMulticast, app |-> a]
      PROVE  w \in M!Row /\ w.devices = OldDevices /\ w.group = OldMulticast
  BY <1>3, MulticastConstants DEF M!Row
<1>4. PICK row : row = [devices |-> OldDevices, group |-> OldMulticast, app |-> TRUE]
  OBVIOUS
<1>5. row \in M!Row /\ row # None /\ row.devices = OldDevices /\ row.group = OldMulticast
  BY <1>3, <1>4, RowsAreNotNone
<1>6. row.app
  BY <1>4
<1>7. PICK group : /\ group = [members |-> OldDevices, app |-> M!OldApp]
                   /\ group \in M!Group /\ group # None
                   /\ group.members = OldDevices /\ group.app = M!OldApp
  <2>1. [members |-> OldDevices, app |-> M!OldApp] \in M!Group
    BY <1>2, MulticastConstants DEF M!Group
  <2> QED  BY <2>1, RowsAreNotNone
<1>8. multicasts = [m \in M!Id |-> IF m # OldMulticast THEN None ELSE row]
      /\ groups = [g \in M!Id |-> IF g # OldMulticast THEN None ELSE group]
  BY <1>1, <1>4, <1>7
<1>9. M!Existing = {OldMulticast} /\ multicasts[OldMulticast] = row /\ groups[OldMulticast] = group
      /\ \A m \in M!Id \ {OldMulticast} : multicasts[m] = None /\ groups[m] = None
  BY <1>5, <1>8, MulticastConstants DEF M!Existing
<1>11. \A r \in Caller : /\ req[r] = M!Idle /\ req[r].stage = "new" /\ req[r].was.group = None
                         /\ req[r].todo = {} /\ req[r].out = {} /\ req[r].in = {}
  BY <1>1, NewRequests
<1> HIDE DEF ReqStage
<1>12. M!TypeOK
  <2>1. multicasts \in [M!Id -> M!Row \cup {None}]
    BY <1>5, <1>8
  <2>2. groups \in [M!Id -> M!Group \cup {None}]
    BY <1>7, <1>8
  <2>3. req \in [Caller -> M!Req]
    BY <1>1, NewRequests
  <2>4. application \in BOOLEAN
    BY <1>1
  <2>5. /\ devices \subseteq Device /\ adding \subseteq Device \X M!Id
        /\ queue \in [M!Target -> SUBSET Caller]
        /\ contended \subseteq M!Id /\ hurt \subseteq M!Id /\ changed \subseteq M!Id
        /\ emptied \subseteq M!Id /\ raced \subseteq M!Target
        /\ faults \in 0..MaxFaults
    BY <1>1, MulticastConstants
  <2> QED  BY <2>1, <2>2, <2>3, <2>4, <2>5 DEF M!TypeOK
<1>13. Forms
  BY <1>9, <1>11, MulticastConstants DEF Forms, Form, Over, Storing, Deleting, Leaving, Wiping, Sending, Posted, M!At
<1>21. NotYet
  <2>1. \A q \in Caller : q \in M!Id /\ q # OldMulticast /\ multicasts[q] = None
    BY <1>9, MulticastConstants
  <2>2. \A q \in Caller : M!Works(req[q]) = {}
    BY <1>1, NewRequests, MulticastConstants DEF M!Works
  <2> QED  BY <2>1, <2>2 DEF NotYet
<1>14. OneWorker /\ QueueKnown
  BY <1>1, <1>11 DEF OneWorker, M!Busy, QueueKnown, Sending, M!At
<1>15. Referred
  BY <1>1, <1>5, <1>9, <1>11, MulticastConstants DEF Referred, Posted, Fresh
<1>16. Grouped /\ AppGone
  BY <1>1, <1>5, <1>6, <1>9, MulticastConstants DEF Grouped, AppGone
<1>17. RowStays
  BY <1>11 DEF RowStays, Storing, Deleting
<1>18. GroupThere /\ GroupKnown
  BY <1>5, <1>7, <1>9, <1>11, MulticastConstants DEF GroupThere, GroupKnown, M!At, Posted
<1>19. MembersKnown
  BY <1>1, <1>5, <1>7, <1>9, <1>11, MulticastConstants DEF MembersKnown, Joined, Posted
<1>20. M!OneApplication
  BY <1>1, <1>2, <1>7, <1>9 DEF M!OneApplication
<1> QED  BY <1>12, <1>13, <1>21, <1>14, <1>15, <1>16, <1>17, <1>18, <1>19, <1>20 DEF MulticastsInv

-----------------------------------------------------------------------------
(* What the parts of the invariant ask of a step, so that they still hold. *)

(* A request ends with the step.                                           *)
Ended(p) ==
    /\ req'[p].stage \in {"done", "failed"} /\ req'[p].id = None /\ req'[p].was.group = None
    /\ req'[p].todo = {} /\ req'[p].out = {} /\ req'[p].in = {}

(* A request is the one it was, with less to do.                           *)
Kept(p) ==
    /\ req'[p].kind = req[p].kind /\ req'[p].id = req[p].id /\ req'[p].was = req[p].was
    /\ req'[p].devs = req[p].devs /\ req'[p].todo \subseteq req[p].todo
    /\ req'[p].out = req[p].out /\ req'[p].in = req[p].in
    /\ M!Busy(p)' => M!Busy(p)
    /\ Fresh(p)' => Fresh(p)
    /\ M!At(p, "new")' => M!At(p, "new")
    /\ Storing(p)' => Storing(p)
    /\ Deleting(p)' => Deleting(p)

(* A request that does nothing is kept. *)
LEMMA SameKept ==
    ASSUME NEW p, req'[p] = req[p]
    PROVE  Kept(p)
  BY DEF Kept, M!Busy, Fresh, Storing, Deleting, M!At

(* The works of a request that goes on, or ends. *)
LEMMA WorksKept ==
    ASSUME NEW p
    PROVE  /\ Kept(p) => M!Works(req[p])' \subseteq M!Works(req[p])
           /\ Ended(p) => M!Works(req[p])' = {} /\ ~M!Busy(p)' /\ ~Fresh(p)'
                          /\ ~Storing(p)' /\ ~Deleting(p)' /\ ~Unborn(p)'
<1>1. Kept(p) => M!Works(req[p])' \subseteq M!Works(req[p])
  BY DEF Kept, M!Works
<1>2. Ended(p) => M!Works(req[p])' = {}
  BY MulticastConstants DEF Ended, M!Works
<1>3. Ended(p) => ~M!Busy(p)' /\ ~Fresh(p)' /\ ~Storing(p)' /\ ~Deleting(p)' /\ ~Unborn(p)'
  BY DEF Ended, M!Busy, Fresh, Storing, Deleting, Unborn, M!At
<1> QED  BY <1>1, <1>2, <1>3

(* A step that begins nothing makes nobody contend. *)
LEMMA OneWorkerStays ==
    ASSUME OneWorker, \A p \in Caller : Kept(p) \/ Ended(p), contended \subseteq contended'
    PROVE  OneWorker'
<1> SUFFICES ASSUME NEW q \in Caller, NEW r \in Caller, q # r, M!Busy(q)', M!Busy(r)'
             PROVE  M!Works(req[q])' \cap M!Works(req[r])' \subseteq contended'
  BY DEF OneWorker
<1>1. Kept(q) /\ Kept(r)
  BY WorksKept
<1>2. M!Busy(q) /\ M!Busy(r)
  BY <1>1 DEF Kept
<1>3. M!Works(req[q]) \cap M!Works(req[r]) \subseteq contended
  BY <1>2 DEF OneWorker
<1>4. /\ M!Works(req[q])' \subseteq M!Works(req[q])
      /\ M!Works(req[r])' \subseteq M!Works(req[r])
  BY <1>1, WorksKept
<1> QED  BY <1>3, <1>4

(* What nobody has created yet stays so, if a step only ends requests or   *)
(* makes them go on.                                                       *)
LEMMA NotYetStays ==
    ASSUME NotYet, \A p \in Caller : Kept(p) \/ Ended(p),
           \A p \in Caller : Unborn(p) /\ multicasts[p] = None => multicasts'[p] = None
    PROVE  NotYet'
<1> SUFFICES ASSUME NEW r \in Caller, Unborn(r)'
             PROVE  /\ multicasts'[r] = None
                    /\ \A q \in Caller \ {r} : req'[q].kind # "downlink" => r \notin M!Works(req[q])'
  BY DEF NotYet
<1>1. Unborn(r)
  <2>1. Kept(r)
    BY WorksKept
  <2> QED  BY <2>1 DEF Kept, Unborn
<1>2. multicasts[r] = None /\ \A q \in Caller \ {r} : req[q].kind # "downlink" => r \notin M!Works(req[q])
  BY <1>1 DEF NotYet
<1>3. ASSUME NEW q \in Caller \ {r}, req'[q].kind # "downlink"
      PROVE  r \notin M!Works(req[q])'
  <2>1. CASE Kept(q)
    <3>1. req[q].kind # "downlink"
      BY <1>3, <2>1 DEF Kept
    <3> QED  BY <1>2, <2>1, <3>1, WorksKept
  <2>2. CASE Ended(q)
    BY <2>2, WorksKept
  <2> QED  BY <2>1, <2>2
<1> QED  BY <1>1, <1>2, <1>3

(* A step that gives no row, request or device another group leaves the    *)
(* groups with those who have them.                                        *)
LEMMA ReferredStays ==
    ASSUME Referred, \A p \in Caller : Kept(p) \/ Ended(p),
           \A m \in M!Existing' : multicasts'[m].group = None
                                  \/ (m \in M!Existing /\ multicasts'[m].group = multicasts[m].group),
           adding' \subseteq adding,
           \A g \in Caller : groups[g] = None => groups'[g] = None
    PROVE  Referred'
<1>1. \A p \in Caller : \/ req'[p].was.group = None
                        \/ req'[p].was.group = req[p].was.group /\ req'[p].id = req[p].id
  BY DEF Kept, Ended
<1>2. \A p \in Caller : Fresh(p)' => Fresh(p)
  BY WorksKept DEF Kept
<1>3. \A p \in Caller : Posted(p)' => Posted(p)
  BY <1>1, MulticastConstants DEF Posted
<1>4. ASSUME NEW r \in Caller, Fresh(r)'
      PROVE  /\ \A m \in M!Existing' : multicasts'[m].group # r
             /\ \A q \in Caller : req'[q].was.group # r
             /\ \A x \in adding' : x[2] # r
             /\ groups'[r] = None
  <2>1. Fresh(r) /\ r # None
    BY <1>2, <1>4, MulticastConstants
  <2> QED  BY <1>1, <2>1 DEF Referred
<1>5. ASSUME NEW r \in Caller, Posted(r)', NEW m \in M!Existing' PROVE multicasts'[m].group # r
  <2>1. Posted(r) /\ r # None
    BY <1>3, <1>5, MulticastConstants
  <2> QED  BY <2>1 DEF Referred
<1>6. ASSUME NEW m \in M!Existing', NEW n \in M!Existing', m # n,
             multicasts'[m].group = multicasts'[n].group
      PROVE  multicasts'[m].group = None
  BY <1>6 DEF Referred
<1>7. ASSUME NEW r \in Caller, req'[r].was.group # None
      PROVE  /\ \A n \in M!Existing' : multicasts'[n].group = req'[r].was.group => n = req'[r].id
             /\ \A q \in Caller : req'[q].was.group = req'[r].was.group => req'[q].id = req'[r].id
                                                                /\ (Posted(r)' => q = r)
  <2>1. req'[r].was.group = req[r].was.group /\ req'[r].id = req[r].id
    BY <1>1, <1>7
  <2>2. \A n \in M!Existing' : multicasts'[n].group = req'[r].was.group => n = req'[r].id
    BY <1>7, <2>1 DEF Referred
  <2>3. ASSUME NEW q \in Caller, req'[q].was.group = req'[r].was.group
        PROVE  req'[q].id = req'[r].id /\ (Posted(r)' => q = r)
    <3>1. req'[q].was.group = req[q].was.group /\ req'[q].id = req[q].id
      BY <1>1, <1>7, <2>3
    <3>2. req[r].was.group # None /\ req[q].was.group = req[r].was.group
      BY <1>7, <2>1, <2>3, <3>1
    <3>3. req[q].id = req[r].id /\ (Posted(r) => q = r)
      BY <3>2 DEF Referred
    <3> QED  BY <1>3, <2>1, <3>1, <3>3
  <2> QED  BY <2>2, <2>3
<1> QED  BY <1>4, <1>5, <1>6, <1>7 DEF Referred

(* A row a request has read stays what it was, if the multicasts other     *)
(* requests are at work on lose at most devices that are gone.             *)
LEMMA RowStaysStays ==
    ASSUME RowStays, M!TypeOK, Forms,
           application' => application, contended \subseteq contended', devices' \subseteq devices,
           \A p \in Caller : \/ Ended(p)
                             \/ Kept(p) /\ (Leaving(p)' => Leaving(p) /\ (M!At(p, "trim") => M!At(p, "trim")')),
           \A p \in Caller : M!Busy(p)' => \A m \in M!Works(req[p]) \ contended' :
               m \in M!Existing => /\ m \in M!Existing' /\ multicasts'[m].group = multicasts[m].group
                                   /\ multicasts'[m].devices \subseteq multicasts[m].devices
                                   /\ multicasts[m].devices \cap devices' \subseteq multicasts'[m].devices
    PROVE  RowStays'
<1> SUFFICES ASSUME application', NEW r \in Caller
             PROVE  /\ ((Storing(r)' /\ req'[r].kind = "update") \/ Deleting(r)') /\ req'[r].id \notin contended' =>
                      /\ req'[r].id \in M!Existing'
                      /\ multicasts'[req'[r].id].group = IF Posted(r)' THEN None ELSE req'[r].was.group
                    /\ \A x \in req'[r].todo : Leaving(r)' /\ x[1] \notin contended' =>
                      /\ M!At(r, "trim")' /\ x[1] \in M!Existing'
                      /\ multicasts'[x[1]].devices \subseteq x[2].devices
                      /\ x[2].devices \cap devices' \subseteq multicasts'[x[1]].devices
                    /\ \A x \in req'[r].in : x[1] \in contended'
                    /\ \A x \in req'[r].out : x[1] \in contended' \/ x[2] = req'[r].id
  BY DEF RowStays
<1>1. CASE Ended(r)
  BY <1>1, WorksKept DEF Ended
<1>2. CASE Kept(r) /\ (Leaving(r)' => Leaving(r) /\ (M!At(r, "trim") => M!At(r, "trim")'))
  <2>0. /\ req'[r].id = req[r].id /\ req'[r].was = req[r].was /\ req'[r].kind = req[r].kind
        /\ req'[r].todo \subseteq req[r].todo /\ req'[r].in = req[r].in /\ req'[r].out = req[r].out
        /\ Storing(r)' => Storing(r) /\ M!Busy(r)'
        /\ Deleting(r)' => Deleting(r) /\ M!Busy(r)'
        /\ Leaving(r)' => M!Busy(r)'
        /\ Posted(r)' <=> Posted(r)
    BY <1>2 DEF Kept, Storing, Deleting, Leaving, M!Busy, Posted
  <2>1. ASSUME (Storing(r)' /\ req'[r].kind = "update") \/ Deleting(r)', req'[r].id \notin contended'
        PROVE  /\ req'[r].id \in M!Existing'
               /\ multicasts'[req'[r].id].group = IF Posted(r)' THEN None ELSE req'[r].was.group
    <3>1. /\ (Storing(r) /\ req[r].kind = "update") \/ Deleting(r)
          /\ req[r].id \notin contended
      BY <2>0, <2>1
    <3>2. /\ req[r].id \in M!Existing
          /\ multicasts[req[r].id].group = IF Posted(r) THEN None ELSE req[r].was.group
      BY <3>1 DEF RowStays
    <3>3. req[r].id \in M!Works(req[r]) \ contended'
      BY <2>0, <2>1, <3>2 DEF M!Works, M!Existing
    <3> QED  BY <2>0, <2>1, <3>2, <3>3
  <2>2. ASSUME NEW x \in req'[r].todo, Leaving(r)', x[1] \notin contended'
        PROVE  /\ M!At(r, "trim")' /\ x[1] \in M!Existing'
               /\ multicasts'[x[1]].devices \subseteq x[2].devices
               /\ x[2].devices \cap devices' \subseteq multicasts'[x[1]].devices
    <3>1. x \in req[r].todo /\ Leaving(r) /\ x[1] \notin contended
      BY <1>2, <2>0, <2>2
    <3>2. /\ M!At(r, "trim") /\ x[1] \in M!Existing
          /\ multicasts[x[1]].devices \subseteq x[2].devices
          /\ x[2].devices \cap devices \subseteq multicasts[x[1]].devices
      BY <3>1 DEF RowStays
    <3>3. x[1] \in M!Works(req[r]) \ contended'
      BY <2>2, <3>1 DEF M!Works
    <3>4. /\ x[1] \in M!Existing'
          /\ multicasts'[x[1]].devices \subseteq multicasts[x[1]].devices
          /\ multicasts[x[1]].devices \cap devices' \subseteq multicasts'[x[1]].devices
      BY <2>0, <2>2, <3>2, <3>3
    <3> QED  BY <1>2, <2>2, <3>2, <3>4
  <2>3. /\ \A x \in req'[r].in : x[1] \in contended'
        /\ \A x \in req'[r].out : x[1] \in contended' \/ x[2] = req'[r].id
    BY <2>0 DEF RowStays
  <2> QED  BY <2>1, <2>2, <2>3
<1> QED  BY <1>1, <1>2

(* A multicast keeps its group in a step that ends or leaves each request. *)
LEMMA GroupThereStays ==
    ASSUME GroupThere, \A p \in Caller : Kept(p) \/ Ended(p),
           \A p \in Caller : M!At(p, "dbDelete")' => M!At(p, "dbDelete"),
           \A p \in Caller : M!At(p, "dbDelete") /\ req[p].was.devices # {} =>
               \/ M!At(p, "dbDelete")' /\ Kept(p)
               \/ req[p].id \in hurt' \/ req[p].id \notin M!Existing',
           contended \subseteq contended', hurt \subseteq hurt', application' => application,
           \A m \in M!Existing' \ (contended' \cup hurt') :
               \/ multicasts'[m].group \in {None} \cup hurt'
               \/ groups'[multicasts'[m].group] # None
               \/ m \in M!Existing /\ multicasts'[m].group = multicasts[m].group
                  /\ (groups[multicasts[m].group] # None => groups'[multicasts[m].group] # None),
           \A p \in Caller : M!At(p, "dbDelete")' /\ req[p].was.group # None /\ groups[req[p].was.group] = None
                                 => groups'[req[p].was.group] = None,
           \A p \in Caller : Posted(p)' /\ groups[p] # None => groups'[p] # None \/ ~application'
    PROVE  GroupThere'
<1>1. ASSUME NEW m \in M!Existing' \ (contended' \cup hurt'), multicasts'[m].group \notin {None} \cup hurt'
      PROVE  \/ groups'[multicasts'[m].group] # None
             \/ \E r \in Caller : M!At(r, "dbDelete")' /\ req'[r].id = m /\ req'[r].was.devices # {}
                                    /\ req'[r].was.group = multicasts'[m].group
  <2> SUFFICES ASSUME groups'[multicasts'[m].group] = None
               PROVE  \E r \in Caller : M!At(r, "dbDelete")' /\ req'[r].id = m /\ req'[r].was.devices # {}
                                    /\ req'[r].was.group = multicasts'[m].group
    OBVIOUS
  <2>1. /\ m \in M!Existing \ (contended \cup hurt)
        /\ multicasts'[m].group = multicasts[m].group
        /\ (groups[multicasts[m].group] # None => groups'[multicasts[m].group] # None)
        /\ multicasts[m].group \notin {None} \cup hurt
    BY <1>1
  <2>2. CASE groups[multicasts[m].group] # None
    BY <2>1, <2>2
  <2>3. CASE groups[multicasts[m].group] = None
    <3>1. PICK r \in Caller : /\ M!At(r, "dbDelete") /\ req[r].id = m /\ req[r].was.devices # {}
                              /\ req[r].was.group = multicasts[m].group
      BY <2>1, <2>3 DEF GroupThere
    <3>2. M!At(r, "dbDelete")' /\ Kept(r)
      BY <1>1, <3>1
    <3> QED  BY <2>1, <3>1, <3>2 DEF Kept
  <2> QED  BY <2>2, <2>3
<1>2. ASSUME NEW r \in Caller, M!At(r, "dbDelete")', req'[r].was.devices # {}
      PROVE  req'[r].was.group # None /\ groups'[req'[r].was.group] = None
  <2>1. Kept(r) /\ M!At(r, "dbDelete")
    BY <1>2 DEF Ended, M!At
  <2>2. req'[r].was = req[r].was
    BY <2>1 DEF Kept
  <2> QED  BY <1>2, <2>1, <2>2 DEF GroupThere
<1>3. ASSUME NEW r \in Caller, Posted(r)' PROVE groups'[r] # None \/ ~application'
  <2>1. Posted(r)
    BY <1>3, MulticastConstants DEF Posted, Kept, Ended
  <2> QED  BY <1>3, <2>1 DEF GroupThere
<1> QED  BY <1>1, <1>2, <1>3 DEF GroupThere

(* A group without a multicast is known in a step that makes none. *)
LEMMA GroupKnownStays ==
    ASSUME GroupKnown,
           contended \subseteq contended', hurt \subseteq hurt', emptied \subseteq emptied',
           contended' = {} => \A g \in M!Id : groups'[g] # None => groups[g] # None,
           contended' = {} => \A m \in M!Existing : multicasts[m].group \in emptied' \cup hurt'
                   \/ (m \in M!Existing' /\ multicasts'[m].group = multicasts[m].group)
                   \/ multicasts[m].group = None \/ groups'[multicasts[m].group] = None,
           \A p \in Caller : Posted(p) => \/ Posted(p)' \/ p \in hurt'
                                          \/ \E m \in M!Existing' : multicasts'[m].group = p
    PROVE  GroupKnown'
<1> SUFFICES ASSUME contended' = {}, NEW g \in M!Id, groups'[g] # None
             PROVE  \/ \E m \in M!Existing' : multicasts'[m].group = g
                    \/ g \in emptied' \cup hurt'
                    \/ \E r \in Caller : Posted(r)' /\ r = g
  BY DEF GroupKnown
<1>1. contended = {} /\ groups[g] # None
  OBVIOUS
<1>2. CASE \E m \in M!Existing : multicasts[m].group = g
  <2>1. PICK m \in M!Existing : multicasts[m].group = g
    BY <1>2
  <2> QED  BY <2>1, MulticastConstants
<1>3. CASE g \in emptied \cup hurt
  BY <1>3
<1>4. CASE \E r \in Caller : Posted(r) /\ r = g
  BY <1>4
<1> QED  BY <1>1, <1>2, <1>3, <1>4 DEF GroupKnown

(* The members follow in a step that moves them only together. *)
LEMMA MembersKnownStays ==
    ASSUME MembersKnown, \A p \in Caller : Kept(p) \/ Ended(p),
           contended \subseteq contended', hurt \subseteq hurt', changed \subseteq changed',
           devices' \subseteq devices,
           \A m \in M!Existing' \ (contended' \cup hurt') :
               \/ multicasts'[m].group \in {None} \cup hurt' \cup changed'
               \/ multicasts'[m].devices \cap devices' = Joined(multicasts[m].group)' \cap devices'
               \/ /\ m \in M!Existing /\ multicasts'[m].group = multicasts[m].group
                  /\ multicasts'[m].group \in M!Id
                  /\ multicasts'[m].devices \cap devices' = multicasts[m].devices \cap devices',
           \A g \in M!Id : groups'[g] # None /\ (g \in hurt' => \E p \in Caller : Posted(p)' /\ p = g) =>
               groups[g] # None /\ Joined(g)' \cap devices' = Joined(g) \cap devices'
    PROVE  MembersKnown'
<1>1. ASSUME NEW m \in M!Existing' \ (contended' \cup hurt'),
             multicasts'[m].group \notin {None} \cup hurt' \cup changed',
             groups'[multicasts'[m].group] # None
      PROVE  multicasts'[m].devices \cap devices' = Joined(multicasts[m].group)' \cap devices'
  <2> DEFINE g == multicasts[m].group
  <2> SUFFICES ASSUME multicasts'[m].devices \cap devices' # Joined(multicasts[m].group)' \cap devices'
               PROVE  FALSE
    OBVIOUS
  <2>1. /\ m \in M!Existing /\ multicasts'[m].group = g /\ g \in M!Id
        /\ multicasts'[m].devices \cap devices' = multicasts[m].devices \cap devices'
        /\ groups'[g] # None /\ g \notin hurt'
    BY <1>1
  <2> PICK h \in M!Id : h = g
    BY <2>1
  <2>4. Joined(multicasts[m].group)' = Joined(h)'
    BY <2>1 DEF Joined
  <2>2. groups[g] # None /\ Joined(multicasts[m].group)' \cap devices' = Joined(g) \cap devices'
    <3>1. groups[h] # None /\ Joined(h)' \cap devices' = Joined(h) \cap devices'
      BY <2>1
    <3> QED  BY <2>4, <3>1
  <2>3. multicasts[m].devices \cap devices = Joined(g) \cap devices
    BY <1>1, <2>1, <2>2 DEF MembersKnown
  <2> QED  BY <2>1, <2>2, <2>3
<1>2. ASSUME NEW r \in Caller, Posted(r)', groups'[r] # None
      PROVE  req'[r].devs \cap devices' = Joined(r)' \cap devices'
  <2>1. Posted(r) /\ req'[r].devs = req[r].devs /\ r \in M!Id
    BY <1>2, MulticastConstants DEF Posted, Kept, Ended
  <2>2. groups[r] # None /\ Joined(r)' \cap devices' = Joined(r) \cap devices'
    BY <1>2, <2>1
  <2>3. req[r].devs \cap devices = Joined(r) \cap devices
    BY <2>1, <2>2 DEF MembersKnown
  <2> QED  BY <2>1, <2>2, <2>3
<1> QED  BY <1>1, <1>2 DEF MembersKnown

(* A group is of one application in a step that adds no member. *)
LEMMA OneApplicationStays ==
    ASSUME M!OneApplication, adding' \subseteq adding,
           \A g \in M!Id : groups'[g] # None => /\ groups[g] # None /\ groups'[g].app = groups[g].app
                                               /\ groups'[g].members \subseteq Joined(g)
    PROVE  M!OneApplication'
<1> SUFFICES ASSUME NEW g \in M!Id, groups'[g] # None
             PROVE  /\ \A d \in groups'[g].members : CsAppOf[d] = groups'[g].app
                    /\ \A x \in adding' : x[2] = g => CsAppOf[x[1]] = groups'[g].app
  BY DEF M!OneApplication
<1>1. /\ \A d \in groups[g].members : CsAppOf[d] = groups[g].app
      /\ \A x \in adding : x[2] = g => CsAppOf[x[1]] = groups[g].app
  BY DEF M!OneApplication
<1> QED  BY <1>1 DEF Joined

(* A queue holds what is known of it in a step that adds no downlink. *)
LEMMA QueueKnownStays ==
    ASSUME QueueKnown, raced \subseteq raced', \A t \in M!Target : queue'[t] \subseteq queue[t],
           \A p \in Caller : Sending(p)' => Sending(p) /\ req'[p].id = req[p].id,
           \A p \in Caller : M!At(p, "enqueue")' => /\ req'[p].id = req[p].id
                                                    /\ M!At(p, "enqueue") \/ queue'[req[p].id] = {}
    PROVE  QueueKnown'
<1> SUFFICES ASSUME NEW t \in M!Target \ raced'
             PROVE  /\ \A a, b \in queue'[t] : a = b
                    /\ \A q, r \in Caller : Sending(q)' /\ Sending(r)' /\ req'[q].id = t /\ req'[r].id = t => q = r
                    /\ \A r \in Caller : M!At(r, "enqueue")' /\ req'[r].id = t => queue'[t] = {}
  BY DEF QueueKnown
<1>1. /\ \A a, b \in queue[t] : a = b
      /\ \A q, r \in Caller : Sending(q) /\ Sending(r) /\ req[q].id = t /\ req[r].id = t => q = r
      /\ \A r \in Caller : M!At(r, "enqueue") /\ req[r].id = t => queue[t] = {}
  BY DEF QueueKnown
<1>2. queue'[t] \subseteq queue[t]
  OBVIOUS
<1> QED  BY <1>1, <1>2

(* A request that no step is about keeps its form. *)
LEMMA FormStays ==
    ASSUME NEW p, Form(p), req'[p] = req[p], devices' \subseteq devices,
           M!At(p, "commit") => application'
    PROVE  Form(p)'
  BY DEF Form, Storing, Deleting, Leaving, Sending, Wiping, Over, Posted, M!At

(* A request that has ended has a form. *)
LEMMA EndedForm ==
    ASSUME NEW p \in Caller, Ended(p)
    PROVE  Form(p)'
<1>1. req'[p].was.group # p
  BY MulticastConstants DEF Ended
<1> QED  BY <1>1 DEF Form, Storing, Deleting, Leaving, Sending, Wiping, Over, Posted, M!At, Ended

-----------------------------------------------------------------------------
(* A request begins: what it must have read for the invariant to hold.     *)
LEMMA Begins ==
    ASSUME MulticastsInv, NEW r \in Caller, NEW q \in M!Req, M!Begin(r, q), Form(r)',
           raced \subseteq raced', raced' \subseteq M!Target,
           q.stage \notin {"new", "done", "failed", "enqueue"}, q.out = {}, q.in = {},
           q.kind # "downlink" => M!Works(q) \subseteq {r} \cup M!Existing,
           q.was.group # None \/ q.kind \in {"update", "delete"} =>
               q.id \in M!Existing /\ multicasts[q.id].group = q.was.group,
           \A x \in q.todo : x[1] \in M!Existing /\ x[2] = multicasts[x[1]],
           q.kind = "deleteDevice" => q.stage = "trim",
           q.stage = "dbDelete" => q.was.devices = {},
           q.kind = "downlink" =>
               \A p \in Caller : M!Busy(p) /\ req[p].kind = "downlink" /\ req[p].id = q.id => q.id \in raced'
    PROVE  MulticastsInv'
<1>1. /\ req[r] = M!Idle /\ application
      /\ req' = [req EXCEPT ![r] = q]
      /\ contended' = contended \cup
             UNION {M!Works(q) \cap M!Works(req[p]) : p \in {p \in Caller : M!Busy(p)}}
      /\ UNCHANGED <<application, devices, multicasts, groups, adding, queue, hurt, changed, emptied, faults>>
  BY DEF M!Begin, M!stores
<1>2. req \in [Caller -> M!Req] /\ M!TypeOK /\ Forms
  BY DEF MulticastsInv, M!TypeOK
<1>3. req' \in [Caller -> M!Req] /\ req'[r] = q /\ \A p \in Caller \ {r} : req'[p] = req[p]
  BY <1>1, <1>2
<1>4. M!Existing' = M!Existing
  BY <1>1 DEF M!Existing
<1>5. /\ M!At(r, "new") /\ Fresh(r) /\ Unborn(r) /\ ~M!Busy(r)
  BY <1>1, NewRequests DEF M!At, Fresh, Unborn, M!Busy
<1>6. M!Works(q) \subseteq M!Id
  BY DEF M!Works, M!Req
<1>7. M!TypeOK'
  <2>1. contended' \subseteq M!Id
    BY <1>1, <1>2, <1>6 DEF M!TypeOK
  <2> QED  BY <1>1, <1>2, <1>3, <2>1 DEF M!TypeOK
<1>8. Forms'
  <2>1. ASSUME NEW p \in Caller, p # r PROVE Form(p)'
    BY <1>1, <1>2, <1>3, <2>1, FormStays DEF Forms
  <2> QED  BY <2>1 DEF Forms
<1>9. NotYet'
  <2> SUFFICES ASSUME NEW p \in Caller, Unborn(p)'
               PROVE  /\ multicasts'[p] = None
                      /\ \A o \in Caller \ {p} : req'[o].kind # "downlink" => p \notin M!Works(req[o])'
    BY DEF NotYet
  <2>1. Unborn(p)
    BY <1>3, <1>5 DEF Unborn, Storing, M!At
  <2>2. multicasts[p] = None /\ \A o \in Caller \ {p} : req[o].kind # "downlink" => p \notin M!Works(req[o])
    BY <2>1 DEF MulticastsInv, NotYet
  <2>3. p \notin M!Existing
    BY <2>2 DEF M!Existing
  <2>4. ASSUME NEW o \in Caller \ {p}, req'[o].kind # "downlink"
        PROVE  p \notin M!Works(req[o])'
    <3>1. CASE o = r
      <4>1. M!Works(req[r])' = M!Works(q)
        BY <1>3 DEF M!Works
      <4> QED  BY <1>3, <2>3, <2>4, <3>1, <4>1
    <3>2. CASE o # r
      <4>1. M!Works(req[o])' = M!Works(req[o]) /\ req'[o].kind = req[o].kind
        BY <1>3, <3>2 DEF M!Works
      <4> QED  BY <2>2, <2>4, <4>1
    <3> QED  BY <3>1, <3>2
  <2> QED  BY <1>1, <2>2, <2>4
<1>10. OneWorker'
  <2> SUFFICES ASSUME NEW o \in Caller, NEW p \in Caller, o # p, M!Busy(o)', M!Busy(p)'
               PROVE  M!Works(req[o])' \cap M!Works(req[p])' \subseteq contended'
    BY DEF OneWorker
  <2>1. \A a \in Caller : a # r => (M!Busy(a)' <=> M!Busy(a)) /\ M!Works(req[a])' = M!Works(req[a])
    BY <1>3 DEF M!Busy, M!Works
  <2>2. M!Works(req[r])' = M!Works(q)
    BY <1>3 DEF M!Works
  <2>3. CASE o = r
    <3>1. M!Busy(p) /\ M!Works(req[p])' = M!Works(req[p])
      BY <2>1, <2>3
    <3> QED  BY <1>1, <2>2, <2>3, <3>1
  <2>4. CASE p = r
    <3>1. M!Busy(o) /\ M!Works(req[o])' = M!Works(req[o])
      BY <2>1, <2>4
    <3> QED  BY <1>1, <2>2, <2>4, <3>1
  <2>5. CASE o # r /\ p # r
    <3>1. M!Works(req[o]) \cap M!Works(req[p]) \subseteq contended
      BY <2>1, <2>5 DEF MulticastsInv, OneWorker
    <3> QED  BY <1>1, <2>1, <2>5, <3>1
  <2> QED  BY <2>3, <2>4, <2>5
<1>11. /\ \A p \in Caller : Fresh(p)' => Fresh(p)
       /\ \A m \in M!Existing : multicasts[m].group # r
       /\ ~Posted(r)'
       /\ \A p \in Caller \ {r} : (Posted(p)' <=> Posted(p)) /\ (Posted(p) => \A m \in M!Existing : multicasts[m].group # p)
  <2>1. \A p \in Caller : Fresh(p)' => Fresh(p)
    BY <1>3, <1>5 DEF Fresh
  <2>2. \A m \in M!Existing : multicasts[m].group # r
    BY <1>5 DEF MulticastsInv, Referred
  <2>3. ~Posted(r)'
    BY <1>3, <2>2, MulticastConstants DEF Posted
  <2>4. \A p \in Caller \ {r} : Posted(p)' <=> Posted(p)
    BY <1>3 DEF Posted
  <2>5. \A p \in Caller : Posted(p) => \A m \in M!Existing : multicasts[m].group # p
    BY DEF MulticastsInv, Referred
  <2> QED  BY <2>1, <2>2, <2>3, <2>4, <2>5
<1>12. Referred'
  <2>1. ASSUME NEW p \in Caller, Fresh(p)'
        PROVE  /\ \A m \in M!Existing' : multicasts'[m].group # p
               /\ \A o \in Caller : req'[o].was.group # p
               /\ \A x \in adding' : x[2] # p
               /\ groups'[p] = None
    <3>1. /\ \A m \in M!Existing : multicasts[m].group # p
          /\ \A o \in Caller : req[o].was.group # p
          /\ \A x \in adding : x[2] # p
          /\ groups[p] = None
      BY <1>11, <2>1 DEF MulticastsInv, Referred
    <3>2. q.was.group # p
      BY <3>1, MulticastConstants
    <3> QED  BY <1>1, <1>3, <1>4, <3>1, <3>2
  <2>2. \A p \in Caller : Posted(p)' => \A m \in M!Existing' : multicasts'[m].group # p
    BY <1>1, <1>4, <1>11
  <2>3. \A m, n \in M!Existing' : multicasts'[m].group = multicasts'[n].group /\ m # n
                                    => multicasts'[m].group = None
    BY <1>1, <1>4 DEF MulticastsInv, Referred
  <2>4. ASSUME NEW p \in Caller, req'[p].was.group # None
        PROVE  /\ \A n \in M!Existing' : multicasts'[n].group = req'[p].was.group => n = req'[p].id
               /\ \A o \in Caller : req'[o].was.group = req'[p].was.group => req'[o].id = req'[p].id
                                                                 /\ (Posted(p)' => o = p)
    <3>1. CASE p = r
      <4>1. q.id \in M!Existing /\ multicasts[q.id].group = q.was.group /\ q.was.group # None
        BY <1>3, <2>4, <3>1
      <4>2. \A n \in M!Existing : multicasts[n].group = q.was.group => n = q.id
        BY <4>1 DEF MulticastsInv, Referred
      <4>3. \A o \in Caller \ {r} : req[o].was.group = q.was.group => req[o].id = q.id
        BY <4>1 DEF MulticastsInv, Referred
      <4> QED  BY <1>1, <1>3, <1>4, <1>11, <3>1, <4>2, <4>3
    <3>2. CASE p # r
      <4>1. req'[p] = req[p] /\ req[p].was.group # None
        BY <1>3, <2>4, <3>2
      <4>2. /\ \A n \in M!Existing : multicasts[n].group = req[p].was.group => n = req[p].id
            /\ \A o \in Caller : req[o].was.group = req[p].was.group => req[o].id = req[p].id /\ (Posted(p) => o = p)
        BY <4>1 DEF MulticastsInv, Referred
      <4>3. q.was.group = req[p].was.group => q.id = req[p].id /\ ~Posted(p)
        BY <1>11, <3>2, <4>1, <4>2, MulticastConstants DEF Posted
      <4>4. ASSUME NEW o \in Caller, req'[o].was.group = req'[p].was.group
            PROVE  req'[o].id = req'[p].id /\ (Posted(p)' => o = p)
        <5>1. CASE o = r
          BY <1>3, <1>11, <3>2, <4>1, <4>3, <4>4, <5>1
        <5>2. CASE o # r
          BY <1>3, <1>11, <3>2, <4>1, <4>2, <4>4, <5>2
        <5> QED  BY <5>1, <5>2
      <4> QED  BY <1>1, <1>4, <4>1, <4>2, <4>4
    <3> QED  BY <3>1, <3>2
  <2> QED  BY <2>1, <2>2, <2>3, <2>4 DEF Referred
<1>13. Grouped'
  BY <1>1, <1>4 DEF MulticastsInv, Grouped
<1>14. RowStays'
  <2> SUFFICES ASSUME NEW p \in Caller
               PROVE  /\ ((Storing(p)' /\ req'[p].kind = "update") \/ Deleting(p)') /\ req'[p].id \notin contended' =>
                        /\ req'[p].id \in M!Existing'
                        /\ multicasts'[req'[p].id].group = IF Posted(p)' THEN None ELSE req'[p].was.group
                      /\ \A x \in req'[p].todo : Leaving(p)' /\ x[1] \notin contended' =>
                        /\ M!At(p, "trim")' /\ x[1] \in M!Existing'
                        /\ multicasts'[x[1]].devices \subseteq x[2].devices
                        /\ x[2].devices \cap devices' \subseteq multicasts'[x[1]].devices
                      /\ \A x \in req'[p].in : x[1] \in contended'
                      /\ \A x \in req'[p].out : x[1] \in contended' \/ x[2] = req'[p].id
    BY DEF RowStays
  <2>1. CASE p = r
    <3>1. /\ Deleting(r)' => q.kind = "delete"
          /\ Leaving(r)' => q.kind = "deleteDevice"
      BY <1>3 DEF Deleting, Leaving
    <3>2. Leaving(r)' => M!At(r, "trim")'
      BY <1>3, <3>1 DEF M!At
    <3>3. ~Posted(r)'
      BY <1>11
    <3> QED  BY <1>1, <1>3, <1>4, <2>1, <3>1, <3>2, <3>3
  <2>2. CASE p # r
    <3>1. req'[p] = req[p]
      BY <1>3, <2>2
    <3>2. /\ Storing(p)' <=> Storing(p)
          /\ Deleting(p)' <=> Deleting(p)
          /\ Leaving(p)' <=> Leaving(p)
          /\ Posted(p)' <=> Posted(p)
          /\ M!At(p, "trim")' <=> M!At(p, "trim")
      BY <3>1 DEF Storing, Deleting, Leaving, Posted, M!At
    <3>3. contended \subseteq contended'
      BY <1>1
    <3>4. RowStays
      BY DEF MulticastsInv
    <3> QED  BY <1>1, <1>4, <3>1, <3>2, <3>3, <3>4 DEF RowStays
  <2> QED  BY <2>1, <2>2
<1>15. GroupThere'
  <2>1. \A p \in Caller : M!At(p, "dbDelete") => req'[p] = req[p]
    BY <1>3, <1>5 DEF M!At
  <2>2. \A p \in Caller : M!At(p, "dbDelete")' => req'[p].was.devices = {} \/ req'[p] = req[p]
    BY <1>3 DEF M!At
  <2>3. GroupThere
    BY DEF MulticastsInv
  <2>4. ASSUME NEW m \in M!Existing' \ (contended' \cup hurt'), multicasts'[m].group \notin {None} \cup hurt'
        PROVE  \/ groups'[multicasts'[m].group] # None
               \/ \E p \in Caller : M!At(p, "dbDelete")' /\ req'[p].id = m /\ req'[p].was.devices # {}
                                      /\ req'[p].was.group = multicasts'[m].group
    <3>1. \/ groups[multicasts[m].group] # None
          \/ \E p \in Caller : M!At(p, "dbDelete") /\ req[p].id = m /\ req[p].was.devices # {}
                                 /\ req[p].was.group = multicasts[m].group
      BY <1>1, <1>4, <2>3, <2>4 DEF GroupThere
    <3> QED  BY <1>1, <2>1, <3>1 DEF M!At
  <2>5. ASSUME NEW p \in Caller, M!At(p, "dbDelete")', req'[p].was.devices # {}
        PROVE  req'[p].was.group # None /\ groups'[req'[p].was.group] = None
    <3>1. req'[p] = req[p]
      BY <2>2, <2>5
    <3> QED  BY <1>1, <2>3, <2>5, <3>1 DEF GroupThere, M!At
  <2>6. \A p \in Caller : Posted(p)' => groups'[p] # None \/ ~application'
    BY <1>1, <1>11, <2>3 DEF GroupThere
  <2> QED  BY <2>4, <2>5, <2>6 DEF GroupThere
<1>16. GroupKnown'
  <2>1. \A p \in Caller : Posted(p) => Posted(p)'
    <3>1. ~Posted(r)
      BY <1>1, NewRequests, MulticastConstants DEF Posted
    <3> QED  BY <1>11, <3>1
  <2> QED  BY <1>1, <1>4, <2>1, GroupKnownStays DEF MulticastsInv
<1>17. AppGone' /\ M!OneApplication'
  BY <1>1, <1>4 DEF MulticastsInv, AppGone, M!OneApplication
<1>18. MembersKnown'
  <2>1. \A g \in M!Id : Joined(g)' = Joined(g)
    BY <1>1 DEF Joined
  <2>2. ASSUME NEW p \in Caller, Posted(p)', groups'[p] # None
        PROVE  req'[p].devs \cap devices' = Joined(p)' \cap devices'
    <3>1. Posted(p) /\ req'[p] = req[p]
      BY <1>3, <1>11, <2>2
    <3>2. req[p].devs \cap devices = Joined(p) \cap devices
      BY <1>1, <2>2, <3>1 DEF MulticastsInv, MembersKnown
    <3> QED  BY <1>1, <2>1, <3>1, <3>2, MulticastConstants
  <2>3. ASSUME NEW m \in M!Existing' \ (contended' \cup hurt'),
               multicasts'[m].group \notin {None} \cup hurt' \cup changed',
               groups'[multicasts'[m].group] # None
        PROVE  multicasts'[m].devices \cap devices' = Joined(multicasts[m].group)' \cap devices'
    <3>1. Joined(multicasts[m].group)' = Joined(multicasts[m].group)
      BY <1>1 DEF Joined
    <3>2. /\ m \in M!Existing \ (contended \cup hurt)
          /\ multicasts[m].group \notin {None} \cup hurt \cup changed
          /\ groups[multicasts[m].group] # None
      BY <1>1, <1>4, <2>3
    <3>3. multicasts[m].devices \cap devices = Joined(multicasts[m].group) \cap devices
      BY <3>2 DEF MulticastsInv, MembersKnown
    <3> QED  BY <1>1, <3>1, <3>3
  <2> QED  BY <2>2, <2>3 DEF MembersKnown
<1>19. QueueKnown'
  <2> SUFFICES ASSUME NEW t \in M!Target \ raced'
               PROVE  /\ \A a, b \in queue'[t] : a = b
                      /\ \A o, p \in Caller : Sending(o)' /\ Sending(p)' /\ req'[o].id = t /\ req'[p].id = t => o = p
                      /\ \A p \in Caller : M!At(p, "enqueue")' /\ req'[p].id = t => queue'[t] = {}
    BY DEF QueueKnown
  <2>1. /\ \A a, b \in queue[t] : a = b
        /\ \A o, p \in Caller : Sending(o) /\ Sending(p) /\ req[o].id = t /\ req[p].id = t => o = p
        /\ \A p \in Caller : M!At(p, "enqueue") /\ req[p].id = t => queue[t] = {}
    BY DEF MulticastsInv, QueueKnown
  <2>2. \A p \in Caller \ {r} : (Sending(p)' <=> Sending(p)) /\ req'[p].id = req[p].id
                                 /\ (M!At(p, "enqueue")' <=> M!At(p, "enqueue"))
    BY <1>3 DEF Sending, M!At
  <2>3. /\ Sending(r)' => q.kind = "downlink"
        /\ ~M!At(r, "enqueue")' /\ req'[r].id = q.id
    BY <1>3 DEF Sending, M!At
  <2>4. \A p \in Caller \ {r} : ~(Sending(p) /\ Sending(r)' /\ req[p].id = t /\ req'[r].id = t)
    BY <2>3 DEF Sending, M!Busy
  <2> QED  BY <1>1, <2>1, <2>2, <2>3, <2>4
<1> QED  BY <1>7, <1>8, <1>9, <1>10, <1>12, <1>13, <1>14, <1>15, <1>16, <1>17, <1>18, <1>19 DEF MulticastsInv

WithDevs(b, ds) == [b EXCEPT !.devs = ds]
WithWas(b, w) == [b EXCEPT !.was = w]
WithTodo(b, td) == [b EXCEPT !.todo = td]
SameButDevs(e, b) == /\ e \in M!Req /\ e.kind = b.kind /\ e.stage = b.stage /\ e.id = b.id /\ e.was = b.was
                     /\ e.todo = b.todo /\ e.out = b.out /\ e.in = b.in
SameButWas(e, b) == /\ e \in M!Req /\ e.kind = b.kind /\ e.stage = b.stage /\ e.id = b.id /\ e.devs = b.devs
                    /\ e.todo = b.todo /\ e.out = b.out /\ e.in = b.in
SameButTodo(e, b) == /\ e \in M!Req /\ e.kind = b.kind /\ e.stage = b.stage /\ e.id = b.id /\ e.devs = b.devs
                     /\ e.was = b.was /\ e.out = b.out /\ e.in = b.in

(* A request is given devices, a row, or rows. *)
LEMMA FilledRequest ==
    ASSUME NEW b \in M!Req
    PROVE  /\ \A ds \in SUBSET Device : SameButDevs(WithDevs(b, ds), b) /\ WithDevs(b, ds).devs = ds
           /\ \A w \in M!Row : SameButWas(WithWas(b, w), b) /\ WithWas(b, w).was = w
           /\ \A td \in SUBSET (M!Id \X M!Row) :
                SameButTodo(WithTodo(b, td), b) /\ WithTodo(b, td).todo = td
<1> HIDE DEF M!Row, M!Target, M!Id
<1>1. ASSUME NEW ds \in SUBSET Device PROVE SameButDevs(WithDevs(b, ds), b) /\ WithDevs(b, ds).devs = ds
  <2>1. WithDevs(b, ds) \in M!Req
    BY DEF M!Req, WithDevs
  <2>2. WithDevs(b, ds).devs = ds
    BY DEF M!Req, WithDevs
  <2> QED  BY <2>1, <2>2 DEF M!Req, WithDevs, SameButDevs
<1>2. ASSUME NEW w \in M!Row PROVE SameButWas(WithWas(b, w), b) /\ WithWas(b, w).was = w
  <2>1. WithWas(b, w) \in M!Req
    BY DEF M!Req, WithWas
  <2>2. WithWas(b, w).was = w
    BY DEF M!Req, WithWas
  <2> QED  BY <2>1, <2>2 DEF M!Req, WithWas, SameButWas
<1>3. ASSUME NEW td \in SUBSET (M!Id \X M!Row)
      PROVE  SameButTodo(WithTodo(b, td), b) /\ WithTodo(b, td).todo = td
  <2>1. WithTodo(b, td) \in M!Req
    BY DEF M!Req, WithTodo
  <2>2. WithTodo(b, td).todo = td
    BY DEF M!Req, WithTodo
  <2> QED  BY <2>1, <2>2 DEF M!Req, WithTodo, SameButTodo
<1> QED  BY <1>1, <1>2, <1>3

(* The request a step begins is there after it. *)
LEMMA Begun ==
    ASSUME M!TypeOK, NEW r \in Caller, NEW q, M!Begin(r, q)
    PROVE  req'[r] = q /\ req[r] = M!Idle /\ M!At(r, "new") /\ application /\ devices' = devices
  BY NewRequests DEF M!TypeOK, M!Begin, M!stores, M!At

(* create: the request knows nobody's group, and is named for its multicast. *)
LEMMA CreateBegins ==
    ASSUME MulticastsInv, NEW r \in Caller, NEW ds \in SUBSET Device, M!BeginCreate(r, ds)
    PROVE  MulticastsInv'
<1> DEFINE s == IF ds = {} THEN "save" ELSE "check"
           b == M!NewReq("create", s, r)
           q == WithDevs(b, ds)
<1>1. M!TypeOK /\ r \in M!Id /\ r # None /\ r \in M!Target
  BY MulticastConstants DEF MulticastsInv
<1>2. s \in ReqStage /\ "create" \in ReqKind
  BY DEF ReqStage, ReqKind
<1>3. /\ b \in M!Req /\ b.kind = "create" /\ b.stage = s /\ b.id = r
      /\ b.was = M!NoRow /\ b.todo = {} /\ b.out = {} /\ b.in = {}
  BY <1>1, <1>2, NewRequests
<1>4. /\ q \in M!Req /\ q.kind = "create" /\ q.stage = s /\ q.id = r /\ q.devs = ds
      /\ q.was = M!NoRow /\ q.todo = {} /\ q.out = {} /\ q.in = {}
  BY <1>3, FilledRequest DEF SameButDevs
<1>5. M!Begin(r, q) /\ raced' = raced
  BY DEF M!BeginCreate, WithDevs
<1> HIDE DEF q, b
<1>6. req'[r] = q /\ raced \subseteq M!Target
  BY <1>1, <1>5, Begun DEF M!TypeOK
<1>7. s \in {"save", "check"} /\ (s = "save" => ds = {})
  OBVIOUS
<1> HIDE DEF s
<1>8. M!NoRow.group = None
  BY NewRequests
<1>9. Form(r)'
  <2>1. Storing(r)' /\ ~Deleting(r)' /\ ~Leaving(r)' /\ ~Wiping(r)' /\ ~Sending(r)' /\ ~Over(r)' /\ ~Posted(r)'
    BY <1>1, <1>4, <1>6, <1>7, <1>8 DEF Storing, Deleting, Leaving, Wiping, Sending, Over, Posted
  <2> QED  BY <1>1, <1>4, <1>6, <1>7, <1>8, <2>1 DEF Form, M!At
<1>10. M!Works(q) \subseteq {r}
  BY <1>4 DEF M!Works
<1> QED  BY <1>4, <1>5, <1>6, <1>7, <1>8, <1>9, <1>10, Begins

(* update: the row that is read is the row as it is. *)
LEMMA UpdateBegins ==
    ASSUME MulticastsInv, NEW r \in Caller, NEW ds \in SUBSET Device, NEW m \in M!Id, M!BeginUpdate(r, m, ds)
    PROVE  MulticastsInv'
<1> DEFINE s == IF ds = {} /\ multicasts[m].devices = {} THEN "save"
                ELSE IF multicasts[m].group = None THEN "check" ELSE "get"
           b == M!NewReq("update", s, m)
           q == WithWas(WithDevs(b, ds), multicasts[m])
<1>1. M!TypeOK /\ m \in M!Target /\ m \in M!Existing /\ multicasts[m] \in M!Row
  BY RequestsTyped, MulticastConstants DEF MulticastsInv, M!BeginUpdate, M!MulticastsOfApp
<1>2. s \in ReqStage /\ "update" \in ReqKind
  BY DEF ReqStage, ReqKind
<1>3. /\ b \in M!Req /\ b.kind = "update" /\ b.stage = s /\ b.id = m
      /\ b.todo = {} /\ b.out = {} /\ b.in = {}
  BY <1>1, <1>2, NewRequests
<1>4. /\ q \in M!Req /\ q.kind = "update" /\ q.stage = s /\ q.id = m /\ q.devs = ds
      /\ q.was = multicasts[m] /\ q.todo = {} /\ q.out = {} /\ q.in = {}
  <2>1. SameButDevs(WithDevs(b, ds), b) /\ WithDevs(b, ds).devs = ds
    BY <1>3, FilledRequest
  <2>2. WithDevs(b, ds) \in M!Req
    BY <2>1 DEF SameButDevs
  <2>3. SameButWas(q, WithDevs(b, ds)) /\ q.was = multicasts[m]
    BY <1>1, <2>2, FilledRequest
  <2> QED  BY <1>3, <2>1, <2>3 DEF SameButDevs, SameButWas
<1>5. M!Begin(r, q) /\ raced' = raced
  BY DEF M!BeginUpdate, WithDevs, WithWas
<1> HIDE DEF q, b
<1>6. req'[r] = q /\ M!At(r, "new") /\ raced \subseteq M!Target
  BY <1>1, <1>5, Begun DEF M!TypeOK
<1>7. /\ s \in {"save", "check", "get"} /\ (s = "save" => ds = {})
      /\ (s = "get" => multicasts[m].group # None)
  OBVIOUS
<1> HIDE DEF s
<1>8. multicasts[m].group # r
  BY <1>1, <1>6 DEF MulticastsInv, Referred, Fresh, M!At
<1>9. Form(r)'
  <2>1. Storing(r)' /\ ~Deleting(r)' /\ ~Leaving(r)' /\ ~Wiping(r)' /\ ~Sending(r)' /\ ~Over(r)' /\ ~Posted(r)'
    BY <1>4, <1>6, <1>7, <1>8 DEF Storing, Deleting, Leaving, Wiping, Sending, Over, Posted
  <2> QED  BY <1>1, <1>4, <1>6, <1>7, <2>1 DEF Form, M!At
<1>10. M!Works(q) \subseteq M!Existing
  BY <1>1, <1>4 DEF M!Works
<1> QED  BY <1>1, <1>4, <1>5, <1>6, <1>7, <1>9, <1>10, Begins

(* delete: so is the row that is to be deleted. *)
LEMMA DeleteBegins ==
    ASSUME MulticastsInv, NEW r \in Caller, NEW m \in M!Id, M!BeginDelete(r, m)
    PROVE  MulticastsInv'
<1> DEFINE s == M!DeleteFrom(multicasts[m])
           b == M!NewReq("delete", s, m)
           q == WithWas(b, multicasts[m])
<1>1. M!TypeOK /\ m \in M!Target /\ m \in M!Existing /\ multicasts[m] \in M!Row
  BY RequestsTyped, MulticastConstants DEF MulticastsInv, M!BeginDelete, M!MulticastsOfApp
<1>2. s \in ReqStage /\ "delete" \in ReqKind
  BY DEF ReqStage, ReqKind, M!DeleteFrom
<1>3. /\ b \in M!Req /\ b.kind = "delete" /\ b.stage = s /\ b.id = m
      /\ b.todo = {} /\ b.out = {} /\ b.in = {}
  BY <1>1, <1>2, NewRequests
<1>4. /\ q \in M!Req /\ q.kind = "delete" /\ q.stage = s /\ q.id = m
      /\ q.was = multicasts[m] /\ q.todo = {} /\ q.out = {} /\ q.in = {}
  BY <1>1, <1>3, FilledRequest DEF SameButWas
<1>5. M!Begin(r, q) /\ raced' = raced
  BY DEF M!BeginDelete, WithWas
<1> HIDE DEF q, b
<1>6. req'[r] = q /\ M!At(r, "new") /\ raced \subseteq M!Target
  BY <1>1, <1>5, Begun DEF M!TypeOK
<1>7. /\ s \in {"csDelete", "dbDelete"} /\ (s = "csDelete" <=> multicasts[m].devices # {})
  BY DEF M!DeleteFrom
<1> HIDE DEF s
<1>8. multicasts[m].group # r
  BY <1>1, <1>6 DEF MulticastsInv, Referred, Fresh, M!At
<1>9. Form(r)'
  <2>1. ~Storing(r)' /\ Deleting(r)' /\ ~Leaving(r)' /\ ~Wiping(r)' /\ ~Sending(r)' /\ ~Over(r)' /\ ~Posted(r)'
    BY <1>4, <1>6, <1>7, <1>8 DEF Storing, Deleting, Leaving, Wiping, Sending, Over, Posted
  <2> QED  BY <1>1, <1>4, <1>6, <1>7, <2>1 DEF Form, M!At
<1>10. M!Works(q) \subseteq M!Existing
  BY <1>1, <1>4 DEF M!Works
<1> QED  BY <1>1, <1>4, <1>5, <1>6, <1>7, <1>9, <1>10, Begins

(* createDownlink: two at once for one queue are remembered. *)
LEMMA DownlinkBegins ==
    ASSUME MulticastsInv, NEW r \in Caller, NEW t \in M!Target, M!BeginDownlink(r, t)
    PROVE  MulticastsInv'
<1> DEFINE q == M!NewReq("downlink", "flush", t)
<1>1. M!TypeOK /\ "flush" \in ReqStage /\ "downlink" \in ReqKind
  BY DEF MulticastsInv, ReqStage, ReqKind
<1>2. /\ q \in M!Req /\ q.kind = "downlink" /\ q.stage = "flush" /\ q.id = t
      /\ q.was = M!NoRow /\ q.todo = {} /\ q.out = {} /\ q.in = {} /\ M!NoRow.group = None
  BY <1>1, NewRequests
<1>3. /\ M!Begin(r, q)
      /\ raced' = IF \E p \in Caller : M!Busy(p) /\ req[p].kind = "downlink" /\ req[p].id = t
                  THEN raced \cup {t} ELSE raced
  BY DEF M!BeginDownlink
<1> HIDE DEF q
<1>4. req'[r] = q /\ raced \subseteq M!Target
  BY <1>1, <1>3, Begun DEF M!TypeOK
<1>5. Form(r)'
  <2>1. ~Storing(r)' /\ ~Deleting(r)' /\ ~Leaving(r)' /\ ~Wiping(r)' /\ Sending(r)' /\ ~Over(r)' /\ ~Posted(r)'
    BY <1>2, <1>4, MulticastConstants DEF Storing, Deleting, Leaving, Wiping, Sending, Over, Posted
  <2> QED  BY <1>2, <1>4, <2>1 DEF Form, M!At
<1>6. raced \subseteq raced' /\ raced' \subseteq M!Target
  BY <1>3, <1>4
<1>7. \A p \in Caller : M!Busy(p) /\ req[p].kind = "downlink" /\ req[p].id = q.id => q.id \in raced'
  BY <1>2, <1>3
<1> QED  BY <1>2, <1>3, <1>4, <1>5, <1>6, <1>7, Begins

(* A device's deletion reads the multicasts of the device ... *)
LEMMA DeleteDeviceBegins ==
    ASSUME MulticastsInv, NEW r \in Caller, NEW d \in Device, M!BeginDeleteDevice(r, d)
    PROVE  MulticastsInv'
<1> DEFINE td == {<<m, multicasts[m]>> : m \in {n \in M!Existing : d \in multicasts[n].devices}}
           b == M!NewReq("deleteDevice", "trim", d)
           q == WithTodo(b, td)
<1>1. M!TypeOK /\ d \in M!Target
  BY MulticastConstants DEF MulticastsInv
<1>2. "trim" \in ReqStage /\ "deleteDevice" \in ReqKind
  BY DEF ReqStage, ReqKind
<1>3. td \in SUBSET (M!Id \X M!Row) /\ \A x \in td : x[1] \in M!Existing /\ x[2] = multicasts[x[1]]
  BY <1>1, RequestsTyped
<1>4. /\ b \in M!Req /\ b.kind = "deleteDevice" /\ b.stage = "trim" /\ b.id = d
      /\ b.was = M!NoRow /\ b.out = {} /\ b.in = {} /\ M!NoRow.group = None
  BY <1>1, <1>2, NewRequests
<1>5. M!Begin(r, q) /\ raced' = raced
  BY DEF M!BeginDeleteDevice, WithTodo
<1> HIDE DEF b, td
<1>6. /\ q \in M!Req /\ q.kind = "deleteDevice" /\ q.stage = "trim" /\ q.id = d
      /\ q.was = M!NoRow /\ q.todo = td /\ q.out = {} /\ q.in = {}
  BY <1>3, <1>4, FilledRequest DEF SameButTodo
<1> HIDE DEF q
<1>7. req'[r] = q /\ raced \subseteq M!Target
  BY <1>1, <1>5, Begun DEF M!TypeOK
<1>8. Form(r)'
  <2>1. ~Storing(r)' /\ ~Deleting(r)' /\ Leaving(r)' /\ ~Wiping(r)' /\ ~Sending(r)' /\ ~Over(r)' /\ ~Posted(r)'
    BY <1>4, <1>6, <1>7, MulticastConstants DEF Storing, Deleting, Leaving, Wiping, Sending, Over, Posted
  <2> QED  BY <1>4, <1>6, <1>7, <2>1 DEF Form, M!At
<1>9. M!Works(q) \subseteq M!Existing
  BY <1>3, <1>6, MulticastConstants DEF M!Works
<1> QED  BY <1>3, <1>4, <1>5, <1>6, <1>7, <1>8, <1>9, Begins

(* ... and an application's those of the application. *)
LEMMA DeleteAppBegins ==
    ASSUME MulticastsInv, NEW r \in Caller, M!BeginDeleteApp(r)
    PROVE  MulticastsInv'
<1> DEFINE td == {<<m, multicasts[m]>> : m \in M!MulticastsOfApp}
           b == M!NewReq("deleteApp", "wipe", None)
           q == WithTodo(b, td)
<1>1. M!TypeOK
  BY DEF MulticastsInv
<1>2. "wipe" \in ReqStage /\ "deleteApp" \in ReqKind
  BY DEF ReqStage, ReqKind
<1>3. td \in SUBSET (M!Id \X M!Row) /\ \A x \in td : x[1] \in M!Existing /\ x[2] = multicasts[x[1]]
  BY <1>1, RequestsTyped DEF M!MulticastsOfApp
<1>4. /\ b \in M!Req /\ b.kind = "deleteApp" /\ b.stage = "wipe" /\ b.id = None
      /\ b.was = M!NoRow /\ b.out = {} /\ b.in = {} /\ M!NoRow.group = None
  BY <1>2, NewRequests
<1>5. M!Begin(r, q) /\ raced' = raced
  BY DEF M!BeginDeleteApp, WithTodo
<1> HIDE DEF b, td
<1>6. /\ q \in M!Req /\ q.kind = "deleteApp" /\ q.stage = "wipe" /\ q.id = None
      /\ q.was = M!NoRow /\ q.todo = td /\ q.out = {} /\ q.in = {}
  BY <1>3, <1>4, FilledRequest DEF SameButTodo
<1> HIDE DEF q
<1>7. req'[r] = q /\ raced \subseteq M!Target
  BY <1>1, <1>5, Begun DEF M!TypeOK
<1>8. Form(r)'
  <2>1. ~Storing(r)' /\ ~Deleting(r)' /\ ~Leaving(r)' /\ Wiping(r)' /\ ~Sending(r)' /\ ~Over(r)' /\ ~Posted(r)'
    BY <1>4, <1>6, <1>7, MulticastConstants DEF Storing, Deleting, Leaving, Wiping, Sending, Over, Posted
  <2> QED  BY <1>4, <1>6, <1>7, <2>1 DEF Form, M!At
<1>9. M!Works(q) \subseteq M!Existing
  BY <1>3, <1>6, MulticastConstants DEF M!Works
<1> QED  BY <1>3, <1>4, <1>5, <1>6, <1>7, <1>8, <1>9, Begins

-----------------------------------------------------------------------------
(* What moves, is kept: nobody else does anything. *)
LEMMA MovesKept ==
    ASSUME M!TypeOK, NEW r \in Caller, NEW s \in ReqStage, M!Goto(r, s),
           M!Busy(r), s # "new", Fresh(r)' => Fresh(r), Storing(r)' => Storing(r), Deleting(r)' => Deleting(r)
    PROVE  /\ \A p \in Caller : Kept(p)
           /\ \A p \in Caller \ {r} : req'[p] = req[p]
           /\ \A p \in Caller : Posted(p)' <=> Posted(p)
<1>1. \A p \in Caller \ {r} : req'[p] = req[p] /\ Kept(p)
  BY Moves, SameKept
<1>2. /\ req'[r].stage = s /\ req'[r].kind = req[r].kind /\ req'[r].id = req[r].id
      /\ req'[r].devs = req[r].devs /\ req'[r].was = req[r].was
      /\ req'[r].todo = req[r].todo /\ req'[r].out = req[r].out /\ req'[r].in = req[r].in
  BY Moves
<1>3. Kept(r)
  BY <1>2 DEF Kept, M!At
<1>4. \A p \in Caller : Posted(p)' <=> Posted(p)
  BY <1>1, <1>2 DEF Posted
<1> QED  BY <1>1, <1>3, <1>4

(* A request that has only looked goes on. *)
LEMMA Goes ==
    ASSUME MulticastsInv, NEW r \in Caller, NEW s \in {"check", "post", "validate", "put", "save"},
           M!Goto(r, s), UNCHANGED M!stores, M!Quiet, Storing(r), Fresh(r)' => Fresh(r), Form(r)'
    PROVE  MulticastsInv'
<1>1. /\ UNCHANGED <<application, devices, multicasts, groups, adding, queue>>
      /\ UNCHANGED <<contended, hurt, changed, emptied, raced, faults>>
  BY DEF M!stores, M!Quiet, M!history
<1>2. M!Existing' = M!Existing
  BY <1>1 DEF M!Existing
<1>3. M!TypeOK /\ s \in ReqStage
  BY DEF MulticastsInv, ReqStage
<1>4. /\ M!Busy(r) /\ ~Leaving(r)' /\ ~Deleting(r)' /\ ~Sending(r)' /\ Storing(r)'
      /\ ~M!At(r, "dbDelete") /\ ~M!At(r, "dbDelete")' /\ ~M!At(r, "enqueue")'
  <2>1. req'[r].stage = s
    BY <1>3, Moves
  <2> QED  BY <2>1 DEF M!Busy, Storing, Leaving, Deleting, Sending, M!At
<1>5. /\ \A p \in Caller : Kept(p)
      /\ \A p \in Caller \ {r} : req'[p] = req[p]
      /\ \A p \in Caller : Posted(p)' <=> Posted(p)
  BY <1>3, <1>4, MovesKept
<1>6. M!TypeOK'
  <2>1. req' \in [Caller -> M!Req]
    BY <1>3, Moves
  <2> QED  BY <1>1, <1>3, <2>1 DEF M!TypeOK
<1>7. Forms'
  <2>1. ASSUME NEW p \in Caller, p # r PROVE Form(p)'
    <3>1. Form(p) /\ (M!At(p, "commit") => application)
      BY DEF MulticastsInv, Forms, Form
    <3> QED  BY <1>1, <1>5, <2>1, <3>1, FormStays
  <2> QED  BY <2>1 DEF Forms
<1>8. NotYet' /\ OneWorker'
  BY <1>1, <1>5, NotYetStays, OneWorkerStays DEF MulticastsInv
<1>9. Referred'
  BY <1>1, <1>2, <1>5, ReferredStays DEF MulticastsInv
<1>10. Grouped' /\ AppGone' /\ M!OneApplication'
  BY <1>1, <1>2 DEF MulticastsInv, Grouped, AppGone, M!OneApplication
<1>11. RowStays'
  <2>1. \A p \in Caller : Leaving(p)' => Leaving(p) /\ (M!At(p, "trim") => M!At(p, "trim")')
    BY <1>4, <1>5 DEF Leaving, M!At
  <2> QED  BY <1>1, <1>2, <1>5, <2>1, RowStaysStays DEF MulticastsInv
<1>12. GroupThere'
  <2>1. \A p \in Caller : M!At(p, "dbDelete")' <=> M!At(p, "dbDelete")
    BY <1>4, <1>5 DEF M!At
  <2> QED  BY <1>1, <1>2, <1>5, <2>1, GroupThereStays DEF MulticastsInv
<1>13. GroupKnown'
  BY <1>1, <1>2, <1>5, GroupKnownStays DEF MulticastsInv
<1>14. MembersKnown'
  <2>1. \A g \in M!Id : Joined(g)' = Joined(g)
    BY <1>1 DEF Joined
  <2>2. \A m \in M!Existing : multicasts[m].group \in {None} \cup M!Id
    BY <1>3, RequestsTyped
  <2> QED  BY <1>1, <1>2, <1>5, <2>1, <2>2, MembersKnownStays DEF MulticastsInv
<1>15. QueueKnown'
  <2>1. /\ \A p \in Caller : Sending(p)' => Sending(p) /\ req'[p].id = req[p].id
        /\ \A p \in Caller : M!At(p, "enqueue")' => req'[p].id = req[p].id /\ M!At(p, "enqueue")
    BY <1>4, <1>5 DEF Sending, M!At
  <2> QED  BY <1>1, <2>1, QueueKnownStays DEF MulticastsInv
<1> QED  BY <1>6, <1>7, <1>8, <1>9, <1>10, <1>11, <1>12, <1>13, <1>14, <1>15 DEF MulticastsInv

(* The steps that only look at the stores, before the group is posted or put. *)
LEMMA StorePrepares ==
    ASSUME MulticastsInv, NEW r \in Caller,
           M!GetChirpstackMulticast(r) \/ M!CheckForDifferentAppID(r) \/ M!ValidateNewDevicesAppID(r)
           \/ M!PutGroup(r)
    PROVE  MulticastsInv'
<1> DEFINE s == IF M!At(r, "get") THEN "check"
                ELSE IF M!At(r, "check") THEN (IF req[r].was.group = None THEN "post" ELSE "validate")
                ELSE IF M!At(r, "validate") THEN "put" ELSE "save"
<1>1. /\ M!At(r, "get") \/ M!At(r, "check") \/ M!At(r, "validate") \/ M!At(r, "put")
      /\ M!At(r, "check") => M!SameApp(req[r].devs)
      /\ M!Goto(r, s) /\ UNCHANGED M!stores /\ M!Quiet
  <2>1. CASE M!GetChirpstackMulticast(r)
    BY <2>1 DEF M!GetChirpstackMulticast, M!At
  <2>2. CASE M!CheckForDifferentAppID(r)
    BY <2>2 DEF M!CheckForDifferentAppID, M!At
  <2>3. CASE M!ValidateNewDevicesAppID(r)
    BY <2>3 DEF M!ValidateNewDevicesAppID, M!At
  <2>4. CASE M!PutGroup(r)
    BY <2>4 DEF M!PutGroup, M!At
  <2> QED  BY <2>1, <2>2, <2>3, <2>4
<1>2. /\ s \in {"check", "post", "validate", "put", "save"}
      /\ M!At(r, "check") => s \in {"post", "validate"} /\ (s = "post" <=> req[r].was.group = None)
      /\ M!At(r, "get") => s = "check"
      /\ M!At(r, "validate") => s = "put"
      /\ M!At(r, "put") => s = "save"
  BY <1>1 DEF M!At
<1> HIDE DEF s
<1>3. M!TypeOK /\ s \in ReqStage /\ Form(r)
  BY <1>2 DEF MulticastsInv, Forms, ReqStage
<1>4. /\ req'[r].stage = s /\ req'[r].kind = req[r].kind /\ req'[r].id = req[r].id
      /\ req'[r].devs = req[r].devs /\ req'[r].was = req[r].was
      /\ req'[r].todo = req[r].todo /\ req'[r].out = req[r].out /\ req'[r].in = req[r].in
  BY <1>1, <1>3, Moves
<1>5. /\ Storing(r) /\ ~Deleting(r) /\ ~Leaving(r) /\ ~Wiping(r) /\ ~Sending(r) /\ ~Over(r)
      /\ ~M!At(r, "save")
  BY <1>1 DEF Storing, Deleting, Leaving, Wiping, Sending, Over, M!At
<1>6. ~Posted(r)
  BY <1>3, <1>5 DEF Form, M!At
<1>7. M!At(r, "put") => req[r].was.group # None
  BY <1>3 DEF Form, M!At
<1>8. M!At(r, "validate") => req[r].was.group # None
  BY <1>3 DEF Form, M!At
<1>9. /\ Storing(r)' /\ ~Deleting(r)' /\ ~Leaving(r)' /\ ~Wiping(r)' /\ ~Sending(r)' /\ ~Over(r)'
      /\ ~Posted(r)'
  BY <1>2, <1>4, <1>6 DEF Storing, Deleting, Leaving, Wiping, Sending, Over, Posted
<1>10. /\ req[r].kind \in {"create", "update"} /\ req[r].id \in M!Id
       /\ req[r].out = {} /\ req[r].in = {} /\ req[r].todo = {}
       /\ req[r].kind = "create" => req[r].id = r /\ req[r].was.group \in {None, r}
  BY <1>3, <1>5 DEF Form
<1>11. s \in {"validate", "put", "save"} => req[r].was.group # None
  BY <1>1, <1>2, <1>7, <1>8 DEF M!At
<1>12. s = "post" => req[r].was.group = None /\ M!SameApp(req[r].devs)
  BY <1>1, <1>2 DEF M!At
<1>13. Form(r)'
  BY <1>2, <1>4, <1>9, <1>10, <1>11, <1>12 DEF Form, M!At, M!SameApp
<1>14. Fresh(r)' => Fresh(r)
  BY <1>1, <1>2, <1>4 DEF Fresh, M!At
<1> QED  BY <1>1, <1>2, <1>5, <1>13, <1>14, Goes

-----------------------------------------------------------------------------
WithGroup(b, g) == [b EXCEPT !.stage = "save", !.was.group = g]
WithRowOf(w, g) == [w EXCEPT !.group = g]

(* A request gets the id of the group it has created. *)
LEMMA GroupNoted ==
    ASSUME NEW b \in M!Req, NEW g \in M!Id
    PROVE  /\ WithGroup(b, g) \in M!Req /\ WithGroup(b, g).stage = "save"
           /\ WithGroup(b, g).was.group = g
           /\ WithGroup(b, g).kind = b.kind /\ WithGroup(b, g).id = b.id
           /\ WithGroup(b, g).devs = b.devs /\ WithGroup(b, g).todo = b.todo
           /\ WithGroup(b, g).out = b.out /\ WithGroup(b, g).in = b.in
<1>1. \A w \in M!Row : WithRowOf(w, g) \in M!Row /\ WithRowOf(w, g).group = g
  <2> SUFFICES ASSUME NEW w \in M!Row PROVE WithRowOf(w, g) \in M!Row /\ WithRowOf(w, g).group = g
    OBVIOUS
  <2>1. WithRowOf(w, g).group = g
    BY DEF M!Row, WithRowOf
  <2>2. WithRowOf(w, g) \in M!Row
    BY DEF M!Row, WithRowOf
  <2> QED  BY <2>1, <2>2
<1> HIDE DEF M!Row, M!Target, M!Id
<1>2. b.was \in M!Row
  BY DEF M!Req
<1>3. WithGroup(b, g) = [b EXCEPT !.stage = "save", !.was = WithRowOf(b.was, g)]
  BY DEF WithGroup, WithRowOf, M!Req
<1>4. PICK w \in M!Row : w = WithRowOf(b.was, g) /\ w.group = g
  BY <1>1, <1>2
<1>5. [b EXCEPT !.stage = "save", !.was = w] \in M!Req
  BY DEF M!Req
<1>6. [b EXCEPT !.stage = "save", !.was = w].was = w
  BY DEF M!Req
<1>7. /\ WithGroup(b, g).stage = "save"
      /\ WithGroup(b, g).kind = b.kind /\ WithGroup(b, g).id = b.id
      /\ WithGroup(b, g).devs = b.devs /\ WithGroup(b, g).todo = b.todo
      /\ WithGroup(b, g).out = b.out /\ WithGroup(b, g).in = b.in
  BY <1>3 DEF M!Req
<1> QED  BY <1>3, <1>4, <1>5, <1>6, <1>7

(* ChirpStack creates the group: nobody else knows it, and its devices are *)
(* of one application.                                                     *)
LEMMA GroupPosted ==
    ASSUME MulticastsInv, NEW r \in Caller, M!PostGroup(r)
    PROVE  MulticastsInv'
<1>1. PICK d \in req[r].devs : groups' = [groups EXCEPT ![r] = [members |-> {}, app |-> CsAppOf[d]]]
  BY DEF M!PostGroup
<1>2. /\ M!At(r, "post") /\ adding' = adding \cup (req[r].devs \X {r})
      /\ req' = [req EXCEPT ![r].stage = "save", ![r].was.group = r]
      /\ UNCHANGED <<application, devices, multicasts, queue>>
      /\ UNCHANGED <<contended, hurt, changed, emptied, raced, faults>>
  BY DEF M!PostGroup, M!ToAdd, M!Quiet, M!history
<1>3. /\ M!TypeOK /\ Forms /\ NotYet /\ OneWorker /\ Referred /\ Grouped /\ RowStays /\ GroupThere
      /\ GroupKnown /\ AppGone /\ MembersKnown /\ M!OneApplication /\ QueueKnown
  BY DEF MulticastsInv
<1>4. req \in [Caller -> M!Req] /\ groups \in [M!Id -> M!Group \cup {None}] /\ r \in M!Id /\ r # None
      /\ d \in Device /\ req[r].devs \subseteq Device /\ CsAppOf[d] \in M!CsApps
  BY <1>3, RequestsTyped, MulticastConstants DEF M!TypeOK
<1>5. /\ req' \in [Caller -> M!Req] /\ req'[r].stage = "save" /\ req'[r].was.group = r
      /\ req'[r].kind = req[r].kind /\ req'[r].id = req[r].id
      /\ req'[r].devs = req[r].devs /\ req'[r].todo = req[r].todo
      /\ req'[r].out = req[r].out /\ req'[r].in = req[r].in
      /\ \A p \in Caller \ {r} : req'[p] = req[p]
  <2>1. req'[r] = WithGroup(req[r], r) /\ \A p \in Caller \ {r} : req'[p] = req[p]
    BY <1>2, <1>4 DEF WithGroup
  <2>2. req' = [req EXCEPT ![r] = req'[r]]
    BY <1>2, <1>4
  <2>3. req[r] \in M!Req
    BY <1>4
  <2>4. req'[r] \in M!Req
    BY <1>4, <2>1, <2>3, GroupNoted
  <2>5. req' \in [Caller -> M!Req]
    BY <1>4, <2>2, <2>4
  <2> QED  BY <1>4, <2>1, <2>3, <2>5, GroupNoted
<1>6. /\ groups'[r] # None /\ groups'[r].members = {} /\ groups'[r].app = CsAppOf[d]
      /\ \A g \in M!Id \ {r} : groups'[g] = groups[g]
      /\ groups' \in [M!Id -> M!Group \cup {None}]
  <2>1. [members |-> {}, app |-> CsAppOf[d]] \in M!Group
    BY <1>4 DEF M!Group
  <2> QED  BY <1>1, <1>4, <2>1, RowsAreNotNone
<1>7. M!Existing' = M!Existing
  BY <1>2 DEF M!Existing
<1>8. /\ Storing(r) /\ ~Deleting(r) /\ ~Leaving(r) /\ ~Wiping(r) /\ ~Sending(r) /\ ~Over(r) /\ Fresh(r)
      /\ M!Busy(r) /\ ~M!At(r, "save")
  BY <1>2 DEF Storing, Deleting, Leaving, Wiping, Sending, Over, Fresh, M!At, M!Busy
<1>9. /\ Storing(r)' /\ ~Deleting(r)' /\ ~Leaving(r)' /\ ~Wiping(r)' /\ ~Sending(r)' /\ ~Over(r)' /\ ~Fresh(r)'
      /\ M!Busy(r)' /\ Posted(r)' /\ ~M!At(r, "dbDelete")' /\ ~M!At(r, "enqueue")'
  BY <1>5 DEF Storing, Deleting, Leaving, Wiping, Sending, Over, Fresh, M!At, M!Busy, Posted
<1>10. /\ \A m \in M!Existing : multicasts[m].group # r
       /\ \A p \in Caller : req[p].was.group # r
       /\ \A x \in adding : x[2] # r
       /\ groups[r] = None
  BY <1>3, <1>8 DEF Referred
<1>11. Form(r) /\ req[r].was.group = None /\ M!SameApp(req[r].devs)
  BY <1>2, <1>3 DEF Forms, Form
<1>12. M!TypeOK'
  BY <1>2, <1>3, <1>4, <1>5, <1>6 DEF M!TypeOK
<1>13. Forms'
  <2>1. Form(r)'
    BY <1>4, <1>5, <1>8, <1>9, <1>11 DEF Form, M!At
  <2>2. ASSUME NEW p \in Caller, p # r PROVE Form(p)'
    <3>1. Form(p) /\ (M!At(p, "commit") => application)
      BY <1>3 DEF Forms, Form
    <3> QED  BY <1>2, <1>5, <2>2, <3>1, FormStays
  <2> QED  BY <2>1, <2>2 DEF Forms
<1>14. \A p \in Caller : /\ M!Works(req[p])' = M!Works(req[p]) /\ req'[p].kind = req[p].kind
                         /\ (M!Busy(p)' <=> M!Busy(p)) /\ (Unborn(p)' => Unborn(p))
                         /\ (Storing(p)' <=> Storing(p)) /\ (Deleting(p)' <=> Deleting(p))
                         /\ (Leaving(p)' <=> Leaving(p)) /\ req'[p].id = req[p].id
                         /\ (M!At(p, "trim")' <=> M!At(p, "trim")) /\ req'[p].todo = req[p].todo
                         /\ req'[p].out = req[p].out /\ req'[p].in = req[p].in
  <2>1. ASSUME NEW p \in Caller, p # r PROVE M!Works(req[p])' = M!Works(req[p])
    BY <1>5, <2>1 DEF M!Works
  <2>2. M!Works(req[r])' = M!Works(req[r])
    BY <1>5 DEF M!Works
  <2>3. ASSUME NEW p \in Caller
        PROVE  /\ req'[p].kind = req[p].kind
               /\ (M!Busy(p)' <=> M!Busy(p)) /\ (Unborn(p)' => Unborn(p))
               /\ (Storing(p)' <=> Storing(p)) /\ (Deleting(p)' <=> Deleting(p))
               /\ (Leaving(p)' <=> Leaving(p)) /\ req'[p].id = req[p].id
               /\ (M!At(p, "trim")' <=> M!At(p, "trim")) /\ req'[p].todo = req[p].todo
               /\ req'[p].out = req[p].out /\ req'[p].in = req[p].in
    <3>1. CASE p = r
      BY <1>2, <1>5, <1>8, <1>9, <3>1 DEF Unborn, M!At
    <3>2. CASE p # r
      BY <1>5, <3>2 DEF Unborn, M!At, Storing, Deleting, Leaving, M!Busy
    <3> QED  BY <3>1, <3>2
  <2> QED  BY <2>1, <2>2, <2>3
<1>15. NotYet'
  BY <1>2, <1>3, <1>14 DEF NotYet
<1>16. OneWorker'
  BY <1>2, <1>3, <1>14 DEF OneWorker
<1>17. Referred'
  <2>1. ASSUME NEW p \in Caller, Fresh(p)'
        PROVE  /\ \A m \in M!Existing' : multicasts'[m].group # p
               /\ \A q \in Caller : req'[q].was.group # p
               /\ \A x \in adding' : x[2] # p
               /\ groups'[p] = None
    <3>1. p # r /\ Fresh(p)
      BY <1>5, <1>9, <2>1 DEF Fresh
    <3>2. /\ \A m \in M!Existing : multicasts[m].group # p
          /\ \A q \in Caller : req[q].was.group # p
          /\ \A x \in adding : x[2] # p
          /\ groups[p] = None
      BY <1>3, <3>1 DEF Referred
    <3>3. p \in M!Id
      BY MulticastConstants
    <3> QED  BY <1>2, <1>5, <1>6, <1>7, <3>1, <3>2, <3>3
  <2>2. ASSUME NEW p \in Caller, Posted(p)' PROVE \A m \in M!Existing' : multicasts'[m].group # p
    <3>1. CASE p = r
      BY <1>2, <1>7, <1>10, <3>1
    <3>2. CASE p # r
      <4>1. Posted(p)
        BY <1>5, <2>2, <3>2 DEF Posted
      <4> QED  BY <1>2, <1>3, <1>7, <4>1 DEF Referred
    <3> QED  BY <3>1, <3>2
  <2>3. \A m, n \in M!Existing' : multicasts'[m].group = multicasts'[n].group /\ m # n
                                    => multicasts'[m].group = None
    BY <1>2, <1>3, <1>7 DEF Referred
  <2>4. ASSUME NEW p \in Caller, req'[p].was.group # None
        PROVE  /\ \A n \in M!Existing' : multicasts'[n].group = req'[p].was.group => n = req'[p].id
               /\ \A q \in Caller : req'[q].was.group = req'[p].was.group => req'[q].id = req'[p].id
                                                                 /\ (Posted(p)' => q = p)
    <3>1. CASE p = r
      BY <1>2, <1>5, <1>7, <1>10, <3>1
    <3>2. CASE p # r
      <4>1. req'[p] = req[p] /\ req[p].was.group # None /\ req[p].was.group # r
        BY <1>5, <1>10, <2>4, <3>2
      <4>2. /\ \A n \in M!Existing : multicasts[n].group = req[p].was.group => n = req[p].id
            /\ \A q \in Caller : req[q].was.group = req[p].was.group => req[q].id = req[p].id /\ (Posted(p) => q = p)
        BY <1>3, <4>1 DEF Referred
      <4>3. Posted(p)' <=> Posted(p)
        BY <4>1 DEF Posted
      <4> QED  BY <1>2, <1>5, <1>7, <4>1, <4>2, <4>3
    <3> QED  BY <3>1, <3>2
  <2> QED  BY <2>1, <2>2, <2>3, <2>4 DEF Referred
<1>18. Grouped' /\ AppGone'
  BY <1>2, <1>3, <1>7 DEF Grouped, AppGone
<1>19. RowStays'
  <2> SUFFICES ASSUME application', NEW p \in Caller
               PROVE  /\ ((Storing(p)' /\ req'[p].kind = "update") \/ Deleting(p)') /\ req'[p].id \notin contended' =>
                        /\ req'[p].id \in M!Existing'
                        /\ multicasts'[req'[p].id].group = IF Posted(p)' THEN None ELSE req'[p].was.group
                      /\ \A x \in req'[p].todo : Leaving(p)' /\ x[1] \notin contended' =>
                        /\ M!At(p, "trim")' /\ x[1] \in M!Existing'
                        /\ multicasts'[x[1]].devices \subseteq x[2].devices
                        /\ x[2].devices \cap devices' \subseteq multicasts'[x[1]].devices
                      /\ \A x \in req'[p].in : x[1] \in contended'
                      /\ \A x \in req'[p].out : x[1] \in contended' \/ x[2] = req'[p].id
    BY DEF RowStays
  <2>1. /\ ((Storing(p) /\ req[p].kind = "update") \/ Deleting(p)) /\ req[p].id \notin contended =>
             /\ req[p].id \in M!Existing
             /\ multicasts[req[p].id].group = IF Posted(p) THEN None ELSE req[p].was.group
        /\ \A x \in req[p].todo : Leaving(p) /\ x[1] \notin contended =>
             /\ M!At(p, "trim") /\ x[1] \in M!Existing
             /\ multicasts[x[1]].devices \subseteq x[2].devices
             /\ x[2].devices \cap devices \subseteq multicasts[x[1]].devices
        /\ \A x \in req[p].in : x[1] \in contended
        /\ \A x \in req[p].out : x[1] \in contended \/ x[2] = req[p].id
    BY <1>2, <1>3 DEF RowStays
  <2>2. IF p = r THEN Posted(p)' /\ req[p].was.group = None ELSE (Posted(p)' <=> Posted(p)) /\ req'[p].was = req[p].was
    BY <1>5, <1>9, <1>11 DEF Posted
  <2>3. /\ (Storing(p)' <=> Storing(p)) /\ (Deleting(p)' <=> Deleting(p)) /\ (Leaving(p)' <=> Leaving(p))
        /\ req'[p].id = req[p].id /\ req'[p].kind = req[p].kind
        /\ (M!At(p, "trim")' <=> M!At(p, "trim")) /\ req'[p].todo = req[p].todo
        /\ req'[p].out = req[p].out /\ req'[p].in = req[p].in
    BY <1>14
  <2>4. multicasts' = multicasts /\ M!Existing' = M!Existing /\ contended' = contended /\ devices' = devices
    BY <1>2, <1>7
  <2>5. \A x \in req'[p].todo : Leaving(p)' /\ x[1] \notin contended' =>
                        /\ M!At(p, "trim")' /\ x[1] \in M!Existing'
                        /\ multicasts'[x[1]].devices \subseteq x[2].devices
                        /\ x[2].devices \cap devices' \subseteq multicasts'[x[1]].devices
    BY <2>1, <2>3, <2>4
  <2>6. /\ \A x \in req'[p].in : x[1] \in contended'
        /\ \A x \in req'[p].out : x[1] \in contended' \/ x[2] = req'[p].id
    BY <2>1, <2>3, <2>4
  <2>7. ((Storing(p)' /\ req'[p].kind = "update") \/ Deleting(p)') /\ req'[p].id \notin contended' =>
                        /\ req'[p].id \in M!Existing'
                        /\ multicasts'[req'[p].id].group = IF Posted(p)' THEN None ELSE req'[p].was.group
    BY <2>1, <2>2, <2>3, <2>4
  <2> QED  BY <2>5, <2>6, <2>7
<1>20. GroupThere'
  <2>1. \A p \in Caller : M!At(p, "dbDelete") => req'[p] = req[p] /\ p # r
    BY <1>2, <1>5 DEF M!At
  <2>2. \A p \in Caller : M!At(p, "dbDelete")' => req'[p] = req[p]
    BY <1>5, <1>9
  <2>4. ASSUME NEW m \in M!Existing' \ (contended' \cup hurt'), multicasts'[m].group \notin {None} \cup hurt'
        PROVE  \/ groups'[multicasts'[m].group] # None
               \/ \E p \in Caller : M!At(p, "dbDelete")' /\ req'[p].id = m /\ req'[p].was.devices # {}
                                      /\ req'[p].was.group = multicasts'[m].group
    <3>1. \/ groups[multicasts[m].group] # None
          \/ \E p \in Caller : M!At(p, "dbDelete") /\ req[p].id = m /\ req[p].was.devices # {}
                                 /\ req[p].was.group = multicasts[m].group
      BY <1>2, <1>3, <1>7, <2>4 DEF GroupThere
    <3>2. multicasts[m].group \in M!Id
      BY <1>2, <1>3, <1>7, <2>4, RequestsTyped
    <3> QED  BY <1>2, <1>6, <2>1, <3>1, <3>2 DEF M!At
  <2>5. ASSUME NEW p \in Caller, M!At(p, "dbDelete")', req'[p].was.devices # {}
        PROVE  req'[p].was.group # None /\ groups'[req'[p].was.group] = None
    <3>1. req'[p] = req[p]
      BY <2>2, <2>5
    <3>2. req[p].was.group # None /\ groups[req[p].was.group] = None
      BY <1>3, <2>5, <3>1 DEF GroupThere, M!At
    <3>3. req[p].was.group \in M!Id \ {r}
      BY <1>3, <1>10, <3>2, RequestsTyped
    <3> QED  BY <1>6, <3>1, <3>2, <3>3
  <2>6. ASSUME NEW p \in Caller, Posted(p)' PROVE groups'[p] # None \/ ~application'
    <3>1. CASE p = r
      BY <1>6, <3>1
    <3>2. CASE p # r
      <4>1. Posted(p) /\ p \in M!Id
        BY <1>5, <2>6, <3>2, MulticastConstants DEF Posted
      <4> QED  BY <1>2, <1>3, <1>6, <3>2, <4>1 DEF GroupThere
    <3> QED  BY <3>1, <3>2
  <2> QED  BY <2>4, <2>5, <2>6 DEF GroupThere
<1>21. GroupKnown'
  <2> SUFFICES ASSUME contended' = {}, NEW g \in M!Id, groups'[g] # None
               PROVE  \/ \E m \in M!Existing' : multicasts'[m].group = g
                      \/ g \in emptied' \cup hurt'
                      \/ \E p \in Caller : Posted(p)' /\ p = g
    BY DEF GroupKnown
  <2>1. CASE g = r
    BY <1>9, <2>1
  <2>2. CASE g # r
    <3>1. groups[g] # None
      BY <1>6, <2>2
    <3>2. \A p \in Caller : Posted(p) => Posted(p)' \/ p = r
      BY <1>5 DEF Posted
    <3> QED  BY <1>2, <1>3, <1>7, <2>2, <3>1, <3>2 DEF GroupKnown
  <2> QED  BY <2>1, <2>2
<1>22. MembersKnown'
  <2>1. \A g \in M!Id \ {r} : Joined(g)' = Joined(g)
    BY <1>2, <1>6 DEF Joined
  <2>2. Joined(r)' = req[r].devs
    <3>1. Joined(r)' = {x[1] : x \in {y \in adding' : y[2] = r}}
      BY <1>6 DEF Joined
    <3>2. \A x \in adding' : x[2] = r => x[1] \in req[r].devs
      BY <1>2, <1>10
    <3>3. \A e \in req[r].devs : <<e, r>> \in adding' /\ <<e, r>>[1] = e /\ <<e, r>>[2] = r
      BY <1>2
    <3>4. Joined(r)' \subseteq req[r].devs
      BY <3>1, <3>2
    <3>5. req[r].devs \subseteq Joined(r)'
      <4> SUFFICES ASSUME NEW e \in req[r].devs PROVE e \in Joined(r)'
        OBVIOUS
      <4>1. <<e, r>> \in {y \in adding' : y[2] = r} /\ <<e, r>>[1] = e
        BY <3>3
      <4> QED  BY <3>1, <4>1
    <3> QED  BY <3>4, <3>5
  <2>3. ASSUME NEW p \in Caller, Posted(p)', groups'[p] # None
        PROVE  req'[p].devs \cap devices' = Joined(p)' \cap devices'
    <3>1. CASE p = r
      BY <1>5, <2>2, <3>1
    <3>2. CASE p # r
      <4>1. Posted(p) /\ p \in M!Id \ {r} /\ req'[p] = req[p]
        BY <1>5, <2>3, <3>2, MulticastConstants DEF Posted
      <4>2. req[p].devs \cap devices = Joined(p) \cap devices
        BY <1>3, <1>6, <2>3, <4>1 DEF MembersKnown
      <4> QED  BY <1>2, <2>1, <4>1, <4>2
    <3> QED  BY <3>1, <3>2
  <2>4. ASSUME NEW m \in M!Existing' \ (contended' \cup hurt'),
               multicasts'[m].group \notin {None} \cup hurt' \cup changed',
               groups'[multicasts'[m].group] # None
        PROVE  multicasts'[m].devices \cap devices' = Joined(multicasts[m].group)' \cap devices'
    <3>1. PICK g \in M!Id \ {r} : g = multicasts[m].group
      BY <1>2, <1>3, <1>7, <1>10, <2>4, RequestsTyped
    <3>2. Joined(multicasts[m].group)' = Joined(multicasts[m].group)
      <4>1. Joined(multicasts[m].group)' = Joined(g)' /\ Joined(multicasts[m].group) = Joined(g)
        BY <1>2, <3>1 DEF Joined
      <4> QED  BY <2>1, <4>1
    <3>3. groups[g] # None
      BY <1>2, <1>6, <2>4, <3>1
    <3>4. multicasts[m].devices \cap devices = Joined(multicasts[m].group) \cap devices
      BY <1>2, <1>3, <1>7, <2>4, <3>1, <3>3 DEF MembersKnown
    <3> QED  BY <1>2, <3>2, <3>4
  <2> QED  BY <2>3, <2>4 DEF MembersKnown
<1>23. M!OneApplication'
  <2> SUFFICES ASSUME NEW g \in M!Id, groups'[g] # None
               PROVE  /\ \A e \in groups'[g].members : CsAppOf[e] = groups'[g].app
                      /\ \A x \in adding' : x[2] = g => CsAppOf[x[1]] = groups'[g].app
    BY DEF M!OneApplication
  <2>1. CASE g = r
    <3>1. ASSUME NEW x \in adding', x[2] = r PROVE CsAppOf[x[1]] = CsAppOf[d]
      <4>1. x[1] \in req[r].devs
        BY <1>2, <1>10, <3>1
      <4> QED  BY <1>11, <4>1 DEF M!SameApp
    <3> QED  BY <1>6, <2>1, <3>1
  <2>2. CASE g # r
    <3>1. groups'[g] = groups[g]
      BY <1>6, <2>2
    <3> QED  BY <1>2, <1>3, <2>2, <3>1 DEF M!OneApplication
  <2> QED  BY <2>1, <2>2
<1>24. QueueKnown'
  <2>1. /\ \A p \in Caller : Sending(p)' => Sending(p) /\ req'[p].id = req[p].id
        /\ \A p \in Caller : M!At(p, "enqueue")' => req'[p].id = req[p].id /\ M!At(p, "enqueue")
    BY <1>5, <1>9 DEF Sending, M!At
  <2> QED  BY <1>2, <1>3, <2>1, QueueKnownStays
<1> QED  BY <1>12, <1>13, <1>15, <1>16, <1>17, <1>18, <1>19, <1>20, <1>21, <1>22, <1>23, <1>24 DEF MulticastsInv

-----------------------------------------------------------------------------
(* Who is answered, has ended; nobody else does anything. *)
LEMMA AnswerEnds ==
    ASSUME M!TypeOK, NEW r \in Caller, NEW s \in {"done", "failed"}, M!Answer(r, s)
    PROVE  /\ Ended(r) /\ req' \in [Caller -> M!Req]
           /\ \A p \in Caller \ {r} : req'[p] = req[p]
           /\ \A p \in Caller : Kept(p) \/ Ended(p)
           /\ \A p \in Caller : Posted(p)' <=> (Posted(p) /\ p # r)
           /\ \A p \in Caller : M!Busy(p)' => p # r /\ M!Busy(p)
           /\ \A p \in Caller : Sending(p)' => p # r /\ Sending(p)
           /\ \A p \in Caller : Leaving(p)' => p # r
           /\ \A p \in Caller : M!At(p, "dbDelete")' <=> M!At(p, "dbDelete") /\ p # r
           /\ \A p \in Caller : M!At(p, "enqueue")' <=> M!At(p, "enqueue") /\ p # r
<1>1. Ended(r) /\ req' \in [Caller -> M!Req] /\ \A p \in Caller \ {r} : req'[p] = req[p]
  BY Answers DEF Ended
<1>2. \A p \in Caller \ {r} : Kept(p)
  BY <1>1, SameKept
<1>3. \A p \in Caller \ {r} : /\ Posted(p)' <=> Posted(p)
                              /\ M!Busy(p)' <=> M!Busy(p)
                              /\ Sending(p)' <=> Sending(p)
                              /\ M!At(p, "dbDelete")' <=> M!At(p, "dbDelete")
                              /\ M!At(p, "enqueue")' <=> M!At(p, "enqueue")
  BY <1>1 DEF Posted, M!Busy, Sending, M!At
<1>4. ~Posted(r)' /\ ~M!Busy(r)' /\ ~Sending(r)' /\ ~Leaving(r)' /\ ~M!At(r, "dbDelete")' /\ ~M!At(r, "enqueue")'
  BY <1>1, MulticastConstants DEF Ended, Posted, M!Busy, Sending, Leaving, M!At
<1> QED  BY <1>1, <1>2, <1>3, <1>4

(* The requests after an answer, if the application is there as before.    *)
LEMMA AnswerForms ==
    ASSUME M!TypeOK, Forms, NEW r \in Caller, NEW s \in {"done", "failed"}, M!Answer(r, s),
           devices' \subseteq devices, (\E p \in Caller \ {r} : M!At(p, "commit")) => application'
    PROVE  Forms'
<1>1. ASSUME NEW p \in Caller PROVE Form(p)'
  <2>1. CASE p = r
    BY <2>1, AnswerEnds, EndedForm
  <2>2. CASE p # r
    <3>1. req'[p] = req[p]
      BY <2>2, AnswerEnds
    <3> QED  BY <2>2, <3>1, FormStays DEF Forms
  <2> QED  BY <2>1, <2>2
<1> QED  BY <1>1 DEF Forms

(* No other request at work knows the multicast, or it is contended. *)
LEMMA WorksAlone ==
    ASSUME M!TypeOK, OneWorker, NEW r \in Caller, M!Busy(r), NEW p \in Caller \ {r}, M!Busy(p)
    PROVE  \A m \in M!Works(req[p]) \ contended : m \notin M!Works(req[r])
  BY DEF OneWorker

(* The row is saved with the group the request has created or found.       *)
LEMMA RowSaved ==
    ASSUME MulticastsInv, NEW r \in Caller, M!SaveRow(r)
    PROVE  MulticastsInv'
<1> DEFINE m == req[r].id
           g == req[r].was.group
<1>1. /\ M!At(r, "save") /\ application /\ req[r].devs \subseteq devices
      /\ multicasts' = [multicasts EXCEPT ![m] = M!RowToSave(r)]
      /\ M!Answer(r, "done")
      /\ UNCHANGED <<application, devices, groups, adding, queue>>
      /\ UNCHANGED <<contended, hurt, emptied, raced, faults>>
      /\ changed' = IF req[r].kind = "update" /\ multicasts[m] # None
                         /\ multicasts[m].devices # req[r].devs /\ g # r
                    THEN changed \cup ({g} \cap M!Id) ELSE changed
  BY DEF M!SaveRow
<1>2. /\ M!TypeOK /\ Forms /\ NotYet /\ OneWorker /\ Referred /\ Grouped /\ RowStays /\ GroupThere
      /\ GroupKnown /\ AppGone /\ MembersKnown /\ M!OneApplication /\ QueueKnown
  BY DEF MulticastsInv
<1>3. /\ Ended(r) /\ req' \in [Caller -> M!Req]
      /\ \A p \in Caller \ {r} : req'[p] = req[p]
      /\ \A p \in Caller : Kept(p) \/ Ended(p)
      /\ \A p \in Caller : Posted(p)' <=> (Posted(p) /\ p # r)
      /\ \A p \in Caller : M!Busy(p)' => p # r /\ M!Busy(p)
      /\ \A p \in Caller : Sending(p)' => p # r /\ Sending(p)
      /\ \A p \in Caller : Leaving(p)' => p # r
      /\ \A p \in Caller : M!At(p, "dbDelete")' <=> M!At(p, "dbDelete") /\ p # r
      /\ \A p \in Caller : M!At(p, "enqueue")' <=> M!At(p, "enqueue") /\ p # r
  BY <1>1, <1>2, AnswerEnds
<1>4. /\ Storing(r) /\ req[r].kind \in {"create", "update"} /\ m \in M!Id /\ M!Busy(r)
      /\ req[r].kind = "create" => m = r /\ g \in {None, r}
      /\ req[r].devs = {} \/ g # None
      /\ ~M!At(r, "dbDelete")
  <2>1. Storing(r) /\ M!Busy(r) /\ ~Deleting(r) /\ ~Leaving(r) /\ ~Sending(r) /\ ~Wiping(r) /\ ~Over(r)
        /\ ~M!At(r, "dbDelete")
    BY <1>1 DEF Storing, M!Busy, M!At, Deleting, Leaving, Sending, Wiping, Over
  <2>2. Form(r)
    BY <1>2 DEF Forms
  <2> QED  BY <1>1, <2>1, <2>2 DEF Form
<1>5. /\ M!RowToSave(r) \in M!Row /\ M!RowToSave(r) # None
      /\ M!RowToSave(r).devices = req[r].devs /\ M!RowToSave(r).group = g
      /\ M!RowToSave(r).app = TRUE
  <2>1. req[r].devs \subseteq Device /\ g \in M!Id \cup {None}
    BY <1>2, RequestsTyped
  <2>2. M!RowToSave(r) \in M!Row
    BY <2>1 DEF M!RowToSave, M!Row
  <2>3. M!RowToSave(r) # None
    BY <2>2, RowsAreNotNone
  <2> QED  BY <2>2, <2>3 DEF M!RowToSave
<1>6. /\ multicasts'[m] = M!RowToSave(r) /\ \A n \in M!Id \ {m} : multicasts'[n] = multicasts[n]
      /\ multicasts' \in [M!Id -> M!Row \cup {None}]
      /\ M!Existing' = M!Existing \cup {m}
  <2>1. multicasts \in [M!Id -> M!Row \cup {None}]
    BY <1>2 DEF M!TypeOK
  <2>2. /\ multicasts'[m] = M!RowToSave(r) /\ \A n \in M!Id \ {m} : multicasts'[n] = multicasts[n]
        /\ multicasts' \in [M!Id -> M!Row \cup {None}]
    BY <1>1, <1>4, <1>5, <2>1
  <2> QED  BY <1>4, <1>5, <2>2 DEF M!Existing
<1> HIDE DEF m
<1>7. /\ multicasts'[m].devices = req[r].devs /\ multicasts'[m].group = g /\ multicasts'[m].app
      /\ M!Existing \subseteq M!Id /\ m \in M!Works(req[r])
      /\ \A n \in M!Existing' : n = m \/ (n \in M!Existing /\ multicasts'[n] = multicasts[n])
  BY <1>4, <1>5, <1>6 DEF M!Existing, M!Works, m
<1>8. m \notin contended => \/ req[r].kind = "create" /\ m \notin M!Existing
                            \/ m \in M!Existing /\ multicasts[m].group = IF Posted(r) THEN None ELSE g
  <2>1. CASE req[r].kind = "create"
    <3>1. Unborn(r)
      BY <1>4, <2>1 DEF Unborn
    <3> QED  BY <1>2, <1>4, <2>1, <3>1 DEF NotYet, M!Existing
  <2>2. CASE req[r].kind = "update"
    BY <1>1, <1>2, <1>4, <2>2 DEF RowStays, m
  <2> QED  BY <1>4, <2>1, <2>2
<1>9. M!TypeOK'
  <2>1. changed' \subseteq M!Id
    BY <1>1, <1>2 DEF M!TypeOK
  <2> QED  BY <1>1, <1>2, <1>3, <1>6, <2>1 DEF M!TypeOK
<1>10. Forms'
  <2>1. devices' \subseteq devices /\ application'
    BY <1>1
  <2> QED  BY <1>1, <1>2, <2>1, AnswerForms
<1>11. NotYet'
  <2>1. ASSUME NEW p \in Caller, Unborn(p), multicasts[p] = None, p # r PROVE multicasts'[p] = None
    <3>1. p \notin M!Works(req[r])
      BY <1>2, <1>4, <2>1 DEF NotYet
    <3>2. p \in M!Id /\ p # m
      BY <1>7, <3>1, MulticastConstants
    <3> QED  BY <1>6, <2>1, <3>2
  <2>2. ASSUME NEW p \in Caller, Unborn(p)'
        PROVE  /\ multicasts'[p] = None
               /\ \A q \in Caller \ {p} : req'[q].kind # "downlink" => p \notin M!Works(req[q])'
    <3>1. p # r /\ req'[p] = req[p]
      BY <1>3, <2>2, WorksKept
    <3>2. Unborn(p)
      BY <2>2, <3>1 DEF Unborn, Storing, M!At
    <3>3. multicasts'[p] = None
      BY <1>2, <2>1, <3>1, <3>2 DEF NotYet
    <3>4. ASSUME NEW q \in Caller \ {p}, req'[q].kind # "downlink" PROVE p \notin M!Works(req[q])'
      <4>1. CASE q = r
        BY <1>3, <4>1, WorksKept
      <4>2. CASE q # r
        <5>1. M!Works(req[q])' = M!Works(req[q]) /\ req'[q].kind = req[q].kind
          BY <1>3, <4>2 DEF M!Works
        <5> QED  BY <1>2, <3>2, <3>4, <5>1 DEF NotYet
      <4> QED  BY <4>1, <4>2
    <3> QED  BY <3>3, <3>4
  <2> QED  BY <2>2 DEF NotYet
<1>12. OneWorker'
  BY <1>1, <1>2, <1>3, OneWorkerStays
<1>13. Referred'
  <2>1. ASSUME NEW p \in Caller, Fresh(p)'
        PROVE  /\ \A n \in M!Existing' : multicasts'[n].group # p
               /\ \A q \in Caller : req'[q].was.group # p
               /\ \A x \in adding' : x[2] # p
               /\ groups'[p] = None
    <3>1. p # r /\ req'[p] = req[p]
      BY <1>3, <2>1, WorksKept
    <3>2. Fresh(p)
      BY <2>1, <3>1 DEF Fresh
    <3>3. /\ \A n \in M!Existing : multicasts[n].group # p
          /\ \A q \in Caller : req[q].was.group # p
          /\ \A x \in adding : x[2] # p
          /\ groups[p] = None
      BY <1>2, <3>2 DEF Referred
    <3>4. \A q \in Caller : req'[q].was.group # p
      BY <1>3, <3>3, MulticastConstants DEF Ended
    <3> QED  BY <1>1, <1>7, <3>3, <3>4
  <2>2. ASSUME NEW p \in Caller, Posted(p)', NEW n \in M!Existing' PROVE multicasts'[n].group # p
    <3>1. Posted(p) /\ p # r
      BY <1>3, <2>2
    <3>2. CASE n = m
      <4>1. g # p
        BY <1>2, <3>1, MulticastConstants DEF Referred, Posted
      <4> QED  BY <1>7, <3>2, <4>1
    <3>3. CASE n # m
      BY <1>2, <1>7, <3>1, <3>3 DEF Referred
    <3> QED  BY <3>2, <3>3
  <2>3. \A n \in M!Existing : g # None /\ multicasts[n].group = g => n = m
    BY <1>2 DEF Referred, m
  <2>4. ASSUME NEW n \in M!Existing', NEW o \in M!Existing', multicasts'[n].group = multicasts'[o].group, n # o
        PROVE  multicasts'[n].group = None
    <3>1. CASE n = m
      <4>1. o \in M!Existing /\ multicasts'[o] = multicasts[o]
        BY <1>7, <2>4, <3>1
      <4> QED  BY <1>7, <2>3, <2>4, <3>1, <4>1
    <3>2. CASE o = m
      <4>1. n \in M!Existing /\ multicasts'[n] = multicasts[n]
        BY <1>7, <2>4, <3>2
      <4> QED  BY <1>7, <2>3, <2>4, <3>2, <4>1
    <3>3. CASE n # m /\ o # m
      BY <1>2, <1>7, <2>4, <3>3 DEF Referred
    <3> QED  BY <3>1, <3>2, <3>3
  <2>5. ASSUME NEW p \in Caller, req'[p].was.group # None
        PROVE  /\ \A n \in M!Existing' : multicasts'[n].group = req'[p].was.group => n = req'[p].id
               /\ \A q \in Caller : req'[q].was.group = req'[p].was.group => req'[q].id = req'[p].id
                                                                 /\ (Posted(p)' => q = p)
    <3>1. p # r /\ req'[p] = req[p] /\ req[p].was.group # None
      BY <1>3, <2>5 DEF Ended
    <3>2. /\ \A n \in M!Existing : multicasts[n].group = req[p].was.group => n = req[p].id
          /\ \A q \in Caller : req[q].was.group = req[p].was.group => req[q].id = req[p].id /\ (Posted(p) => q = p)
      BY <1>2, <3>1 DEF Referred
    <3>3. g = req[p].was.group => m = req[p].id
      BY <3>2 DEF m
    <3>4. \A n \in M!Existing' : multicasts'[n].group = req'[p].was.group => n = req'[p].id
      BY <1>7, <3>1, <3>2, <3>3
    <3>5. ASSUME NEW q \in Caller, req'[q].was.group = req'[p].was.group
          PROVE  req'[q].id = req'[p].id /\ (Posted(p)' => q = p)
      <4>1. q # r /\ req'[q] = req[q]
        BY <1>3, <3>1, <3>5 DEF Ended
      <4> QED  BY <1>3, <3>1, <3>2, <3>5, <4>1
    <3> QED  BY <3>4, <3>5
  <2> QED  BY <2>1, <2>2, <2>4, <2>5 DEF Referred
<1>14. Grouped'
  <2> SUFFICES ASSUME NEW n \in M!Existing'
               PROVE  /\ ~multicasts'[n].app => multicasts'[n].group = None
                      /\ n \notin contended' /\ multicasts'[n].devices # {} => multicasts'[n].group # None
    BY DEF Grouped
  <2>1. CASE n = m
    BY <1>4, <1>7, <2>1
  <2>2. CASE n # m
    BY <1>1, <1>2, <1>7, <2>2 DEF Grouped
  <2> QED  BY <2>1, <2>2
<1>15. RowStays'
  <2>1. ASSUME NEW p \in Caller, M!Busy(p)', NEW n \in M!Works(req[p]) \ contended', n \in M!Existing
        PROVE  n \in M!Existing' /\ multicasts'[n] = multicasts[n]
    <3>1. p # r /\ M!Busy(p)
      BY <1>3, <2>1
    <3>2. n # m
      BY <1>1, <1>2, <1>4, <1>7, <2>1, <3>1, WorksAlone
    <3> QED  BY <1>6, <1>7, <2>1, <3>2
  <2>2. \A p \in Caller : Leaving(p)' => Leaving(p) /\ (M!At(p, "trim") => M!At(p, "trim")')
    BY <1>3 DEF Leaving, M!At
  <2> QED  BY <1>1, <1>2, <1>3, <2>1, <2>2, RowStaysStays
<1>16. GroupThere'
  <2>1. ASSUME NEW n \in M!Existing' \ (contended' \cup hurt')
        PROVE  \/ multicasts'[n].group \in {None} \cup hurt'
               \/ groups'[multicasts'[n].group] # None
               \/ n \in M!Existing /\ multicasts'[n].group = multicasts[n].group
                  /\ (groups[multicasts[n].group] # None => groups'[multicasts[n].group] # None)
    <3>1. CASE n = m /\ Posted(r)
      BY <1>1, <1>2, <1>7, <3>1 DEF GroupThere, Posted
    <3>2. CASE n = m /\ ~Posted(r)
      BY <1>1, <1>4, <1>7, <1>8, <2>1, <3>2, MulticastConstants DEF Posted
    <3>3. CASE n # m
      BY <1>1, <1>7, <2>1, <3>3
    <3> QED  BY <3>1, <3>2, <3>3
  <2>2. \A p \in Caller : M!At(p, "dbDelete") => M!At(p, "dbDelete")' /\ Kept(p)
    BY <1>3, <1>4, SameKept
  <2> QED  BY <1>1, <1>2, <1>3, <2>1, <2>2, GroupThereStays
<1>17. GroupKnown'
  <2>1. ASSUME contended' = {}, NEW n \in M!Existing
        PROVE  multicasts[n].group = None \/ (n \in M!Existing' /\ multicasts'[n].group = multicasts[n].group)
    <3>1. CASE n = m
      BY <1>1, <1>6, <1>7, <1>8, <2>1, <3>1
    <3>2. CASE n # m
      BY <1>6, <1>7, <2>1, <3>2
    <3> QED  BY <3>1, <3>2
  <2>2. Posted(r) => m \in M!Existing' /\ multicasts'[m].group = r
    BY <1>6, <1>7 DEF Posted
  <2> QED  BY <1>1, <1>2, <1>3, <2>1, <2>2, GroupKnownStays
<1>18. AppGone' /\ M!OneApplication'
  BY <1>1, <1>2 DEF AppGone, M!OneApplication
<1>19. MembersKnown'
  <2>1. \A h \in M!Id : Joined(h)' = Joined(h)
    BY <1>1 DEF Joined
  <2>2. ASSUME NEW n \in M!Existing' \ (contended' \cup hurt')
        PROVE  \/ multicasts'[n].group \in {None} \cup hurt' \cup changed'
               \/ multicasts'[n].devices \cap devices' = Joined(multicasts[n].group)' \cap devices'
               \/ /\ n \in M!Existing /\ multicasts'[n].group = multicasts[n].group
                  /\ multicasts'[n].group \in M!Id
                  /\ multicasts'[n].devices \cap devices' = multicasts[n].devices \cap devices'
    <3>1. CASE n = m /\ Posted(r)
      <4>1. groups[r] # None /\ r \in M!Id /\ g = r
        BY <1>1, <1>2, <3>1, MulticastConstants DEF GroupThere, Posted
      <4>2. req[r].devs \cap devices = Joined(r) \cap devices
        BY <1>2, <3>1, <4>1 DEF MembersKnown
      <4>3. Joined(multicasts[n].group)' = Joined(r)'
        BY <1>7, <3>1, <4>1 DEF Joined
      <4> QED  BY <1>1, <1>7, <2>1, <3>1, <4>1, <4>2, <4>3
    <3>2. CASE n = m /\ ~Posted(r)
      <4>1. req[r].kind = "create" => g = None
        BY <1>4, <3>2 DEF Posted
      <4>2. CASE req[r].kind = "create"
        BY <1>7, <3>2, <4>1, <4>2
      <4>3. CASE req[r].kind = "update"
        <5>1. m \in M!Existing /\ multicasts[m].group = g /\ multicasts[m] # None /\ g \in M!Id \cup {None}
          BY <1>1, <1>2, <1>4, <1>8, <2>2, <3>2, <4>3, RequestsTyped
        <5>2. CASE multicasts[m].devices = req[r].devs
          BY <1>1, <1>7, <3>2, <5>1, <5>2
        <5>3. CASE multicasts[m].devices # req[r].devs
          BY <1>1, <1>7, <3>2, <4>3, <5>1, <5>3 DEF Posted, m
        <5> QED  BY <5>2, <5>3
      <4> QED  BY <1>4, <4>2, <4>3
    <3>3. CASE n # m
      <4>1. n \in M!Existing /\ multicasts'[n] = multicasts[n] /\ multicasts[n].group \in M!Id \cup {None}
        BY <1>2, <1>7, <2>2, <3>3, RequestsTyped
      <4> QED  BY <1>1, <4>1
    <3> QED  BY <3>1, <3>2, <3>3
  <2>3. changed \subseteq changed'
    BY <1>1
  <2> QED  BY <1>1, <1>2, <1>3, <2>1, <2>2, <2>3, MembersKnownStays
<1>20. QueueKnown'
  BY <1>1, <1>2, <1>3, QueueKnownStays
<1> QED  BY <1>9, <1>10, <1>11, <1>12, <1>13, <1>14, <1>15, <1>16, <1>17, <1>18, <1>19, <1>20 DEF MulticastsInv

-----------------------------------------------------------------------------
WithMembers(w, ds) == [w EXCEPT !.members = ds]

(* A group gets other members. *)
LEMMA MembersChanged ==
    ASSUME NEW w \in M!Group, NEW ds \in SUBSET Device
    PROVE  /\ WithMembers(w, ds) \in M!Group /\ WithMembers(w, ds) # None
           /\ WithMembers(w, ds).members = ds /\ WithMembers(w, ds).app = w.app
<1>1. WithMembers(w, ds) \in M!Group
  BY DEF WithMembers, M!Group
<1>2. WithMembers(w, ds).members = ds /\ WithMembers(w, ds).app = w.app
  BY DEF WithMembers, M!Group
<1> QED  BY <1>1, <1>2, RowsAreNotNone

(* Nobody does anything: what holds of the requests alone, stays. *)
LEMMA RequestsStay ==
    ASSUME req' = req
    PROVE  \A p \in Caller : /\ Kept(p) /\ (Posted(p)' <=> Posted(p)) /\ (Sending(p)' <=> Sending(p))
                             /\ (Leaving(p)' <=> Leaving(p)) /\ (Unborn(p)' <=> Unborn(p))
                             /\ \A s \in ReqStage : M!At(p, s)' <=> M!At(p, s)
<1>1. \A p \in Caller : Kept(p)
  BY SameKept
<1> QED  BY <1>1 DEF Posted, Sending, Leaving, Unborn, Storing, M!At

(* A device arrives in its group, as it was to. *)
LEMMA DeviceAdded ==
    ASSUME MulticastsInv, NEW d \in Device, NEW g \in M!Id, M!AddDevice(d, g), d \in devices, groups[g] # None
    PROVE  MulticastsInv'
<1>1. /\ <<d, g>> \in adding
      /\ groups' = [groups EXCEPT ![g].members = @ \cup {d}]
      /\ adding' = adding \ {<<d, g>>}
      /\ UNCHANGED <<application, devices, multicasts, queue>> /\ req' = req
      /\ UNCHANGED <<contended, hurt, changed, emptied, raced>> /\ faults' = faults
  BY DEF M!AddDevice, M!history
<1>2. /\ M!TypeOK /\ Forms /\ NotYet /\ OneWorker /\ Referred /\ Grouped /\ RowStays /\ GroupThere
      /\ GroupKnown /\ AppGone /\ MembersKnown /\ M!OneApplication /\ QueueKnown
  BY DEF MulticastsInv
<1>3. groups \in [M!Id -> M!Group \cup {None}] /\ groups[g] \in M!Group
      /\ groups[g].members \cup {d} \subseteq Device
  BY <1>2 DEF M!TypeOK, M!Group
<1>4. groups' = [groups EXCEPT ![g] = WithMembers(groups[g], groups[g].members \cup {d})]
  BY <1>1, <1>3 DEF WithMembers
<1>5. /\ groups' \in [M!Id -> M!Group \cup {None}]
      /\ \A h \in M!Id : /\ groups'[h] = None <=> groups[h] = None
                         /\ groups[h] # None => groups'[h].app = groups[h].app
                         /\ groups'[h] = groups[h] \/ (h = g /\ groups'[h].members = groups[h].members \cup {d})
  BY <1>3, <1>4, MembersChanged
<1>6. \A h \in M!Id : groups[h] # None => Joined(h)' = Joined(h) /\ groups'[h].members \subseteq Joined(h)
  <2> SUFFICES ASSUME NEW h \in M!Id, groups[h] # None
               PROVE  Joined(h)' = Joined(h) /\ groups'[h].members \subseteq Joined(h)
    OBVIOUS
  <2>1. CASE h # g
    <3>1. {y \in adding' : y[2] = h} = {y \in adding : y[2] = h}
      BY <1>1, <2>1
    <3>2. groups'[h] = groups[h]
      BY <1>5, <2>1
    <3> QED  BY <3>1, <3>2 DEF Joined
  <2>2. CASE h = g
    <3>1. groups'[g].members = groups[g].members \cup {d}
      BY <1>3, <1>4, MembersChanged
    <3>2. <<d, g>>[1] = d /\ <<d, g>>[2] = g
      OBVIOUS
    <3>3. {x[1] : x \in {y \in adding : y[2] = g}} \subseteq {d} \cup {x[1] : x \in {y \in adding' : y[2] = g}}
      BY <1>1, <3>2
    <3>4. d \in {x[1] : x \in {y \in adding : y[2] = g}}
      BY <1>1, <3>2
    <3>5. {x[1] : x \in {y \in adding' : y[2] = g}} \subseteq {x[1] : x \in {y \in adding : y[2] = g}}
      BY <1>1
    <3> QED  BY <2>2, <3>1, <3>3, <3>4, <3>5 DEF Joined
  <2> QED  BY <2>1, <2>2
<1>7. M!Existing' = M!Existing
  BY <1>1 DEF M!Existing
<1>8. \A m \in M!Existing : multicasts[m].group \in M!Id \cup {None}
  BY <1>2, RequestsTyped
<1>9. \A p \in Caller : p \in M!Id /\ req[p].was.group \in M!Id \cup {None}
  BY <1>2, RequestsTyped, MulticastConstants
<1>10. "dbDelete" \in ReqStage /\ "enqueue" \in ReqStage /\ "trim" \in ReqStage
  BY DEF ReqStage
<1>11. M!TypeOK'
  BY <1>1, <1>2, <1>5 DEF M!TypeOK
<1>12. Forms'
  <2>1. ASSUME NEW p \in Caller PROVE Form(p)'
    <3>1. Form(p) /\ (M!At(p, "commit") => application)
      BY <1>2 DEF Forms, Form
    <3> QED  BY <1>1, <3>1, FormStays
  <2> QED  BY <2>1 DEF Forms
<1>13. NotYet' /\ OneWorker'
  BY <1>1, <1>2, RequestsStay, NotYetStays, OneWorkerStays
<1>14. Referred'
  BY <1>1, <1>2, <1>5, <1>7, <1>9, RequestsStay, ReferredStays
<1>15. Grouped' /\ AppGone'
  BY <1>1, <1>2, <1>7 DEF Grouped, AppGone
<1>16. RowStays'
  BY <1>1, <1>2, <1>7, <1>10, RequestsStay, RowStaysStays
<1>17. GroupThere'
  <2>1. \A p \in Caller : M!At(p, "dbDelete") /\ req[p].was.devices # {} => req[p].was.group # None
    BY <1>2 DEF GroupThere
  <2>2. ASSUME NEW p \in Caller, M!At(p, "dbDelete")', req'[p].was.devices # {}
        PROVE  req'[p].was.group # None /\ groups'[req'[p].was.group] = None
    BY <1>1, <1>2, <1>5, <1>9, <2>1, <2>2 DEF GroupThere, M!At
  <2>3. ASSUME NEW m \in M!Existing' \ (contended' \cup hurt'), multicasts'[m].group \notin {None} \cup hurt'
        PROVE  \/ groups'[multicasts'[m].group] # None
               \/ \E p \in Caller : M!At(p, "dbDelete")' /\ req'[p].id = m /\ req'[p].was.devices # {}
                                      /\ req'[p].was.group = multicasts'[m].group
    <3>1. multicasts[m].group \in M!Id
      BY <1>1, <1>7, <1>8, <2>3
    <3>2. \/ groups[multicasts[m].group] # None
          \/ \E p \in Caller : M!At(p, "dbDelete") /\ req[p].id = m /\ req[p].was.devices # {}
                                 /\ req[p].was.group = multicasts[m].group
      BY <1>1, <1>2, <1>7, <2>3 DEF GroupThere
    <3> QED  BY <1>1, <1>5, <3>1, <3>2 DEF M!At
  <2>4. \A p \in Caller : Posted(p)' => groups'[p] # None \/ ~application'
    BY <1>1, <1>2, <1>5, <1>9, RequestsStay DEF GroupThere
  <2> QED  BY <2>2, <2>3, <2>4 DEF GroupThere
<1>18. GroupKnown'
  BY <1>1, <1>2, <1>5, <1>7, RequestsStay, GroupKnownStays
<1>19. MembersKnown'
  BY <1>1, <1>2, <1>5, <1>6, <1>7, <1>8, RequestsStay, MembersKnownStays
<1>20. M!OneApplication'
  BY <1>1, <1>2, <1>5, <1>6, OneApplicationStays
<1>21. QueueKnown'
  BY <1>1, <1>2, <1>10, RequestsStay, QueueKnownStays
<1> QED  BY <1>11, <1>12, <1>13, <1>14, <1>15, <1>16, <1>17, <1>18, <1>19, <1>20, <1>21 DEF MulticastsInv

(* The group of a multicast that is to be deleted is deleted: no other     *)
(* multicast has it.                                                       *)
LEMMA GroupDeleted ==
    ASSUME MulticastsInv, NEW r \in Caller, M!DeleteGroup(r)
    PROVE  MulticastsInv'
<1> DEFINE g == req[r].was.group
<1>1. /\ M!At(r, "csDelete") /\ req[r].kind = "delete" /\ g # None
      /\ groups' = [groups EXCEPT ![g] = None] /\ queue' = [queue EXCEPT ![g] = {}]
      /\ M!Goto(r, "dbDelete")
      /\ UNCHANGED <<application, devices, multicasts, adding>>
      /\ UNCHANGED <<contended, hurt, changed, emptied, raced>> /\ faults' = faults
  BY DEF M!DeleteGroup, M!Quiet, M!history
<1>2. /\ M!TypeOK /\ Forms /\ NotYet /\ OneWorker /\ Referred /\ Grouped /\ RowStays /\ GroupThere
      /\ GroupKnown /\ AppGone /\ MembersKnown /\ M!OneApplication /\ QueueKnown
  BY DEF MulticastsInv
<1>3. "dbDelete" \in ReqStage /\ g \in M!Id /\ g \in M!Target /\ r \in M!Id
  BY <1>1, <1>2, RequestsTyped, MulticastConstants DEF ReqStage
<1>4. /\ groups' \in [M!Id -> M!Group \cup {None}] /\ queue' \in [M!Target -> SUBSET Caller]
      /\ groups'[g] = None /\ \A h \in M!Id \ {g} : groups'[h] = groups[h]
      /\ \A t \in M!Target : queue'[t] \subseteq queue[t]
  BY <1>1, <1>2, <1>3 DEF M!TypeOK
<1>5. /\ Deleting(r) /\ M!Busy(r) /\ ~Storing(r) /\ ~Leaving(r) /\ ~Wiping(r) /\ ~Sending(r) /\ ~Over(r)
      /\ ~M!At(r, "dbDelete") /\ ~Posted(r) /\ req[r].was.devices # {} /\ req[r].id \in M!Id
      /\ req[r].out = {} /\ req[r].in = {} /\ req[r].todo = {}
  <2>1. Deleting(r) /\ M!Busy(r) /\ ~Storing(r) /\ ~Leaving(r) /\ ~Wiping(r) /\ ~Sending(r) /\ ~Over(r)
        /\ ~M!At(r, "dbDelete") /\ ~M!At(r, "save")
    BY <1>1 DEF Deleting, M!Busy, Storing, Leaving, Wiping, Sending, Over, M!At
  <2>2. Form(r)
    BY <1>2 DEF Forms
  <2> QED  BY <1>1, <2>1, <2>2 DEF Form, M!At
<1>6. /\ req' \in [Caller -> M!Req]
      /\ req'[r].stage = "dbDelete" /\ req'[r].kind = req[r].kind /\ req'[r].id = req[r].id
      /\ req'[r].devs = req[r].devs /\ req'[r].was = req[r].was
      /\ req'[r].todo = req[r].todo /\ req'[r].out = req[r].out /\ req'[r].in = req[r].in
      /\ \A p \in Caller \ {r} : req'[p] = req[p]
  BY <1>1, <1>2, <1>3, Moves
<1> HIDE DEF g
<1>7. /\ Deleting(r)' /\ M!Busy(r)' /\ ~Storing(r)' /\ ~Leaving(r)' /\ ~Wiping(r)' /\ ~Sending(r)' /\ ~Over(r)'
      /\ ~Fresh(r)' /\ ~Posted(r)' /\ M!At(r, "dbDelete")' /\ ~M!At(r, "enqueue")'
  BY <1>1, <1>5, <1>6 DEF Deleting, M!Busy, Storing, Leaving, Wiping, Sending, Over, Fresh, Posted, M!At
<1>8. /\ \A p \in Caller : Kept(p)
      /\ \A p \in Caller : Posted(p)' <=> Posted(p)
  BY <1>1, <1>2, <1>3, <1>5, <1>7, MovesKept
<1>9. M!Existing' = M!Existing /\ \A m \in M!Existing : multicasts[m].group \in M!Id \cup {None}
  BY <1>1, <1>2, RequestsTyped DEF M!Existing
<1>10. \A m \in M!Existing : multicasts[m].group = g => m = req[r].id
  BY <1>1, <1>2, <1>3 DEF Referred, g
<1>11. M!TypeOK'
  BY <1>1, <1>2, <1>4, <1>6 DEF M!TypeOK
<1>12. Forms'
  <2>1. ASSUME NEW p \in Caller PROVE Form(p)'
    <3>1. CASE p = r
      BY <1>5, <1>6, <1>7, <3>1 DEF Form, M!At
    <3>2. CASE p # r
      <4>1. Form(p) /\ (M!At(p, "commit") => application)
        BY <1>2 DEF Forms, Form
      <4> QED  BY <1>1, <1>6, <3>2, <4>1, FormStays
    <3> QED  BY <3>1, <3>2
  <2> QED  BY <2>1 DEF Forms
<1>13. NotYet' /\ OneWorker'
  BY <1>1, <1>2, <1>8, NotYetStays, OneWorkerStays
<1>14. Referred'
  <2>1. \A h \in Caller : groups[h] = None => groups'[h] = None
    BY <1>4, MulticastConstants
  <2> QED  BY <1>1, <1>2, <1>8, <1>9, <2>1, ReferredStays
<1>15. Grouped' /\ AppGone'
  BY <1>1, <1>2, <1>9 DEF Grouped, AppGone
<1>16. RowStays'
  <2>1. \A p \in Caller : Leaving(p)' => Leaving(p) /\ (M!At(p, "trim") => M!At(p, "trim")')
    BY <1>6, <1>7 DEF Leaving, M!At
  <2> QED  BY <1>1, <1>2, <1>8, <1>9, <2>1, RowStaysStays
<1>17. GroupThere'
  <2>1. ASSUME NEW m \in M!Existing' \ (contended' \cup hurt'), multicasts'[m].group \notin {None} \cup hurt'
        PROVE  \/ groups'[multicasts'[m].group] # None
               \/ \E p \in Caller : M!At(p, "dbDelete")' /\ req'[p].id = m /\ req'[p].was.devices # {}
                                      /\ req'[p].was.group = multicasts'[m].group
    <3>1. CASE multicasts[m].group = g
      BY <1>1, <1>5, <1>6, <1>7, <1>9, <1>10, <2>1, <3>1 DEF g
    <3>2. CASE multicasts[m].group # g
      <4>1. \/ groups[multicasts[m].group] # None
            \/ \E p \in Caller : M!At(p, "dbDelete") /\ req[p].id = m /\ req[p].was.devices # {}
                                   /\ req[p].was.group = multicasts[m].group
        BY <1>1, <1>2, <1>9, <2>1 DEF GroupThere
      <4>2. multicasts[m].group \in M!Id
        BY <1>1, <1>9, <2>1
      <4> QED  BY <1>1, <1>4, <1>5, <1>6, <3>2, <4>1, <4>2 DEF M!At
    <3> QED  BY <3>1, <3>2
  <2>2. ASSUME NEW p \in Caller, M!At(p, "dbDelete")', req'[p].was.devices # {}
        PROVE  req'[p].was.group # None /\ groups'[req'[p].was.group] = None
    <3>1. CASE p = r
      BY <1>1, <1>4, <1>6, <3>1 DEF g
    <3>2. CASE p # r
      <4>1. req'[p] = req[p] /\ req[p].was.group # None /\ groups[req[p].was.group] = None
        BY <1>2, <1>6, <2>2, <3>2 DEF GroupThere, M!At
      <4>2. req[p].was.group \in M!Id
        BY <1>2, <4>1, RequestsTyped
      <4> QED  BY <1>4, <4>1, <4>2
    <3> QED  BY <3>1, <3>2
  <2>3. ASSUME NEW p \in Caller, Posted(p)' PROVE groups'[p] # None \/ ~application'
    <3>1. Posted(p) /\ p \in M!Id /\ p # r
      BY <1>7, <1>8, <2>3, MulticastConstants
    <3>2. g # p
      BY <1>2, <3>1, MulticastConstants DEF Referred, Posted, g
    <3> QED  BY <1>1, <1>2, <1>4, <3>1, <3>2 DEF GroupThere
  <2> QED  BY <2>1, <2>2, <2>3 DEF GroupThere
<1>18. GroupKnown'
  BY <1>1, <1>2, <1>4, <1>8, <1>9, GroupKnownStays
<1>19. MembersKnown'
  <2>1. \A h \in M!Id : groups'[h] # None => groups[h] # None /\ Joined(h)' = Joined(h)
    BY <1>1, <1>4 DEF Joined
  <2> QED  BY <1>1, <1>2, <1>8, <1>9, <2>1, MembersKnownStays
<1>20. M!OneApplication'
  BY <1>1, <1>2, <1>4, OneApplicationStays DEF Joined
<1>21. QueueKnown'
  <2>1. /\ \A p \in Caller : Sending(p)' => Sending(p) /\ req'[p].id = req[p].id
        /\ \A p \in Caller : M!At(p, "enqueue")' => req'[p].id = req[p].id /\ M!At(p, "enqueue")
    BY <1>6, <1>7 DEF Sending, M!At
  <2> QED  BY <1>1, <1>2, <1>4, <2>1, QueueKnownStays
<1> QED  BY <1>11, <1>12, <1>13, <1>14, <1>15, <1>16, <1>17, <1>18, <1>19, <1>20, <1>21 DEF MulticastsInv

(* The row is deleted; its group is gone already, or remembered.           *)
LEMMA RowDeleted ==
    ASSUME MulticastsInv, NEW r \in Caller, M!DeleteRow(r)
    PROVE  MulticastsInv'
<1> DEFINE m == req[r].id
           g == req[r].was.group
<1>1. /\ M!At(r, "dbDelete") /\ M!Answer(r, "done")
      /\ multicasts' = [multicasts EXCEPT ![m] = None]
      /\ emptied' = IF req[r].was.devices = {} THEN emptied \cup ({g} \cap M!Id) ELSE emptied
      /\ UNCHANGED <<application, devices, groups, adding, queue>>
      /\ UNCHANGED <<contended, hurt, changed, raced, faults>>
  BY DEF M!DeleteRow
<1>2. /\ M!TypeOK /\ Forms /\ NotYet /\ OneWorker /\ Referred /\ Grouped /\ RowStays /\ GroupThere
      /\ GroupKnown /\ AppGone /\ MembersKnown /\ M!OneApplication /\ QueueKnown
  BY DEF MulticastsInv
<1>3. /\ Ended(r) /\ req' \in [Caller -> M!Req]
      /\ \A p \in Caller \ {r} : req'[p] = req[p]
      /\ \A p \in Caller : Kept(p) \/ Ended(p)
      /\ \A p \in Caller : Posted(p)' <=> (Posted(p) /\ p # r)
      /\ \A p \in Caller : M!Busy(p)' => p # r /\ M!Busy(p)
      /\ \A p \in Caller : Sending(p)' => p # r /\ Sending(p)
      /\ \A p \in Caller : Leaving(p)' => p # r
      /\ \A p \in Caller : M!At(p, "dbDelete")' <=> M!At(p, "dbDelete") /\ p # r
      /\ \A p \in Caller : M!At(p, "enqueue")' <=> M!At(p, "enqueue") /\ p # r
  BY <1>1, <1>2, AnswerEnds
<1>4. Deleting(r) /\ M!Busy(r) /\ ~Posted(r) /\ m \in M!Id
  <2>1. ~Storing(r) /\ M!Busy(r) /\ ~Leaving(r) /\ ~Sending(r) /\ ~Wiping(r) /\ ~Over(r) /\ ~M!At(r, "save")
    BY <1>1 DEF Storing, M!Busy, M!At, Deleting, Leaving, Sending, Wiping, Over
  <2>2. Form(r)
    BY <1>2 DEF Forms
  <2> QED  BY <2>1, <2>2 DEF Form, M!At
<1>5. /\ multicasts' \in [M!Id -> M!Row \cup {None}]
      /\ M!Existing' = M!Existing \ {m}
      /\ \A n \in M!Id \ {m} : multicasts'[n] = multicasts[n]
  <2>1. multicasts \in [M!Id -> M!Row \cup {None}]
    BY <1>2 DEF M!TypeOK
  <2> QED  BY <1>1, <1>4, <2>1 DEF M!Existing
<1> HIDE DEF m
<1>6. \A n \in M!Existing' : n \in M!Existing /\ n # m /\ multicasts'[n] = multicasts[n]
                             /\ multicasts[n].group \in M!Id \cup {None}
  BY <1>2, <1>5, RequestsTyped
<1>7. m \in M!Works(req[r])
  BY <1>4 DEF M!Works, m
<1>8. M!TypeOK'
  BY <1>1, <1>2, <1>3, <1>5 DEF M!TypeOK
<1>9. Forms'
  <2>1. (\E p \in Caller \ {r} : M!At(p, "commit")) => application'
    BY <1>1, <1>2 DEF Forms, Form
  <2> QED  BY <1>1, <1>2, <2>1, AnswerForms
<1>10. NotYet' /\ OneWorker'
  <2>1. \A p \in Caller : multicasts[p] = None => multicasts'[p] = None
    <3> SUFFICES ASSUME NEW p \in Caller, multicasts[p] = None PROVE multicasts'[p] = None
      OBVIOUS
    <3>1. p \in M!Id /\ multicasts \in [M!Id -> M!Row \cup {None}]
      BY <1>2, MulticastConstants DEF M!TypeOK
    <3> QED  BY <1>1, <1>5, <3>1 DEF m
  <2> QED  BY <1>1, <1>2, <1>3, <2>1, NotYetStays, OneWorkerStays
<1>11. Referred'
  BY <1>1, <1>2, <1>3, <1>6, ReferredStays
<1>12. Grouped' /\ AppGone' /\ M!OneApplication'
  BY <1>1, <1>2, <1>6 DEF Grouped, AppGone, M!OneApplication
<1>13. RowStays'
  <2>1. ASSUME NEW p \in Caller, M!Busy(p)', NEW n \in M!Works(req[p]) \ contended', n \in M!Existing
        PROVE  n \in M!Existing' /\ multicasts'[n] = multicasts[n]
    <3>1. p # r /\ M!Busy(p)
      BY <1>3, <2>1
    <3>2. n # m
      BY <1>1, <1>2, <1>4, <1>7, <2>1, <3>1, WorksAlone
    <3> QED  BY <1>5, <1>6, <2>1, <3>2
  <2>2. \A p \in Caller : Leaving(p)' => Leaving(p) /\ (M!At(p, "trim") => M!At(p, "trim")')
    BY <1>3 DEF Leaving, M!At
  <2> QED  BY <1>1, <1>2, <1>3, <2>1, <2>2, RowStaysStays
<1>14. GroupThere'
  <2>1. \A p \in Caller \ {r} : M!At(p, "dbDelete") => M!At(p, "dbDelete")' /\ Kept(p)
    BY <1>3, SameKept
  <2>2. req[r].id \notin M!Existing'
    BY <1>5 DEF m
  <2> QED  BY <1>1, <1>2, <1>3, <1>6, <2>1, <2>2, GroupThereStays
<1>15. GroupKnown'
  <2>1. ASSUME contended' = {}, m \in M!Existing, multicasts[m].group # None
        PROVE  multicasts[m].group \in emptied' \/ groups'[multicasts[m].group] = None
    <3>1. application
      BY <1>2, <2>1 DEF AppGone
    <3>2. multicasts[m].group = g
      BY <1>1, <1>2, <1>4, <2>1, <3>1 DEF RowStays, m
    <3>3. g \in M!Id
      BY <1>2, <2>1, <3>2, RequestsTyped
    <3>4. CASE req[r].was.devices = {}
      BY <1>1, <3>2, <3>3, <3>4
    <3>5. CASE req[r].was.devices # {}
      BY <1>1, <1>2, <3>2, <3>5 DEF GroupThere
    <3> QED  BY <3>4, <3>5
  <2>2. \A n \in M!Existing : n = m \/ (n \in M!Existing' /\ multicasts'[n] = multicasts[n])
    BY <1>5, <1>6
  <2>3. emptied \subseteq emptied'
    BY <1>1
  <2>4. \A p \in Caller : Posted(p) => Posted(p)'
    BY <1>3, <1>4
  <2> QED  BY <1>1, <1>2, <2>1, <2>2, <2>3, <2>4, GroupKnownStays
<1>16. MembersKnown'
  <2>1. \A h \in M!Id : Joined(h)' = Joined(h)
    BY <1>1 DEF Joined
  <2> QED  BY <1>1, <1>2, <1>3, <1>6, <2>1, MembersKnownStays
<1>17. QueueKnown'
  BY <1>1, <1>2, <1>3, QueueKnownStays
<1> QED  BY <1>8, <1>9, <1>10, <1>11, <1>12, <1>13, <1>14, <1>15, <1>16, <1>17 DEF MulticastsInv

-----------------------------------------------------------------------------
(* A step on the queues alone. *)
LEMMA QueueSteps ==
    ASSUME MulticastsInv, UNCHANGED <<application, devices, multicasts, groups, adding>>, M!Quiet,
           req' \in [Caller -> M!Req], queue' \in [M!Target -> SUBSET Caller],
           \A p \in Caller : Kept(p) \/ Ended(p),
           \A p \in Caller : Posted(p)' <=> Posted(p),
           \A p \in Caller : Leaving(p)' => Leaving(p) /\ (M!At(p, "trim") => M!At(p, "trim")'),
           \A p \in Caller : M!At(p, "dbDelete")' <=> M!At(p, "dbDelete"),
           \A p \in Caller : M!At(p, "dbDelete") => Kept(p),
           Forms', QueueKnown'
    PROVE  MulticastsInv'
<1>1. UNCHANGED <<application, devices, multicasts, groups, adding>>
      /\ UNCHANGED <<contended, hurt, changed, emptied, raced, faults>>
  BY DEF M!Quiet, M!history
<1>2. /\ M!TypeOK /\ Forms /\ NotYet /\ OneWorker /\ Referred /\ Grouped /\ RowStays /\ GroupThere
      /\ GroupKnown /\ AppGone /\ MembersKnown /\ M!OneApplication
  BY DEF MulticastsInv
<1>3. M!Existing' = M!Existing /\ \A m \in M!Existing : multicasts[m].group \in M!Id \cup {None}
  BY <1>1, <1>2, RequestsTyped DEF M!Existing
<1>4. M!TypeOK'
  BY <1>1, <1>2 DEF M!TypeOK
<1>5. NotYet' /\ OneWorker'
  BY <1>1, <1>2, NotYetStays, OneWorkerStays
<1>6. Referred'
  BY <1>1, <1>2, <1>3, ReferredStays
<1>7. Grouped' /\ AppGone' /\ M!OneApplication'
  BY <1>1, <1>2, <1>3 DEF Grouped, AppGone, M!OneApplication
<1>8. RowStays'
  BY <1>1, <1>2, <1>3, RowStaysStays
<1>9. GroupThere'
  BY <1>1, <1>2, <1>3, GroupThereStays
<1>10. GroupKnown'
  BY <1>1, <1>2, <1>3, GroupKnownStays
<1>11. MembersKnown'
  <2>1. \A h \in M!Id : Joined(h)' = Joined(h)
    BY <1>1 DEF Joined
  <2> QED  BY <1>1, <1>2, <1>3, <2>1, MembersKnownStays
<1> QED  BY <1>4, <1>5, <1>6, <1>7, <1>8, <1>9, <1>10, <1>11 DEF MulticastsInv

(* A queue is flushed before it gets the downlink. *)
LEMMA QueueFlushed ==
    ASSUME MulticastsInv, NEW r \in Caller, M!FlushQueue(r)
    PROVE  MulticastsInv'
<1> DEFINE t == req[r].id
<1>1. /\ M!At(r, "flush") /\ M!Goto(r, "enqueue") /\ queue' = [queue EXCEPT ![t] = {}]
      /\ UNCHANGED <<application, devices, multicasts, groups, adding>> /\ M!Quiet
  BY DEF M!FlushQueue, M!Flushed
<1>2. M!TypeOK /\ Forms /\ QueueKnown /\ Form(r) /\ raced' = raced
  BY <1>1 DEF MulticastsInv, Forms, M!Quiet, M!history
<1>3. "enqueue" \in ReqStage
  BY DEF ReqStage
<1>4. /\ Sending(r) /\ M!Busy(r) /\ ~Storing(r) /\ ~Deleting(r) /\ ~Leaving(r) /\ ~Wiping(r) /\ ~Over(r)
      /\ ~Posted(r) /\ t \in M!Target /\ req[r].was.group = None /\ ~M!At(r, "dbDelete")
      /\ req[r].out = {} /\ req[r].in = {} /\ req[r].todo = {}
  <2>1. /\ ~Storing(r) /\ M!Busy(r) /\ ~Leaving(r) /\ ~Deleting(r) /\ ~Wiping(r) /\ ~Over(r)
        /\ ~M!At(r, "save") /\ ~M!At(r, "dbDelete")
    BY <1>1 DEF Storing, M!Busy, M!At, Deleting, Leaving, Wiping, Over
  <2> QED  BY <1>2, <2>1 DEF Form, M!At
<1>5. /\ req' \in [Caller -> M!Req]
      /\ req'[r].stage = "enqueue" /\ req'[r].kind = req[r].kind /\ req'[r].id = req[r].id
      /\ req'[r].devs = req[r].devs /\ req'[r].was = req[r].was
      /\ req'[r].todo = req[r].todo /\ req'[r].out = req[r].out /\ req'[r].in = req[r].in
      /\ \A p \in Caller \ {r} : req'[p] = req[p]
  BY <1>1, <1>2, <1>3, Moves
<1>6. /\ Sending(r)' /\ ~Storing(r)' /\ ~Deleting(r)' /\ ~Leaving(r)' /\ ~Wiping(r)' /\ ~Over(r)'
      /\ ~Posted(r)' /\ ~Fresh(r)' /\ ~M!At(r, "dbDelete")'
  BY <1>4, <1>5 DEF Sending, Storing, Deleting, Leaving, Wiping, Over, Posted, Fresh, M!At
<1>7. /\ \A p \in Caller : Kept(p)
      /\ \A p \in Caller : Posted(p)' <=> Posted(p)
  BY <1>1, <1>2, <1>3, <1>4, <1>6, MovesKept
<1>8. /\ \A p \in Caller : Leaving(p)' => Leaving(p) /\ (M!At(p, "trim") => M!At(p, "trim")')
      /\ \A p \in Caller : M!At(p, "dbDelete")' <=> M!At(p, "dbDelete")
  BY <1>4, <1>5, <1>6 DEF Leaving, M!At
<1>9. Forms'
  <2>1. ASSUME NEW p \in Caller PROVE Form(p)'
    <3>1. CASE p = r
      BY <1>4, <1>5, <1>6, <3>1 DEF Form, M!At
    <3>2. CASE p # r
      <4>1. Form(p) /\ (M!At(p, "commit") => application)
        BY <1>2 DEF Forms, Form
      <4> QED  BY <1>1, <1>5, <3>2, <4>1, FormStays
    <3> QED  BY <3>1, <3>2
  <2> QED  BY <2>1 DEF Forms
<1>10. /\ queue' \in [M!Target -> SUBSET Caller] /\ queue'[t] = {}
       /\ \A u \in M!Target : queue'[u] \subseteq queue[u]
  BY <1>1, <1>2, <1>4 DEF M!TypeOK
<1>11. QueueKnown'
  <2>1. /\ \A p \in Caller : Sending(p)' => Sending(p) /\ req'[p].id = req[p].id
        /\ \A p \in Caller : M!At(p, "enqueue")' => req'[p].id = req[p].id /\ (M!At(p, "enqueue") \/ p = r)
    BY <1>4, <1>5 DEF Sending, M!At
  <2> QED  BY <1>2, <1>10, <2>1, QueueKnownStays
<1> QED  BY <1>1, <1>5, <1>7, <1>8, <1>9, <1>10, <1>11, QueueSteps

(* The downlink is alone in the queue, unless two were ordered at once. *)
LEMMA Enqueued ==
    ASSUME MulticastsInv, NEW r \in Caller, M!Enqueue(r)
    PROVE  MulticastsInv'
<1> DEFINE t == req[r].id
<1>1. /\ M!At(r, "enqueue") /\ M!Answer(r, "done") /\ queue' = [queue EXCEPT ![t] = @ \cup {r}]
      /\ UNCHANGED <<application, devices, multicasts, groups, adding>> /\ M!Quiet
  BY DEF M!Enqueue
<1>2. M!TypeOK /\ Forms /\ QueueKnown /\ Form(r) /\ raced' = raced
  BY <1>1 DEF MulticastsInv, Forms, M!Quiet, M!history
<1>3. /\ Ended(r) /\ req' \in [Caller -> M!Req]
      /\ \A p \in Caller \ {r} : req'[p] = req[p]
      /\ \A p \in Caller : Kept(p) \/ Ended(p)
      /\ \A p \in Caller : Posted(p)' <=> (Posted(p) /\ p # r)
      /\ \A p \in Caller : Sending(p)' => p # r /\ Sending(p)
      /\ \A p \in Caller : Leaving(p)' => p # r
      /\ \A p \in Caller : M!At(p, "dbDelete")' <=> M!At(p, "dbDelete") /\ p # r
      /\ \A p \in Caller : M!At(p, "enqueue")' <=> M!At(p, "enqueue") /\ p # r
  BY <1>1, <1>2, AnswerEnds
<1>4. Sending(r) /\ ~Posted(r) /\ t \in M!Target /\ ~M!At(r, "dbDelete")
  <2>1. /\ ~Storing(r) /\ ~Leaving(r) /\ ~Deleting(r) /\ ~Wiping(r) /\ ~Over(r)
        /\ ~M!At(r, "save") /\ ~M!At(r, "dbDelete")
    BY <1>1 DEF Storing, M!At, Deleting, Leaving, Wiping, Over
  <2> QED  BY <1>2, <2>1 DEF Form, M!At
<1>5. Forms'
  <2>1. (\E p \in Caller \ {r} : M!At(p, "commit")) => application'
    BY <1>1, <1>2 DEF Forms, Form
  <2> QED  BY <1>1, <1>2, <2>1, AnswerForms
<1>6. /\ queue' \in [M!Target -> SUBSET Caller] /\ queue'[t] = queue[t] \cup {r}
      /\ \A u \in M!Target \ {t} : queue'[u] = queue[u]
  BY <1>1, <1>2, <1>4 DEF M!TypeOK
<1>7. QueueKnown'
  <2> SUFFICES ASSUME NEW u \in M!Target \ raced'
               PROVE  /\ \A a, b \in queue'[u] : a = b
                      /\ \A q, p \in Caller : Sending(q)' /\ Sending(p)' /\ req'[q].id = u /\ req'[p].id = u => q = p
                      /\ \A p \in Caller : M!At(p, "enqueue")' /\ req'[p].id = u => queue'[u] = {}
    BY DEF QueueKnown
  <2>1. /\ \A a, b \in queue[u] : a = b
        /\ \A q, p \in Caller : Sending(q) /\ Sending(p) /\ req[q].id = u /\ req[p].id = u => q = p
        /\ \A p \in Caller : M!At(p, "enqueue") /\ req[p].id = u => queue[u] = {}
    BY <1>2 DEF QueueKnown
  <2>2. \A q, p \in Caller : Sending(q)' /\ Sending(p)' /\ req'[q].id = u /\ req'[p].id = u => q = p
    BY <1>3, <2>1
  <2>3. CASE u = t
    <3>1. queue'[u] = {r}
      BY <1>1, <1>6, <2>1, <2>3
    <3>2. \A p \in Caller : ~(M!At(p, "enqueue")' /\ req'[p].id = u)
      <4> SUFFICES ASSUME NEW p \in Caller, M!At(p, "enqueue")', req'[p].id = u PROVE FALSE
        OBVIOUS
      <4>1. p # r /\ req'[p] = req[p] /\ M!At(p, "enqueue") /\ Form(p)
        BY <1>2, <1>3 DEF Forms
      <4>2. Sending(p)
        BY <4>1 DEF Form, M!At, Storing, Deleting, Leaving, Wiping, Over
      <4> QED  BY <1>4, <2>1, <2>3, <4>1, <4>2
    <3> QED  BY <2>2, <3>1, <3>2
  <2>4. CASE u # t
    BY <1>3, <1>6, <2>1, <2>2, <2>4
  <2> QED  BY <2>3, <2>4
<1>8. /\ \A p \in Caller : Posted(p)' <=> Posted(p)
      /\ \A p \in Caller : Leaving(p)' => Leaving(p) /\ (M!At(p, "trim") => M!At(p, "trim")')
      /\ \A p \in Caller : M!At(p, "dbDelete")' <=> M!At(p, "dbDelete")
      /\ \A p \in Caller : M!At(p, "dbDelete") => Kept(p)
  <2>1. \A p \in Caller : M!At(p, "dbDelete") => Kept(p)
    BY <1>3, <1>4, SameKept
  <2> QED  BY <1>3, <1>4, <2>1 DEF Leaving, M!At
<1> QED  BY <1>1, <1>3, <1>5, <1>6, <1>7, <1>8, QueueSteps

(* A downlink is sent. *)
LEMMA Transmitted ==
    ASSUME MulticastsInv, NEW t \in M!Target, M!Transmit(t)
    PROVE  MulticastsInv'
<1>1. PICK o \in queue[t] : queue' = [queue EXCEPT ![t] = @ \ {o}]
  BY DEF M!Transmit
<1>2. UNCHANGED <<application, devices, multicasts, groups, adding>> /\ req' = req /\ M!Quiet
  BY DEF M!Transmit
<1>3. M!TypeOK /\ Forms /\ QueueKnown /\ raced' = raced
  BY <1>2 DEF MulticastsInv, M!Quiet, M!history
<1>4. /\ queue' \in [M!Target -> SUBSET Caller]
      /\ \A u \in M!Target : queue'[u] \subseteq queue[u]
  BY <1>1, <1>3 DEF M!TypeOK
<1>5. Forms'
  <2>1. ASSUME NEW p \in Caller PROVE Form(p)'
    <3>1. Form(p) /\ (M!At(p, "commit") => application)
      BY <1>3 DEF Forms, Form
    <3> QED  BY <1>2, <3>1, FormStays
  <2> QED  BY <2>1 DEF Forms
<1>6. "dbDelete" \in ReqStage /\ "enqueue" \in ReqStage /\ "trim" \in ReqStage
  BY DEF ReqStage
<1>7. QueueKnown'
  BY <1>2, <1>3, <1>4, <1>6, RequestsStay, QueueKnownStays
<1>8. req' \in [Caller -> M!Req]
  BY <1>2, <1>3 DEF M!TypeOK
<1> QED  BY <1>2, <1>4, <1>5, <1>6, <1>7, <1>8, RequestsStay, QueueSteps

-----------------------------------------------------------------------------
Trimmed(b, o, i, td) == [b EXCEPT !.stage = "csDelete", !.out = o, !.in = i, !.todo = td]

(* A request gets the pairs it is to part and to join, and less to do. *)
LEMMA RequestTrimmed ==
    ASSUME NEW b \in M!Req, NEW o \in SUBSET (M!Id \X Device), NEW i \in SUBSET (M!Id \X Device),
           NEW td \in SUBSET (M!Id \X M!Row)
    PROVE  /\ Trimmed(b, o, i, td) \in M!Req
           /\ Trimmed(b, o, i, td).stage = "csDelete" /\ Trimmed(b, o, i, td).kind = b.kind
           /\ Trimmed(b, o, i, td).id = b.id /\ Trimmed(b, o, i, td).was = b.was
           /\ Trimmed(b, o, i, td).devs = b.devs /\ Trimmed(b, o, i, td).todo = td
           /\ Trimmed(b, o, i, td).out = o /\ Trimmed(b, o, i, td).in = i
<1> HIDE DEF M!Row, M!Target, M!Id
<1>1. Trimmed(b, o, i, td) \in M!Req
  BY DEF Trimmed, M!Req
<1>2. /\ Trimmed(b, o, i, td).stage = "csDelete" /\ Trimmed(b, o, i, td).kind = b.kind
      /\ Trimmed(b, o, i, td).id = b.id /\ Trimmed(b, o, i, td).was = b.was
      /\ Trimmed(b, o, i, td).devs = b.devs
  BY DEF Trimmed, M!Req
<1>3. /\ Trimmed(b, o, i, td).todo = td
      /\ Trimmed(b, o, i, td).out = o /\ Trimmed(b, o, i, td).in = i
  BY DEF Trimmed, M!Req
<1> QED  BY <1>1, <1>2, <1>3

(* The multicasts of the device are saved in the transaction: unless       *)
(* another request works on them, they lose this device and nothing else.  *)
LEMMA MulticastsTrimmed ==
    ASSUME MulticastsInv, NEW r \in Caller, M!TrimMulticasts(r)
    PROVE  MulticastsInv'
<1> DEFINE o == M!ToPart(r)
           i == M!ToJoin(r)
           td == {x \in req[r].todo : x[1] \notin M!Existing}
<1>1. /\ M!At(r, "trim") /\ {x[2] : x \in i} \subseteq devices \ M!Dying
      /\ req' = [req EXCEPT ![r].stage = "csDelete", ![r].out = o, ![r].in = i,
                            ![r].todo = {x \in @ : x[1] \notin M!Existing}]
      /\ UNCHANGED <<application, devices, multicasts, groups, adding, queue>>
      /\ UNCHANGED <<contended, hurt, changed, emptied, raced, faults>>
  BY DEF M!TrimMulticasts, M!stores, M!Quiet, M!history
<1>2. /\ M!TypeOK /\ Forms /\ NotYet /\ OneWorker /\ Referred /\ Grouped /\ RowStays /\ GroupThere
      /\ GroupKnown /\ AppGone /\ MembersKnown /\ M!OneApplication /\ QueueKnown /\ Form(r)
  BY DEF MulticastsInv, Forms
<1>3. /\ req \in [Caller -> M!Req] /\ req[r] \in M!Req
      /\ req[r].todo \subseteq M!Id \X M!Row
  BY <1>2, RequestsTyped DEF M!TypeOK
<1>4. \A x \in req[r].todo : /\ x[1] \in M!Id /\ x[2] \in M!Row
                             /\ M!Kept(r, x) \subseteq Device /\ M!DevicesOf(x[1]) \subseteq Device
  BY <1>2, <1>3, RequestsTyped DEF M!Kept, M!DevicesOf
<1>5. \A y \in i : \E x \in req[r].todo : /\ y[1] = x[1] /\ y[2] \in M!Kept(r, x) \ M!DevicesOf(x[1])
                                         /\ y = <<y[1], y[2]>>
  BY DEF M!ToJoin
<1>6. \A y \in o : \E x \in req[r].todo : /\ y[1] = x[1] /\ y[2] \in M!DevicesOf(x[1]) \ M!Kept(r, x)
                                         /\ y = <<y[1], y[2]>>
  BY DEF M!ToPart
<1>7. i \in SUBSET (M!Id \X Device) /\ o \in SUBSET (M!Id \X Device) /\ td \in SUBSET (M!Id \X M!Row)
  <2>1. i \subseteq M!Id \X Device
    BY <1>4, <1>5
  <2>2. o \subseteq M!Id \X Device
    BY <1>4, <1>6
  <2> QED  BY <1>3, <2>1, <2>2
<1>8. req' = [req EXCEPT ![r] = Trimmed(req[r], o, i, td)]
  BY <1>1, <1>3 DEF Trimmed, M!Req
<1> HIDE DEF o, i
<1>9. /\ req' \in [Caller -> M!Req]
      /\ req'[r].stage = "csDelete" /\ req'[r].kind = req[r].kind /\ req'[r].id = req[r].id
      /\ req'[r].was = req[r].was /\ req'[r].devs = req[r].devs /\ req'[r].todo = td
      /\ req'[r].out = o /\ req'[r].in = i
      /\ \A p \in Caller \ {r} : req'[p] = req[p]
  BY <1>3, <1>7, <1>8, RequestTrimmed
<1>10. td \subseteq req[r].todo /\ \A x \in td : x[1] \notin M!Existing
  OBVIOUS
<1> HIDE DEF td
<1>11. /\ Leaving(r) /\ M!Busy(r) /\ ~Storing(r) /\ ~Deleting(r) /\ ~Sending(r) /\ ~Wiping(r) /\ ~Over(r)
       /\ ~Posted(r) /\ req[r].id \in Device /\ req[r].was.group = None /\ req[r].kind = "deleteDevice"
       /\ ~M!At(r, "dbDelete") /\ ~Unborn(r) /\ ~Fresh(r)
  <2>1. /\ ~Storing(r) /\ M!Busy(r) /\ ~Sending(r) /\ ~Deleting(r) /\ ~Wiping(r) /\ ~Over(r)
        /\ ~M!At(r, "save") /\ ~M!At(r, "dbDelete") /\ ~Unborn(r) /\ ~Fresh(r)
    BY <1>1 DEF Storing, M!Busy, M!At, Deleting, Sending, Wiping, Over, Unborn, Fresh
  <2>2. Leaving(r) /\ req[r].id \in Device /\ req[r].was.group = None /\ ~Posted(r)
    BY <1>2, <2>1 DEF Form, M!At
  <2> QED  BY <2>1, <2>2 DEF Leaving
<1>12. /\ Leaving(r)' /\ M!Busy(r)' /\ ~Storing(r)' /\ ~Deleting(r)' /\ ~Sending(r)' /\ ~Wiping(r)' /\ ~Over(r)'
       /\ ~Posted(r)' /\ ~M!At(r, "dbDelete")' /\ ~Unborn(r)' /\ ~Fresh(r)' /\ ~M!At(r, "enqueue")'
  BY <1>9, <1>11 DEF Leaving, Storing, M!Busy, M!At, Deleting, Sending, Wiping, Over, Unborn, Fresh, Posted
<1>13. \A p \in Caller :
         /\ req'[p].kind = req[p].kind /\ req'[p].id = req[p].id /\ req'[p].was = req[p].was
         /\ req'[p].devs = req[p].devs
         /\ (M!Busy(p)' <=> M!Busy(p)) /\ (Unborn(p)' <=> Unborn(p)) /\ (Fresh(p)' <=> Fresh(p))
         /\ (Posted(p)' <=> Posted(p)) /\ (M!At(p, "dbDelete")' <=> M!At(p, "dbDelete"))
         /\ (Sending(p)' <=> Sending(p)) /\ (M!At(p, "enqueue")' => M!At(p, "enqueue"))
  <2> SUFFICES ASSUME NEW p \in Caller
               PROVE /\ req'[p].kind = req[p].kind /\ req'[p].id = req[p].id /\ req'[p].was = req[p].was
                     /\ req'[p].devs = req[p].devs
                     /\ (M!Busy(p)' <=> M!Busy(p)) /\ (Unborn(p)' <=> Unborn(p)) /\ (Fresh(p)' <=> Fresh(p))
                     /\ (Posted(p)' <=> Posted(p)) /\ (M!At(p, "dbDelete")' <=> M!At(p, "dbDelete"))
                     /\ (Sending(p)' <=> Sending(p)) /\ (M!At(p, "enqueue")' => M!At(p, "enqueue"))
    OBVIOUS
  <2>1. CASE p = r
    BY <1>9, <1>11, <1>12, <2>1
  <2>2. CASE p # r
    BY <1>9, <2>2 DEF M!Busy, Unborn, Fresh, Posted, M!At, Sending, Storing
  <2> QED  BY <2>1, <2>2
<1>14. \A p \in Caller : M!Works(req[p])' \subseteq M!Works(req[p])
  <2>1. ASSUME NEW p \in Caller, p # r PROVE M!Works(req[p])' = M!Works(req[p])
    BY <1>9, <2>1 DEF M!Works
  <2>2. \A y \in td \cup o \cup i : \E x \in req[r].todo : y[1] = x[1]
    BY <1>5, <1>6, <1>10 DEF o, i
  <2>3. \A y \in req'[r].todo \cup req'[r].out \cup req'[r].in : \E x \in req[r].todo : y[1] = x[1]
    BY <1>9, <2>2
  <2>4. {y[1] : y \in req'[r].todo \cup req'[r].out \cup req'[r].in} \subseteq {x[1] : x \in req[r].todo}
    BY <2>3
  <2>5. M!Works(req[r])' \subseteq M!Works(req[r])
    BY <1>9, <2>4 DEF M!Works
  <2> QED  BY <2>1, <2>5
<1>15. M!Existing' = M!Existing
  BY <1>1 DEF M!Existing
<1>16. M!TypeOK'
  BY <1>1, <1>2, <1>9 DEF M!TypeOK
<1>17. Forms'
  <2>1. ASSUME NEW p \in Caller PROVE Form(p)'
    <3>1. CASE p = r
      BY <1>9, <1>11, <1>12, <3>1 DEF Form, M!At
    <3>2. CASE p # r
      <4>1. Form(p) /\ (M!At(p, "commit") => application)
        BY <1>2 DEF Forms, Form
      <4> QED  BY <1>1, <1>9, <3>2, <4>1, FormStays
    <3> QED  BY <3>1, <3>2
  <2> QED  BY <2>1 DEF Forms
<1>18. NotYet' /\ OneWorker'
  <2>1. NotYet'
    BY <1>1, <1>2, <1>13, <1>14 DEF NotYet
  <2>2. OneWorker'
    <3> SUFFICES ASSUME NEW q \in Caller, NEW p \in Caller, q # p, M!Busy(q)', M!Busy(p)'
                 PROVE  M!Works(req[q])' \cap M!Works(req[p])' \subseteq contended'
      BY DEF OneWorker
    <3>1. M!Works(req[q]) \cap M!Works(req[p]) \subseteq contended
      BY <1>2, <1>13 DEF OneWorker
    <3>2. M!Works(req[q])' \subseteq M!Works(req[q]) /\ M!Works(req[p])' \subseteq M!Works(req[p])
      BY <1>14
    <3> QED  BY <1>1, <3>1, <3>2
  <2> QED  BY <2>1, <2>2
<1>19. Referred'
  <2>1. /\ \A p \in Caller : req'[p].id = req[p].id /\ req'[p].was = req[p].was
        /\ \A p \in Caller : Fresh(p)' <=> Fresh(p)
        /\ \A p \in Caller : Posted(p)' <=> Posted(p)
    BY <1>13
  <2>2. multicasts' = multicasts /\ groups' = groups /\ adding' = adding
    BY <1>1
  <2>3. \A p \in Caller : Fresh(p)' =>
         /\ \A m \in M!Existing' : multicasts'[m].group # p
         /\ \A q \in Caller : req'[q].was.group # p
         /\ \A x \in adding' : x[2] # p
         /\ groups'[p] = None
    BY <1>2, <1>15, <2>1, <2>2 DEF Referred
  <2>4. \A p \in Caller : Posted(p)' => \A m \in M!Existing' : multicasts'[m].group # p
    BY <1>2, <1>15, <2>1, <2>2 DEF Referred
  <2>5. \A m, n \in M!Existing' : multicasts'[m].group = multicasts'[n].group /\ m # n
                                   => multicasts'[m].group = None
    BY <1>2, <1>15, <2>2 DEF Referred
  <2>6. ASSUME NEW p \in Caller, req'[p].was.group # None
        PROVE  /\ \A n \in M!Existing' : multicasts'[n].group = req'[p].was.group => n = req'[p].id
               /\ \A q \in Caller : req'[q].was.group = req'[p].was.group => req'[q].id = req'[p].id
                                                                /\ (Posted(p)' => q = p)
    <3>1. /\ \A n \in M!Existing : multicasts[n].group = req[p].was.group => n = req[p].id
          /\ \A q \in Caller : req[q].was.group = req[p].was.group => req[q].id = req[p].id /\ (Posted(p) => q = p)
      BY <1>2, <2>1, <2>6 DEF Referred
    <3> QED  BY <1>15, <2>1, <2>2, <3>1
  <2> QED  BY <2>3, <2>4, <2>5, <2>6 DEF Referred
<1>20. Grouped' /\ AppGone' /\ M!OneApplication'
  BY <1>1, <1>2, <1>15 DEF Grouped, AppGone, M!OneApplication
<1>21. RowStays'
  <2> SUFFICES ASSUME application', NEW p \in Caller
               PROVE  /\ ((Storing(p)' /\ req'[p].kind = "update") \/ Deleting(p)') /\ req'[p].id \notin contended' =>
                        /\ req'[p].id \in M!Existing'
                        /\ multicasts'[req'[p].id].group = IF Posted(p)' THEN None ELSE req'[p].was.group
                      /\ \A x \in req'[p].todo : Leaving(p)' /\ x[1] \notin contended' =>
                        /\ M!At(p, "trim")' /\ x[1] \in M!Existing'
                        /\ multicasts'[x[1]].devices \subseteq x[2].devices
                        /\ x[2].devices \cap devices' \subseteq multicasts'[x[1]].devices
                      /\ \A x \in req'[p].in : x[1] \in contended'
                      /\ \A x \in req'[p].out : x[1] \in contended' \/ x[2] = req'[p].id
    BY DEF RowStays
  <2>1. /\ ((Storing(p) /\ req[p].kind = "update") \/ Deleting(p)) /\ req[p].id \notin contended =>
             /\ req[p].id \in M!Existing
             /\ multicasts[req[p].id].group = IF Posted(p) THEN None ELSE req[p].was.group
        /\ \A x \in req[p].todo : Leaving(p) /\ x[1] \notin contended =>
             /\ M!At(p, "trim") /\ x[1] \in M!Existing
             /\ multicasts[x[1]].devices \subseteq x[2].devices
             /\ x[2].devices \cap devices \subseteq multicasts[x[1]].devices
        /\ \A x \in req[p].in : x[1] \in contended
        /\ \A x \in req[p].out : x[1] \in contended \/ x[2] = req[p].id
    BY <1>1, <1>2 DEF RowStays
  <2>2. CASE p # r
    <3>1. req'[p] = req[p]
      BY <1>9, <2>2
    <3>2. /\ Storing(p)' <=> Storing(p)
          /\ Deleting(p)' <=> Deleting(p)
          /\ Leaving(p)' <=> Leaving(p)
          /\ Posted(p)' <=> Posted(p)
          /\ M!At(p, "trim")' <=> M!At(p, "trim")
      BY <3>1 DEF Storing, Deleting, Leaving, Posted, M!At
    <3>3. multicasts' = multicasts /\ M!Existing' = M!Existing /\ contended' = contended /\ devices' = devices
      BY <1>1, <1>15
    <3>4. ((Storing(p)' /\ req'[p].kind = "update") \/ Deleting(p)') /\ req'[p].id \notin contended' =>
            /\ req'[p].id \in M!Existing'
            /\ multicasts'[req'[p].id].group = IF Posted(p)' THEN None ELSE req'[p].was.group
      BY <2>1, <3>1, <3>2, <3>3
    <3>5. \A x \in req'[p].todo : Leaving(p)' /\ x[1] \notin contended' =>
            /\ M!At(p, "trim")' /\ x[1] \in M!Existing'
            /\ multicasts'[x[1]].devices \subseteq x[2].devices
            /\ x[2].devices \cap devices' \subseteq multicasts'[x[1]].devices
      BY <2>1, <3>1, <3>2, <3>3
    <3>6. /\ \A x \in req'[p].in : x[1] \in contended'
          /\ \A x \in req'[p].out : x[1] \in contended' \/ x[2] = req'[p].id
      BY <2>1, <3>1, <3>3
    <3> QED  BY <3>4, <3>5, <3>6
  <2>3. CASE p = r
    <3>1. \A x \in td : x[1] \in contended'
      BY <1>1, <1>10, <1>11, <2>1, <2>3
    <3>2. ASSUME NEW y \in i PROVE y[1] \in contended'
      <4>1. PICK x \in req[r].todo : y[1] = x[1] /\ y[2] \in M!Kept(r, x) \ M!DevicesOf(x[1])
        BY <1>5 DEF i
      <4>2. y[2] \in devices
        BY <1>1
      <4>3. y[2] \in x[2].devices /\ (x[1] \in M!Existing => y[2] \notin multicasts[x[1]].devices)
        BY <4>1 DEF M!Kept, M!DevicesOf
      <4> QED  BY <1>1, <1>11, <2>1, <2>3, <4>1, <4>2, <4>3
    <3>3. ASSUME NEW y \in o PROVE y[1] \in contended' \/ y[2] = req'[r].id
      <4>1. PICK x \in req[r].todo : y[1] = x[1] /\ y[2] \in M!DevicesOf(x[1]) \ M!Kept(r, x)
        BY <1>6 DEF o
      <4>2. /\ x[1] \in M!Existing => y[2] \in multicasts[x[1]].devices
            /\ x[1] \in M!Existing
            /\ y[2] \notin x[2].devices \/ y[2] = req[r].id
        BY <4>1 DEF M!Kept, M!DevicesOf
      <4> QED  BY <1>1, <1>9, <1>11, <2>1, <2>3, <4>1, <4>2
    <3> QED  BY <1>9, <1>12, <2>3, <3>1, <3>2, <3>3
  <2> QED  BY <2>2, <2>3
<1>22. GroupThere'
  <2>1. /\ \A p \in Caller : req'[p].id = req[p].id /\ req'[p].was = req[p].was
        /\ \A p \in Caller : M!At(p, "dbDelete")' <=> M!At(p, "dbDelete")
        /\ \A p \in Caller : Posted(p)' <=> Posted(p)
    BY <1>13
  <2>2. multicasts' = multicasts /\ groups' = groups /\ application' = application
        /\ contended' = contended /\ hurt' = hurt
    BY <1>1
  <2>3. ASSUME NEW m \in M!Existing' \ (contended' \cup hurt'), multicasts'[m].group \notin {None} \cup hurt'
        PROVE  \/ groups'[multicasts'[m].group] # None
               \/ \E p \in Caller : M!At(p, "dbDelete")' /\ req'[p].id = m /\ req'[p].was.devices # {}
                                      /\ req'[p].was.group = multicasts'[m].group
    <3>1. \/ groups[multicasts[m].group] # None
          \/ \E p \in Caller : M!At(p, "dbDelete") /\ req[p].id = m /\ req[p].was.devices # {}
                                 /\ req[p].was.group = multicasts[m].group
      BY <1>2, <1>15, <2>2, <2>3 DEF GroupThere
    <3> QED  BY <2>1, <2>2, <3>1
  <2>4. \A p \in Caller : M!At(p, "dbDelete")' /\ req'[p].was.devices # {} =>
          req'[p].was.group # None /\ groups'[req'[p].was.group] = None
    BY <1>2, <2>1, <2>2 DEF GroupThere
  <2>5. \A p \in Caller : Posted(p)' => groups'[p] # None \/ ~application'
    BY <1>2, <2>1, <2>2 DEF GroupThere
  <2> QED  BY <2>3, <2>4, <2>5 DEF GroupThere
<1>23. GroupKnown'
  BY <1>1, <1>2, <1>13, <1>15, GroupKnownStays
<1>24. MembersKnown'
  <2>1. ASSUME NEW p \in Caller, Posted(p)', groups'[p] # None
        PROVE  req'[p].devs \cap devices' = Joined(p)' \cap devices'
    <3>1. Joined(p)' = Joined(p)
      BY <1>1 DEF Joined
    <3> QED  BY <1>1, <1>2, <1>13, <2>1, <3>1 DEF MembersKnown
  <2>2. ASSUME NEW m \in M!Existing' \ (contended' \cup hurt'),
               multicasts'[m].group \notin {None} \cup hurt' \cup changed',
               groups'[multicasts'[m].group] # None
        PROVE  multicasts'[m].devices \cap devices' = Joined(multicasts[m].group)' \cap devices'
    <3>1. Joined(multicasts[m].group)' = Joined(multicasts[m].group)
      BY <1>1 DEF Joined
    <3>2. /\ m \in M!Existing \ (contended \cup hurt)
          /\ multicasts[m].group \notin {None} \cup hurt \cup changed
          /\ groups[multicasts[m].group] # None
      BY <1>1, <1>15, <2>2
    <3>3. multicasts[m].devices \cap devices = Joined(multicasts[m].group) \cap devices
      BY <1>2, <3>2 DEF MembersKnown
    <3> QED  BY <1>1, <3>1, <3>3
  <2> QED  BY <2>1, <2>2 DEF MembersKnown
<1>25. QueueKnown'
  BY <1>1, <1>2, <1>13, QueueKnownStays
<1> QED  BY <1>16, <1>17, <1>18, <1>19, <1>20, <1>21, <1>22, <1>23, <1>24, <1>25 DEF MulticastsInv

-----------------------------------------------------------------------------
(* The device leaves ChirpStack, with its queue and its places in groups.  *)
LEMMA DeviceDeleted ==
    ASSUME MulticastsInv, NEW r \in Caller, M!DeleteDeviceInChirpstack(r)
    PROVE  MulticastsInv'
<1> DEFINE d == req[r].id
<1>1. /\ M!At(r, "csDelete") /\ req[r].kind = "deleteDevice" /\ d \in devices
      /\ M!Goto(r, "commit")
      /\ devices' = devices \ {d}
      /\ groups' = [g \in M!Id |-> IF groups[g] = None THEN None
                                   ELSE [groups[g] EXCEPT !.members = @ \ {d}]]
      /\ queue' = [queue EXCEPT ![d] = {}]
      /\ UNCHANGED <<application, multicasts, adding>>
      /\ UNCHANGED <<contended, hurt, changed, emptied, raced>> /\ faults' = faults
  BY DEF M!DeleteDeviceInChirpstack, M!Quiet, M!history
<1>2. /\ M!TypeOK /\ Forms /\ NotYet /\ OneWorker /\ Referred /\ Grouped /\ RowStays /\ GroupThere
      /\ GroupKnown /\ AppGone /\ MembersKnown /\ M!OneApplication /\ QueueKnown /\ Form(r)
  BY DEF MulticastsInv, Forms
<1>3. "commit" \in ReqStage /\ "dbDelete" \in ReqStage
  BY DEF ReqStage
<1>4. groups \in [M!Id -> M!Group \cup {None}] /\ queue \in [M!Target -> SUBSET Caller] /\ devices \subseteq Device
      /\ d \in M!Target /\ application
  BY <1>1, <1>2, MulticastConstants DEF M!TypeOK, AppGone
<1>5. \A g \in M!Id : groups[g] # None => groups[g] \in M!Group /\ groups[g].members \subseteq Device
  BY <1>2, RequestsTyped DEF M!Group
<1>6. groups' = [g \in M!Id |-> IF groups[g] = None THEN None
                                ELSE WithMembers(groups[g], groups[g].members \ {d})]
  <2>1. \A g \in M!Id : groups[g] # None =>
          [groups[g] EXCEPT !.members = @ \ {d}] = WithMembers(groups[g], groups[g].members \ {d})
    BY <1>5 DEF WithMembers, M!Group
  <2> QED  BY <1>1, <2>1
<1>7. /\ groups' \in [M!Id -> M!Group \cup {None}]
      /\ \A g \in M!Id : /\ groups'[g] = None <=> groups[g] = None
                         /\ groups[g] # None => groups'[g].app = groups[g].app
                         /\ groups[g] # None => groups'[g].members = groups[g].members \ {d}
  <2>1. \A g \in M!Id : groups[g] # None =>
          LET w == WithMembers(groups[g], groups[g].members \ {d}) IN
          w \in M!Group /\ w # None /\ w.members = groups[g].members \ {d} /\ w.app = groups[g].app
    BY <1>5, MembersChanged
  <2> QED  BY <1>6, <2>1
<1>8. /\ queue' \in [M!Target -> SUBSET Caller] /\ \A t \in M!Target : queue'[t] \subseteq queue[t]
  BY <1>1, <1>4
<1>9. /\ req' \in [Caller -> M!Req]
      /\ req'[r].stage = "commit" /\ req'[r].kind = req[r].kind /\ req'[r].id = req[r].id
      /\ req'[r].devs = req[r].devs /\ req'[r].was = req[r].was
      /\ req'[r].todo = req[r].todo /\ req'[r].out = req[r].out /\ req'[r].in = req[r].in
      /\ \A p \in Caller \ {r} : req'[p] = req[p]
  BY <1>1, <1>2, <1>3, Moves
<1>10. /\ Leaving(r) /\ M!Busy(r) /\ ~Storing(r) /\ ~Deleting(r) /\ ~Sending(r) /\ ~Wiping(r) /\ ~Over(r)
       /\ ~Posted(r) /\ req[r].id \in Device /\ req[r].was.group = None /\ ~M!At(r, "trim")
       /\ ~M!At(r, "dbDelete")
  <2>1. /\ ~Storing(r) /\ M!Busy(r) /\ ~Sending(r) /\ ~Deleting(r) /\ ~Wiping(r) /\ ~Over(r) /\ Leaving(r)
        /\ ~M!At(r, "save") /\ ~M!At(r, "dbDelete") /\ ~M!At(r, "trim")
    BY <1>1 DEF Storing, M!Busy, M!At, Deleting, Leaving, Sending, Wiping, Over
  <2> QED  BY <1>2, <2>1 DEF Form, M!At
<1>11. /\ Leaving(r)' /\ M!Busy(r)' /\ ~Storing(r)' /\ ~Deleting(r)' /\ ~Sending(r)' /\ ~Wiping(r)' /\ ~Over(r)'
       /\ ~Posted(r)' /\ ~M!At(r, "dbDelete")' /\ ~Fresh(r)' /\ ~M!At(r, "enqueue")'
  BY <1>1, <1>9, <1>10 DEF Leaving, Storing, M!Busy, M!At, Deleting, Sending, Wiping, Over, Fresh, Posted
<1> HIDE DEF d
<1>12. /\ \A p \in Caller : Kept(p)
       /\ \A p \in Caller : Posted(p)' <=> Posted(p)
  BY <1>1, <1>2, <1>3, <1>10, <1>11, MovesKept
<1>13. /\ \A p \in Caller : Leaving(p)' => Leaving(p) /\ (M!At(p, "trim") => M!At(p, "trim")')
       /\ \A p \in Caller : M!At(p, "dbDelete")' <=> M!At(p, "dbDelete")
       /\ \A p \in Caller : Sending(p)' => Sending(p) /\ req'[p].id = req[p].id
       /\ \A p \in Caller : M!At(p, "enqueue")' => req'[p].id = req[p].id /\ M!At(p, "enqueue")
  BY <1>9, <1>10, <1>11 DEF Leaving, M!At, Sending
<1>14. M!Existing' = M!Existing /\ \A m \in M!Existing : multicasts[m].group \in M!Id \cup {None}
  BY <1>1, <1>2, RequestsTyped DEF M!Existing
<1>15. \A p \in Caller : p \in M!Id /\ req[p].was.group \in M!Id \cup {None}
  BY <1>2, RequestsTyped, MulticastConstants
<1>16. M!TypeOK'
  BY <1>1, <1>2, <1>7, <1>8, <1>9 DEF M!TypeOK
<1>17. Forms'
  <2>1. ASSUME NEW p \in Caller PROVE Form(p)'
    <3>1. CASE p = r
      <4>1. req'[r].id \notin devices' /\ application'
        BY <1>1, <1>4, <1>9 DEF d
      <4> QED  BY <1>9, <1>10, <1>11, <3>1, <4>1 DEF Form, M!At
    <3>2. CASE p # r
      <4>1. Form(p) /\ devices' \subseteq devices /\ application'
        BY <1>1, <1>2, <1>4 DEF Forms
      <4> QED  BY <1>9, <3>2, <4>1, FormStays
    <3> QED  BY <3>1, <3>2
  <2> QED  BY <2>1 DEF Forms
<1>18. NotYet' /\ OneWorker'
  BY <1>1, <1>2, <1>12, NotYetStays, OneWorkerStays
<1>19. Referred'
  BY <1>1, <1>2, <1>7, <1>12, <1>14, <1>15, ReferredStays
<1>20. Grouped' /\ AppGone'
  BY <1>1, <1>2, <1>4, <1>14 DEF Grouped, AppGone
<1>21. RowStays'
  <2>1. devices' \subseteq devices /\ contended \subseteq contended' /\ application
    BY <1>1, <1>4
  <2> QED  BY <1>1, <1>2, <1>12, <1>13, <1>14, <2>1, RowStaysStays
<1>22. GroupThere'
  <2>1. ASSUME NEW p \in Caller, M!At(p, "dbDelete")', groups[req[p].was.group] = None, req[p].was.group # None
        PROVE  groups'[req[p].was.group] = None
    BY <1>7, <1>15, <2>1
  <2>2. \A p \in Caller : M!At(p, "dbDelete") /\ req[p].was.devices # {} => req[p].was.group # None
    BY <1>2 DEF GroupThere
  <2>3. ASSUME NEW p \in Caller, M!At(p, "dbDelete")', req'[p].was.devices # {}
        PROVE  req'[p].was.group # None /\ groups'[req'[p].was.group] = None
    <3>1. M!At(p, "dbDelete") /\ req'[p].was = req[p].was
      BY <1>12, <1>13, <2>3 DEF Kept
    <3>2. groups[req[p].was.group] = None /\ req[p].was.group # None
      BY <1>2, <2>3, <3>1 DEF GroupThere
    <3> QED  BY <2>1, <2>3, <3>1, <3>2
  <2>4. ASSUME NEW m \in M!Existing' \ (contended' \cup hurt'), multicasts'[m].group \notin {None} \cup hurt'
        PROVE  \/ groups'[multicasts'[m].group] # None
               \/ \E p \in Caller : M!At(p, "dbDelete")' /\ req'[p].id = m /\ req'[p].was.devices # {}
                                      /\ req'[p].was.group = multicasts'[m].group
    <3>1. multicasts[m].group \in M!Id
      BY <1>1, <1>14, <2>4
    <3>2. \/ groups[multicasts[m].group] # None
          \/ \E p \in Caller : M!At(p, "dbDelete") /\ req[p].id = m /\ req[p].was.devices # {}
                                 /\ req[p].was.group = multicasts[m].group
      BY <1>1, <1>2, <1>14, <2>4 DEF GroupThere
    <3>3. \A p \in Caller : req'[p].id = req[p].id /\ req'[p].was = req[p].was
      BY <1>12 DEF Kept
    <3> QED  BY <1>1, <1>7, <1>13, <3>1, <3>2, <3>3
  <2>5. \A p \in Caller : Posted(p)' => groups'[p] # None \/ ~application'
    BY <1>1, <1>2, <1>7, <1>12, <1>15 DEF GroupThere
  <2> QED  BY <2>3, <2>4, <2>5 DEF GroupThere
<1>23. GroupKnown'
  BY <1>1, <1>2, <1>7, <1>12, <1>14, GroupKnownStays
<1>24. MembersKnown'
  <2>1. \A g \in M!Id : groups'[g] # None =>
           groups[g] # None /\ Joined(g)' \cap devices' = Joined(g) \cap devices'
    <3> SUFFICES ASSUME NEW g \in M!Id, groups'[g] # None
                 PROVE  groups[g] # None /\ Joined(g)' \cap devices' = Joined(g) \cap devices'
      OBVIOUS
    <3>1. groups[g] # None /\ groups'[g].members = groups[g].members \ {d}
      BY <1>7
    <3>2. Joined(g)' \cap devices' = Joined(g) \cap devices'
      BY <1>1, <3>1 DEF Joined
    <3> QED  BY <3>1, <3>2
  <2>2. devices' \subseteq devices
    BY <1>1
  <2> QED  BY <1>1, <1>2, <1>12, <1>14, <2>1, <2>2, MembersKnownStays
<1>25. M!OneApplication'
  <2>1. \A g \in M!Id : groups'[g] # None => /\ groups[g] # None /\ groups'[g].app = groups[g].app
                                             /\ groups'[g].members \subseteq Joined(g)
    BY <1>7 DEF Joined
  <2> QED  BY <1>1, <1>2, <2>1, OneApplicationStays
<1>26. QueueKnown'
  BY <1>1, <1>2, <1>8, <1>13, QueueKnownStays
<1> QED  BY <1>16, <1>17, <1>18, <1>19, <1>20, <1>21, <1>22, <1>23, <1>24, <1>25, <1>26 DEF MulticastsInv

(* What the multicasts are when a device's deletion commits: nobody but    *)
(* this request works on those that change by more than the device.        *)
LEMMA RowsCommitted ==
    ASSUME MulticastsInv, NEW r \in Caller, M!CommitDeleteDevice(r)
    PROVE  /\ multicasts' \in [M!Id -> M!Row \cup {None}]
           /\ M!Existing \subseteq M!Existing'
           /\ \A n \in M!Existing' \ M!Existing : multicasts'[n].group = None /\ n \in contended
                                                  /\ n \in M!Works(req[r]) /\ ~multicasts'[n].app
           /\ \A n \in M!Existing : /\ multicasts'[n].group = multicasts[n].group
                                    /\ multicasts'[n].app <=> multicasts[n].app
           /\ \A n \in M!Existing \ contended :
                  multicasts'[n].devices = multicasts[n].devices \ {req[r].id}
           /\ \A n \in M!Existing \ M!Works(req[r]) :
                  multicasts'[n].devices = multicasts[n].devices \ {req[r].id}
<1> DEFINE nd(m) == (({d \in M!DevicesOf(m) : <<m, d>> \notin req[r].out}
                               \cup {d \in Device : <<m, d>> \in req[r].in}) \ {req[r].id})
           ng(m) == IF m \in M!Existing THEN multicasts[m].group ELSE None
           na(m) == m \in M!MulticastsOfApp
<1>1. /\ M!At(r, "commit")
      /\ multicasts' = [m \in M!Id |->
           IF m \notin M!Existing /\ \A x \in req[r].todo : x[1] # m THEN None
           ELSE [devices |-> nd(m), group |-> ng(m), app |-> na(m)]]
  BY DEF M!CommitDeleteDevice
<1>2. M!TypeOK /\ RowStays /\ Form(r)
  BY DEF MulticastsInv, Forms
<1>3. application /\ Leaving(r) /\ ~M!At(r, "trim")
  <2>1. /\ ~Storing(r) /\ ~Sending(r) /\ ~Deleting(r) /\ ~Wiping(r) /\ ~Over(r) /\ ~M!At(r, "trim")
    BY <1>1 DEF Storing, M!At, Deleting, Sending, Wiping, Over
  <2> QED  BY <1>1, <1>2, <2>1 DEF Form
<1>4. /\ \A x \in req[r].todo : x[1] \in contended
      /\ \A x \in req[r].in : x[1] \in contended
      /\ \A x \in req[r].out : x[1] \in contended \/ x[2] = req[r].id
  BY <1>2, <1>3 DEF RowStays
<1>5. \A m \in M!Id : nd(m) \in SUBSET Device /\ ng(m) \in M!Id \cup {None}
  <2> SUFFICES ASSUME NEW m \in M!Id PROVE nd(m) \in SUBSET Device /\ ng(m) \in M!Id \cup {None}
    OBVIOUS
  <2>1. M!DevicesOf(m) \subseteq Device
    BY <1>2, RequestsTyped DEF M!DevicesOf
  <2>2. ng(m) \in M!Id \cup {None}
    BY <1>2, RequestsTyped
  <2> QED  BY <2>1, <2>2
<1>6. \A m \in M!Id : na(m) \in BOOLEAN
  OBVIOUS
<1>7. \A n \in M!Existing \ contended : nd(n) = multicasts[n].devices \ {req[r].id}
  <2> SUFFICES ASSUME NEW n \in M!Existing \ contended PROVE nd(n) = multicasts[n].devices \ {req[r].id}
    OBVIOUS
  <2>1. \A d : <<n, d>> \notin req[r].in /\ (<<n, d>> \in req[r].out => d = req[r].id)
    BY <1>4
  <2>2. M!DevicesOf(n) = multicasts[n].devices
    BY DEF M!DevicesOf
  <2> QED  BY <2>1, <2>2
<1>8. \A n \in M!Existing \ M!Works(req[r]) : nd(n) = multicasts[n].devices \ {req[r].id}
  <2> SUFFICES ASSUME NEW n \in M!Existing \ M!Works(req[r]) PROVE nd(n) = multicasts[n].devices \ {req[r].id}
    OBVIOUS
  <2>1. \A x \in req[r].out \cup req[r].in : x[1] # n
    BY DEF M!Works
  <2>2. \A d : <<n, d>> \notin req[r].in /\ <<n, d>> \notin req[r].out
    BY <2>1
  <2>3. M!DevicesOf(n) = multicasts[n].devices
    BY DEF M!DevicesOf
  <2> QED  BY <2>2, <2>3
<1>9. \A m \in M!Existing : ng(m) = multicasts[m].group
  OBVIOUS
<1>10. \A m \in M!Existing : na(m) <=> multicasts[m].app
  BY DEF M!MulticastsOfApp
<1>11. \A m \in M!Id \ M!Existing : ng(m) = None /\ ~na(m)
  BY DEF M!MulticastsOfApp
<1> HIDE DEF nd, ng, na
<1>12. ASSUME NEW D \in SUBSET Device, NEW K \in M!Id \cup {None}, NEW A \in BOOLEAN, NEW w,
              w = [devices |-> D, group |-> K, app |-> A]
       PROVE  w \in M!Row /\ w # None /\ w.devices = D /\ w.group = K
  <2>1. w \in M!Row /\ w.devices = D /\ w.group = K
    BY <1>12 DEF M!Row
  <2> QED  BY <2>1, RowsAreNotNone
<1>13. ASSUME NEW D, NEW K, NEW A \in BOOLEAN, NEW w, w = [devices |-> D, group |-> K, app |-> A]
       PROVE  w.app <=> A
  BY <1>13
<1>14. ASSUME NEW m \in M!Id, m \in M!Existing \/ \E x \in req[r].todo : x[1] = m
       PROVE  /\ multicasts'[m] \in M!Row /\ multicasts'[m] # None
              /\ multicasts'[m].devices = nd(m) /\ multicasts'[m].group = ng(m)
              /\ multicasts'[m].app <=> na(m)
  <2>1. multicasts'[m] = [devices |-> nd(m), group |-> ng(m), app |-> na(m)]
    BY <1>1, <1>14
  <2>2. multicasts'[m] \in M!Row /\ multicasts'[m] # None
        /\ multicasts'[m].devices = nd(m) /\ multicasts'[m].group = ng(m)
    BY <1>5, <1>6, <1>12, <2>1
  <2>3. multicasts'[m].app <=> na(m)
    BY <1>6, <1>13, <2>1
  <2> QED  BY <2>2, <2>3
<1>15. \A m \in M!Id : ~(m \in M!Existing \/ \E x \in req[r].todo : x[1] = m) => multicasts'[m] = None
  BY <1>1
<1>16. multicasts' \in [M!Id -> M!Row \cup {None}]
  <2>1. \A m \in M!Id : multicasts'[m] \in M!Row \cup {None}
    BY <1>14, <1>15
  <2> QED  BY <1>1, <2>1
<1>17. M!Existing \subseteq M!Id /\ M!Existing \subseteq M!Existing'
  BY <1>14 DEF M!Existing
<1>18. \A n \in M!Existing' \ M!Existing : n \in M!Id /\ \E x \in req[r].todo : x[1] = n
  BY <1>15 DEF M!Existing
<1>19. \A n \in M!Existing' \ M!Existing : n \in contended /\ n \in M!Works(req[r])
                                           /\ multicasts'[n].group = None /\ ~multicasts'[n].app
  <2> SUFFICES ASSUME NEW n \in M!Existing' \ M!Existing
               PROVE  n \in contended /\ n \in M!Works(req[r])
                      /\ multicasts'[n].group = None /\ ~multicasts'[n].app
    OBVIOUS
  <2>1. PICK x \in req[r].todo : x[1] = n /\ n \in M!Id
    BY <1>18
  <2>2. n \in contended /\ n \in M!Works(req[r])
    BY <1>4, <2>1 DEF M!Works
  <2> QED  BY <1>11, <1>14, <2>1, <2>2
<1> QED  BY <1>7, <1>8, <1>9, <1>10, <1>14, <1>16, <1>17, <1>19

(* The deletion of a device commits: no multicast has it any more.         *)
LEMMA DeletionCommitted ==
    ASSUME MulticastsInv, NEW r \in Caller, M!CommitDeleteDevice(r)
    PROVE  MulticastsInv'
<1>1. /\ M!At(r, "commit") /\ M!Answer(r, "done")
      /\ UNCHANGED <<application, devices, groups, adding, queue>>
      /\ UNCHANGED <<contended, hurt, changed, emptied, raced, faults>>
  BY DEF M!CommitDeleteDevice, M!Quiet, M!history
<1>2. /\ M!TypeOK /\ Forms /\ NotYet /\ OneWorker /\ Referred /\ Grouped /\ RowStays /\ GroupThere
      /\ GroupKnown /\ AppGone /\ MembersKnown /\ M!OneApplication /\ QueueKnown /\ Form(r)
  BY DEF MulticastsInv, Forms
<1>3. /\ Ended(r) /\ req' \in [Caller -> M!Req]
      /\ \A p \in Caller \ {r} : req'[p] = req[p]
      /\ \A p \in Caller : Kept(p) \/ Ended(p)
      /\ \A p \in Caller : Posted(p)' <=> (Posted(p) /\ p # r)
      /\ \A p \in Caller : M!Busy(p)' => p # r /\ M!Busy(p)
      /\ \A p \in Caller : Sending(p)' => p # r /\ Sending(p)
      /\ \A p \in Caller : Leaving(p)' => p # r
      /\ \A p \in Caller : M!At(p, "dbDelete")' <=> M!At(p, "dbDelete") /\ p # r
      /\ \A p \in Caller : M!At(p, "enqueue")' <=> M!At(p, "enqueue") /\ p # r
  BY <1>1, <1>2, AnswerEnds
<1>4. /\ Leaving(r) /\ M!Busy(r) /\ ~Posted(r) /\ ~Unborn(r) /\ req[r].kind = "deleteDevice"
      /\ req[r].id \notin devices /\ application /\ ~M!At(r, "dbDelete")
  <2>1. /\ ~Storing(r) /\ M!Busy(r) /\ ~Deleting(r) /\ ~Sending(r) /\ ~Wiping(r) /\ ~Over(r) /\ ~Unborn(r)
        /\ ~M!At(r, "save") /\ ~M!At(r, "dbDelete")
    BY <1>1 DEF Storing, M!Busy, M!At, Deleting, Sending, Wiping, Over, Unborn
  <2>2. Leaving(r) /\ ~Posted(r) /\ req[r].id \notin devices /\ application
    BY <1>1, <1>2, <2>1 DEF Form, M!At
  <2> QED  BY <2>1, <2>2 DEF Leaving
<1>5. /\ multicasts' \in [M!Id -> M!Row \cup {None}]
      /\ M!Existing \subseteq M!Existing'
      /\ \A n \in M!Existing' \ M!Existing : multicasts'[n].group = None /\ n \in contended
                                             /\ n \in M!Works(req[r]) /\ ~multicasts'[n].app
      /\ \A n \in M!Existing : /\ multicasts'[n].group = multicasts[n].group
                               /\ multicasts'[n].app <=> multicasts[n].app
      /\ \A n \in M!Existing \ contended :
             multicasts'[n].devices = multicasts[n].devices \ {req[r].id}
  BY RowsCommitted
<1>6. \A n \in M!Existing : n \in M!Id /\ multicasts[n].group \in M!Id \cup {None}
  BY <1>2, RequestsTyped
<1>7. \A n \in M!Existing' : multicasts'[n].group = None
                             \/ (n \in M!Existing /\ multicasts'[n].group = multicasts[n].group)
  BY <1>5
<1>8. M!TypeOK'
  BY <1>1, <1>2, <1>3, <1>5 DEF M!TypeOK
<1>9. Forms'
  <2>1. (\E p \in Caller \ {r} : M!At(p, "commit")) => application'
    BY <1>1, <1>2 DEF Forms, Form
  <2> QED  BY <1>1, <1>2, <2>1, AnswerForms
<1>10. NotYet' /\ OneWorker'
  <2>1. ASSUME NEW p \in Caller, Unborn(p), multicasts[p] = None PROVE multicasts'[p] = None
    <3>1. p # r /\ p \in M!Id /\ p \notin M!Existing
      BY <1>4, <2>1, MulticastConstants DEF M!Existing
    <3>2. p \notin M!Works(req[r])
      BY <1>2, <1>4, <2>1, <3>1 DEF NotYet
    <3>3. p \notin M!Existing'
      BY <1>5, <3>1, <3>2
    <3> QED  BY <3>1, <3>3 DEF M!Existing
  <2> QED  BY <1>1, <1>2, <1>3, <2>1, NotYetStays, OneWorkerStays
<1>11. Referred'
  BY <1>1, <1>2, <1>3, <1>7, ReferredStays
<1>12. Grouped'
  <2> SUFFICES ASSUME NEW n \in M!Existing'
               PROVE  /\ ~multicasts'[n].app => multicasts'[n].group = None
                      /\ n \notin contended' /\ multicasts'[n].devices # {} => multicasts'[n].group # None
    BY DEF Grouped
  <2>1. CASE n \in M!Existing
    <3>1. ~multicasts'[n].app => multicasts'[n].group = None
      BY <1>2, <1>5, <2>1 DEF Grouped
    <3>2. n \notin contended' /\ multicasts'[n].devices # {} => multicasts'[n].group # None
      BY <1>1, <1>2, <1>5, <2>1 DEF Grouped
    <3> QED  BY <3>1, <3>2
  <2>2. CASE n \notin M!Existing
    BY <1>1, <1>5, <2>2
  <2> QED  BY <2>1, <2>2
<1>13. RowStays'
  <2>1. ASSUME NEW p \in Caller, M!Busy(p)', NEW n \in M!Works(req[p]) \ contended', n \in M!Existing
        PROVE  /\ n \in M!Existing' /\ multicasts'[n].group = multicasts[n].group
               /\ multicasts'[n].devices \subseteq multicasts[n].devices
               /\ multicasts[n].devices \cap devices' \subseteq multicasts'[n].devices
    BY <1>1, <1>4, <1>5, <2>1
  <2>2. \A p \in Caller : Leaving(p)' => Leaving(p) /\ (M!At(p, "trim") => M!At(p, "trim")')
    BY <1>3 DEF Leaving, M!At
  <2> QED  BY <1>1, <1>2, <1>3, <2>1, <2>2, RowStaysStays
<1>14. GroupThere'
  <2>1. \A p \in Caller \ {r} : M!At(p, "dbDelete") => M!At(p, "dbDelete")' /\ Kept(p)
    BY <1>3, SameKept
  <2> QED  BY <1>1, <1>2, <1>3, <1>4, <1>7, <2>1, GroupThereStays
<1>15. GroupKnown'
  <2>1. \A p \in Caller : Posted(p) => Posted(p)'
    BY <1>3, <1>4
  <2>2. \A n \in M!Existing : n \in M!Existing' /\ multicasts'[n].group = multicasts[n].group
    BY <1>5
  <2> QED  BY <1>1, <1>2, <2>1, <2>2, GroupKnownStays
<1>16. AppGone' /\ M!OneApplication'
  BY <1>1, <1>2, <1>4 DEF AppGone, M!OneApplication
<1>17. MembersKnown'
  <2>1. \A h \in M!Id : Joined(h)' = Joined(h)
    BY <1>1 DEF Joined
  <2>2. ASSUME NEW n \in M!Existing' \ (contended' \cup hurt')
        PROVE  \/ multicasts'[n].group \in {None} \cup hurt' \cup changed'
               \/ /\ n \in M!Existing /\ multicasts'[n].group = multicasts[n].group
                  /\ multicasts'[n].group \in M!Id
                  /\ multicasts'[n].devices \cap devices' = multicasts[n].devices \cap devices'
    <3>1. n \in M!Existing \ contended
      BY <1>1, <1>5, <2>2
    <3>2. multicasts'[n].devices \cap devices' = multicasts[n].devices \cap devices'
      BY <1>1, <1>4, <1>5, <3>1
    <3> QED  BY <1>5, <1>6, <3>1, <3>2
  <2> QED  BY <1>1, <1>2, <1>3, <2>1, <2>2, MembersKnownStays
<1>18. QueueKnown'
  BY <1>1, <1>2, <1>3, QueueKnownStays
<1> QED  BY <1>8, <1>9, <1>10, <1>11, <1>12, <1>13, <1>14, <1>15, <1>16, <1>17, <1>18 DEF MulticastsInv

-----------------------------------------------------------------------------
(* The group of a multicast of the application is deleted; both are hurt   *)
(* until the application is gone.                                          *)
LEMMA GroupWiped ==
    ASSUME MulticastsInv, NEW r \in Caller, NEW m \in M!Id, M!WipeGroup(r, m)
    PROVE  MulticastsInv'
<1> DEFINE g == multicasts[m].group
           td == {x \in req[r].todo : x[1] # m}
<1>1. /\ M!At(r, "wipe") /\ M!Linked(m)
      /\ groups' = [groups EXCEPT ![g] = None] /\ queue' = [queue EXCEPT ![g] = {}]
      /\ req' = [req EXCEPT ![r].todo = {x \in @ : x[1] # m}]
      /\ hurt' = hurt \cup {m, g}
      /\ UNCHANGED <<application, devices, multicasts, adding>>
      /\ UNCHANGED <<contended, changed, emptied, raced, faults>>
  BY DEF M!WipeGroup
<1>2. /\ M!TypeOK /\ Forms /\ NotYet /\ OneWorker /\ Referred /\ Grouped /\ RowStays /\ GroupThere
      /\ GroupKnown /\ AppGone /\ MembersKnown /\ M!OneApplication /\ QueueKnown
  BY DEF MulticastsInv
<1>3. m \in M!Existing /\ g \in M!Id /\ g \in M!Target /\ g # None
  BY <1>1, <1>2, RequestsTyped, MulticastConstants DEF M!Linked, M!GroupThere
<1>4. /\ groups' \in [M!Id -> M!Group \cup {None}] /\ queue' \in [M!Target -> SUBSET Caller]
      /\ groups'[g] = None /\ \A h \in M!Id \ {g} : groups'[h] = groups[h]
      /\ \A t \in M!Target : queue'[t] \subseteq queue[t]
  BY <1>1, <1>2, <1>3 DEF M!TypeOK
<1>5. /\ req \in [Caller -> M!Req] /\ req[r] \in M!Req
      /\ td \in SUBSET (M!Id \X M!Row) /\ td \subseteq req[r].todo
  BY <1>2, RequestsTyped DEF M!TypeOK
<1>6. req' = [req EXCEPT ![r] = WithTodo(req[r], td)]
  BY <1>1, <1>5 DEF WithTodo, M!Req
<1> HIDE DEF td
<1>7. /\ req' \in [Caller -> M!Req]
      /\ req'[r].stage = req[r].stage /\ req'[r].kind = req[r].kind /\ req'[r].id = req[r].id
      /\ req'[r].devs = req[r].devs /\ req'[r].was = req[r].was
      /\ req'[r].todo = td /\ req'[r].out = req[r].out /\ req'[r].in = req[r].in
      /\ \A p \in Caller \ {r} : req'[p] = req[p]
  BY <1>5, <1>6, FilledRequest DEF SameButTodo
<1> HIDE DEF g
<1>8. \A p \in Caller :
         /\ req'[p].stage = req[p].stage /\ req'[p].kind = req[p].kind /\ req'[p].id = req[p].id
         /\ req'[p].devs = req[p].devs /\ req'[p].was = req[p].was
         /\ req'[p].todo \subseteq req[p].todo /\ req'[p].out = req[p].out /\ req'[p].in = req[p].in
  BY <1>5, <1>7
<1>9. \A p \in Caller : /\ Kept(p) /\ (Posted(p)' <=> Posted(p)) /\ (Sending(p)' <=> Sending(p))
                        /\ (Leaving(p)' <=> Leaving(p)) /\ (M!At(p, "dbDelete")' <=> M!At(p, "dbDelete"))
                        /\ (M!At(p, "trim")' <=> M!At(p, "trim")) /\ (M!At(p, "enqueue")' <=> M!At(p, "enqueue"))
  BY <1>8 DEF Kept, Posted, Sending, Leaving, M!At, M!Busy, Fresh, Storing, Deleting
<1>10. M!Existing' = M!Existing /\ \A n \in M!Existing : multicasts[n].group \in M!Id \cup {None}
  BY <1>1, <1>2, RequestsTyped DEF M!Existing
<1>11. M!TypeOK'
  BY <1>1, <1>2, <1>3, <1>4, <1>7 DEF M!TypeOK
<1>12. Forms'
  <2>1. ASSUME NEW p \in Caller PROVE Form(p)'
    <3>1. Form(p) /\ (M!At(p, "commit") => application)
      BY <1>2 DEF Forms, Form
    <3>2. CASE p = r
      <4>1. /\ Wiping(r) /\ ~Leaving(r) /\ ~Storing(r) /\ ~Deleting(r) /\ ~Sending(r) /\ ~Over(r)
            /\ req[r].was.group = None /\ req[r].out = {} /\ req[r].in = {}
        <5>1. ~Leaving(r) /\ ~Storing(r) /\ ~Deleting(r) /\ ~Sending(r) /\ ~Over(r)
          BY <1>1 DEF Leaving, Storing, Deleting, Sending, Over, M!At
        <5> QED  BY <3>1, <3>2, <5>1 DEF Form
      <4>2. /\ Wiping(r)' /\ ~Leaving(r)' /\ ~Storing(r)' /\ ~Deleting(r)' /\ ~Sending(r)' /\ ~Over(r)'
        BY <1>8, <4>1 DEF Leaving, Storing, Deleting, Sending, Over, Wiping
      <4>3. ~Posted(r)' /\ req'[r].was.group = None /\ req'[r].out = {} /\ req'[r].in = {}
        BY <1>8, <4>1, MulticastConstants DEF Posted
      <4> QED  BY <1>1, <1>8, <3>2, <4>2, <4>3 DEF Form, M!At
    <3>3. CASE p # r
      BY <1>1, <1>7, <3>1, <3>3, FormStays
    <3> QED  BY <3>2, <3>3
  <2> QED  BY <2>1 DEF Forms
<1>13. NotYet' /\ OneWorker'
  BY <1>1, <1>2, <1>9, NotYetStays, OneWorkerStays
<1>14. Referred'
  <2>1. \A h \in Caller : groups[h] = None => groups'[h] = None
    BY <1>4, MulticastConstants
  <2> QED  BY <1>1, <1>2, <1>9, <1>10, <2>1, ReferredStays
<1>15. Grouped' /\ AppGone'
  BY <1>1, <1>2, <1>10 DEF Grouped, AppGone
<1>16. RowStays'
  BY <1>1, <1>2, <1>9, <1>10, RowStaysStays
<1>17. GroupThere'
  <2>1. \A n \in M!Existing' \ (contended' \cup hurt') :
               \/ multicasts'[n].group \in {None} \cup hurt'
               \/ n \in M!Existing /\ multicasts'[n].group = multicasts[n].group
                  /\ (groups[multicasts[n].group] # None => groups'[multicasts[n].group] # None)
    BY <1>1, <1>4, <1>10
  <2>2. \A p \in Caller : req[p].was.group # None /\ groups[req[p].was.group] = None
                              => groups'[req[p].was.group] = None
    BY <1>2, <1>4, RequestsTyped
  <2>3. \A p \in Caller : Posted(p) => p # g /\ p \in M!Id
    BY <1>2, <1>3, MulticastConstants DEF Referred, g
  <2> QED  BY <1>1, <1>2, <1>4, <1>9, <2>1, <2>2, <2>3, GroupThereStays
<1>18. GroupKnown'
  BY <1>1, <1>2, <1>4, <1>9, <1>10, GroupKnownStays
<1>19. MembersKnown'
  <2>1. \A h \in M!Id : groups'[h] # None => groups[h] # None /\ Joined(h)' = Joined(h)
    BY <1>1, <1>4 DEF Joined
  <2> QED  BY <1>1, <1>2, <1>9, <1>10, <2>1, MembersKnownStays
<1>20. M!OneApplication'
  BY <1>1, <1>2, <1>4, OneApplicationStays DEF Joined
<1>21. QueueKnown'
  BY <1>1, <1>2, <1>4, <1>8, <1>9, QueueKnownStays
<1> QED  BY <1>11, <1>12, <1>13, <1>14, <1>15, <1>16, <1>17, <1>18, <1>19, <1>20, <1>21 DEF MulticastsInv

WithoutDevices(w) == [w EXCEPT !.devices = {}]

(* The application goes, with its devices, multicasts and groups.          *)
LEMMA ApplicationDropped ==
    ASSUME MulticastsInv, NEW r \in Caller, M!DropApplication(r)
    PROVE  MulticastsInv'
<1>1. /\ M!At(r, "wipe") /\ M!Dying = {} /\ M!Answer(r, "done")
      /\ application' = FALSE
      /\ multicasts' = [m \in M!Id |-> IF m \in M!Existing \ M!MulticastsOfApp
                                       THEN WithoutDevices(multicasts[m]) ELSE None]
      /\ devices' = {}
      /\ groups' = [g \in M!Id |-> None] /\ queue' = [t \in M!Target |-> {}]
      /\ adding' = adding
      /\ UNCHANGED <<contended, hurt, changed, emptied, raced, faults>>
  BY DEF M!DropApplication, M!Quiet, M!history, WithoutDevices
<1>2. /\ M!TypeOK /\ Forms /\ NotYet /\ OneWorker /\ Referred /\ Grouped /\ RowStays /\ GroupThere
      /\ GroupKnown /\ AppGone /\ MembersKnown /\ M!OneApplication /\ QueueKnown
  BY DEF MulticastsInv
<1>3. /\ Ended(r) /\ req' \in [Caller -> M!Req]
      /\ \A p \in Caller \ {r} : req'[p] = req[p]
      /\ \A p \in Caller : Kept(p) \/ Ended(p)
      /\ \A p \in Caller : Posted(p)' <=> (Posted(p) /\ p # r)
      /\ \A p \in Caller : M!Busy(p)' => p # r /\ M!Busy(p)
      /\ \A p \in Caller : Sending(p)' => p # r /\ Sending(p)
      /\ \A p \in Caller : Leaving(p)' => p # r
      /\ \A p \in Caller : M!At(p, "dbDelete")' <=> M!At(p, "dbDelete") /\ p # r
      /\ \A p \in Caller : M!At(p, "enqueue")' <=> M!At(p, "enqueue") /\ p # r
  BY <1>1, <1>2, AnswerEnds
<1>4. ASSUME NEW w \in M!Row
      PROVE  WithoutDevices(w) \in M!Row /\ WithoutDevices(w) # None
             /\ WithoutDevices(w).devices = {} /\ WithoutDevices(w).group = w.group
  <2>1. WithoutDevices(w) \in M!Row
    BY DEF WithoutDevices, M!Row
  <2>2. WithoutDevices(w).devices = {} /\ WithoutDevices(w).group = w.group
    BY DEF WithoutDevices, M!Row
  <2> QED  BY <2>1, <2>2, RowsAreNotNone
<1>5. \A m \in M!Existing \ M!MulticastsOfApp : m \in M!Id /\ multicasts[m] \in M!Row /\ multicasts[m].group = None
  BY <1>2, RequestsTyped DEF Grouped, M!MulticastsOfApp
<1>6. multicasts' \in [M!Id -> M!Row \cup {None}]
  <2>1. \A m \in M!Id : multicasts'[m] \in M!Row \cup {None}
    BY <1>1, <1>4, <1>5
  <2> QED  BY <1>1, <2>1
<1>7. \A m \in M!Existing' : m \in M!Existing /\ multicasts'[m].group = None /\ multicasts'[m].devices = {}
  <2> SUFFICES ASSUME NEW m \in M!Existing'
               PROVE  m \in M!Existing /\ multicasts'[m].group = None /\ multicasts'[m].devices = {}
    OBVIOUS
  <2>1. m \in M!Id /\ multicasts'[m] # None
    BY DEF M!Existing
  <2>2. m \in M!Existing \ M!MulticastsOfApp /\ multicasts'[m] = WithoutDevices(multicasts[m])
    BY <1>1, <2>1
  <2> QED  BY <1>4, <1>5, <2>2
<1>8. \A h \in M!Id : groups'[h] = None
  BY <1>1
<1>9. ~M!At(r, "dbDelete") /\ ~application'
  BY <1>1 DEF M!At
<1>10. M!TypeOK'
  BY <1>1, <1>2, <1>3, <1>6 DEF M!TypeOK
<1>11. Forms'
  <2>1. ASSUME NEW p \in Caller, M!At(p, "commit") PROVE FALSE
    <3>1. ~Storing(p) /\ ~Deleting(p) /\ ~Sending(p) /\ ~Wiping(p) /\ ~Over(p)
      BY <2>1 DEF Storing, Deleting, Sending, Wiping, Over, M!At
    <3>2. req[p].kind = "deleteDevice"
      BY <1>2, <3>1 DEF Forms, Form, Leaving
    <3>3. req[p].id \in M!Dying
      BY <2>1, <3>2 DEF M!Dying, M!At
    <3> QED  BY <1>1, <3>3
  <2>2. devices' \subseteq devices
    BY <1>1
  <2> QED  BY <1>1, <1>2, <2>1, <2>2, AnswerForms
<1>12. NotYet' /\ OneWorker'
  <2>1. ASSUME NEW p \in Caller, multicasts[p] = None PROVE multicasts'[p] = None
    <3>1. p \in M!Id /\ p \notin M!Existing
      BY <2>1, MulticastConstants DEF M!Existing
    <3> QED  BY <1>1, <3>1
  <2> QED  BY <1>1, <1>2, <1>3, <2>1, NotYetStays, OneWorkerStays
<1>13. Referred'
  <2>1. \A h \in Caller : groups'[h] = None
    BY <1>8, MulticastConstants
  <2> QED  BY <1>1, <1>2, <1>3, <1>7, <2>1, ReferredStays
<1>14. Grouped' /\ AppGone'
  BY <1>1, <1>7 DEF Grouped, AppGone
<1>15. RowStays'
  BY <1>9 DEF RowStays
<1>16. GroupThere'
  <2>1. ASSUME NEW p \in Caller, M!At(p, "dbDelete")', req'[p].was.devices # {}
        PROVE  req'[p].was.group # None /\ groups'[req'[p].was.group] = None
    <3>1. M!At(p, "dbDelete") /\ req'[p] = req[p]
      BY <1>3, <2>1
    <3>2. req[p].was.group # None /\ req[p].was.group \in M!Id \cup {None}
      BY <1>2, <2>1, <3>1, RequestsTyped DEF GroupThere
    <3> QED  BY <1>8, <3>1, <3>2
  <2> QED  BY <1>7, <1>9, <2>1 DEF GroupThere
<1>17. GroupKnown'
  BY <1>8 DEF GroupKnown
<1>18. MembersKnown'
  <2>1. \A p \in Caller : groups'[p] = None
    BY <1>8, MulticastConstants
  <2> QED  BY <1>7, <2>1 DEF MembersKnown
<1>19. M!OneApplication'
  BY <1>8 DEF M!OneApplication
<1>20. QueueKnown'
  <2>1. \A t \in M!Target : queue'[t] = {}
    BY <1>1
  <2> QED  BY <1>1, <1>2, <1>3, <2>1, QueueKnownStays
<1> QED  BY <1>10, <1>11, <1>12, <1>13, <1>14, <1>15, <1>16, <1>17, <1>18, <1>19, <1>20 DEF MulticastsInv

-----------------------------------------------------------------------------
(* What a request leaves halfway: the row and the group it worked on.      *)
LEMMA LeftHalfway ==
    ASSUME MulticastsInv, NEW r \in Caller
    PROVE  /\ M!Halfway(r) \subseteq M!Id
           /\ Posted(r) => r \in M!Halfway(r)
           /\ M!At(r, "dbDelete") /\ req[r].was.devices # {} => req[r].id \in M!Halfway(r)
<1>1. Form(r)
  BY DEF MulticastsInv, Forms
<1>2. Posted(r) => M!At(r, "save")
  BY <1>1 DEF Form, M!At
<1>3. M!At(r, "save") => req[r].id \in M!Id
  BY <1>1 DEF Form, Storing, Deleting, Leaving, Sending, Wiping, Over, M!At
<1>4. M!At(r, "dbDelete") => req[r].id \in M!Id /\ ~M!At(r, "save")
  BY <1>1 DEF Form, Storing, Deleting, Leaving, Sending, Wiping, Over, M!At
<1>5. r \in M!Id
  BY MulticastConstants
<1>6. CASE Posted(r)
  <2>1. M!At(r, "save") /\ ~M!At(r, "dbDelete") /\ M!Halfway(r) = {r, req[r].id}
    BY <1>2, <1>6 DEF M!Halfway, Posted, M!At
  <2> QED  BY <1>3, <1>5, <2>1
<1>7. CASE ~Posted(r)
  <2>1. M!Halfway(r) \subseteq M!Id
    <3> DEFINE all == UNION {{m, multicasts[m].group} : m \in M!Existing}
    <3>1. \/ M!Halfway(r) = {req[r].id, req[r].was.group} \cap M!Id
          \/ M!Halfway(r) = M!Id \cap all
          \/ M!Halfway(r) = {}
      BY <1>7 DEF M!Halfway, Posted
    <3> HIDE DEF all
    <3> QED  BY <3>1
  <2>2. M!At(r, "dbDelete") /\ req[r].was.devices # {}
          => M!Halfway(r) = {req[r].id, req[r].was.group} \cap M!Id
    BY <1>7 DEF M!Halfway, Posted, M!At
  <2> QED  BY <1>4, <1>7, <2>1, <2>2
<1> QED  BY <1>6, <1>7

(* A request is answered with an error: nothing but what it has left       *)
(* halfway has changed.                                                    *)
LEMMA RequestAborted ==
    ASSUME MulticastsInv, NEW r \in Caller, M!Abort(r), faults' \in 0..MaxFaults
    PROVE  MulticastsInv'
<1>1. /\ M!Answer(r, "failed") /\ hurt' = hurt \cup M!Halfway(r)
      /\ UNCHANGED <<application, devices, multicasts, groups, adding, queue>>
      /\ UNCHANGED <<contended, changed, emptied, raced>>
  BY DEF M!Abort, M!stores
<1>2. /\ M!TypeOK /\ Forms /\ NotYet /\ OneWorker /\ Referred /\ Grouped /\ RowStays /\ GroupThere
      /\ GroupKnown /\ AppGone /\ MembersKnown /\ M!OneApplication /\ QueueKnown
  BY DEF MulticastsInv
<1>3. /\ Ended(r) /\ req' \in [Caller -> M!Req]
      /\ \A p \in Caller \ {r} : req'[p] = req[p]
      /\ \A p \in Caller : Kept(p) \/ Ended(p)
      /\ \A p \in Caller : Posted(p)' <=> (Posted(p) /\ p # r)
      /\ \A p \in Caller : M!Busy(p)' => p # r /\ M!Busy(p)
      /\ \A p \in Caller : Sending(p)' => p # r /\ Sending(p)
      /\ \A p \in Caller : Leaving(p)' => p # r
      /\ \A p \in Caller : M!At(p, "dbDelete")' <=> M!At(p, "dbDelete") /\ p # r
      /\ \A p \in Caller : M!At(p, "enqueue")' <=> M!At(p, "enqueue") /\ p # r
  BY <1>1, <1>2, AnswerEnds
<1>4. /\ M!Halfway(r) \subseteq M!Id
      /\ Posted(r) => r \in hurt'
      /\ M!At(r, "dbDelete") /\ req[r].was.devices # {} => req[r].id \in hurt'
  BY <1>1, LeftHalfway
<1>5. M!Existing' = M!Existing
  BY <1>1 DEF M!Existing
<1>6. \A m \in M!Existing : multicasts[m].group \in M!Id \cup {None}
  BY <1>2, RequestsTyped
<1>7. M!TypeOK'
  BY <1>1, <1>2, <1>3, <1>4 DEF M!TypeOK
<1>8. Forms'
  <2>1. (\E p \in Caller \ {r} : M!At(p, "commit")) => application'
    BY <1>1, <1>2 DEF Forms, Form
  <2> QED  BY <1>1, <1>2, <2>1, AnswerForms
<1>9. NotYet' /\ OneWorker'
  BY <1>1, <1>2, <1>3, NotYetStays, OneWorkerStays
<1>10. Referred'
  BY <1>1, <1>2, <1>3, <1>5, ReferredStays
<1>11. Grouped' /\ AppGone' /\ M!OneApplication'
  BY <1>1, <1>2, <1>5 DEF Grouped, AppGone, M!OneApplication
<1>12. RowStays'
  <2>1. \A p \in Caller : Leaving(p)' => Leaving(p) /\ (M!At(p, "trim") => M!At(p, "trim")')
    BY <1>3 DEF Leaving, M!At
  <2> QED  BY <1>1, <1>2, <1>3, <1>5, <2>1, RowStaysStays
<1>13. GroupThere'
  <2>1. \A p \in Caller \ {r} : M!At(p, "dbDelete") => M!At(p, "dbDelete")' /\ Kept(p)
    BY <1>3, SameKept
  <2> QED  BY <1>1, <1>2, <1>3, <1>4, <1>5, <2>1, GroupThereStays
<1>14. GroupKnown'
  <2>1. \A p \in Caller : Posted(p) => Posted(p)' \/ p \in hurt'
    BY <1>3, <1>4
  <2> QED  BY <1>1, <1>2, <1>5, <2>1, GroupKnownStays
<1>15. MembersKnown'
  <2>1. \A h \in M!Id : Joined(h)' = Joined(h)
    BY <1>1 DEF Joined
  <2> QED  BY <1>1, <1>2, <1>3, <1>5, <1>6, <2>1, MembersKnownStays
<1>16. QueueKnown'
  BY <1>1, <1>2, <1>3, QueueKnownStays
<1> QED  BY <1>7, <1>8, <1>9, <1>10, <1>11, <1>12, <1>13, <1>14, <1>15, <1>16 DEF MulticastsInv

(* The process ends: all its requests are gone, and the devices under way. *)
LEMMA ProcessEnded ==
    ASSUME MulticastsInv, M!ProcessEnds, faults' \in 0..MaxFaults
    PROVE  MulticastsInv'
<1> DEFINE halves == UNION {M!Halfway(r) : r \in Caller}
           arriving == {x[2] : x \in adding}
<1>1. /\ hurt' = hurt \cup arriving \cup halves
      /\ req' = [r \in Caller |-> IF M!Busy(r) THEN M!NewReq(req[r].kind, "failed", None) ELSE req[r]]
      /\ adding' = {}
      /\ UNCHANGED <<application, devices, multicasts, groups, queue>>
      /\ UNCHANGED <<contended, changed, emptied, raced>>
  BY DEF M!ProcessEnds
<1>2. /\ M!TypeOK /\ Forms /\ NotYet /\ OneWorker /\ Referred /\ Grouped /\ RowStays /\ GroupThere
      /\ GroupKnown /\ AppGone /\ MembersKnown /\ M!OneApplication /\ QueueKnown
  BY DEF MulticastsInv
<1>3. ASSUME NEW p \in Caller, M!Busy(p)
      PROVE  Ended(p) /\ req'[p] \in M!Req
  <2>1. req'[p] = M!NewReq(req[p].kind, "failed", None)
    BY <1>1, <1>3
  <2>2. req[p].kind \in ReqKind /\ "failed" \in ReqStage /\ None \in M!Target \cup {None}
    BY <1>2 DEF M!TypeOK, M!Req, ReqKind, ReqStage
  <2> QED  BY <2>1, <2>2, NewRequests DEF Ended
<1>4. ASSUME NEW p \in Caller, ~M!Busy(p)
      PROVE  req'[p] = req[p] /\ Kept(p) /\ ~M!Busy(p)' /\ req'[p] \in M!Req /\ Over(p)
  <2>1. req'[p] = req[p] /\ req[p] \in M!Req
    BY <1>1, <1>2, <1>4 DEF M!TypeOK
  <2> QED  BY <1>4, <2>1, SameKept DEF M!Busy, Over
<1>5. req' \in [Caller -> M!Req]
  <2>1. \A p \in Caller : req'[p] \in M!Req
    BY <1>3, <1>4
  <2> QED  BY <1>1, <2>1
<1>6. \A p \in Caller : /\ Kept(p) \/ Ended(p)
                        /\ ~M!Busy(p)' /\ ~Sending(p)' /\ ~Leaving(p)'
                        /\ ~M!At(p, "dbDelete")' /\ ~M!At(p, "enqueue")'
  <2> SUFFICES ASSUME NEW p \in Caller
               PROVE  /\ Kept(p) \/ Ended(p)
                      /\ ~M!Busy(p)' /\ ~Sending(p)' /\ ~Leaving(p)'
                      /\ ~M!At(p, "dbDelete")' /\ ~M!At(p, "enqueue")'
    OBVIOUS
  <2>1. (Kept(p) \/ Ended(p)) /\ ~M!Busy(p)'
    BY <1>3, <1>4, WorksKept
  <2> QED  BY <2>1 DEF M!Busy, Sending, Leaving, M!At
<1>7. \A p \in Caller : ~Posted(p)'
  <2> SUFFICES ASSUME NEW p \in Caller, Posted(p)' PROVE FALSE
    OBVIOUS
  <2>1. ~Ended(p)
    BY MulticastConstants DEF Posted, Ended
  <2>2. Over(p) /\ Posted(p) /\ Form(p)
    BY <1>2, <1>3, <1>4, <2>1 DEF Posted, Forms
  <2> QED  BY <2>2 DEF Form, Over
<1>8. /\ hurt \subseteq hurt' /\ hurt' \subseteq M!Id /\ \A x \in adding : x[2] \in hurt'
      /\ \A p \in Caller : Posted(p) => p \in hurt'
      /\ \A p \in Caller : M!At(p, "dbDelete") /\ req[p].was.devices # {} => req[p].id \in hurt'
  <2>1. halves \subseteq M!Id /\ \A p \in Caller : M!Halfway(p) \subseteq halves
    <3>1. \A p \in Caller : M!Halfway(p) \subseteq M!Id
      BY LeftHalfway
    <3> QED  BY <3>1
  <2>2. arriving \subseteq M!Id /\ \A x \in adding : x[2] \in arriving
    <3>1. \A x \in adding : x[2] \in M!Id
      BY <1>2 DEF M!TypeOK
    <3> QED  BY <3>1
  <2>3. hurt \subseteq M!Id
    BY <1>2 DEF M!TypeOK
  <2> HIDE DEF halves, arriving
  <2>4. hurt' = hurt \cup arriving \cup halves
    BY <1>1
  <2>5. \A p \in Caller : M!Halfway(p) \subseteq hurt'
    BY <2>1, <2>4
  <2>6. hurt \subseteq hurt' /\ hurt' \subseteq M!Id /\ \A x \in adding : x[2] \in hurt'
    BY <2>1, <2>2, <2>3, <2>4
  <2> QED  BY <2>5, <2>6, LeftHalfway
<1>9. M!Existing' = M!Existing /\ \A m \in M!Existing : multicasts[m].group \in M!Id \cup {None}
  BY <1>1, <1>2, RequestsTyped DEF M!Existing
<1>10. M!TypeOK'
  BY <1>1, <1>2, <1>5, <1>8 DEF M!TypeOK
<1>11. Forms'
  <2>1. ASSUME NEW p \in Caller PROVE Form(p)'
    <3>1. CASE M!Busy(p)
      BY <1>3, <3>1, EndedForm
    <3>2. CASE ~M!Busy(p)
      <4>1. Form(p) /\ req'[p] = req[p] /\ ~M!At(p, "commit")
        BY <1>2, <1>4, <3>2 DEF Forms, M!Busy, M!At
      <4> QED  BY <1>1, <4>1, FormStays
    <3> QED  BY <3>1, <3>2
  <2> QED  BY <2>1 DEF Forms
<1>12. NotYet' /\ OneWorker'
  BY <1>1, <1>2, <1>6, NotYetStays, OneWorkerStays
<1>13. Referred'
  BY <1>1, <1>2, <1>6, <1>9, ReferredStays
<1>14. Grouped' /\ AppGone'
  BY <1>1, <1>2, <1>9 DEF Grouped, AppGone
<1>15. RowStays'
  BY <1>1, <1>2, <1>6, RowStaysStays
<1>16. GroupThere'
  BY <1>1, <1>2, <1>6, <1>7, <1>8, <1>9, GroupThereStays
<1>17. GroupKnown'
  BY <1>1, <1>2, <1>8, <1>9, GroupKnownStays
<1>18. MembersKnown'
  <2>1. ASSUME NEW g \in M!Id \ hurt' PROVE Joined(g)' = Joined(g)
    <3>1. \A x \in adding : x[2] # g
      BY <1>8
    <3> QED  BY <1>1, <3>1 DEF Joined
  <2> QED  BY <1>1, <1>2, <1>6, <1>7, <1>8, <1>9, <2>1, MembersKnownStays
<1>19. M!OneApplication'
  BY <1>1, <1>2 DEF M!OneApplication
<1>20. QueueKnown'
  BY <1>1, <1>2, <1>6, QueueKnownStays
<1> QED  BY <1>10, <1>11, <1>12, <1>13, <1>14, <1>15, <1>16, <1>17, <1>18, <1>19, <1>20 DEF MulticastsInv

-----------------------------------------------------------------------------
(* Other parts of the system leave the multicasts alone.                   *)
LEMMA MulticastsUntouched ==
    ASSUME MulticastsInv, UNCHANGED <<common, multicastVars>>
    PROVE  MulticastsInv'
<1>1. /\ UNCHANGED <<application, devices, multicasts, groups, adding, queue>> /\ req' = req
      /\ UNCHANGED <<contended, hurt, changed, emptied, raced, faults>>
  BY DEF common, multicastVars
<1>2. /\ M!TypeOK /\ Forms /\ NotYet /\ OneWorker /\ Referred /\ Grouped /\ RowStays /\ GroupThere
      /\ GroupKnown /\ AppGone /\ MembersKnown /\ M!OneApplication /\ QueueKnown
  BY DEF MulticastsInv
<1>3. "dbDelete" \in ReqStage /\ "enqueue" \in ReqStage /\ "trim" \in ReqStage
  BY DEF ReqStage
<1>4. M!Existing' = M!Existing /\ \A m \in M!Existing : multicasts[m].group \in M!Id \cup {None}
  BY <1>1, <1>2, RequestsTyped DEF M!Existing
<1>5. M!TypeOK'
  BY <1>1, <1>2 DEF M!TypeOK
<1>6. Forms'
  <2>1. ASSUME NEW p \in Caller PROVE Form(p)'
    <3>1. Form(p) /\ (M!At(p, "commit") => application)
      BY <1>2 DEF Forms, Form
    <3> QED  BY <1>1, <3>1, FormStays
  <2> QED  BY <2>1 DEF Forms
<1>7. NotYet' /\ OneWorker'
  BY <1>1, <1>2, RequestsStay, NotYetStays, OneWorkerStays
<1>8. Referred'
  BY <1>1, <1>2, <1>4, RequestsStay, ReferredStays
<1>9. Grouped' /\ AppGone' /\ M!OneApplication'
  BY <1>1, <1>2, <1>4 DEF Grouped, AppGone, M!OneApplication
<1>10. RowStays'
  BY <1>1, <1>2, <1>3, <1>4, RequestsStay, RowStaysStays
<1>11. GroupThere'
  BY <1>1, <1>2, <1>3, <1>4, RequestsStay, GroupThereStays
<1>12. GroupKnown'
  BY <1>1, <1>2, <1>4, RequestsStay, GroupKnownStays
<1>13. MembersKnown'
  <2>1. \A h \in M!Id : Joined(h)' = Joined(h)
    BY <1>1 DEF Joined
  <2> QED  BY <1>1, <1>2, <1>4, <2>1, RequestsStay, MembersKnownStays
<1>14. QueueKnown'
  BY <1>1, <1>2, <1>3, RequestsStay, QueueKnownStays
<1> QED  BY <1>5, <1>6, <1>7, <1>8, <1>9, <1>10, <1>11, <1>12, <1>13, <1>14 DEF MulticastsInv

(* Every step of the part preserves the invariant. *)
LEMMA MulticastsStep ==
    ASSUME MulticastsInv, M!Next \/ UNCHANGED <<common, multicastVars>>
    PROVE  MulticastsInv'
<1>1. faults \in 0..MaxFaults /\ MaxFaults \in Nat
  BY MulticastConstants DEF MulticastsInv, M!TypeOK
<1>2. M!Fault => faults' \in 0..MaxFaults
  BY <1>1 DEF M!Fault
<1>3. ASSUME NEW r \in Caller, M!Store(r) PROVE MulticastsInv'
  BY <1>3, CreateBegins, UpdateBegins, StorePrepares, GroupPosted, RowSaved DEF M!Store
<1>4. ASSUME NEW r \in Caller, M!Delete(r) PROVE MulticastsInv'
  <2>1. CASE \E m \in M!Id : M!BeginDelete(r, m) \/ M!WipeGroup(r, m)
    BY <2>1, DeleteBegins, GroupWiped
  <2>2. CASE \E d \in Device : M!BeginDeleteDevice(r, d)
    BY <2>2, DeleteDeviceBegins
  <2>3. CASE M!DeleteGroup(r) \/ M!DeleteRow(r) \/ M!TrimMulticasts(r)
    BY <2>3, GroupDeleted, RowDeleted, MulticastsTrimmed
  <2>4. CASE M!DeleteDeviceInChirpstack(r) \/ M!CommitDeleteDevice(r)
    BY <2>4, DeviceDeleted, DeletionCommitted
  <2>5. CASE M!BeginDeleteApp(r) \/ M!DropApplication(r)
    BY <2>5, DeleteAppBegins, ApplicationDropped
  <2> QED  BY <1>4, <2>1, <2>2, <2>3, <2>4, <2>5 DEF M!Delete
<1>5. ASSUME NEW r \in Caller, M!Downlink(r) PROVE MulticastsInv'
  BY <1>5, DownlinkBegins, QueueFlushed, Enqueued DEF M!Downlink
<1>6. ASSUME NEW r \in Caller, M!Refuse(r) \/ M!CallFails(r) PROVE MulticastsInv'
  <2>1. M!Abort(r) /\ faults' \in 0..MaxFaults
    BY <1>1, <1>2, <1>6 DEF M!Refuse, M!CallFails
  <2> QED  BY <2>1, RequestAborted
<1>7. ASSUME NEW d \in Device, NEW g \in M!Id, M!AddDevice(d, g) PROVE MulticastsInv'
  <2>1. CASE d \in devices /\ groups[g] # None
    BY <1>7, <2>1, DeviceAdded
  <2>2. CASE ~(d \in devices /\ groups[g] # None)
    <3>1. M!ProcessEnds /\ faults' \in 0..MaxFaults
      BY <1>1, <1>7, <2>2 DEF M!AddDevice
    <3> QED  BY <3>1, ProcessEnded
  <2> QED  BY <2>1, <2>2
<1>8. ASSUME M!AddFails \/ M!Crash PROVE MulticastsInv'
  <2>1. M!ProcessEnds /\ faults' \in 0..MaxFaults
    BY <1>2, <1>8 DEF M!AddFails, M!Crash
  <2> QED  BY <2>1, ProcessEnded
<1> QED  BY <1>3, <1>4, <1>5, <1>6, <1>7, <1>8, Transmitted, MulticastsUntouched DEF M!Next

(* The invariant holds where the part's behaviours are followed.           *)
LEMMA MulticastsAlways == Spec => [](on = "multicasts" => MulticastsInv)
<1>1. Init => (on = "multicasts" => MulticastsInv)
  BY MulticastsInit DEF Init
<1>2. (on = "multicasts" => MulticastsInv) /\ [Next]_vars => (on = "multicasts" => MulticastsInv)'
  <2> SUFFICES ASSUME on = "multicasts" => MulticastsInv, [Next]_vars, on' = "multicasts"
               PROVE  MulticastsInv'
    OBVIOUS
  <2> QED  BY PartSteps, MulticastsStep
<1> QED  BY <1>1, <1>2, PTL DEF Spec

(* The group of a multicast nobody works on is there, unless hurt.         *)
LEMMA TrustedGroup ==
    ASSUME MulticastsInv, NEW m \in M!Existing, M!Trusted(m), multicasts[m].group \notin {None} \cup hurt
    PROVE  groups[multicasts[m].group] # None
<1>1. m \notin contended \cup hurt /\ m \in M!Id
  BY DEF M!Trusted, M!Existing
<1>2. ASSUME NEW r \in Caller, M!At(r, "dbDelete"), req[r].id = m PROVE FALSE
  <2>1. M!Busy(r) /\ m \in M!Works(req[r])
    BY <1>1, <1>2 DEF M!Busy, M!At, M!Works
  <2> QED  BY <2>1 DEF M!Trusted, M!Idling
<1> QED  BY <1>1, <1>2 DEF MulticastsInv, GroupThere
-----------------------------------------------------------------------------
(* MulticastService keeps a multicast and its group in ChirpStack          *)
(* together, whatever requests of the API come and fail at whatever call:  *)
(* a multicast no request is working on, that no failure and no two        *)
(* requests at once have touched, has its group, and has it alone; and a   *)
(* group nobody refers to was left by one of these, or by the deletion of  *)
(* a multicast that had lost its devices.                                  *)
THEOREM GroupsAlwaysInStep == Spec => []GroupsInStep
<1>1. MulticastsInv => M!GroupsInStep
  <2> SUFFICES ASSUME MulticastsInv PROVE M!GroupsInStep
    OBVIOUS
  <2>1. ASSUME NEW m \in M!Existing, M!Trusted(m)
        PROVE  /\ multicasts[m].devices # {} => multicasts[m].group # None
               /\ \A n \in M!Existing : multicasts[n].group = multicasts[m].group /\ n # m => multicasts[m].group = None
    BY <2>1 DEF MulticastsInv, Grouped, Referred, M!Trusted
  <2>2. ASSUME NEW g \in M!Id, groups[g] # None
        PROVE  \/ \E m \in M!Existing : multicasts[m].group = g
               \/ g \in emptied \cup hurt
               \/ \E r \in Caller : M!Busy(r) /\ req[r].was.group = g
               \/ contended # {}
    <3>1. \A r \in Caller : Posted(r) => M!Busy(r)
      BY DEF MulticastsInv, Forms, Form, M!Busy
    <3> QED  BY <2>2, <3>1 DEF MulticastsInv, GroupKnown, Posted
  <2> QED  BY <2>1, <2>2, TrustedGroup DEF M!GroupsInStep
<1>2. (on = "multicasts" => MulticastsInv) => GroupsInStep
  BY <1>1 DEF GroupsInStep
<1> QED  BY <1>2, MulticastsAlways, PTL

(* The members of a group in ChirpStack, with the devices that addDevices  *)
(* still has under way, are the devices the row of its multicast has --    *)
(* unless an update gave it others, of which ChirpStack is not told.       *)
THEOREM MembersAlwaysFollow == Spec => []MembersFollow
<1>1. MulticastsInv => M!MembersFollow
  <2> SUFFICES ASSUME MulticastsInv, NEW m \in M!Existing, M!Trusted(m),
                      multicasts[m].group \notin {None} \cup hurt \cup changed
               PROVE  multicasts[m].devices \cap devices =
                        (groups[multicasts[m].group].members
                           \cup {x[1] : x \in {y \in adding : y[2] = multicasts[m].group}}) \cap devices
    BY DEF M!MembersFollow
  <2>1. groups[multicasts[m].group] # None
    BY TrustedGroup
  <2>2. multicasts[m].devices \cap devices = Joined(multicasts[m].group) \cap devices
    BY <2>1 DEF MulticastsInv, MembersKnown, M!Trusted
  <2> QED  BY <2>2 DEF Joined
<1>2. (on = "multicasts" => MulticastsInv) => MembersFollow
  BY <1>1 DEF MembersFollow
<1> QED  BY <1>2, MulticastsAlways, PTL

(* checkForDifferentAppID and validateNewDevicesAppID see to it that a     *)
(* group never has, and is never to get, a device of another application   *)
(* of ChirpStack, although the devices are added by calls nobody waits for *)
(* and requests overlap.                                                   *)
THEOREM AlwaysOneApplication == Spec => []OneApplication
<1>1. (on = "multicasts" => MulticastsInv) => OneApplication
  BY DEF MulticastsInv, OneApplication
<1> QED  BY <1>1, MulticastsAlways, PTL

(* overwriteDownlink leaves at most one downlink in the queue of a group   *)
(* or a device, unless two requests have ordered one at once.              *)
THEOREM QueueAlwaysOverwritten == Spec => []QueueOverwritten
<1>1. MulticastsInv => M!QueueOverwritten
  <2> SUFFICES ASSUME MulticastsInv, NEW t \in M!Target \ raced
               PROVE  Cardinality(queue[t]) <= 1
    BY DEF M!QueueOverwritten, M!Cardinality, Cardinality
  <2>1. \A a, b \in queue[t] : a = b
    BY DEF MulticastsInv, QueueKnown
  <2>2. CASE queue[t] = {}
    <3>1. Cardinality(queue[t]) = 0
      BY <2>2, FS_EmptySet
    <3> QED  BY <3>1
  <2>3. CASE queue[t] # {}
    <3>1. PICK a \in queue[t] : queue[t] = {a}
      BY <2>1, <2>3
    <3>2. Cardinality({a}) = 1
      BY FS_Singleton
    <3> QED  BY <3>1, <3>2
  <2> QED  BY <2>2, <2>3
<1>2. (on = "multicasts" => MulticastsInv) => QueueOverwritten
  BY <1>1 DEF QueueOverwritten
<1> QED  BY <1>2, MulticastsAlways, PTL

(* Every variable of every part of Network has its type at every moment.   *)
THEOREM NetworkTyped == Spec => []TypeOK
<1>1. Init => on \in {"gateways", "status", "multicasts"}
  BY DEF Init
<1>2. on \in {"gateways", "status", "multicasts"} /\ [Next]_vars
        => (on \in {"gateways", "status", "multicasts"})'
  BY PartSteps
<1>3. on \in {"gateways", "status", "multicasts"} /\ (on = "gateways" => GatewaysInv)
        /\ (on = "status" => StatusInv) /\ (on = "multicasts" => MulticastsInv) => TypeOK
  BY DEF TypeOK, GatewaysInv, StatusInv, MulticastsInv
<1> QED  BY <1>1, <1>2, <1>3, GatewaysAlways, StatusAlways, MulticastsAlways, PTL DEF Spec
=============================================================================
