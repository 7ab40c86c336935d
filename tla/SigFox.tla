-------------------------------- MODULE SigFox --------------------------------
(***************************************************************************)
(* SigFox devices: rows of the database that stand for devices at the      *)
(* SigFox backend, their downlinks, which a device fetches with the answer *)
(* to an uplink, the callback of a device type that brings the uplinks,    *)
(* and the job that deletes the rows of devices SigFox does not have any   *)
(* more.                                                                   *)
(*                                                                         *)
(* One action is one statement or one call of the SigFox API.  All API     *)
(* users see the same SigFox group.  Left out: names, positions, device    *)
(* types' own settings, and the answer's way back to SigFox.               *)
(***************************************************************************)
EXTENDS Naturals, FiniteSets

CONSTANTS
    Request,   \* requests to the API; also the ids of the rows they create
    OldRow,    \* a row there at the start
    SigFoxDevice, OldSigFoxDevice,   \* devices, and that of OldRow
    Type, OldType,   \* device types, and that of OldRow
    None,
    MaxFaults,     \* bound: failed calls and devices removed at SigFox, together
    MaxCallbacks   \* bound: OS2iot's callbacks of a device type

SigFoxAssumption ==
    /\ OldSigFoxDevice \in SigFoxDevice /\ OldRow \notin Request /\ OldType \in Type
    /\ None \notin Request \cup SigFoxDevice \cup Type \cup {OldRow}
    /\ MaxFaults \in Nat /\ MaxCallbacks \in Nat \ {0}

RowId == Request \cup {OldRow}

VARIABLES
    sigfoxRows,  \* the devices' rows
    backend,     \* the type each device has at SigFox
    callbacks,   \* how many callbacks to OS2iot a type has
    downlinkOn,  \* types whose downlinks are one of these callbacks'
    sf,          \* sf[r]: where request r is and what it has read
    cleanup,     \* the clean-up job
    answered,    \* history: downlinks and the uplinks they went out with
    replaced,    \* history: downlinks replaced by another
    overwritten, \* history: rows saved over a change the request had not read
    unchecked,   \* history: rows saved although SigFox had not accepted them
    missing,     \* history: rows whose device has not been at SigFox
    late,        \* history: rows saved for a device while the job was running
    cleaned,     \* history: rows deleted by the job that are not in `missing'
    twice,       \* history: types two requests looked for a callback of at once
    faults

stores == <<sigfoxRows, backend, callbacks, downlinkOn>>
history == <<answered, replaced, overwritten, unchecked, late, cleaned, twice>>
vars == <<stores, sf, cleanup, history, missing, faults>>

Row == [device : SigFoxDevice, type : Type, downlink : Request \cup {None, OldRow}, owned : BOOLEAN]
NoRow == [device |-> None, type |-> None, downlink |-> None, owned |-> FALSE]

Fresh == [kind |-> "none", stage |-> "new", id |-> None, read |-> NoRow, row |-> NoRow,
          type |-> None, ack |-> FALSE]
Resting == [stage |-> "idle", listed |-> FALSE, rows |-> {}, found |-> {}]

Kind == {"none", "create", "update", "downlink", "uplink"}
Stage == {"new", "post", "find", "transfer", "callbacks", "postCallback", "activate", "save",
          "saveDownlink", "kafka", "clear", "done", "failed"}
Wish == [kind : Kind, stage : Stage, id : RowId \cup {None}, read : Row \cup {NoRow}, row : Row \cup {NoRow},
         type : Type \cup {None}, ack : BOOLEAN]
Job == [stage : {"idle", "listing", "delete"}, listed : BOOLEAN,
        rows : SUBSET (RowId \X SigFoxDevice), found : SUBSET SigFoxDevice]

(* Every variable has its type. *)
TypeOK ==
    /\ sigfoxRows \in [RowId -> Row \cup {NoRow}]
    /\ backend \in [SigFoxDevice -> Type \cup {None}]
    /\ callbacks \in [Type -> 0..MaxCallbacks] /\ downlinkOn \subseteq Type
    /\ sf \in [Request -> Wish] /\ cleanup \in Job
    /\ answered \subseteq (Request \cup {OldRow}) \X Request /\ replaced \subseteq Request \cup {OldRow}
    /\ overwritten \subseteq RowId /\ unchecked \subseteq RowId /\ missing \subseteq RowId
    /\ late \subseteq RowId /\ cleaned \subseteq RowId
    /\ twice \subseteq Type
    /\ faults \in 0..MaxFaults

(* At the start: one row with a downlink waiting, whose device is at       *)
(* SigFox, and perhaps another device there; one group.                    *)
Init ==
    /\ \E others \in BOOLEAN :
         /\ sigfoxRows = [x \in RowId |-> IF x = OldRow
                            THEN [device |-> OldSigFoxDevice, type |-> OldType, downlink |-> OldRow, owned |-> TRUE]
                            ELSE NoRow]
         /\ backend = [d \in SigFoxDevice |-> IF d = OldSigFoxDevice \/ others THEN OldType ELSE None]
         /\ callbacks = [u \in Type |-> IF u = OldType THEN 1 ELSE 0]
         /\ downlinkOn = {OldType}
    /\ sf = [r \in Request |-> Fresh] /\ cleanup = Resting
    /\ answered = {} /\ replaced = {} /\ overwritten = {} /\ unchecked = {}
    /\ missing = {} /\ late = {} /\ cleaned = {} /\ twice = {}
    /\ faults = 0
-----------------------------------------------------------------------------
At(r, s) == sf[r].stage = s
Goto(r, s) == sf' = [sf EXCEPT ![r].stage = s]
Begin(r, q) == sf[r] = Fresh /\ sf' = [sf EXCEPT ![r] = q] /\ UNCHANGED <<stores, cleanup, history, faults>>
Working == {r \in Request : sf[r].stage \notin {"new", "done", "failed"}}
Ask(kind, stage, id) == [Fresh EXCEPT !.kind = kind, !.stage = stage, !.id = id]

(* A request that has ended; a property asks for the row of a downlink.    *)
End(r, s) ==
    sf' = [sf EXCEPT ![r] =
             IF @.kind \in {"downlink", "uplink"} THEN Ask(@.kind, s, @.id) ELSE [Fresh EXCEPT !.stage = s]]

(* Mutant of MapSigFoxDevice: on a new entity, without the downlink.       *)
MappedAnew(old, d, t) == [device |-> d, type |-> t, downlink |-> None, owned |-> TRUE]

(* mapSigFoxDevice: of the row as it was read.                             *)
MapSigFoxDevice(old, d, t) == [old EXCEPT !.device = d, !.type = t, !.owned = TRUE]

Way(existing) == IF existing THEN "find" ELSE "post"

CreateDevice(r, d, t, existing) ==
    Begin(r, [Ask("create", Way(existing), r)
                EXCEPT !.row = MapSigFoxDevice(NoRow, d, t), !.type = t])

UpdateDevice(r, x, d, t, existing) ==
    /\ sigfoxRows[x] # NoRow
    /\ Begin(r, [Ask("update", Way(existing), x)
                   EXCEPT !.read = sigfoxRows[x], !.row = MapSigFoxDevice(sigfoxRows[x], d, t), !.type = t])

(* A refusal, or an error: a create ends with it, an update saves the row  *)
(* as far as it has come (update does not look at the error).              *)
Refused(r) == IF sf[r].kind = "update" /\ ~At(r, "save") THEN Goto(r, "save") ELSE End(r, "failed")
Unaccepted(r) == unchecked' = IF sf[r].kind = "update" THEN unchecked \cup {sf[r].id} ELSE unchecked

(* createInSigfoxBackend *)
PostDevice(r) ==
    /\ At(r, "post")
    /\ LET d == sf[r].row.device IN
       IF backend[d] = None
       THEN /\ backend' = [backend EXCEPT ![d] = sf[r].row.type] /\ Goto(r, "callbacks")
            /\ UNCHANGED unchecked
       ELSE Refused(r) /\ Unaccepted(r) /\ UNCHANGED backend
    /\ UNCHANGED <<sigfoxRows, callbacks, downlinkOn, cleanup, answered, replaced, overwritten, late, cleaned, twice, faults>>

(* createOrUpdateSigFoxDevice of a device there already: the row gets the  *)
(* type it has, before that is changed.                                    *)
FindDevice(r) ==
    /\ At(r, "find")
    /\ LET t == backend[sf[r].row.device] IN
       IF t = None THEN Refused(r) /\ Unaccepted(r)
       ELSE /\ sf' = [sf EXCEPT ![r].row.type = t,
                                ![r].stage = IF sf[r].type = t THEN "callbacks" ELSE "transfer"]
            /\ UNCHANGED unchecked
    /\ UNCHANGED <<stores, cleanup, answered, replaced, overwritten, late, cleaned, twice,
                   faults>>

(* changeDeviceTypeIfNeeded *)
TransferDevice(r) ==
    /\ At(r, "transfer")
    /\ LET d == sf[r].row.device IN
       IF backend[d] # None
       THEN backend' = [backend EXCEPT ![d] = sf[r].type] /\ Goto(r, "callbacks") /\ UNCHANGED unchecked
       ELSE Refused(r) /\ Unaccepted(r) /\ UNCHANGED backend
    /\ UNCHANGED <<sigfoxRows, callbacks, downlinkOn, cleanup, answered, replaced, overwritten, late, cleaned, twice, faults>>
-----------------------------------------------------------------------------
(* Mutant of HasCallback: the one there is not recognized.                 *)
SeesNone(t) == FALSE

HasCallback(t) == callbacks[t] > 0

(* addOrUpdateCallback: the callbacks are read ...                         *)
GetCallbacks(r) ==
    /\ At(r, "callbacks")
    /\ Goto(r, IF HasCallback(sf[r].row.type) THEN "activate" ELSE "postCallback")
    /\ UNCHANGED <<stores, cleanup, history, faults>>

(* ... one is added if there is none ...                                   *)
AddCallback(r, t) ==
    /\ callbacks[t] < MaxCallbacks /\ callbacks' = [callbacks EXCEPT ![t] = @ + 1]
    /\ twice' = IF \E q \in Request \ {r} : At(q, "postCallback") /\ sf[q].row.type = t
                THEN twice \cup {t} ELSE twice

PostCallback(r) ==
    /\ At(r, "postCallback") /\ Goto(r, "activate") /\ AddCallback(r, sf[r].row.type)
    /\ UNCHANGED <<sigfoxRows, backend, downlinkOn, cleanup, answered, replaced, overwritten, unchecked,
                   late, cleaned, faults>>

(* ... and made the one for downlinks.                                     *)
ActivateDownlink(r) ==
    /\ At(r, "activate") /\ downlinkOn' = downlinkOn \cup {sf[r].row.type}
    /\ IF sf[r].kind = "downlink" THEN End(r, "done") ELSE Goto(r, "save")
    /\ UNCHANGED <<sigfoxRows, backend, callbacks, cleanup, history, faults>>

Written(r, row) ==
    LET x == sf[r].id IN
    /\ sigfoxRows' = [sigfoxRows EXCEPT ![x] = row]
    /\ overwritten' = IF sigfoxRows[x] = sf[r].read THEN overwritten ELSE overwritten \cup {x}
    /\ late' = IF cleanup.stage # "idle" /\ row.device # sigfoxRows[x].device THEN late \cup {x} ELSE late

(* create, update: the row is saved.                                       *)
SaveDevice(r) ==
    /\ At(r, "save") /\ Written(r, sf[r].row) /\ End(r, "done")
    /\ UNCHANGED <<backend, callbacks, downlinkOn, cleanup, answered, replaced, unchecked,
                   cleaned, twice, faults>>

(* IoTDeviceService.delete: SigFox is not told.                            *)
DeleteDevice(r, x) ==
    /\ sf[r] = Fresh /\ sigfoxRows[x] # NoRow
    /\ sf' = [sf EXCEPT ![r] = [Fresh EXCEPT !.stage = "done"]]
    /\ sigfoxRows' = [sigfoxRows EXCEPT ![x] = NoRow]
    /\ UNCHANGED <<backend, callbacks, downlinkOn, cleanup, history, faults>>
-----------------------------------------------------------------------------
(* createSigfoxDownlink: the row as read, with the payload ...             *)
CreateDownlink(r, x) ==
    /\ sigfoxRows[x] # NoRow
    /\ Begin(r, [Ask("downlink", "saveDownlink", x)
                   EXCEPT !.read = sigfoxRows[x], !.row = [sigfoxRows[x] EXCEPT !.downlink = r]])

(* ... is saved, and the callback seen to.                                 *)
SaveDownlink(r) ==
    /\ At(r, "saveDownlink") /\ Written(r, sf[r].row) /\ Goto(r, "callbacks")
    /\ replaced' = replaced \cup ({sigfoxRows[sf[r].id].downlink} \ {None})
    /\ UNCHANGED <<backend, callbacks, downlinkOn, cleanup, answered, unchecked, cleaned,
                   twice, faults>>

(* sigfoxCallback: a row of the device and of its type is found ...        *)
ReceiveUplink(r, d, x) ==
    /\ backend[d] # None /\ sigfoxRows[x].device = d /\ sigfoxRows[x].type = backend[d]
    /\ Begin(r, [Ask("uplink", "kafka", x) EXCEPT !.read = sigfoxRows[x], !.row = sigfoxRows[x]])

(* Mutant of ShouldSendDownlink: whatever the device is ready for.         *)
AlwaysReady(ack, row) == row.downlink # None

ShouldSendDownlink(ack, row) == ack /\ row.downlink # None

(* ... the message goes to Kafka ...                                       *)
SendToKafka(r, ack) ==
    /\ At(r, "kafka")
    /\ IF ShouldSendDownlink(ack, sf[r].row) THEN sf' = [sf EXCEPT ![r].stage = "clear", ![r].ack = ack]
       ELSE End(r, "done")
    /\ UNCHANGED <<stores, cleanup, history, faults>>

(* ... and the downlink is removed and answered with; a row that is gone   *)
(* comes back without its application.  A device that is not ready does    *)
(* not get the answer.                                                     *)
AnswerDownlink(r) ==
    /\ At(r, "clear") /\ End(r, "done")
    /\ Written(r, [sf[r].read EXCEPT !.downlink = None, !.owned = sigfoxRows[sf[r].id].owned])
    /\ answered' = IF sf[r].ack THEN answered \cup {<<sf[r].read.downlink, r>>} ELSE answered
    /\ UNCHANGED <<backend, callbacks, downlinkOn, cleanup, replaced, unchecked, cleaned,
                   twice, faults>>
-----------------------------------------------------------------------------
(* cleanupDevicesRemovedFromSigFoxBackend.  The query for the rows is      *)
(* under way while the groups are read and SigFox is asked; what it        *)
(* returns may be older or newer than SigFox's answer.                     *)
StartCleanup ==
    /\ cleanup = Resting
    /\ cleanup' = [Resting EXCEPT !.stage = "listing"]
    /\ UNCHANGED <<stores, sf, history, faults>>

FindAllSigFoxDevices ==
    /\ cleanup.stage # "idle" /\ ~cleanup.listed
    /\ cleanup' = [cleanup EXCEPT !.listed = TRUE,
                     !.rows = {<<x, sigfoxRows[x].device>> : x \in {x \in RowId : sigfoxRows[x] # NoRow}}]
    /\ UNCHANGED <<stores, sf, history, faults>>

Present == {d \in SigFoxDevice : backend[d] # None}

(* getDevicesInSigFoxBackend *)
ListBackend ==
    /\ cleanup.stage = "listing" /\ cleanup' = [cleanup EXCEPT !.stage = "delete", !.found = Present]
    /\ UNCHANGED <<stores, sf, history, faults>>

(* Mutant of ListFails: a group that does not answer has no devices.       *)
ListedAsEmpty == cleanup' = [cleanup EXCEPT !.stage = "delete", !.found = {}]

ListFails == cleanup' = Resting

ListBackendFails ==
    /\ cleanup.stage = "listing" /\ faults < MaxFaults /\ faults' = faults + 1
    /\ ListFails
    /\ UNCHANGED <<stores, sf, history>>

ToDelete == {x \in RowId : \E d \in SigFoxDevice \ cleanup.found : <<x, d>> \in cleanup.rows}

(* deleteMany, by the rows' ids.                                           *)
DeleteMissing ==
    /\ cleanup.stage = "delete" /\ cleanup.listed /\ cleanup' = Resting
    /\ LET gone == {x \in ToDelete : sigfoxRows[x] # NoRow} IN
       /\ sigfoxRows' = [x \in RowId |-> IF x \in gone THEN NoRow ELSE sigfoxRows[x]]
       /\ cleaned' = cleaned \cup (gone \ missing)
    /\ UNCHANGED <<backend, callbacks, downlinkOn, sf, answered, replaced, overwritten, unchecked, late, twice, faults>>

(* A device is removed at SigFox, by others.                               *)
RemoveAtSigFox(d) ==
    /\ faults < MaxFaults /\ faults' = faults + 1
    /\ backend[d] # None /\ backend' = [backend EXCEPT ![d] = None]
    /\ UNCHANGED <<sigfoxRows, callbacks, downlinkOn, sf, cleanup, history>>

(* Any call or statement may fail.                                         *)
Fail(r) ==
    /\ r \in Working /\ faults < MaxFaults /\ faults' = faults + 1
    /\ Refused(r) /\ Unaccepted(r)
    /\ UNCHANGED <<stores, cleanup, answered, replaced, overwritten, late, cleaned, twice>>

(* ... and may have done its work all the same (an edit is two calls, made *)
(* at once: the transfer goes on if the other fails).                      *)
AnswerLost(r) ==
    /\ r \in Working /\ faults < MaxFaults /\ faults' = faults + 1
    /\ Refused(r) /\ Unaccepted(r)
    /\ LET row == sf[r].row IN
       \/ /\ At(r, "post") /\ backend[row.device] = None
          /\ backend' = [backend EXCEPT ![row.device] = row.type] /\ UNCHANGED <<callbacks, twice>>
       \/ /\ At(r, "transfer") /\ backend[row.device] # None
          /\ backend' = [backend EXCEPT ![row.device] = sf[r].type] /\ UNCHANGED <<callbacks, twice>>
       \/ At(r, "postCallback") /\ AddCallback(r, row.type) /\ UNCHANGED backend
    /\ UNCHANGED <<sigfoxRows, downlinkOn, cleanup, answered, replaced, overwritten, late, cleaned>>

Step(r) ==
    \/ \E d \in SigFoxDevice, t \in Type, existing \in BOOLEAN :
         \/ CreateDevice(r, d, t, existing)
         \/ \E x \in RowId : UpdateDevice(r, x, d, t, existing)
    \/ \E x \in RowId : DeleteDevice(r, x) \/ CreateDownlink(r, x) \/ \E d \in SigFoxDevice : ReceiveUplink(r, d, x)
    \/ PostDevice(r) \/ FindDevice(r) \/ TransferDevice(r)
    \/ GetCallbacks(r) \/ PostCallback(r) \/ ActivateDownlink(r) \/ SaveDevice(r)
    \/ SaveDownlink(r) \/ \E ack \in BOOLEAN : SendToKafka(r, ack)
    \/ AnswerDownlink(r)
    \/ Fail(r) \/ AnswerLost(r)

(* Rows whose device is not at SigFox, now or at any time of the row.      *)
Unbacked == {x \in RowId : sigfoxRows[x] # NoRow /\ backend[sigfoxRows[x].device] = None}

Next ==
    /\ \/ \E r \in Request : Step(r)
       \/ StartCleanup \/ FindAllSigFoxDevices \/ ListBackend \/ ListBackendFails \/ DeleteMissing
       \/ \E d \in SigFoxDevice : RemoveAtSigFox(d)
    /\ missing' = missing \cup Unbacked'

Spec == Init /\ [][Next]_vars
-----------------------------------------------------------------------------
(* The job deletes no row of a device that has been at SigFox all the time *)
(* since the row was made, whatever fails and whatever is done meanwhile;  *)
(* except a row saved for the device while the job was running: the two    *)
(* lists are not of one moment.                                            *)
CleanedRightly == cleaned \subseteq late

Accepted == {r \in Request : sf[r].kind = "downlink" /\ sf[r].stage = "done"}

(* A downlink that was accepted waits in its row until it is answered      *)
(* with, replaced, or deleted with the row; it is answered with once.      *)
(* Only a save by a request that had read the row before another's change  *)
(* loses it or sends it again.                                             *)
DownlinksKept ==
    /\ \A r \in Accepted :
         LET x == sf[r].id IN
         \/ sigfoxRows[x].downlink = r \/ sigfoxRows[x] = NoRow
         \/ r \in replaced \/ x \in overwritten
         \/ \E q \in Request : <<r, q>> \in answered
    /\ \A a, b \in answered : a[1] = b[1] => a = b \/ sf[a[2]].id \in overwritten

Settled == {x \in RowId \ unchecked : sigfoxRows[x] # NoRow}

(* The type of a row that SigFox accepted has a callback, its downlinks    *)
(* come by it, and it has one callback, unless two requests found none at  *)
(* the same time.                                                          *)
OneCallback ==
    \A x \in Settled :
        LET t == sigfoxRows[x].type IN
        t \in downlinkOn /\ callbacks[t] > 0 /\ (callbacks[t] > 1 => t \in twice)
=============================================================================
