----------------------------- MODULE MqttClients -----------------------------
(***************************************************************************)
(* Devices on an external MQTT broker: InternalMqttClientListenerService   *)
(* keeps one mqtt.js client per device in clientDictionary; IoTDeviceService*)
(* creates, updates and deletes the devices and has clients made and ended.*)
(*                                                                         *)
(* One action is one stretch of JavaScript between two awaits, or one      *)
(* statement on the database.  A slot is a device object that was handed   *)
(* to createMQTTClients, with the client made for it: the "end" listener   *)
(* of the client keeps using that object, and so does the request that     *)
(* made it.                                                                *)
(***************************************************************************)
EXTENDS Naturals, FiniteSets

CONSTANTS
    Device,      \* device ids
    NoDevice,    \* a slot not used yet has none
    Slot,        \* device objects with their clients; bounds their number
    Config,      \* broker settings (URL, port, credentials, topic)
    NoTopic,     \* those whose topic is the empty string
    NoSlot,      \* clientDictionary has no entry
    NoRow,       \* iot_device has no row
    MaxCrashes   \* bound: process deaths from outside

Row == [cfg : Config, invalid : BOOLEAN]    \* the columns that matter here

ASSUME MqttAssumption ==
    /\ IsFiniteSet(Slot)
    /\ NoTopic \subseteq Config
    /\ NoDevice \notin Device /\ NoSlot \notin Slot /\ NoRow \notin Row
    /\ MaxCrashes \in Nat

VARIABLES
    up,          \* the process is running
    row,         \* row[d]: the device's row
    deleting,    \* devices whose row is deleted by an open transaction
    ids,         \* device ids the database has given out
    clientDictionary,
    creating,    \* saved by createMany, not yet given a client: pairs <<d, cfg>>
    editing,     \* updates that have read their device: pairs <<d, cfg>>
    dev, obj,    \* dev[c], obj[c]: the device object of slot c
    conn,        \* conn[c]: its client
    mark,        \* mark[c]: where its markMqttExternalBrokerAsInvalid is
    markDiff,
    edit,        \* edit[c]: where the save of the update that made it is
    editDiff,
    updated,     \* history: devices this process gave a new client on update
    quiet,       \* history: deletions no other request on the device overlaps
    gone,        \* history: devices deleted by such a deletion
    crashes

dbVars == <<row, deleting, ids>>
requests == <<creating, editing>>
saves == <<mark, markDiff, edit, editDiff>>
slotVars == <<dev, obj, conn, saves>>
history == <<updated, quiet, gone>>
vars == <<up, dbVars, clientDictionary, requests, slotVars, history, crashes>>

(* A TypeORM save in progress: save() first selects the row ("seen"), then *)
(* inserts the object ("new") or updates the columns in which they differ. *)
Diff == [seen : Row \cup {NoRow}, new : Row \cup {NoRow}]
NoDiff == [seen |-> NoRow, new |-> NoRow]

(* Every variable has its type. *)
TypeOK ==
    /\ up \in BOOLEAN
    /\ row \in [Device -> Row \cup {NoRow}]
    /\ deleting \subseteq Device /\ ids \subseteq Device
    /\ clientDictionary \in [Device -> Slot \cup {NoSlot}]
    /\ creating \subseteq Device \X Config
    /\ editing \subseteq Device \X Config
    /\ dev \in [Slot -> Device \cup {NoDevice}]
    /\ obj \in [Slot -> Row \cup {NoRow}]
    /\ conn \in [Slot -> {"unused", "none", "live", "ending", "ended"}]
    /\ mark \in [Slot -> {"no", "select", "write", "remove"}]
    /\ edit \in [Slot -> {"no", "select", "write"}]
    /\ markDiff \in [Slot -> Diff] /\ editDiff \in [Slot -> Diff]
    /\ updated \subseteq Device /\ quiet \subseteq Device /\ gone \subseteq Device
    /\ crashes \in 0..MaxCrashes

Init ==
    /\ up = TRUE
    /\ row = [d \in Device |-> NoRow] /\ deleting = {} /\ ids = {}
    /\ clientDictionary = [d \in Device |-> NoSlot]
    /\ creating = {} /\ editing = {}
    /\ dev = [c \in Slot |-> NoDevice] /\ obj = [c \in Slot |-> NoRow]
    /\ conn = [c \in Slot |-> "unused"]
    /\ mark = [c \in Slot |-> "no"] /\ markDiff = [c \in Slot |-> NoDiff]
    /\ edit = [c \in Slot |-> "no"] /\ editDiff = [c \in Slot |-> NoDiff]
    /\ updated = {} /\ quiet = {} /\ gone = {}
    /\ crashes = 0
-----------------------------------------------------------------------------
Unused == {c \in Slot : conn[c] = "unused"}
NextSlot == CHOOSE c \in Slot : conn[c] = "unused"

(* removeMQTTClient: end() the registered client.  mqtt.js runs the        *)
(* callback, which deletes the entry, when the client has ended, and at    *)
(* once if it was already ending.                                          *)
ConnAfterRemove(d) ==
    [c \in Slot |-> IF c = clientDictionary[d] /\ conn[c] = "live" THEN "ending" ELSE conn[c]]
DictionaryAfterRemove(d) ==
    IF clientDictionary[d] \in {c \in Slot : conn[c] # "live"}
    THEN [clientDictionary EXCEPT ![d] = NoSlot]
    ELSE clientDictionary

(* Mutant of MakeClient: the listeners are given the settings alone. *)
MakeClientOfSettings(c, d, o, dictionary, conns) ==
    /\ dev' = [dev EXCEPT ![c] = d]
    /\ obj' = [obj EXCEPT ![c] = o.cfg]
    /\ conn' = [conns EXCEPT ![c] = "live"]
    /\ clientDictionary' = [dictionary EXCEPT ![d] = c]
    /\ UNCHANGED <<mark, markDiff>>

(* Mutant of MakeClient: the client is not entered. *)
MakeClientUnregistered(c, d, o, dictionary, conns) ==
    /\ dev' = [dev EXCEPT ![c] = d]
    /\ obj' = [obj EXCEPT ![c] = o]
    /\ conn' = [conns EXCEPT ![c] = "live"]
    /\ clientDictionary' = dictionary
    /\ UNCHANGED <<mark, markDiff>>

(* createMQTTClients on one device object: with a topic, connect and enter *)
(* the client; without one, save the device as invalid.                    *)
MakeClient(c, d, o, dictionary, conns) ==
    /\ dev' = [dev EXCEPT ![c] = d]
    /\ obj' = [obj EXCEPT ![c] = o]
    /\ IF o.cfg \in NoTopic
       THEN /\ conn' = [conns EXCEPT ![c] = "none"]
            /\ mark' = [mark EXCEPT ![c] = "select"]
            /\ clientDictionary' = dictionary
       ELSE /\ conn' = [conns EXCEPT ![c] = "live"]
            /\ clientDictionary' = [dictionary EXCEPT ![d] = c]
            /\ UNCHANGED mark
    /\ UNCHANGED markDiff

(* The process ends: clients and requests are gone, transactions roll back. *)
ProcessEnds ==
    /\ up' = FALSE
    /\ deleting' = {}
    /\ clientDictionary' = [d \in Device |-> NoSlot]
    /\ creating' = {} /\ editing' = {}
    /\ conn' = [c \in Slot |-> IF conn[c] = "unused" THEN "unused" ELSE "ended"]
    /\ mark' = [c \in Slot |-> "no"] /\ edit' = [c \in Slot |-> "no"]
    /\ markDiff' = [c \in Slot |-> NoDiff] /\ editDiff' = [c \in Slot |-> NoDiff]
    /\ updated' = {} /\ quiet' = {}
    /\ UNCHANGED <<row, ids, dev, obj, gone>>

Crash == up /\ crashes < MaxCrashes /\ crashes' = crashes + 1 /\ ProcessEnds

(* onApplicationBootstrap, before the server listens: a client for every   *)
(* device whose row is not marked invalid.                                 *)
Boot ==
    /\ ~up /\ up' = TRUE
    /\ LET valid == {d \in Device : row[d] # NoRow /\ ~row[d].invalid} IN
       \E f \in [valid -> Unused] :
         /\ \A a, b \in valid : a # b => f[a] # f[b]
         /\ LET made == {f[d] : d \in valid}
                of(c) == CHOOSE d \in valid : f[d] = c
                noTopic(d) == row[d].cfg \in NoTopic
            IN /\ dev' = [c \in Slot |-> IF c \in made THEN of(c) ELSE dev[c]]
               /\ obj' = [c \in Slot |->
                     IF c \in made THEN [row[of(c)] EXCEPT !.invalid = noTopic(of(c))]
                                   ELSE obj[c]]
               /\ conn' = [c \in Slot |->
                     IF c \in made THEN IF noTopic(of(c)) THEN "none" ELSE "live"
                                   ELSE conn[c]]
               /\ mark' = [c \in Slot |->
                     IF c \in made /\ noTopic(of(c)) THEN "select" ELSE mark[c]]
         /\ clientDictionary' = [d \in Device |->
                IF d \in valid /\ row[d].cfg \notin NoTopic THEN f[d] ELSE NoSlot]
    /\ UNCHANGED <<dbVars, requests, markDiff, edit, editDiff, history, crashes>>
-----------------------------------------------------------------------------
(* createMany: the devices are saved ... *)
CreateSave(d, cfg) ==
    /\ up /\ d \notin ids
    /\ ids' = ids \cup {d}
    /\ row' = [row EXCEPT ![d] = [cfg |-> cfg, invalid |-> FALSE]]
    /\ creating' = creating \cup {<<d, cfg>>}
    /\ UNCHANGED <<up, deleting, clientDictionary, editing, slotVars, history, crashes>>

(* ... and, some awaits later, handed to createMQTTClients. *)
CreateClient(d, cfg) ==
    /\ up /\ <<d, cfg>> \in creating /\ Unused # {}
    /\ creating' = creating \ {<<d, cfg>>}
    /\ MakeClient(NextSlot, d, [cfg |-> cfg, invalid |-> cfg \in NoTopic],
                  clientDictionary, conn)
    /\ UNCHANGED <<up, dbVars, editing, edit, editDiff, history, crashes>>

(* update: the device is read ... *)
UpdateRead(d, cfg) ==
    /\ up /\ row[d] # NoRow
    /\ Cardinality(Unused) > Cardinality(editing) + Cardinality(creating)
    /\ editing' = editing \cup {<<d, cfg>>}
    /\ quiet' = quiet \ {d}
    /\ UNCHANGED <<up, dbVars, clientDictionary, creating, slotVars, updated, gone, crashes>>

(* ... mapMQTTExternalBrokerDevice ends the old client, makes the new one  *)
(* and clears invalidMqttConfig on the object, which is then saved.        *)
UpdateMap(d, cfg) ==
    /\ up /\ <<d, cfg>> \in editing /\ Unused # {}
    /\ editing' = editing \ {<<d, cfg>>}
    /\ MakeClient(NextSlot, d, [cfg |-> cfg, invalid |-> FALSE],
                  DictionaryAfterRemove(d), ConnAfterRemove(d))
    /\ edit' = [edit EXCEPT ![NextSlot] = "select"]
    /\ updated' = updated \cup {d}
    /\ gone' = gone \ {d}
    /\ UNCHANGED <<up, dbVars, creating, editDiff, quiet, crashes>>

(* Mutant of DeleteRow: the client is left alone. *)
DeleteRowOnly(d) ==
    /\ up /\ row[d] # NoRow /\ d \notin deleting
    /\ deleting' = deleting \cup {d}
    /\ quiet' = IF d \notin updated /\ \A r \in creating \cup editing : r[1] # d
                THEN quiet \cup {d} ELSE quiet
    /\ UNCHANGED <<up, row, ids, clientDictionary, requests, slotVars, updated, gone, crashes>>

(* delete: inside a transaction the row goes, then the client is ended ... *)
DeleteRow(d) ==
    /\ up /\ row[d] # NoRow /\ d \notin deleting
    /\ deleting' = deleting \cup {d}
    /\ conn' = ConnAfterRemove(d)
    /\ clientDictionary' = DictionaryAfterRemove(d)
    /\ quiet' = IF d \notin updated /\ \A r \in creating \cup editing : r[1] # d
                THEN quiet \cup {d} ELSE quiet
    /\ UNCHANGED <<up, row, ids, requests, dev, obj, saves, updated, gone, crashes>>

(* ... and the transaction commits, or is rolled back. *)
DeleteCommit(d) ==
    /\ up /\ d \in deleting /\ deleting' = deleting \ {d}
    /\ row' = [row EXCEPT ![d] = NoRow]
    /\ gone' = gone \cup (quiet \cap {d}) /\ quiet' = quiet \ {d}
    /\ UNCHANGED <<up, ids, clientDictionary, requests, slotVars, updated, crashes>>

DeleteRollback(d) ==
    /\ up /\ d \in deleting /\ deleting' = deleting \ {d}
    /\ quiet' = quiet \ {d}
    /\ UNCHANGED <<up, row, ids, clientDictionary, requests, slotVars, updated, gone,
                   crashes>>
-----------------------------------------------------------------------------
(* Mutant of Ended: the entry stays until removeMQTTClient is called again.*)
EndedButEntered(c) ==
    /\ up /\ conn[c] = "ending"
    /\ conn' = [conn EXCEPT ![c] = "ended"]
    /\ obj' = [obj EXCEPT ![c].invalid = TRUE]
    /\ mark' = [mark EXCEPT ![c] = "select"]
    /\ UNCHANGED <<up, dbVars, clientDictionary, requests, dev, markDiff, edit, editDiff,
                   history, crashes>>

(* mqtt.js has closed the connection: it emits "end", whose listener       *)
(* starts to save the device as invalid, then runs the callback of end().  *)
Ended(c) ==
    /\ up /\ conn[c] = "ending"
    /\ conn' = [conn EXCEPT ![c] = "ended"]
    /\ obj' = [obj EXCEPT ![c].invalid = TRUE]
    /\ mark' = [mark EXCEPT ![c] = "select"]
    /\ clientDictionary' = [clientDictionary EXCEPT ![dev[c]] = NoSlot]
    /\ UNCHANGED <<up, dbVars, requests, dev, markDiff, edit, editDiff, history, crashes>>

DiffOf(c) == [seen |-> row[dev[c]], new |-> obj[c]]

(* The insert of a row another save has inserted meanwhile is refused.     *)
Refused(d, diff) == diff.seen = NoRow /\ row[d] # NoRow

(* The row after the save; no statement passes an open delete of the row.  *)
Saved(d, diff) ==
    IF diff.seen = NoRow THEN diff.new
    ELSE IF row[d] = NoRow THEN NoRow
    ELSE [cfg     |-> IF diff.new.cfg # diff.seen.cfg THEN diff.new.cfg ELSE row[d].cfg,
          invalid |-> IF diff.new.invalid # diff.seen.invalid THEN diff.new.invalid
                                                              ELSE row[d].invalid]

MarkSelect(c) ==
    /\ up /\ mark[c] = "select"
    /\ mark' = [mark EXCEPT ![c] = "write"]
    /\ markDiff' = [markDiff EXCEPT ![c] = DiffOf(c)]
    /\ UNCHANGED <<up, dbVars, clientDictionary, requests, dev, obj, conn, edit, editDiff,
                   history, crashes>>

MarkWrite(c) ==
    /\ up /\ mark[c] = "write" /\ dev[c] \notin deleting
    /\ \/ /\ ~Refused(dev[c], markDiff[c])
          /\ row' = [row EXCEPT ![dev[c]] = Saved(dev[c], markDiff[c])]
          /\ mark' = [mark EXCEPT ![c] = IF conn[c] = "ended" THEN "remove" ELSE "no"]
          /\ markDiff' = [markDiff EXCEPT ![c] = NoDiff]
          /\ UNCHANGED <<up, deleting, ids, clientDictionary, requests, dev, obj, conn,
                         edit, editDiff, history>>
       \/ /\ Refused(dev[c], markDiff[c])
          /\ ProcessEnds
    /\ UNCHANGED crashes

(* After the save the "end" listener calls removeMQTTClient. *)
MarkRemove(c) ==
    /\ up /\ mark[c] = "remove"
    /\ mark' = [mark EXCEPT ![c] = "no"]
    /\ conn' = ConnAfterRemove(dev[c])
    /\ clientDictionary' = DictionaryAfterRemove(dev[c])
    /\ UNCHANGED <<up, dbVars, requests, dev, obj, markDiff, edit, editDiff, history, crashes>>

EditSelect(c) ==
    /\ up /\ edit[c] = "select"
    /\ edit' = [edit EXCEPT ![c] = "write"]
    /\ editDiff' = [editDiff EXCEPT ![c] = DiffOf(c)]
    /\ UNCHANGED <<up, dbVars, clientDictionary, requests, dev, obj, conn, mark, markDiff,
                   history, crashes>>

(* A refused insert fails the request, no more. *)
EditWrite(c) ==
    /\ up /\ edit[c] = "write" /\ dev[c] \notin deleting
    /\ edit' = [edit EXCEPT ![c] = "no"]
    /\ row' = IF Refused(dev[c], editDiff[c]) THEN row
              ELSE [row EXCEPT ![dev[c]] = Saved(dev[c], editDiff[c])]
    /\ editDiff' = [editDiff EXCEPT ![c] = NoDiff]
    /\ UNCHANGED <<up, deleting, ids, clientDictionary, requests, dev, obj, conn, mark,
                   markDiff, history, crashes>>
-----------------------------------------------------------------------------
(* What goes on by itself once it has been started. *)
Continue(c) ==
    Ended(c) \/ MarkSelect(c) \/ MarkWrite(c) \/ MarkRemove(c) \/ EditSelect(c) \/ EditWrite(c)

Request ==
    \E d \in Device :
        \/ \E cfg \in Config :
             \/ CreateSave(d, cfg)
             \/ UpdateRead(d, cfg)
             \/ CreateClient(d, cfg)
             \/ UpdateMap(d, cfg)
        \/ DeleteRow(d) \/ DeleteCommit(d) \/ DeleteRollback(d)

Next == Crash \/ Boot \/ Request \/ \E c \in Slot : Continue(c)

Spec == Init /\ [][Next]_vars
-----------------------------------------------------------------------------
(* The dictionary never refers to a client that has ended, nor to one of   *)
(* another device: removeMQTTClient always finds a client it can end.      *)
NoDanglingRegistration ==
    \A d \in Device :
        clientDictionary[d] # NoSlot =>
            /\ dev[clientDictionary[d]] = d
            /\ conn[clientDictionary[d]] \in {"live", "ending"}

(* A client that still receives is the registered one, so that it can be   *)
(* ended and no message is taken in twice - as long as the device has not  *)
(* been updated since the process started.                                 *)
RegisteredUnlessUpdated ==
    \A c \in Slot :
        conn[c] = "live" => clientDictionary[dev[c]] = c \/ dev[c] \in updated

(* A device that was deleted while no other request was on it, and that    *)
(* was not updated, is no longer listened to: each client made for it has  *)
(* been told to end.                                                       *)
DeletedIsNotListenedTo ==
    \A c \in Slot : dev[c] \in gone => conn[c] # "live"

(* Once the deletion of a device is committed the row does not come back.  *)
DeletedStaysDeleted == \A d \in gone : row[d] = NoRow

(* An update of a device takes effect: when no request and no save on the  *)
(* device is in progress and one client is left to it, the row holds the   *)
(* settings that client uses, which are those of the update.               *)
UpdateSticks ==
    \A c \in Slot :
        LET d == dev[c]
            settled == /\ d \notin deleting
                       /\ \A r \in creating \cup editing : r[1] # d
                       /\ \A b \in Slot : dev[b] = d => mark[b] = "no" /\ edit[b] = "no"
            only == \A b \in Slot \ {c} : dev[b] = d => conn[b] = "ended"
        IN (conn[c] = "live" /\ only /\ settled /\ row[d] # NoRow) => row[d].cfg = obj[c].cfg
=============================================================================
