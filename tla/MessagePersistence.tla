------------------------- MODULE MessagePersistence -------------------------
(***************************************************************************)
(* DeviceIntegrationPersistenceService: what the backend keeps of the      *)
(* messages of one device (every statement filters on the device id): the  *)
(* latest message, the metadata of the last METADATA_SAVED_COUNT messages  *)
(* and, for a SigFox device, signal statistics of a year, at most          *)
(* maxSigFoxSignalsMessagesPerHour of them within an hour.                 *)
(*                                                                         *)
(* The Kafka consumer starts a handler per message and does not wait for   *)
(* it, so the handlers of one device interleave; one action is one         *)
(* statement on the database.  An error no handler catches is an unhandled *)
(* rejection and ends the process (kafka.service.ts calls the subscriber   *)
(* inside forEach(async ...)).                                             *)
(***************************************************************************)
EXTENDS Naturals, FiniteSets

CONSTANTS
    Message,        \* messages of the device
    SentTime,       \* SentTime[m]: "time reported by device"
    NoMessage,      \* there is no received_message row
    SavedCount,     \* METADATA_SAVED_COUNT, 20 by default
    HourlyCap,      \* maxSigFoxSignalsMessagesPerHour, 10 in the code
    Hour, Year,     \* the two periods
    IsSigFox,       \* the type of the device
    Lateness,       \* bound: how long after it was sent a message can arrive
    Lasting,        \* bound: how long its handler can last
    MaxTime,        \* bound: the clock
    MaxCrashes      \* bound: process deaths from outside

ASSUME PersistenceAssumption ==
    /\ IsFiniteSet(Message) /\ NoMessage \notin Message
    /\ SentTime \in [Message -> Nat]
    /\ SavedCount \in Nat \ {0} /\ HourlyCap \in Nat \ {0}
    /\ Hour \in Nat \ {0} /\ Year \in Nat
    /\ IsSigFox \in BOOLEAN
    /\ Lateness \in Nat /\ Lasting \in Nat
    /\ MaxTime \in Nat /\ MaxCrashes \in Nat

VARIABLES
    now,        \* the clock
    exists,     \* the device's row in iot_device
    latest,     \* its row in received_message
    metadata,   \* its rows in received_message_metadata
    stats,      \* its rows in received_message_sigfox_signals
    stage,      \* stage[m]: where the handler of m is
    found,      \* found[m]: the handler found a received_message row
    threshold,  \* threshold[m]: newestToDelete[0].sentTime
    doomed,     \* doomed[m]: oldestToDelete
    arrived,    \* arrived[m]: when the handler of m started
    stored,     \* history: metadata rows ever inserted
    logged,     \* history: statistics rows ever inserted
    expired,    \* history: statistics rows deleted for their age
    crashes

rows  == <<exists, latest, metadata, stats>>
notes == <<found, threshold, doomed, arrived>>
history == <<stored, logged, expired>>
vars == <<now, rows, stage, notes, history, crashes>>

Active == {"readLatest", "saveLatest", "insert", "select", "delete",
           "logStat", "readHour", "trimHour", "readYear", "trimYear"}

(* Every variable has its type. *)
TypeOK ==
    /\ now \in 0..MaxTime
    /\ exists \in BOOLEAN
    /\ latest \in Message \cup {NoMessage}
    /\ metadata \subseteq Message /\ stats \subseteq Message
    /\ stage \in [Message -> Active \cup {"new", "done", "aborted"}]
    /\ found \in [Message -> BOOLEAN]
    /\ threshold \in [Message -> Nat]
    /\ doomed \in [Message -> SUBSET Message]
    /\ arrived \in [Message -> 0..MaxTime]
    /\ stored \subseteq Message /\ logged \subseteq Message /\ expired \subseteq Message
    /\ crashes \in 0..MaxCrashes

Init ==
    /\ now = 0
    /\ exists = TRUE /\ latest = NoMessage /\ metadata = {} /\ stats = {}
    /\ stage = [m \in Message |-> "new"]
    /\ found = [m \in Message |-> FALSE]
    /\ threshold = [m \in Message |-> 0]
    /\ doomed = [m \in Message |-> {}]
    /\ arrived = [m \in Message |-> 0]
    /\ stored = {} /\ logged = {} /\ expired = {}
    /\ crashes = 0
-----------------------------------------------------------------------------
(* The rows of a query ORDER BY sentTime DESC ... OFFSET n: what is left   *)
(* when n of the newest are skipped; rows of equal time in any order.      *)
BeyondNewest(rs, n) ==
    IF Cardinality(rs) <= n THEN {{}}
    ELSE {d \in SUBSET rs :
             /\ Cardinality(rs \ d) = n
             /\ \A x \in d, y \in rs \ d : SentTime[x] <= SentTime[y]}

At(m, s) == stage[m] = s
Goto(m, s) == stage' = [stage EXCEPT ![m] = s]

(* The process ends, and every running handler with it. *)
ProcessEnds ==
    /\ stage' = [m \in Message |-> IF stage[m] \in Active THEN "aborted" ELSE stage[m]]
    /\ UNCHANGED <<now, rows, notes, history>>

(* The message reaches the subscriber, whose findOne answers; a message of *)
(* a device that is gone is dropped.                                       *)
RawRequest(m) ==
    /\ At(m, "new")
    /\ SentTime[m] <= now /\ now <= SentTime[m] + Lateness
    /\ Goto(m, IF exists THEN "readLatest" ELSE "done")
    /\ arrived' = [arrived EXCEPT ![m] = now]
    /\ UNCHANGED <<now, rows, found, threshold, doomed, history, crashes>>

FindExistingReceivedMessage(m) ==
    /\ At(m, "readLatest") /\ Goto(m, "saveLatest")
    /\ found' = [found EXCEPT ![m] = latest # NoMessage]
    /\ UNCHANGED <<now, rows, threshold, doomed, arrived, history, crashes>>

(* save: UPDATE if a row was found, INSERT otherwise.  received_message    *)
(* has a foreign key to the device and a unique constraint on it.          *)
SaveLatestMessage(m) ==
    /\ At(m, "saveLatest")
    /\ IF exists /\ (found[m] \/ latest = NoMessage)
       THEN /\ latest' = m /\ Goto(m, "insert")
            /\ UNCHANGED <<now, exists, metadata, stats, notes, history>>
       ELSE ProcessEnds
    /\ UNCHANGED crashes

SaveMessageMetadata(m) ==
    /\ At(m, "insert")
    /\ IF exists
       THEN /\ metadata' = metadata \cup {m} /\ stored' = stored \cup {m}
            /\ Goto(m, "select")
            /\ UNCHANGED <<now, exists, latest, stats, notes, logged, expired>>
       ELSE ProcessEnds
    /\ UNCHANGED crashes

AfterMetadata == IF IsSigFox THEN "logStat" ELSE "done"

(* Mutant of FindNewestToDelete: keeps the row in place of its time. *)
FindRowToDelete(m) ==
    /\ At(m, "select")
    /\ \E excess \in BeyondNewest(metadata, SavedCount) :
         \/ /\ excess = {}
            /\ Goto(m, AfterMetadata) /\ UNCHANGED threshold
         \/ \E x \in excess :
              /\ \A y \in excess : SentTime[y] <= SentTime[x]
              /\ threshold' = [threshold EXCEPT ![m] = x]
              /\ Goto(m, "delete")
    /\ UNCHANGED <<now, rows, found, doomed, arrived, history, crashes>>

(* Mutant of FindNewestToDelete: one row too few is skipped. *)
FindOneTooMany(m) ==
    /\ At(m, "select")
    /\ \E excess \in BeyondNewest(metadata, SavedCount - 1) :
         \/ /\ excess = {}
            /\ Goto(m, AfterMetadata) /\ UNCHANGED threshold
         \/ \E x \in excess :
              /\ \A y \in excess : SentTime[y] <= SentTime[x]
              /\ threshold' = [threshold EXCEPT ![m] = SentTime[x]]
              /\ Goto(m, "delete")
    /\ UNCHANGED <<now, rows, found, doomed, arrived, history, crashes>>

(* deleteOldMetadata: skip countToKeep, newest first, and remember the     *)
(* time of the first row after them.                                       *)
FindNewestToDelete(m) ==
    /\ At(m, "select")
    /\ \E excess \in BeyondNewest(metadata, SavedCount) :
         \/ /\ excess = {}
            /\ Goto(m, AfterMetadata) /\ UNCHANGED threshold
         \/ \E x \in excess :
              /\ \A y \in excess : SentTime[y] <= SentTime[x]
              /\ threshold' = [threshold EXCEPT ![m] = SentTime[x]]
              /\ Goto(m, "delete")
    /\ UNCHANGED <<now, rows, found, doomed, arrived, history, crashes>>

(* Mutant of DoDeleteOldMetadata: LessThan for LessThanOrEqual. *)
DeleteOlderOnly(m) ==
    /\ At(m, "delete") /\ Goto(m, AfterMetadata)
    /\ metadata' = {x \in metadata : SentTime[x] >= threshold[m]}
    /\ UNCHANGED <<now, exists, latest, stats, notes, history, crashes>>

(* doDeleteOldMetadata: everything as old as that row, or older. *)
DoDeleteOldMetadata(m) ==
    /\ At(m, "delete") /\ Goto(m, AfterMetadata)
    /\ metadata' = {x \in metadata : SentTime[x] > threshold[m]}
    /\ UNCHANGED <<now, exists, latest, stats, notes, history, crashes>>

SaveSigFoxStats(m) ==
    /\ At(m, "logStat")
    /\ IF exists
       THEN /\ stats' = stats \cup {m} /\ logged' = logged \cup {m}
            /\ Goto(m, "readHour")
            /\ UNCHANGED <<now, exists, latest, metadata, notes, stored, expired>>
       ELSE ProcessEnds
    /\ UNCHANGED crashes

(* Mutants of SinceLastHour: every row of the device; only later rows.     *)
EverLogged(m) == stats
LoggedAfter(m) == {x \in stats : SentTime[x] > SentTime[m]}

(* Rows newer than an hour before m: the window has no upper end. *)
SinceLastHour(m) == {x \in stats : SentTime[x] + Hour > SentTime[m]}

(* deleteSigFoxStatsSinceLastHour: the query, then the delete by id. *)
FindStatsSinceLastHour(m) ==
    /\ At(m, "readHour")
    /\ \E excess \in BeyondNewest(SinceLastHour(m), HourlyCap) :
         /\ doomed' = [doomed EXCEPT ![m] = excess]
         /\ Goto(m, IF excess = {} THEN "readYear" ELSE "trimHour")
    /\ UNCHANGED <<now, rows, found, threshold, arrived, history, crashes>>

DeleteStatsSinceLastHour(m) ==
    /\ At(m, "trimHour") /\ Goto(m, "readYear")
    /\ stats' = stats \ doomed[m]
    /\ UNCHANGED <<now, exists, latest, metadata, notes, history, crashes>>

(* deleteOldSigFoxStats: the query, then the delete by id. *)
FindOldStats(m) ==
    /\ At(m, "readYear")
    /\ LET old == {x \in stats : SentTime[x] + Year < now} IN
         /\ doomed' = [doomed EXCEPT ![m] = old]
         /\ Goto(m, IF old = {} THEN "done" ELSE "trimYear")
    /\ UNCHANGED <<now, rows, found, threshold, arrived, history, crashes>>

DeleteOldStats(m) ==
    /\ At(m, "trimYear") /\ Goto(m, "done")
    /\ stats' = stats \ doomed[m]
    /\ expired' = expired \cup doomed[m]
    /\ UNCHANGED <<now, exists, latest, metadata, notes, stored, logged, crashes>>
-----------------------------------------------------------------------------
(* The device is deleted; its rows go with it (onDelete CASCADE). *)
DeleteDevice ==
    /\ exists /\ exists' = FALSE
    /\ latest' = NoMessage /\ metadata' = {} /\ stats' = {}
    /\ UNCHANGED <<now, stage, notes, history, crashes>>

Crash ==
    /\ crashes < MaxCrashes /\ crashes' = crashes + 1
    /\ \E m \in Message : stage[m] \in Active
    /\ ProcessEnds

(* Time passes, but a handler does not last longer than it can. *)
Tick ==
    /\ now < MaxTime /\ now' = now + 1
    /\ \A m \in Message : stage[m] \in Active => now < arrived[m] + Lasting
    /\ UNCHANGED <<rows, stage, notes, history, crashes>>

Step(m) ==
    \/ RawRequest(m)
    \/ FindExistingReceivedMessage(m) \/ SaveLatestMessage(m)
    \/ SaveMessageMetadata(m) \/ FindNewestToDelete(m) \/ DoDeleteOldMetadata(m)
    \/ SaveSigFoxStats(m) \/ FindStatsSinceLastHour(m) \/ DeleteStatsSinceLastHour(m)
    \/ FindOldStats(m) \/ DeleteOldStats(m)

Next == (\E m \in Message : Step(m)) \/ DeleteDevice \/ Crash \/ Tick

Spec == Init /\ [][Next]_vars
-----------------------------------------------------------------------------
AtLeastAsNew(m) == {x \in stored : SentTime[x] >= SentTime[m]}

(* The metadata that is kept is the newest: a row is deleted only if at    *)
(* least SavedCount other messages, no older than it, were stored - no     *)
(* matter how the queries and deletes of concurrent handlers interleave,   *)
(* or how late a message arrives.                                          *)
NewestKept ==
    exists => \A m \in stored \ metadata :
                  Cardinality(AtLeastAsNew(m) \ {m}) >= SavedCount

(* Handlers between the insert of a metadata row and the end of the clean- *)
(* up that follows it, those the process took down there included.         *)
Cleaning == {m \in stored : stage[m] \in {"select", "delete", "aborted"}}

(* The tables do not grow: beyond the rows to keep there is at most one    *)
(* row per handler that has not finished cleaning up.                      *)
MetadataBounded == Cardinality(metadata) <= SavedCount + Cardinality(Cleaning)

Trimming == {m \in logged : stage[m] \in {"readHour", "trimHour", "aborted"}}
Within(period, t, rs) == {x \in rs : SentTime[x] <= t /\ SentTime[x] + period > t}

(* "Never more than X messages per device per hour": within any hour there *)
(* are at most HourlyCap statistics rows, and one per unfinished handler.  *)
StatsCapped ==
    \A t \in 0..MaxTime :
        Cardinality(Within(Hour, t, stats)) <= HourlyCap + Cardinality(Trimming)

(* A statistics row younger than a year is deleted only if more than       *)
(* HourlyCap messages, it among them, were sent within an hour and as long *)
(* as a message and its handler can take: the clean-up keeps the newest of *)
(* the rows since an hour before ITS message, and however the queries and  *)
(* deletes of others interleave, it deletes none in a quiet time.          *)
KeptWhenQuiet ==
    exists => \A m \in (logged \ stats) \ expired :
                  \E t \in 0..MaxTime :
                      LET near == Within(Hour + Lateness + Lasting, t, logged) IN
                      m \in near /\ Cardinality(near) > HourlyCap

(* "we need to store it for long-term", and "never more than X messages    *)
(* per hour": a statistics row younger than a year is deleted only if some *)
(* hour had more than HourlyCap messages.                                  *)
LongTermKept ==
    exists => \A m \in (logged \ stats) \ expired :
                  \E t \in 0..MaxTime :
                      /\ m \in Within(Hour, t, logged)
                      /\ Cardinality(Within(Hour, t, logged)) > HourlyCap

(* The try/catch around the subscriber call ("Error occurred in            *)
(* eachMessage") promises that an error met while one message is handled   *)
(* is logged there: it takes down no other handler.                        *)
SubscriberErrorsContained ==
    [][crashes' = crashes =>
          Cardinality({m \in Message : stage[m] # "aborted" /\ stage'[m] = "aborted"}) <= 1]_vars
=============================================================================
