---------------------------- MODULE GatewayStatus ----------------------------
(***************************************************************************)
(* Whether a gateway was online: ChirpStack publishes its connection state *)
(* by MQTT, ChirpstackMQTTListenerService passes it on through Kafka, and  *)
(* GatewayPersistenceService keeps a row per message, some within an hour  *)
(* and none beyond gatewayStatusSavedDays.  GatewayBootstrapperService     *)
(* gives a gateway without rows its first one, and                         *)
(* GatewayStatusHistoryService reports the rows of a period.               *)
(*                                                                         *)
(* One gateway: every statement filters on its id.  Handlers are not       *)
(* waited for, so they interleave; one action is one statement.            *)
(***************************************************************************)
EXTENDS Naturals, FiniteSets

CONSTANTS
    Handler,       \* handlings of a message
    HourlyCap,     \* maxStatusMessagesPerHour, 10 in the code
    Hour,
    SavedDays,     \* gatewayStatusSavedDays
    MaxListeners,  \* bound: connections to the broker since the start
    MaxTime,       \* bound: the clock
    MaxCrashes     \* bound: process deaths from outside

StatusAssumption ==
    /\ IsFiniteSet(Handler)
    /\ HourlyCap \in Nat \ {0} /\ Hour \in Nat \ {0} /\ SavedDays \in Nat \ {0}
    /\ MaxListeners \in Nat \ {0} /\ MaxTime \in Nat /\ MaxCrashes \in Nat

VARIABLES
    now,        \* the clock
    statuses,       \* rows of gateway_status_history
    listeners,  \* message listeners of the MQTT client
    handler,    \* handler[h]: where it is and what it has found
    boot,       \* the bootstrapper
    newest,     \* history: the newest row made from a message
    blind,      \* history: rows seeded after a message had been received
    crashes

vars == <<now, statuses, listeners, handler, boot, newest, blind, crashes>>
history == <<newest, blind>>

(* Rows are unique in their timestamp.  updatedAt, when a row was saved,   *)
(* is left out: it is never before the timestamp.                          *)
Time == 0..MaxTime
RowAt == [timestamp : Time, wasOnline : BOOLEAN, seeded : BOOLEAN]
Free == [stage |-> "free", timestamp |-> 0, wasOnline |-> FALSE, doomed |-> {}]
Stage == {"free", "save", "readHour", "trimHour", "readOld", "trimOld", "done", "aborted"}

(* Every variable has its type. *)
TypeOK ==
    /\ now \in Time /\ statuses \subseteq RowAt
    /\ listeners \in 0..MaxListeners
    /\ handler \in [Handler -> [stage : Stage, timestamp : Time, wasOnline : BOOLEAN,
                                doomed : SUBSET RowAt]]
    /\ boot \in {"read", "seed", "done"}
    /\ newest \subseteq RowAt /\ blind \subseteq RowAt
    /\ crashes \in 0..MaxCrashes

Init ==
    /\ now = 0 /\ statuses = {} /\ listeners = 0
    /\ handler = [h \in Handler |-> Free]
    /\ boot = "read"
    /\ newest = {} /\ blind = {} /\ crashes = 0
-----------------------------------------------------------------------------
Newest(rs) == {w \in rs : \A v \in rs : v.timestamp <= w.timestamp}

At(h, s) == handler[h].stage = s
Running(h) == handler[h].stage \notin {"free", "done", "aborted"}
(* No handling lasts SavedDays. *)
InTime(t) == \A h \in Handler : Running(h) => t < handler[h].timestamp + SavedDays

Goto(h, s, found) == handler' = [handler EXCEPT ![h].stage = s, ![h].doomed = found]

Done(h) == handler' = [handler EXCEPT ![h] = [Free EXCEPT !.stage = "done"]]

(* The process ends with everything in it and is started again.            *)
Restart ==
    /\ handler' = [h \in Handler |-> IF Running(h) THEN [Free EXCEPT !.stage = "aborted"]
                                     ELSE handler[h]]
    /\ listeners' = 0 /\ boot' = "read"
    /\ UNCHANGED <<now, statuses, history>>

(* Every connection to the broker, the first or not, adds a listener.      *)
Connect ==
    /\ listeners < MaxListeners /\ listeners' = listeners + 1
    /\ UNCHANGED <<now, statuses, handler, boot, history, crashes>>

(* A message is handed to every listener in turn, which stamps its copy    *)
(* and sends it; the clock may advance meanwhile.                          *)
ReceiveGatewayStatus(online) ==
    /\ listeners > 0
    /\ \E hs \in SUBSET {h \in Handler : At(h, "free")}, stamp \in [Handler -> now..(now + 1)] :
         /\ Cardinality(hs) = listeners
         /\ \A h \in Handler : stamp[h] \in Time /\ (h \notin hs => stamp[h] = now)
         /\ handler' = [h \in Handler |->
                 IF h \in hs THEN [Free EXCEPT !.stage = "save", !.timestamp = stamp[h],
                                               !.wasOnline = online]
                 ELSE handler[h]]
         /\ now' = IF \E h \in hs : stamp[h] > now THEN now + 1 ELSE now
         /\ InTime(now')
    /\ UNCHANGED <<statuses, listeners, boot, history, crashes>>

RowOf(h) == [timestamp |-> handler[h].timestamp, wasOnline |-> handler[h].wasOnline,
             seeded |-> FALSE]

(* rawRequestListener: the row is saved; a row of the same moment is an    *)
(* error that nothing catches.                                             *)
SaveStatus(h) ==
    /\ At(h, "save")
    /\ IF \E w \in statuses : w.timestamp = handler[h].timestamp
       THEN Restart
       ELSE /\ statuses' = statuses \cup {RowOf(h)} /\ newest' = Newest(newest \cup {RowOf(h)})
            /\ Goto(h, "readHour", {})
            /\ UNCHANGED <<now, listeners, boot, blind>>
    /\ UNCHANGED crashes

(* Mutant of BeyondNewest: the oldest are skipped (order ASC).             *)
BeyondOldest(rs) ==
    {w \in rs : Cardinality({v \in rs : v.timestamp < w.timestamp}) >= HourlyCap}

(* Mutant of BeyondNewest: one row too many is kept.                       *)
BeyondNewestAndOne(rs) ==
    {w \in rs : Cardinality({v \in rs : v.timestamp > w.timestamp}) > HourlyCap}

(* skip HourlyCap, newest first. *)
BeyondNewest(rs) ==
    {w \in rs : Cardinality({v \in rs : v.timestamp > w.timestamp}) >= HourlyCap}

(* deleteStatusHistoriesSinceLastHour: the query, then the delete by id.   *)
FindSinceLastHour(h) ==
    /\ At(h, "readHour")
    /\ LET excess == BeyondNewest({w \in statuses : w.timestamp + Hour > handler[h].timestamp})
       IN Goto(h, IF excess = {} THEN "readOld" ELSE "trimHour", excess)
    /\ UNCHANGED <<now, statuses, listeners, boot, history, crashes>>

DeleteSinceLastHour(h) ==
    /\ At(h, "trimHour") /\ Goto(h, "readOld", {})
    /\ statuses' = statuses \ handler[h].doomed
    /\ UNCHANGED <<now, listeners, boot, history, crashes>>

(* deleteOldStatusHistories: by the time of the status (or of the row).    *)
FindOld(h) ==
    /\ At(h, "readOld")
    /\ LET old == {w \in statuses : w.timestamp + SavedDays < now}
       IN IF old = {} THEN Done(h) ELSE Goto(h, "trimOld", old)
    /\ UNCHANGED <<now, statuses, listeners, boot, history, crashes>>

DeleteOld(h) ==
    /\ At(h, "trimOld") /\ Done(h)
    /\ statuses' = statuses \ handler[h].doomed
    /\ UNCHANGED <<now, listeners, boot, history, crashes>>
-----------------------------------------------------------------------------
(* Mutant of NeedsSeed: every gateway gets a row at every start.           *)
AlwaysSeeded(rs) == TRUE

NeedsSeed(rs) == rs = {}

(* onApplicationBootstrap: the latest rows and the gateway are read ...    *)
FindLatest ==
    /\ boot = "read"
    /\ boot' = IF NeedsSeed(statuses) THEN "seed" ELSE "done"
    /\ UNCHANGED <<now, statuses, listeners, handler, history, crashes>>

(* ... and a row says whether it has been seen lately ... *)
SeedStatus(online) ==
    /\ boot = "seed"
    /\ LET w == [timestamp |-> now, wasOnline |-> online, seeded |-> TRUE]
       IN IF \E v \in statuses : v.timestamp = now
          THEN Restart
          ELSE /\ statuses' = statuses \cup {w} /\ boot' = "done"
               /\ blind' = IF statuses # {} \/ \E h \in Handler : Running(h) THEN blind \cup {w} ELSE blind
               /\ UNCHANGED <<now, listeners, handler, newest>>
    /\ UNCHANGED crashes

(* ... unless it has never been seen. *)
NeverSeen ==
    /\ boot = "seed" /\ boot' = "done"
    /\ UNCHANGED <<now, statuses, listeners, handler, history, crashes>>

Crash == crashes < MaxCrashes /\ crashes' = crashes + 1 /\ Restart

Tick ==
    /\ now < MaxTime /\ now' = now + 1 /\ InTime(now + 1)
    /\ UNCHANGED <<statuses, listeners, handler, boot, history, crashes>>

Next ==
    \/ \E online \in BOOLEAN : ReceiveGatewayStatus(online) \/ SeedStatus(online)
    \/ \E h \in Handler :
         \/ SaveStatus(h) \/ FindSinceLastHour(h) \/ DeleteSinceLastHour(h)
         \/ FindOld(h) \/ DeleteOld(h)
    \/ Connect \/ FindLatest \/ NeverSeen \/ Crash \/ Tick

Spec == Init /\ [][Next]_vars
-----------------------------------------------------------------------------
Entry(t, w) == [timestamp |-> t, wasOnline |-> w.wasOnline]

(* Mutant of InPeriod: MoreThan for MoreThanOrEqual. *)
AfterStart(from) == {w \in statuses : w.timestamp > from}

InPeriod(from) == {w \in statuses : w.timestamp >= from}
BeforePeriod(from) == Newest({w \in statuses : w.timestamp < from})

(* findAllWithChirpstack, findOne: the rows of the period, and the latest  *)
(* one before it as if it were of its first moment.                        *)
StatusTimestamps(from) ==
    {Entry(w.timestamp, w) : w \in InPeriod(from)} \cup
    {Entry(from, w) : w \in BeforePeriod(from)}

(* What a reader of entries or rows takes for the status at time t.        *)
StatusAt(es, t) == {e.wasOnline : e \in Newest({x \in es : x.timestamp <= t})}

(* The report of every period tells the status the rows tell, at every     *)
(* moment of it (on its first moment, also the one before).                *)
ReportExact ==
    \A from \in Time : \A t \in from..MaxTime :
        /\ StatusAt(statuses, t) \subseteq StatusAt(StatusTimestamps(from), t)
        /\ StatusAt(StatusTimestamps(from), t) # StatusAt(statuses, t)
              => \E w \in statuses : w.timestamp = from

(* The last status ChirpStack sent is never cleaned away, whatever the     *)
(* handlers of other messages, and later ones, delete meanwhile: the       *)
(* newest row is the newest message's, unless the bootstrapper seeded a    *)
(* row while a message was being handled.                                  *)
LastStatusKept ==
    newest # {} => \/ Newest(statuses) = newest
                   \/ Newest(statuses) # {} /\ Newest(statuses) \subseteq blind

Unfinished == {h \in Handler : handler[h].stage \in {"readHour", "trimHour", "aborted"}}

(* "never have histories for more than X messages per gateway per hour":   *)
(* within any hour there are at most HourlyCap rows, one for each handling *)
(* that has not cleaned up yet or was cut off, and a seeded one.           *)
HourCapped ==
    \A t \in Time :
        Cardinality({w \in statuses : w.timestamp <= t /\ w.timestamp + Hour > t /\ ~w.seeded})
            <= HourlyCap + Cardinality(Unfinished)
=============================================================================
