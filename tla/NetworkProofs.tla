----------------------------- MODULE NetworkProofs -----------------------------
(***************************************************************************)
(* Proofs about the gateways and the gateway statuses of Network, for any  *)
(* requests, gateways and clocks: the database and ChirpStack stay in step *)
(* and updatedAt is true; a report of statuses tells what the rows tell,   *)
(* the last status of a gateway outlives the clean-up, and the rows of an  *)
(* hour are bounded.                                                       *)
(***************************************************************************)
EXTENDS Network, FiniteSetTheorems, TLAPS

(* The part a behaviour follows never changes, and only it takes steps. *)
LEMMA PartSteps ==
    ASSUME [Next]_vars
    PROVE  /\ on' = on
           /\ on = "gateways" => G!Next \/ UNCHANGED <<common, gatewayVars>>
           /\ on = "status" => S!Next \/ UNCHANGED statusVars
           /\ on = "multicasts" => M!Next \/ UNCHANGED <<common, multicastVars>>
  BY DEF Next, vars
-----------------------------------------------------------------------------
(* Gateway status. *)

(* The report of a period, for rows with any times: a row of the period    *)
(* stands for itself, and the latest before it for its first moment        *)
(* (GatewayStatusHistoryService in gateway-status-history.service.ts). *)
LEMMA ReportOfRows == S!TypeOK => S!ReportExact
<1> SUFFICES ASSUME S!TypeOK, NEW from \in S!Time, NEW t \in from..MaxTime
             PROVE  /\ S!StatusAt(statuses, t) \subseteq S!StatusAt(S!StatusTimestamps(from), t)
                    /\ S!StatusAt(S!StatusTimestamps(from), t) # S!StatusAt(statuses, t)
                          => \E w \in statuses : w.timestamp = from
  BY DEF S!ReportExact
<1>1. /\ \A w \in statuses : w.timestamp \in Nat
      /\ from \in Nat /\ t \in Int /\ from <= t
  BY NetworkAssumption DEF S!TypeOK, S!RowAt, S!Time, S!StatusAssumption
<1> DEFINE es == S!StatusTimestamps(from)
<1>2. \A e \in es :
        \/ \E w \in statuses : w.timestamp >= from /\ e = S!Entry(w.timestamp, w)
        \/ \E w \in S!BeforePeriod(from) : e = S!Entry(from, w)
  BY DEF S!StatusTimestamps, S!InPeriod
<1>3. \A w \in S!BeforePeriod(from) :
        /\ w \in statuses /\ w.timestamp < from
        /\ \A v \in statuses : v.timestamp < from => v.timestamp <= w.timestamp
  BY DEF S!BeforePeriod, S!Newest
<1>4. \A s : \A w \in statuses : /\ S!Entry(s, w).timestamp = s
                                 /\ S!Entry(s, w).wasOnline = w.wasOnline
  BY DEF S!Entry
<1>5. \A w \in statuses : w.timestamp >= from => S!Entry(w.timestamp, w) \in es
  BY DEF S!StatusTimestamps, S!InPeriod
<1>6. \A w \in S!BeforePeriod(from) : S!Entry(from, w) \in es
  BY DEF S!StatusTimestamps
<1> HIDE DEF es
<1>7. ASSUME NEW w \in statuses, w.timestamp <= t,
             \A v \in statuses : v.timestamp <= t => v.timestamp <= w.timestamp
      PROVE  w.wasOnline \in S!StatusAt(es, t)
  <2>1. \A e \in es : e.timestamp <= t =>
          \/ e.timestamp = from
          \/ \E v \in statuses : v.timestamp = e.timestamp
    BY <1>2, <1>3, <1>4
  <2>2. CASE w.timestamp >= from
    <3>1. S!Entry(w.timestamp, w) \in es
      BY <1>5, <2>2
    <3>2. \A e \in es : e.timestamp <= t => e.timestamp <= w.timestamp
      BY <1>1, <1>7, <2>1, <2>2
    <3> QED  BY <1>4, <1>7, <3>1, <3>2 DEF S!StatusAt, S!Newest
  <2>3. CASE w.timestamp < from
    <3>1. w \in S!BeforePeriod(from)
      BY <1>1, <1>7, <2>3 DEF S!BeforePeriod, S!Newest
    <3>2. \A e \in es : e.timestamp <= t => e.timestamp <= from
      BY <1>1, <1>2, <1>3, <1>4, <1>7, <2>3
    <3>3. S!Entry(from, w) \in es
      BY <1>6, <3>1
    <3> QED  BY <1>1, <1>4, <3>2, <3>3 DEF S!StatusAt, S!Newest
  <2> QED  BY <1>1, <2>2, <2>3
<1>8. ASSUME \A w \in statuses : w.timestamp # from,
             NEW e \in es, e.timestamp <= t,
             \A x \in es : x.timestamp <= t => x.timestamp <= e.timestamp
      PROVE  e.wasOnline \in S!StatusAt(statuses, t)
  <2>1. ASSUME NEW w \in statuses, w.timestamp >= from, e = S!Entry(w.timestamp, w)
        PROVE  e.wasOnline \in S!StatusAt(statuses, t)
    <3>1. \A v \in statuses : v.timestamp <= t => v.timestamp <= w.timestamp
      BY <1>1, <1>4, <1>5, <1>8, <2>1
    <3> QED  BY <1>4, <1>8, <2>1, <3>1 DEF S!StatusAt, S!Newest
  <2>2. ASSUME NEW w \in S!BeforePeriod(from), e = S!Entry(from, w)
        PROVE  e.wasOnline \in S!StatusAt(statuses, t)
    <3>1. \A v \in statuses : v.timestamp <= t => v.timestamp <= w.timestamp
      BY <1>1, <1>3, <1>4, <1>5, <1>8, <2>2
    <3> QED  BY <1>1, <1>3, <1>4, <1>8, <2>2, <3>1 DEF S!StatusAt, S!Newest
  <2> QED  BY <1>2, <2>1, <2>2
<1>9. S!StatusAt(statuses, t) \subseteq S!StatusAt(es, t)
  BY <1>7 DEF S!StatusAt, S!Newest
<1>10. (\A w \in statuses : w.timestamp # from) => S!StatusAt(es, t) \subseteq S!StatusAt(statuses, t)
  BY <1>8 DEF S!StatusAt, S!Newest
<1> QED  BY <1>9, <1>10 DEF es

(* The inductive invariant for the last status.  Rows differ in their      *)
(* times, none of which is ahead of the clock; there is a latest row once  *)
(* there are rows, and rows once a message has made one.  The latest row   *)
(* made from a message is the latest row or older, and the latest row is   *)
(* from a message, or seeded after one, or seeded before any was made.     *)
(* What a handler is about to delete has a later row, and so has the row   *)
(* it made itself, unless it is the latest.                                *)
RowsInOrder ==
    /\ \A v, w \in statuses : v.timestamp = w.timestamp => v = w
    /\ \A w \in statuses : w.timestamp <= now
    /\ \A h \in Handler : handler[h].timestamp <= now
    /\ statuses # {} => S!Newest(statuses) # {}
    /\ newest # {} => statuses # {}
    /\ \A v, w \in newest : v.timestamp <= w.timestamp

LatestKnown ==
    \A w \in S!Newest(statuses) :
        /\ \A v \in newest : v = w \/ v.timestamp < w.timestamp
        /\ \/ w \in newest
           \/ w \in blind
           \/ newest = {} /\ \A h \in Handler : S!At(h, "save") => w.timestamp <= handler[h].timestamp

DoomedOlder ==
    \A h \in Handler :
        /\ \A w \in handler[h].doomed : \E v \in statuses : w.timestamp < v.timestamp
        /\ handler[h].stage \in {"readHour", "trimHour", "readOld", "trimOld"}
              => \E v \in statuses : handler[h].timestamp <= v.timestamp
        /\ S!Running(h) => now <= handler[h].timestamp + SavedDays

StatusInv == S!TypeOK /\ RowsInOrder /\ LatestKnown /\ DoomedOlder

(* The numbers and rows of the part are what they are taken for. *)
LEMMA StatusTyped ==
    ASSUME S!TypeOK
    PROVE  /\ now \in Nat /\ MaxTime \in Nat /\ SavedDays \in Nat \ {0} /\ HourlyCap \in Nat \ {0}
           /\ \A w \in S!RowAt : w.timestamp \in Nat
           /\ statuses \subseteq S!RowAt /\ newest \subseteq S!RowAt /\ blind \subseteq S!RowAt
           /\ \A h \in Handler : /\ handler[h].timestamp \in S!Time /\ handler[h].timestamp \in Nat
                                 /\ handler[h].wasOnline \in BOOLEAN
                                 /\ handler[h].doomed \subseteq S!RowAt
                                 /\ handler[h].stage \in S!Stage
  BY NetworkAssumption DEF S!TypeOK, S!RowAt, S!Time, S!StatusAssumption

(* At the start there are no rows. *)
LEMMA StatusInit == S!Init => StatusInv
<1> SUFFICES ASSUME S!Init PROVE StatusInv
  OBVIOUS
<1>1. /\ now = 0 /\ statuses = {} /\ listeners = 0 /\ boot = "read"
      /\ newest = {} /\ blind = {} /\ crashes = 0
      /\ handler = [h \in Handler |-> S!Free]
  BY DEF S!Init
<1>2. MaxTime \in Nat /\ MaxListeners \in Nat /\ MaxCrashes \in Nat /\ SavedDays \in Nat
  BY NetworkAssumption DEF S!StatusAssumption
<1>3. S!Free \in [stage : S!Stage, timestamp : S!Time, wasOnline : BOOLEAN, doomed : SUBSET S!RowAt]
  BY <1>2 DEF S!Free, S!Stage, S!Time
<1>4. S!TypeOK
  BY <1>1, <1>2, <1>3 DEF S!TypeOK, S!Time
<1>5. RowsInOrder
  BY <1>1 DEF RowsInOrder, S!Free
<1>6. LatestKnown
  BY <1>1 DEF LatestKnown, S!Newest
<1>7. DoomedOlder
  BY <1>1, <1>2 DEF DoomedOlder, S!Free, S!Running
<1> QED  BY <1>4, <1>5, <1>6, <1>7 DEF StatusInv

(* The latest row is never among those a handler is about to delete. *)
LEMMA LatestSpared ==
    ASSUME StatusInv, NEW h \in Handler, statuses' = statuses \ handler[h].doomed
    PROVE  /\ S!Newest(statuses') = S!Newest(statuses)
           /\ statuses # {} => statuses' # {}
           /\ \A t \in Nat :
                /\ (\E v \in statuses : t < v.timestamp) => \E v \in statuses' : t < v.timestamp
                /\ (\E v \in statuses : t <= v.timestamp) => \E v \in statuses' : t <= v.timestamp
<1>1. \A w \in statuses : w.timestamp \in Nat
  BY StatusTyped DEF StatusInv
<1>2. \A w \in S!Newest(statuses) :
        /\ w \in statuses /\ w \notin handler[h].doomed
        /\ \A v \in statuses : v.timestamp <= w.timestamp
  BY <1>1 DEF S!Newest, StatusInv, DoomedOlder
<1>3. statuses # {} => \E w \in S!Newest(statuses) : TRUE
  BY DEF StatusInv, RowsInOrder
<1>4. S!Newest(statuses') = S!Newest(statuses)
  <2>1. S!Newest(statuses) \subseteq S!Newest(statuses')
    BY <1>2 DEF S!Newest
  <2>2. ASSUME NEW w \in S!Newest(statuses') PROVE w \in S!Newest(statuses)
    <3>1. w \in statuses /\ \A v \in statuses' : v.timestamp <= w.timestamp
      BY <2>2 DEF S!Newest
    <3>2. PICK x \in S!Newest(statuses) : TRUE
      BY <1>3, <3>1
    <3>3. x \in statuses' /\ x.timestamp <= w.timestamp
      BY <1>2, <3>1, <3>2
    <3>4. \A v \in statuses : v.timestamp <= w.timestamp
      BY <1>1, <1>2, <3>1, <3>3
    <3> QED  BY <3>1, <3>4 DEF S!Newest
  <2> QED  BY <2>1, <2>2
<1>5. ASSUME statuses # {}
      PROVE  \E x \in statuses' : \A v \in statuses : v.timestamp <= x.timestamp
  BY <1>2, <1>3, <1>5
<1>6. statuses # {} => statuses' # {}
  BY <1>5
<1>7. \A t \in Nat :
        /\ (\E v \in statuses : t < v.timestamp) => \E v \in statuses' : t < v.timestamp
        /\ (\E v \in statuses : t <= v.timestamp) => \E v \in statuses' : t <= v.timestamp
  BY <1>1, <1>5
<1> QED  BY <1>4, <1>6, <1>7

(* The process ends: the rows stay, no handler runs. *)
LEMMA RestartStatus ==
    ASSUME StatusInv, S!Restart, crashes' \in 0..MaxCrashes
    PROVE  StatusInv'
<1>1. /\ UNCHANGED <<now, statuses, newest, blind>> /\ listeners' = 0 /\ boot' = "read"
  BY DEF S!Restart, S!history
<1>2. \A h \in Handler : handler'[h] = IF S!Running(h) THEN [S!Free EXCEPT !.stage = "aborted"]
                                       ELSE handler[h]
  BY DEF S!Restart
<1>3. S!TypeOK'
  <2>1. [S!Free EXCEPT !.stage = "aborted"]
          \in [stage : S!Stage, timestamp : S!Time, wasOnline : BOOLEAN, doomed : SUBSET S!RowAt]
    <3>1. 0 \in S!Time
      BY StatusTyped DEF StatusInv, S!Time
    <3> QED  BY <3>1 DEF S!Free, S!Stage
  <2>2. handler' \in [Handler -> [stage : S!Stage, timestamp : S!Time, wasOnline : BOOLEAN,
                                  doomed : SUBSET S!RowAt]]
    BY <2>1 DEF S!Restart, StatusInv, S!TypeOK
  <2> QED  BY <1>1, <2>2, NetworkAssumption DEF StatusInv, S!TypeOK, S!StatusAssumption
<1>4. \A h \in Handler :
        /\ ~S!Running(h)'
        /\ ~S!At(h, "save")'
        /\ handler'[h].timestamp <= now
        /\ \A w \in handler'[h].doomed : w \in handler[h].doomed
        /\ handler'[h].stage \notin {"readHour", "trimHour", "readOld", "trimOld"}
  <2> TAKE h \in Handler
  <2>1. handler[h].timestamp <= now /\ handler[h].stage \in S!Stage /\ now \in Nat
    BY StatusTyped DEF StatusInv, RowsInOrder
  <2>2. CASE S!Running(h)
    BY <1>2, <2>1, <2>2 DEF S!Free, S!Running, S!At
  <2>3. CASE ~S!Running(h)
    BY <1>2, <2>1, <2>3 DEF S!Running, S!At
  <2> QED  BY <2>2, <2>3
<1>5. RowsInOrder'
  BY <1>1, <1>4 DEF StatusInv, RowsInOrder
<1>6. LatestKnown'
  BY <1>1, <1>4 DEF StatusInv, LatestKnown
<1>7. DoomedOlder'
  BY <1>1, <1>4 DEF StatusInv, DoomedOlder
<1> QED  BY <1>3, <1>5, <1>6, <1>7 DEF StatusInv


(* Every connection adds a listener; the bootstrapper reads; time passes.  *)
LEMMA QuietStatus ==
    ASSUME StatusInv, S!Connect \/ S!FindLatest \/ S!NeverSeen \/ S!Tick
    PROVE  StatusInv'
<1>1. /\ UNCHANGED <<statuses, handler, newest, blind, crashes>>
      /\ now' \in S!Time /\ now <= now' /\ listeners' \in 0..MaxListeners
      /\ boot' \in {"read", "seed", "done"}
      /\ \A h \in Handler : S!Running(h) => now' <= handler[h].timestamp + SavedDays
  <2> USE StatusTyped DEF StatusInv
  <2>1. CASE S!Connect
    BY <2>1, NetworkAssumption DEF S!Connect, S!history, S!TypeOK, S!StatusAssumption, DoomedOlder
  <2>2. CASE S!FindLatest
    BY <2>2 DEF S!FindLatest, S!history, S!TypeOK, DoomedOlder
  <2>3. CASE S!NeverSeen
    BY <2>3 DEF S!NeverSeen, S!history, S!TypeOK, DoomedOlder
  <2>4. CASE S!Tick
    <3>1. now' = now + 1 /\ now < MaxTime /\ S!InTime(now + 1)
          /\ UNCHANGED <<statuses, handler, newest, blind, crashes, listeners, boot>>
      BY <2>4 DEF S!Tick, S!history
    <3>2. \A h \in Handler : S!Running(h) => now' <= handler[h].timestamp + SavedDays
      BY <3>1 DEF S!InTime
    <3>3. now' \in S!Time /\ now <= now'
      BY <3>1 DEF S!Time
    <3> QED  BY <3>1, <3>2, <3>3 DEF S!TypeOK
  <2> QED  BY <2>1, <2>2, <2>3, <2>4
<1>2. S!TypeOK'
  BY <1>1 DEF StatusInv, S!TypeOK
<1>3. RowsInOrder'
  BY <1>1, StatusTyped DEF StatusInv, RowsInOrder, S!Time
<1>4. LatestKnown'
  BY <1>1 DEF StatusInv, LatestKnown, S!At
<1>5. DoomedOlder'
  BY <1>1 DEF StatusInv, DoomedOlder, S!Running
<1> QED  BY <1>2, <1>3, <1>4, <1>5 DEF StatusInv

(* A message is stamped after every row there is. *)
LEMMA ReceiveStatus ==
    ASSUME StatusInv, NEW online \in BOOLEAN, S!ReceiveGatewayStatus(online)
    PROVE  StatusInv'
<1>1. PICK hs \in SUBSET {h \in Handler : S!At(h, "free")}, stamp \in [Handler -> now..(now + 1)] :
        /\ \A h \in Handler : stamp[h] \in S!Time
        /\ handler' = [h \in Handler |->
                IF h \in hs THEN [S!Free EXCEPT !.stage = "save", !.timestamp = stamp[h],
                                                !.wasOnline = online]
                ELSE handler[h]]
        /\ now' = IF \E h \in hs : stamp[h] > now THEN now + 1 ELSE now
        /\ S!InTime(now')
  BY DEF S!ReceiveGatewayStatus
<1>2. UNCHANGED <<statuses, newest, blind, crashes, listeners, boot>>
  BY DEF S!ReceiveGatewayStatus, S!history
<1>3. /\ now \in Nat /\ SavedDays \in Nat \ {0}
      /\ \A h \in Handler : handler[h].timestamp \in Nat /\ handler[h].stage \in S!Stage
      /\ \A w \in statuses : w.timestamp \in Nat
  BY StatusTyped DEF StatusInv
<1>a. \A h \in hs : /\ h \in Handler /\ stamp[h] \in S!Time /\ stamp[h] \in now..(now + 1)
  BY <1>1
<1>b. \A h \in hs : stamp[h] \in Nat /\ (stamp[h] = now \/ stamp[h] = now + 1)
  <2>1. now \in Nat
    BY <1>3
  <2> QED  BY <2>1, <1>a
<1>c. \A h \in hs : handler'[h] = [stage |-> "save", timestamp |-> stamp[h],
                                  wasOnline |-> online, doomed |-> {}]
  BY <1>1 DEF S!Free
<1>4. /\ now' = now \/ now' = now + 1
      /\ \A h \in hs : stamp[h] <= now'
      /\ now' \in S!Time
  <2>1. CASE \E h \in hs : stamp[h] > now
    <3>1. PICK h \in hs : stamp[h] > now
      BY <2>1
    <3>2. stamp[h] = now + 1 /\ stamp[h] \in S!Time
      <4>1. now \in Nat
        BY <1>3
      <4> QED  BY <4>1, <1>a, <1>b, <3>1
    <3>3. now' = now + 1
      BY <1>1, <2>1
    <3> QED  BY <1>3, <1>b, <3>2, <3>3
  <2>2. CASE ~\E h \in hs : stamp[h] > now
    <3>1. now' = now /\ now \in S!Time
      BY <1>1, <2>2 DEF StatusInv, S!TypeOK
    <3> QED  BY <1>3, <1>b, <2>2, <3>1
  <2> QED  BY <2>1, <2>2
<1>5. \A h \in hs : /\ now <= stamp[h] /\ stamp[h] <= now' /\ stamp[h] \in Nat
                    /\ handler'[h].stage = "save" /\ handler'[h].timestamp = stamp[h]
                    /\ handler'[h].doomed = {}
  <2>1. \A h \in hs : now <= stamp[h] /\ stamp[h] <= now' /\ stamp[h] \in Nat
    <3>1. now \in Nat
      BY <1>3
    <3> QED  BY <3>1, <1>4, <1>b
  <2>2. \A h \in hs : /\ handler'[h].stage = "save" /\ handler'[h].timestamp = stamp[h]
                      /\ handler'[h].doomed = {}
    <3>1. ASSUME NEW e, NEW t, e = [stage |-> "save", timestamp |-> t, wasOnline |-> online, doomed |-> {}]
          PROVE  e.stage = "save" /\ e.timestamp = t /\ e.doomed = {}
      BY <3>1
    <3> QED  BY <1>c, <3>1
  <2> QED  BY <2>1, <2>2
<1>6. \A h \in Handler \ hs : handler'[h] = handler[h]
  BY <1>1
<1>7. S!TypeOK'
  <2>1. \A h \in Handler :
          [S!Free EXCEPT !.stage = "save", !.timestamp = stamp[h], !.wasOnline = online]
            \in [stage : S!Stage, timestamp : S!Time, wasOnline : BOOLEAN, doomed : SUBSET S!RowAt]
    <3>1. 0 \in S!Time
      BY StatusTyped DEF StatusInv, S!Time
    <3> QED  BY <1>1, <3>1 DEF S!Free, S!Stage
  <2>2. handler' \in [Handler -> [stage : S!Stage, timestamp : S!Time, wasOnline : BOOLEAN,
                                  doomed : SUBSET S!RowAt]]
    BY <1>1, <2>1 DEF StatusInv, S!TypeOK
  <2> QED  BY <1>2, <1>4, <2>2 DEF StatusInv, S!TypeOK
<1>8. RowsInOrder'
  <2>1. \A w \in statuses : w.timestamp <= now'
    BY <1>3, <1>4 DEF StatusInv, RowsInOrder, S!Time
  <2>2. \A h \in Handler : handler'[h].timestamp <= now'
    BY <1>3, <1>4, <1>5, <1>6 DEF StatusInv, RowsInOrder, S!Time
  <2> QED  BY <1>2, <2>1, <2>2 DEF StatusInv, RowsInOrder
<1>9. LatestKnown'
  <2>1. \A w \in S!Newest(statuses), h \in hs : w.timestamp <= handler'[h].timestamp
    BY <1>3, <1>5 DEF StatusInv, RowsInOrder, S!Newest
  <2>2. \A h \in Handler \ hs : S!At(h, "save")' = S!At(h, "save")
    BY <1>6 DEF S!At
  <2> QED  BY <1>2, <1>6, <2>1, <2>2 DEF StatusInv, LatestKnown
<1>10. DoomedOlder'
  <2>1. ASSUME NEW h \in hs
        PROVE  /\ handler'[h].doomed = {} /\ handler'[h].stage = "save"
               /\ now' <= handler'[h].timestamp + SavedDays
    <3>1. now' <= stamp[h] + SavedDays
      BY <1>3, <1>4, <1>b
    <3> QED  BY <1>5, <3>1
  <2>2. ASSUME NEW h \in Handler \ hs, S!Running(h)'
        PROVE  now' <= handler'[h].timestamp + SavedDays
    <3>1. handler'[h] = handler[h] /\ S!Running(h)
      BY <1>6, <2>2 DEF S!Running
    <3>2. now' < handler[h].timestamp + SavedDays
      BY <1>1, <3>1 DEF S!InTime
    <3> QED  BY <1>3, <1>4, <3>1, <3>2
  <2> QED  BY <1>2, <1>6, <2>1, <2>2 DEF StatusInv, DoomedOlder
<1> QED  BY <1>7, <1>8, <1>9, <1>10 DEF StatusInv


(* A handler goes to another stage with the rows it is to delete. *)
LEMMA GotoTyped ==
    ASSUME S!TypeOK, NEW h \in Handler, NEW st \in S!Stage, NEW found \in SUBSET S!RowAt,
           S!Goto(h, st, found)
    PROVE  /\ handler' \in [Handler -> [stage : S!Stage, timestamp : S!Time, wasOnline : BOOLEAN,
                                        doomed : SUBSET S!RowAt]]
           /\ handler'[h].stage = st /\ handler'[h].doomed = found
           /\ handler'[h].timestamp = handler[h].timestamp
           /\ \A k \in Handler \ {h} : handler'[k] = handler[k]
<1>1. /\ handler \in [Handler -> [stage : S!Stage, timestamp : S!Time, wasOnline : BOOLEAN,
                                  doomed : SUBSET S!RowAt]]
      /\ handler' = [handler EXCEPT ![h].stage = st, ![h].doomed = found]
  BY DEF S!TypeOK, S!Goto
<1> HIDE DEF S!Stage, S!Time
<1> QED  BY <1>1

(* A message becomes a row, the latest or not. *)
LEMMA SaveStatus ==
    ASSUME StatusInv, NEW h \in Handler, S!SaveStatus(h)
    PROVE  StatusInv'
<1> DEFINE row == S!RowOf(h)
           t == handler[h].timestamp
<1>0. /\ now \in Nat /\ \A w \in statuses \cup newest : w.timestamp \in Nat
      /\ S!TypeOK /\ t \in Nat /\ t <= now
      /\ \A k \in Handler : handler[k].timestamp \in Nat
  BY StatusTyped DEF StatusInv, RowsInOrder
<1>1. CASE \E w \in statuses : w.timestamp = t
  BY <1>1, RestartStatus DEF S!SaveStatus, StatusInv, S!TypeOK
<1>2. CASE \A w \in statuses : w.timestamp # t
  <2>1. /\ statuses' = statuses \cup {row} /\ newest' = S!Newest(newest \cup {row})
        /\ S!Goto(h, "readHour", {})
        /\ UNCHANGED <<now, listeners, boot, blind, crashes>>
        /\ handler[h].stage = "save"
    BY <1>2 DEF S!SaveStatus, S!At
  <2>2. row \in S!RowAt /\ row.timestamp = t
    BY StatusTyped DEF StatusInv, S!RowOf, S!RowAt
  <2>3. /\ handler' \in [Handler -> [stage : S!Stage, timestamp : S!Time, wasOnline : BOOLEAN,
                                     doomed : SUBSET S!RowAt]]
        /\ handler'[h].stage = "readHour" /\ handler'[h].doomed = {}
        /\ handler'[h].timestamp = t
        /\ \A k \in Handler \ {h} : handler'[k] = handler[k]
    BY <1>0, <2>1, GotoTyped DEF S!Stage
  <2> HIDE DEF row
  <2>4. S!TypeOK'
    <3>1. newest' \subseteq S!RowAt
      BY <1>0, <2>1, <2>2 DEF S!TypeOK, S!Newest
    <3> QED  BY <1>0, <2>1, <2>2, <2>3, <3>1 DEF S!TypeOK
  <2>5. \A w \in S!Newest(statuses) :
          /\ w \in statuses /\ w.timestamp \in Nat /\ w.timestamp # t
          /\ \A v \in statuses : v.timestamp <= w.timestamp
          /\ \A v \in newest : v = w \/ v.timestamp < w.timestamp
    BY <1>0, <1>2 DEF S!Newest, StatusInv, LatestKnown
  <2>6. \A w \in S!Newest(statuses') :
          \/ w = row /\ \A v \in statuses : v.timestamp < t
          \/ w \in S!Newest(statuses) /\ t < w.timestamp
    BY <1>0, <1>2, <2>1, <2>2, <2>5 DEF S!Newest
  <2>7. statuses = {} => newest = {}
    BY DEF StatusInv, RowsInOrder
  <2>8. \A v \in newest' : v = row \/ v \in newest
    BY <2>1 DEF S!Newest
  <2>9. RowsInOrder'
    <3>1. S!Newest(statuses') # {}
      <4>1. CASE statuses = {}
        BY <1>0, <2>1, <2>2, <4>1 DEF S!Newest
      <4>2. CASE statuses # {}
        <5>1. PICK w \in S!Newest(statuses) : TRUE
          BY <4>2 DEF StatusInv, RowsInOrder
        <5>2. CASE t < w.timestamp
          BY <1>0, <2>1, <2>2, <2>5, <5>1, <5>2 DEF S!Newest
        <5>3. CASE w.timestamp < t
          BY <1>0, <2>1, <2>2, <2>5, <5>1, <5>3 DEF S!Newest
        <5> QED  BY <1>0, <2>5, <5>2, <5>3
      <4> QED  BY <4>1, <4>2
    <3>2. \A v, w \in statuses' : v.timestamp = w.timestamp => v = w
      BY <1>2, <2>1, <2>2 DEF StatusInv, RowsInOrder
    <3>3. \A w \in statuses' : w.timestamp <= now
      BY <1>0, <2>1, <2>2 DEF StatusInv, RowsInOrder
    <3>4. \A k \in Handler : handler'[k].timestamp <= now
      BY <1>0, <2>3 DEF StatusInv, RowsInOrder
    <3>5. \A v, w \in newest' : v.timestamp <= w.timestamp
      BY <2>1 DEF S!Newest
    <3> QED  BY <2>1, <3>1, <3>2, <3>3, <3>4, <3>5 DEF RowsInOrder
  <2>10. LatestKnown'
    <3>1. ASSUME NEW w \in S!Newest(statuses')
          PROVE  \A v \in newest' : v = w \/ v.timestamp < w.timestamp
      <4>1. CASE w = row /\ \A v \in statuses : v.timestamp < t
        <5>1. \A v \in newest : v.timestamp < t
          <6>1. CASE statuses = {}
            BY <2>7, <6>1
          <6>2. CASE statuses # {}
            <7>1. PICK x \in S!Newest(statuses) : TRUE
              BY <6>2 DEF StatusInv, RowsInOrder
            <7>2. x.timestamp < t /\ \A v \in newest : v.timestamp <= x.timestamp
              BY <1>0, <2>5, <4>1, <7>1
            <7> QED  BY <1>0, <2>5, <7>1, <7>2
          <6> QED  BY <6>1, <6>2
        <5> QED  BY <2>2, <2>8, <4>1, <5>1
      <4>2. CASE w \in S!Newest(statuses) /\ t < w.timestamp
        BY <2>2, <2>5, <2>8, <4>2
      <4> QED  BY <2>6, <4>1, <4>2
    <3>2. ASSUME NEW w \in S!Newest(statuses')
          PROVE  w \in newest' \/ w \in blind
      <4>1. CASE w = row /\ \A v \in statuses : v.timestamp < t
        <5>1. \A v \in newest : v.timestamp <= t
          BY <1>0, <2>2, <2>8, <2>7, <2>5, <4>1 DEF StatusInv, RowsInOrder
        <5> QED  BY <1>0, <2>1, <2>2, <4>1, <5>1 DEF S!Newest
      <4>2. CASE w \in S!Newest(statuses) /\ t < w.timestamp
        <5>1. w \in newest \/ w \in blind
          <6>1. newest = {} /\ (\A k \in Handler : S!At(k, "save") => w.timestamp <= handler[k].timestamp)
                  => FALSE
            BY <1>0, <2>1, <2>5, <4>2 DEF S!At
          <6> QED  BY <4>2, <6>1 DEF StatusInv, LatestKnown
        <5>2. w \in newest => w \in newest'
          BY <1>0, <2>1, <2>2, <2>5, <4>2 DEF S!Newest
        <5> QED  BY <5>1, <5>2
      <4> QED  BY <2>6, <4>1, <4>2
    <3> QED  BY <2>1, <3>1, <3>2 DEF LatestKnown
  <2>11. DoomedOlder'
    <3>1. \A k \in Handler \ {h} : S!Running(k)' = S!Running(k)
      BY <2>3 DEF S!Running
    <3>2. now <= t + SavedDays
      BY <2>1 DEF StatusInv, DoomedOlder, S!Running
    <3>3. \E v \in statuses' : t <= v.timestamp
      BY <1>0, <2>1, <2>2
    <3> QED  BY <2>1, <2>3, <3>1, <3>2, <3>3 DEF StatusInv, DoomedOlder
  <2> QED  BY <2>4, <2>9, <2>10, <2>11 DEF StatusInv
<1> QED  BY <1>1, <1>2

(* A handler that ends holds nothing any more. *)
LEMMA EndedStatus ==
    ASSUME StatusInv, NEW h \in Handler,
           handler' = [handler EXCEPT ![h] = [S!Free EXCEPT !.stage = "done"]],
           UNCHANGED <<now, listeners, boot, newest, blind, crashes>>,
           statuses' \subseteq statuses, S!Newest(statuses') = S!Newest(statuses),
           statuses # {} => statuses' # {},
           \A t \in Nat :
             /\ (\E v \in statuses : t < v.timestamp) => \E v \in statuses' : t < v.timestamp
             /\ (\E v \in statuses : t <= v.timestamp) => \E v \in statuses' : t <= v.timestamp
    PROVE  StatusInv'
<1>0. /\ S!TypeOK /\ now \in Nat
      /\ \A w \in S!RowAt : w.timestamp \in Nat
      /\ \A k \in Handler : handler[k].timestamp \in Nat /\ handler[k].doomed \subseteq S!RowAt
  BY StatusTyped DEF StatusInv
<1> DEFINE e == [S!Free EXCEPT !.stage = "done"]
<1>1. /\ e \in [stage : S!Stage, timestamp : S!Time, wasOnline : BOOLEAN, doomed : SUBSET S!RowAt]
      /\ e.stage = "done" /\ e.doomed = {} /\ e.timestamp = 0
  <2>1. 0 \in S!Time
    BY StatusTyped DEF StatusInv, S!Time
  <2> QED  BY <2>1 DEF S!Free, S!Stage
<1> HIDE DEF e
<1>2. handler'[h] = e /\ \A k \in Handler \ {h} : handler'[k] = handler[k]
  BY <1>0 DEF S!TypeOK, e
<1>3. handler' \in [Handler -> [stage : S!Stage, timestamp : S!Time, wasOnline : BOOLEAN,
                                doomed : SUBSET S!RowAt]]
  <2>1. handler' = [handler EXCEPT ![h] = e]
    BY DEF e
  <2> QED  BY <1>0, <1>1, <2>1 DEF S!TypeOK
<1>4. S!TypeOK'
  BY <1>0, <1>3 DEF S!TypeOK
<1>5. RowsInOrder'
  <2>1. \A k \in Handler : handler'[k].timestamp <= now
    BY <1>0, <1>1, <1>2 DEF StatusInv, RowsInOrder
  <2>2. statuses' # {} => S!Newest(statuses') # {}
    BY DEF StatusInv, RowsInOrder
  <2> QED  BY <2>1, <2>2 DEF StatusInv, RowsInOrder
<1>6. LatestKnown'
  BY <1>1, <1>2 DEF StatusInv, LatestKnown, S!At
<1>7. DoomedOlder'
  <2>1. \A k \in Handler \ {h} : S!Running(k)' = S!Running(k)
    BY <1>2 DEF S!Running
  <2>2. ~S!Running(h)'
    BY <1>1, <1>2 DEF S!Running
  <2> QED  BY <1>0, <1>1, <1>2, <2>1, <2>2 DEF StatusInv, DoomedOlder
<1> QED  BY <1>4, <1>5, <1>6, <1>7 DEF StatusInv

(* A row beyond the HourlyCap newest has a later one. *)
LEMMA BeyondNewestOlder ==
    ASSUME S!TypeOK, NEW rs \in SUBSET statuses, NEW w \in S!BeyondNewest(rs)
    PROVE  w \in rs /\ \E v \in rs : w.timestamp < v.timestamp
<1> DEFINE later == {v \in rs : v.timestamp > w.timestamp}
<1>1. w \in rs /\ S!Cardinality(later) >= HourlyCap
  BY DEF S!BeyondNewest
<1>2. \A v \in later : v \in rs /\ v.timestamp > w.timestamp
  OBVIOUS
<1>3. \A v \in rs : v.timestamp \in Nat
  BY StatusTyped
<1> HIDE DEF later
<1>4. HourlyCap \in Nat \ {0}
  BY StatusTyped
<1>5. S!Cardinality({}) = 0
  BY DEF S!Cardinality
<1>6. later # {}
  BY <1>1, <1>4, <1>5
<1> QED  BY <1>1, <1>2, <1>3, <1>6

(* A handler finds rows beyond the cap, or too old: each has a later one.  *)
LEMMA FindStatuses ==
    ASSUME StatusInv, NEW h \in Handler, S!FindSinceLastHour(h) \/ S!FindOld(h)
    PROVE  StatusInv'
<1>0. /\ S!TypeOK /\ now \in Nat /\ SavedDays \in Nat /\ HourlyCap \in Nat \ {0}
      /\ \A w \in statuses : w.timestamp \in Nat
      /\ handler[h].timestamp \in Nat
  BY StatusTyped DEF StatusInv
<1>1. UNCHANGED <<now, statuses, listeners, boot, newest, blind, crashes>>
  BY DEF S!FindSinceLastHour, S!FindOld, S!history
<1>2. ASSUME NEW st \in S!Stage \ {"save"}, NEW found \in SUBSET statuses, S!Goto(h, st, found),
             \A w \in found : \E v \in statuses : w.timestamp < v.timestamp,
             \E v \in statuses : handler[h].timestamp <= v.timestamp, S!Running(h)
      PROVE  StatusInv'
  <2>1. found \in SUBSET S!RowAt
    BY <1>0 DEF S!TypeOK
  <2>2. /\ handler' \in [Handler -> [stage : S!Stage, timestamp : S!Time, wasOnline : BOOLEAN,
                                     doomed : SUBSET S!RowAt]]
        /\ handler'[h].stage = st /\ handler'[h].doomed = found
        /\ handler'[h].timestamp = handler[h].timestamp
        /\ \A k \in Handler \ {h} : handler'[k] = handler[k]
    BY <1>0, <1>2, <2>1, GotoTyped
  <2>3. S!TypeOK'
    BY <1>0, <1>1, <2>2 DEF S!TypeOK
  <2>4. RowsInOrder'
    BY <1>1, <2>2 DEF StatusInv, RowsInOrder
  <2>5. LatestKnown'
    BY <1>1, <1>2, <2>2 DEF StatusInv, LatestKnown, S!At
  <2>6. DoomedOlder'
    <3>1. now <= handler[h].timestamp + SavedDays
      BY <1>2 DEF StatusInv, DoomedOlder
    <3>2. \A k \in Handler \ {h} : S!Running(k)' = S!Running(k)
      BY <2>2 DEF S!Running
    <3> QED  BY <1>1, <1>2, <2>2, <3>1, <3>2 DEF StatusInv, DoomedOlder
  <2> QED  BY <2>3, <2>4, <2>5, <2>6 DEF StatusInv
<1>3. CASE S!FindSinceLastHour(h)
  <2> DEFINE rs == {w \in statuses : w.timestamp + Hour > handler[h].timestamp}
             excess == S!BeyondNewest(rs)
             st == IF excess = {} THEN "readOld" ELSE "trimHour"
  <2>1. S!Goto(h, st, excess) /\ handler[h].stage = "readHour"
    BY <1>3 DEF S!FindSinceLastHour, S!At
  <2>2. \A w \in excess : w \in rs /\ \E v \in rs : w.timestamp < v.timestamp
    <3> HIDE DEF rs
    <3>1. rs \subseteq statuses
      BY DEF rs
    <3> QED  BY <1>0, <3>1, BeyondNewestOlder
  <2>3. \E v \in statuses : handler[h].timestamp <= v.timestamp
    BY <2>1 DEF StatusInv, DoomedOlder
  <2>4. S!Running(h) /\ st \in S!Stage \ {"save"}
    BY <2>1 DEF S!Running, S!Stage
  <2>5. excess \subseteq statuses /\ \A w \in excess : \E v \in statuses : w.timestamp < v.timestamp
    BY <2>2
  <2> HIDE DEF excess, st
  <2> QED  BY <1>2, <2>1, <2>3, <2>4, <2>5
<1>4. CASE S!FindOld(h)
  <2> DEFINE old == {w \in statuses : w.timestamp + SavedDays < now}
  <2>1. handler[h].stage = "readOld"
    BY <1>4 DEF S!FindOld, S!At
  <2>2. PICK x \in statuses : handler[h].timestamp <= x.timestamp
    BY <2>1 DEF StatusInv, DoomedOlder
  <2>3. S!Running(h) /\ now <= handler[h].timestamp + SavedDays
    BY <2>1 DEF S!Running, StatusInv, DoomedOlder
  <2>4. \A w \in old : w.timestamp < x.timestamp
    BY <1>0, <2>2, <2>3
  <2>5. CASE old # {}
    <3>1. S!Goto(h, "trimOld", old) /\ "trimOld" \in S!Stage \ {"save"}
      BY <1>4, <2>5 DEF S!FindOld, S!Stage
    <3> HIDE DEF old
    <3>2. old \subseteq statuses
      BY DEF old
    <3> QED  BY <1>2, <2>2, <2>3, <2>4, <3>1, <3>2
  <2>6. CASE old = {}
    <3>1. handler' = [handler EXCEPT ![h] = [S!Free EXCEPT !.stage = "done"]]
      BY <1>4, <2>6 DEF S!FindOld, S!Done
    <3> QED  BY <1>0, <1>1, <3>1, EndedStatus
  <2> QED  BY <2>5, <2>6
<1> QED  BY <1>3, <1>4

(* A handler deletes what it has found.                                    *)
LEMMA DeleteStatuses ==
    ASSUME StatusInv, NEW h \in Handler, S!DeleteSinceLastHour(h) \/ S!DeleteOld(h)
    PROVE  StatusInv'
<1>0. S!TypeOK /\ \A k \in Handler : handler[k].timestamp \in Nat
  BY StatusTyped DEF StatusInv
<1>1. /\ UNCHANGED <<now, listeners, boot, newest, blind, crashes>>
      /\ statuses' = statuses \ handler[h].doomed
  BY DEF S!DeleteSinceLastHour, S!DeleteOld, S!history
<1>2. /\ S!Newest(statuses') = S!Newest(statuses)
      /\ statuses # {} => statuses' # {}
      /\ statuses' \subseteq statuses
      /\ \A t \in Nat :
           /\ (\E v \in statuses : t < v.timestamp) => \E v \in statuses' : t < v.timestamp
           /\ (\E v \in statuses : t <= v.timestamp) => \E v \in statuses' : t <= v.timestamp
  BY <1>1, LatestSpared
<1>3. CASE S!DeleteOld(h)
  BY <1>1, <1>2, <1>3, EndedStatus DEF S!DeleteOld, S!Done
<1>4. CASE S!DeleteSinceLastHour(h)
  <2>1. handler[h].stage = "trimHour" /\ S!Goto(h, "readOld", {})
    BY <1>4 DEF S!DeleteSinceLastHour, S!At
  <2>2. /\ handler' \in [Handler -> [stage : S!Stage, timestamp : S!Time, wasOnline : BOOLEAN,
                                     doomed : SUBSET S!RowAt]]
        /\ handler'[h].stage = "readOld" /\ handler'[h].doomed = {}
        /\ handler'[h].timestamp = handler[h].timestamp
        /\ \A k \in Handler \ {h} : handler'[k] = handler[k]
    BY <1>0, <2>1, GotoTyped DEF S!Stage
  <2>3. S!TypeOK'
    BY <1>0, <1>1, <2>2 DEF S!TypeOK
  <2>4. RowsInOrder'
    BY <1>1, <1>2, <2>2 DEF StatusInv, RowsInOrder
  <2>5. LatestKnown'
    BY <1>1, <1>2, <2>1, <2>2 DEF StatusInv, LatestKnown, S!At
  <2>6. DoomedOlder'
    <3>1. \A k \in Handler \ {h} : S!Running(k)' = S!Running(k)
      BY <2>2 DEF S!Running
    <3>2. S!Running(h)
      BY <2>1 DEF S!Running
    <3>3. \A k \in Handler : \A w \in handler[k].doomed : w.timestamp \in Nat
      BY <1>0, StatusTyped
    <3>4. \A k \in Handler :
            handler'[k].stage \in {"readHour", "trimHour", "readOld", "trimOld"}
              => \E v \in statuses' : handler'[k].timestamp <= v.timestamp
      BY <1>0, <1>2, <2>1, <2>2 DEF StatusInv, DoomedOlder
    <3>5. \A k \in Handler : \A w \in handler'[k].doomed : \E v \in statuses' : w.timestamp < v.timestamp
      BY <1>2, <2>2, <3>3 DEF StatusInv, DoomedOlder
    <3> QED  BY <1>1, <2>2, <3>1, <3>2, <3>4, <3>5 DEF StatusInv, DoomedOlder
  <2> QED  BY <2>3, <2>4, <2>5, <2>6 DEF StatusInv
<1> QED  BY <1>3, <1>4

(* The bootstrapper's row is the latest: it is remembered as seeded blindly *)
(* unless there were no rows and no handler is at work.                     *)
LEMMA SeedStatus ==
    ASSUME StatusInv, NEW online \in BOOLEAN, S!SeedStatus(online)
    PROVE  StatusInv'
<1> DEFINE w == [timestamp |-> now, wasOnline |-> online, seeded |-> TRUE]
<1>0. /\ S!TypeOK /\ now \in Nat /\ crashes' = crashes
      /\ \A v \in statuses \cup newest : v.timestamp \in Nat
      /\ \A k \in Handler : handler[k].timestamp \in Nat
  BY StatusTyped DEF StatusInv, S!SeedStatus
<1>1. CASE \E v \in statuses : v.timestamp = now
  BY <1>0, <1>1, RestartStatus DEF S!SeedStatus, S!TypeOK
<1>2. CASE \A v \in statuses : v.timestamp # now
  <2>1. /\ statuses' = statuses \cup {w} /\ boot' = "done"
        /\ blind' = IF statuses # {} \/ \E h \in Handler : S!Running(h) THEN blind \cup {w} ELSE blind
        /\ UNCHANGED <<now, listeners, handler, newest, crashes>>
    BY <1>2 DEF S!SeedStatus
  <2>2. w \in S!RowAt /\ w.timestamp = now
    BY <1>0 DEF S!RowAt, S!TypeOK
  <2> HIDE DEF w
  <2>3. \A v \in statuses : v.timestamp < now
    BY <1>0, <1>2 DEF StatusInv, RowsInOrder
  <2>4. S!Newest(statuses') = {w}
    BY <1>0, <2>1, <2>2, <2>3 DEF S!Newest
  <2>5. S!TypeOK'
    BY <1>0, <2>1, <2>2 DEF S!TypeOK
  <2>6. RowsInOrder'
    <3>1. \A u, v \in statuses' : u.timestamp = v.timestamp => u = v
      BY <1>2, <2>1, <2>2 DEF StatusInv, RowsInOrder
    <3>2. \A v \in statuses' : v.timestamp <= now
      BY <1>0, <2>1, <2>2 DEF StatusInv, RowsInOrder
    <3> QED  BY <2>1, <2>4, <3>1, <3>2 DEF StatusInv, RowsInOrder
  <2>7. LatestKnown'
    <3>1. \A v \in newest : v.timestamp < now
      <4>1. CASE statuses = {}
        BY <4>1 DEF StatusInv, RowsInOrder
      <4>2. CASE statuses # {}
        <5>1. PICK x \in S!Newest(statuses) : TRUE
          BY <4>2 DEF StatusInv, RowsInOrder
        <5>2. x \in statuses /\ \A v \in newest : v = x \/ v.timestamp < x.timestamp
          BY <5>1 DEF StatusInv, LatestKnown, S!Newest
        <5> QED  BY <1>0, <2>3, <5>2
      <4> QED  BY <4>1, <4>2
    <3>2. w \in blind' \/ (newest = {} /\ \A h \in Handler : ~S!At(h, "save"))
      BY <2>1 DEF StatusInv, RowsInOrder, S!At, S!Running
    <3>3. newest' = newest /\ \A h \in Handler : S!At(h, "save")' = S!At(h, "save")
      BY <2>1 DEF S!At
    <3> QED  BY <2>2, <2>4, <3>1, <3>2, <3>3 DEF LatestKnown
  <2>8. DoomedOlder'
    BY <2>1 DEF StatusInv, DoomedOlder, S!Running
  <2> QED  BY <2>5, <2>6, <2>7, <2>8 DEF StatusInv
<1> QED  BY <1>1, <1>2

(* Every step of the part preserves the invariant. *)
LEMMA StatusStep ==
    ASSUME StatusInv, S!Next \/ UNCHANGED statusVars
    PROVE  StatusInv'
<1>1. CASE UNCHANGED statusVars
  <2>0. UNCHANGED <<now, statuses, listeners, handler, boot, newest, blind, crashes>>
    BY <1>1 DEF statusVars
  <2>1. S!TypeOK'
    BY <2>0 DEF StatusInv, S!TypeOK
  <2>2. RowsInOrder'
    BY <2>0 DEF StatusInv, RowsInOrder
  <2>3. LatestKnown'
    BY <2>0 DEF StatusInv, LatestKnown, S!At
  <2>4. DoomedOlder'
    BY <2>0 DEF StatusInv, DoomedOlder, S!Running
  <2> QED  BY <2>1, <2>2, <2>3, <2>4 DEF StatusInv
<1>2. CASE S!Crash
  <2>1. crashes' \in 0..MaxCrashes /\ S!Restart
    BY <1>2, NetworkAssumption DEF S!Crash, StatusInv, S!TypeOK, S!StatusAssumption
  <2> QED  BY <2>1, RestartStatus
<1>3. CASE S!Next
  <2>1. ASSUME NEW online \in BOOLEAN, S!ReceiveGatewayStatus(online) \/ S!SeedStatus(online)
        PROVE  StatusInv'
    BY <2>1, ReceiveStatus, SeedStatus
  <2>2. ASSUME NEW h \in Handler,
               \/ S!SaveStatus(h) \/ S!FindSinceLastHour(h) \/ S!DeleteSinceLastHour(h)
               \/ S!FindOld(h) \/ S!DeleteOld(h)
        PROVE  StatusInv'
    BY <2>2, SaveStatus, FindStatuses, DeleteStatuses
  <2> QED  BY <1>2, <1>3, <2>1, <2>2, QuietStatus DEF S!Next
<1> QED  BY <1>1, <1>3

(* The status invariant holds where the part's behaviours are followed.    *)
LEMMA StatusAlways == Spec => [](on = "status" => StatusInv)
<1>1. Init => (on = "status" => StatusInv)
  BY StatusInit DEF Init
<1>2. (on = "status" => StatusInv) /\ [Next]_vars => (on = "status" => StatusInv)'
  <2> SUFFICES ASSUME on = "status" => StatusInv, [Next]_vars, on' = "status"
               PROVE  StatusInv'
    OBVIOUS
  <2> QED  BY PartSteps, StatusStep
<1> QED  BY <1>1, <1>2, PTL DEF Spec

(* Whatever the rows and the period, the history GatewayStatusHistoryService *)
(* reports tells at every moment of the period the status the rows tell.     *)
THEOREM ReportAlwaysExact == Spec => []ReportExact
<1>1. (on = "status" => StatusInv) => ReportExact
  BY ReportOfRows DEF StatusInv, ReportExact
<1> QED  BY <1>1, StatusAlways, PTL

(* Whatever number of handlers GatewayPersistenceService runs at once, and  *)
(* whenever the process ends, none deletes the last status ChirpStack sent: *)
(* what a handler has found to delete always has a later row, even when     *)
(* another one deletes between its query and its delete.                    *)
THEOREM LastStatusAlwaysKept == Spec => []LastStatusKept
<1>1. StatusInv => S!LastStatusKept
  <2> SUFFICES ASSUME StatusInv, newest # {}
               PROVE  \/ S!Newest(statuses) = newest
                      \/ S!Newest(statuses) # {} /\ S!Newest(statuses) \subseteq blind
    BY DEF S!LastStatusKept
  <2>1. PICK x \in S!Newest(statuses) : TRUE
    BY DEF StatusInv, RowsInOrder
  <2>2. \A w \in S!Newest(statuses) : w = x
    BY StatusTyped DEF StatusInv, RowsInOrder, S!Newest
  <2>3. x.timestamp \in Nat /\ \A v \in newest : v = x \/ v.timestamp < x.timestamp
    BY <2>1, StatusTyped DEF StatusInv, LatestKnown, S!Newest
  <2>4. \A v \in newest : v.timestamp \in Nat /\ \A w \in newest : w.timestamp <= v.timestamp
    BY StatusTyped DEF StatusInv, RowsInOrder
  <2>5. CASE x \in newest
    BY <2>1, <2>2, <2>3, <2>4, <2>5
  <2>6. CASE x \in blind
    BY <2>1, <2>2, <2>6
  <2> QED  BY <2>1, <2>5, <2>6 DEF StatusInv, LatestKnown
<1>2. (on = "status" => StatusInv) => LastStatusKept
  BY <1>1 DEF LastStatusKept
<1> QED  BY <1>2, StatusAlways, PTL
-----------------------------------------------------------------------------
(* The rows of an hour.  As in any clean-up that queries first and deletes *)
(* afterwards, the bound is stated for what there would be if the deletes  *)
(* of any of the handlings whose message is of that hour were done.        *)

(* Rows can be counted, and put in the order of their times.               *)
RowsCountable ==
    /\ IsFiniteSet(statuses)
    /\ \A ws \in SUBSET statuses : ws # {} => \E w \in ws : \A v \in ws : w.timestamp <= v.timestamp

InHour(h, t) == handler[h].timestamp <= t /\ handler[h].timestamp + Hour > t
RowsOfHour(t) == {w \in statuses : w.timestamp <= t /\ w.timestamp + Hour > t /\ ~w.seeded}
RowsSpared(t, hs) == {w \in RowsOfHour(t) : \A h \in hs : w \notin handler[h].doomed}

(* Handlings that have not cleaned up yet, or never will.                  *)
Owing(t) ==
    {h \in Handler : \/ handler[h].stage = "aborted"
                     \/ handler[h].stage \in {"readHour", "trimHour"} /\ InHour(h, t)}

HourLeft ==
    \A t \in S!Time : \A hs \in SUBSET {h \in Handler : handler[h].stage = "trimHour" /\ InHour(h, t)} :
        Cardinality(RowsSpared(t, hs)) <= HourlyCap + Cardinality(Owing(t) \ hs)

HourInv == RowsCountable /\ HourLeft

(* The sizes of finite sets. *)
LEMMA FiniteSizes ==
    ASSUME NEW A, IsFiniteSet(A)
    PROVE  /\ Cardinality(A) \in Nat
           /\ \A B \in SUBSET A : IsFiniteSet(B) /\ Cardinality(B) \in Nat /\ Cardinality(B) <= Cardinality(A)
           /\ \A x : IsFiniteSet(A \cup {x}) /\ Cardinality(A \cup {x}) <= Cardinality(A) + 1
           /\ \A x : x \notin A => Cardinality(A \cup {x}) = Cardinality(A) + 1
<1>1. Cardinality(A) \in Nat
  BY FS_CardinalityType
<1>2. \A B \in SUBSET A : IsFiniteSet(B) /\ Cardinality(B) <= Cardinality(A)
  BY FS_Subset
<1>3. \A B \in SUBSET A : Cardinality(B) \in Nat
  BY <1>2, FS_CardinalityType
<1>4. \A x : x \notin A => IsFiniteSet(A \cup {x}) /\ Cardinality(A \cup {x}) = Cardinality(A) + 1
  BY FS_AddElement
<1>5. ASSUME NEW x PROVE IsFiniteSet(A \cup {x}) /\ Cardinality(A \cup {x}) <= Cardinality(A) + 1
  <2>1. CASE x \in A
    <3>1. A \cup {x} = A
      BY <2>1
    <3> QED  BY <1>1, <3>1
  <2>2. CASE x \notin A
    BY <1>1, <1>4, <2>2
  <2> QED  BY <2>1, <2>2
<1> QED  BY <1>1, <1>2, <1>3, <1>4, <1>5

(* The operator of the part is that of this module. *)
LEMMA SameCardinality == \A A : S!Cardinality(A) = Cardinality(A)
  BY DEF S!Cardinality, Cardinality

(* A bound on rows by handlings holds on when there are fewer rows, or     *)
(* more handlings, or one more of each.                                    *)
LEMMA HourBound ==
    ASSUME NEW A, NEW B, NEW A1, NEW B1, NEW c \in Nat,
           IsFiniteSet(A), IsFiniteSet(A1), IsFiniteSet(B), IsFiniteSet(B1),
           Cardinality(A) <= c + Cardinality(B),
           \/ A1 \subseteq A /\ B \subseteq B1
           \/ \E w, h : h \notin B /\ A1 \subseteq A \cup {w} /\ B \cup {h} \subseteq B1
           \/ Cardinality(A1) <= c
    PROVE  Cardinality(A1) <= c + Cardinality(B1)
<1>1. /\ Cardinality(A) \in Nat /\ Cardinality(B) \in Nat
      /\ Cardinality(A1) \in Nat /\ Cardinality(B1) \in Nat
  BY FiniteSizes
<1>2. CASE A1 \subseteq A /\ B \subseteq B1
  <2>1. Cardinality(A1) <= Cardinality(A) /\ Cardinality(B) <= Cardinality(B1)
    BY <1>2, FiniteSizes
  <2> QED  BY <1>1, <2>1
<1>3. ASSUME NEW w, NEW h, h \notin B, A1 \subseteq A \cup {w}, B \cup {h} \subseteq B1
      PROVE  Cardinality(A1) <= c + Cardinality(B1)
  <2>1. IsFiniteSet(A \cup {w}) /\ Cardinality(A \cup {w}) <= Cardinality(A) + 1
    BY FiniteSizes
  <2>2. Cardinality(A \cup {w}) \in Nat /\ Cardinality(A1) <= Cardinality(A \cup {w})
    BY <1>3, <2>1, FiniteSizes
  <2>3. Cardinality(B) + 1 = Cardinality(B \cup {h})
    BY <1>3, FiniteSizes
  <2>4. Cardinality(B \cup {h}) <= Cardinality(B1)
    BY <1>3, FiniteSizes
  <2> QED  BY <1>1, <2>1, <2>2, <2>3, <2>4
<1>4. CASE Cardinality(A1) <= c
  BY <1>1, <1>4
<1> QED  BY <1>2, <1>3, <1>4

(* Of rows of different times, skipping the HourlyCap newest leaves all    *)
(* but as many: the oldest that is left has less than HourlyCap newer.     *)
LEMMA KeptOfHour ==
    ASSUME S!TypeOK, RowsInOrder, RowsCountable, NEW rs \in SUBSET statuses
    PROVE  Cardinality(rs \ S!BeyondNewest(rs)) <= HourlyCap
<1> DEFINE K == rs \ S!BeyondNewest(rs)
<1>1. HourlyCap \in Nat /\ \A w \in statuses : w.timestamp \in Nat
  BY StatusTyped
<1>2. IsFiniteSet(K) /\ IsFiniteSet(rs)
  BY FiniteSizes DEF RowsCountable
<1>3. CASE K = {}
  BY <1>1, <1>3, FS_EmptySet
<1>4. CASE K # {}
  <2>1. PICK w \in K : \A v \in K : w.timestamp <= v.timestamp
    BY <1>4 DEF RowsCountable
  <2> DEFINE newer == {v \in rs : v.timestamp > w.timestamp}
  <2>2. IsFiniteSet(newer) /\ Cardinality(newer) \in Nat
    BY <1>2, FiniteSizes
  <2>3. ~(Cardinality(newer) >= HourlyCap)
    BY <2>1, SameCardinality DEF S!BeyondNewest
  <2>4. K \subseteq newer \cup {w}
    BY <1>1, <2>1 DEF RowsInOrder
  <2> HIDE DEF newer, K
  <2>5. /\ IsFiniteSet(newer \cup {w}) /\ Cardinality(newer \cup {w}) <= Cardinality(newer) + 1
    BY <2>2, FiniteSizes
  <2>6. /\ Cardinality(K) <= Cardinality(newer \cup {w})
        /\ Cardinality(K) \in Nat /\ Cardinality(newer \cup {w}) \in Nat
    BY <2>4, <2>5, FiniteSizes
  <2>7. Cardinality(K) <= HourlyCap
    BY <1>1, <2>2, <2>3, <2>5, <2>6
  <2> QED  BY <2>7 DEF K
<1> QED  BY <1>3, <1>4

(* One row more can be counted too. *)
LEMMA CountableStep ==
    ASSUME S!TypeOK, RowsCountable, S!TypeOK', NEW row \in S!RowAt, statuses' \subseteq statuses \cup {row}
    PROVE  RowsCountable'
<1>1. IsFiniteSet(statuses')
  <2>1. IsFiniteSet(statuses \cup {row})
    BY FiniteSizes DEF RowsCountable
  <2> QED  BY <2>1, FiniteSizes
<1>2. ASSUME NEW ws \in SUBSET statuses', ws # {}
      PROVE  \E w \in ws : \A v \in ws : w.timestamp <= v.timestamp
  <2>1. row.timestamp \in Nat /\ \A v \in ws : v.timestamp \in Nat
    BY StatusTyped DEF S!TypeOK
  <2>2. CASE ws \subseteq {row}
    BY <1>2, <2>1, <2>2
  <2>3. CASE ~(ws \subseteq {row})
    <3>1. ws \ {row} \in SUBSET statuses /\ ws \ {row} # {}
      BY <2>3
    <3>2. PICK w \in ws \ {row} : \A v \in ws \ {row} : w.timestamp <= v.timestamp
      BY <3>1 DEF RowsCountable
    <3>3. CASE row \in ws /\ row.timestamp < w.timestamp
      BY <2>1, <3>2, <3>3
    <3>4. CASE ~(row \in ws /\ row.timestamp < w.timestamp)
      BY <2>1, <3>2, <3>4
    <3> QED  BY <3>3, <3>4
  <2> QED  BY <2>2, <2>3
<1> QED  BY <1>1, <1>2 DEF RowsCountable

(* What has to be shown of an hour after a step, from any of the bounds    *)
(* before it.                                                              *)
LEMMA HourTransfer ==
    ASSUME S!TypeOK, RowsCountable, HourLeft, RowsCountable', NEW t \in S!Time, NEW hs,
           NEW ks \in SUBSET {h \in Handler : handler[h].stage = "trimHour" /\ InHour(h, t)},
           \/ RowsSpared(t, hs)' \subseteq RowsSpared(t, ks) /\ Owing(t) \ ks \subseteq Owing(t)' \ hs
           \/ \E w, h : /\ h \notin Owing(t) \ ks /\ RowsSpared(t, hs)' \subseteq RowsSpared(t, ks) \cup {w}
                        /\ (Owing(t) \ ks) \cup {h} \subseteq Owing(t)' \ hs
           \/ Cardinality(RowsSpared(t, hs)') <= HourlyCap
    PROVE  Cardinality(RowsSpared(t, hs)') <= HourlyCap + Cardinality(Owing(t)' \ hs)
<1>1. Cardinality(RowsSpared(t, ks)) <= HourlyCap + Cardinality(Owing(t) \ ks)
  BY DEF HourLeft
<1>2. IsFiniteSet(RowsSpared(t, ks)) /\ IsFiniteSet(RowsSpared(t, hs)')
  <2>1. RowsSpared(t, ks) \in SUBSET statuses /\ RowsSpared(t, hs)' \in SUBSET statuses'
    BY DEF RowsSpared, RowsOfHour
  <2> QED  BY <2>1, FiniteSizes DEF RowsCountable
<1>3. IsFiniteSet(Owing(t) \ ks) /\ IsFiniteSet(Owing(t)' \ hs)
  <2>1. Owing(t) \ ks \in SUBSET Handler /\ Owing(t)' \ hs \in SUBSET Handler /\ IsFiniteSet(Handler)
    BY NetworkAssumption DEF Owing, S!StatusAssumption, S!IsFiniteSet, IsFiniteSet
  <2> QED  BY <2>1, FiniteSizes
<1>4. HourlyCap \in Nat
  BY StatusTyped
<1> QED  BY <1>1, <1>2, <1>3, <1>4, HourBound

(* Steps that add no row of a message and let no handling go.              *)
LEMMA HourStays ==
    ASSUME S!TypeOK, HourInv, RowsCountable',
           \A w \in statuses' : w \in statuses \/ w.seeded,
           \A h \in Handler :
             /\ handler'[h].stage = "trimHour" => handler'[h] = handler[h]
             /\ handler[h].stage = "aborted" => handler'[h].stage = "aborted"
             /\ handler[h].stage \in {"readHour", "trimHour"} =>
                   handler'[h].stage = "aborted" \/ handler'[h] = handler[h]
    PROVE  HourLeft'
<1> SUFFICES ASSUME NEW t \in S!Time,
                    NEW hs \in SUBSET {h \in Handler : handler'[h].stage = "trimHour" /\ InHour(h, t)'}
             PROVE  Cardinality(RowsSpared(t, hs)') <= HourlyCap + Cardinality(Owing(t)' \ hs)
  BY DEF HourLeft, S!Time
<1>1. hs \in SUBSET {h \in Handler : handler[h].stage = "trimHour" /\ InHour(h, t)}
  BY DEF InHour
<1>2. \A h \in hs : handler'[h] = handler[h]
  OBVIOUS
<1>3. RowsSpared(t, hs)' \subseteq RowsSpared(t, hs)
  BY <1>2 DEF RowsSpared, RowsOfHour
<1>4. Owing(t) \ hs \subseteq Owing(t)' \ hs
  BY DEF Owing, InHour
<1> QED  BY <1>1, <1>3, <1>4, HourTransfer DEF HourInv

(* A row comes with a handling that has to clean up.                       *)
LEMMA HourSaved ==
    ASSUME StatusInv, HourInv, RowsCountable', NEW h \in Handler, S!SaveStatus(h), ~S!Restart
    PROVE  HourLeft'
<1> SUFFICES ASSUME NEW t \in S!Time,
                    NEW hs \in SUBSET {k \in Handler : handler'[k].stage = "trimHour" /\ InHour(k, t)'}
             PROVE  Cardinality(RowsSpared(t, hs)') <= HourlyCap + Cardinality(Owing(t)' \ hs)
  BY DEF HourLeft, S!Time
<1> DEFINE row == S!RowOf(h)
<1>0. S!TypeOK
  BY DEF StatusInv
<1>1. /\ handler[h].stage = "save" /\ statuses' = statuses \cup {row}
      /\ S!Goto(h, "readHour", {})
  BY DEF S!SaveStatus, S!At
<1>2. row.timestamp = handler[h].timestamp
  BY DEF S!RowOf
<1>3. /\ handler'[h].stage = "readHour" /\ handler'[h].timestamp = handler[h].timestamp
      /\ \A k \in Handler \ {h} : handler'[k] = handler[k]
  BY <1>0, <1>1, GotoTyped DEF S!Stage
<1> HIDE DEF row
<1>4. /\ h \notin hs /\ hs \in SUBSET {k \in Handler : handler[k].stage = "trimHour" /\ InHour(k, t)}
  BY <1>3 DEF InHour
<1>5. \A k \in hs : handler'[k] = handler[k]
  BY <1>3, <1>4
<1>6. Owing(t) \ hs \subseteq Owing(t)' \ hs /\ h \notin Owing(t) \ hs
  BY <1>1, <1>3 DEF Owing, InHour
<1>7. CASE InHour(h, t)
  <2>1. RowsSpared(t, hs)' \subseteq RowsSpared(t, hs) \cup {row}
    BY <1>1, <1>5 DEF RowsSpared, RowsOfHour
  <2>2. h \in Owing(t)' \ hs
    BY <1>3, <1>4, <1>7 DEF Owing, InHour
  <2>3. \E w, k : /\ k \notin Owing(t) \ hs /\ RowsSpared(t, hs)' \subseteq RowsSpared(t, hs) \cup {w}
                  /\ (Owing(t) \ hs) \cup {k} \subseteq Owing(t)' \ hs
    BY <1>6, <2>1, <2>2
  <2> QED  BY <1>0, <1>4, <2>3, HourTransfer DEF HourInv
<1>8. CASE ~InHour(h, t)
  <2>1. RowsSpared(t, hs)' \subseteq RowsSpared(t, hs)
    BY <1>1, <1>2, <1>5, <1>8 DEF RowsSpared, RowsOfHour, InHour
  <2> QED  BY <1>0, <1>4, <1>6, <2>1, HourTransfer DEF HourInv
<1> QED  BY <1>7, <1>8

(* A handling sees all rows of any hour its message is of: it finds few    *)
(* enough, or what it is to delete leaves few enough.                      *)
LEMMA HourFound ==
    ASSUME StatusInv, HourInv, RowsCountable', NEW h \in Handler, S!FindSinceLastHour(h)
    PROVE  HourLeft'
<1> SUFFICES ASSUME NEW t \in S!Time,
                    NEW hs \in SUBSET {k \in Handler : handler'[k].stage = "trimHour" /\ InHour(k, t)'}
             PROVE  Cardinality(RowsSpared(t, hs)') <= HourlyCap + Cardinality(Owing(t)' \ hs)
  BY DEF HourLeft, S!Time
<1> DEFINE rs == {w \in statuses : w.timestamp + Hour > handler[h].timestamp}
           excess == S!BeyondNewest(rs)
           st == IF excess = {} THEN "readOld" ELSE "trimHour"
<1>0. /\ S!TypeOK /\ HourlyCap \in Nat /\ Hour \in Nat /\ t \in Nat
      /\ \A w \in statuses : w.timestamp \in Nat
      /\ \A k \in Handler : handler[k].timestamp \in Nat
  BY StatusTyped, NetworkAssumption DEF StatusInv, S!Time, S!StatusAssumption
<1>1. /\ handler[h].stage = "readHour" /\ statuses' = statuses /\ S!Goto(h, st, excess)
  BY DEF S!FindSinceLastHour, S!At
<1>2. rs \in SUBSET statuses /\ excess \in SUBSET S!RowAt /\ excess \subseteq rs
  <2>1. excess \subseteq rs
    BY DEF S!BeyondNewest
  <2> QED  BY <1>0, <2>1 DEF S!TypeOK
<1>3. Cardinality(rs \ excess) <= HourlyCap
  <2> HIDE DEF rs
  <2> QED  BY <1>2, KeptOfHour DEF StatusInv, HourInv
<1> HIDE DEF excess
<1>4. /\ handler'[h].stage = st /\ handler'[h].doomed = excess
      /\ handler'[h].timestamp = handler[h].timestamp
      /\ \A k \in Handler \ {h} : handler'[k] = handler[k]
  <2>1. st \in S!Stage
    BY DEF S!Stage
  <2> HIDE DEF st, rs
  <2> QED  BY <1>0, <1>1, <1>2, <2>1, GotoTyped
<1>5. hs \ {h} \in SUBSET {k \in Handler : handler[k].stage = "trimHour" /\ InHour(k, t)}
  BY <1>4 DEF InHour
<1>6. RowsSpared(t, hs)' \subseteq RowsSpared(t, hs \ {h})
  BY <1>1, <1>4 DEF RowsSpared, RowsOfHour
<1>7. CASE h \notin hs /\ (excess # {} \/ ~InHour(h, t))
  <2>1. Owing(t) \ (hs \ {h}) \subseteq Owing(t)' \ hs
    BY <1>1, <1>4, <1>7 DEF Owing, InHour
  <2> QED  BY <1>0, <1>5, <1>6, <2>1, HourTransfer DEF HourInv
<1>8. ASSUME InHour(h, t), excess = {} \/ h \in hs
      PROVE  Cardinality(RowsSpared(t, hs)') <= HourlyCap
  <2>1. RowsSpared(t, hs)' \subseteq rs \ excess
    <3> SUFFICES ASSUME NEW w \in RowsSpared(t, hs)' PROVE w \in rs /\ w \notin excess
      OBVIOUS
    <3>1. /\ w \in statuses /\ w.timestamp + Hour > t /\ handler[h].timestamp <= t
          /\ \A k \in hs : w \notin handler'[k].doomed
      BY <1>1, <1>8 DEF RowsSpared, RowsOfHour, InHour
    <3>2. w.timestamp + Hour > handler[h].timestamp
      BY <1>0, <3>1
    <3> QED  BY <1>4, <1>8, <3>1, <3>2
  <2>2. IsFiniteSet(rs \ excess)
    BY <1>2, FiniteSizes DEF HourInv, RowsCountable
  <2>3. /\ Cardinality(RowsSpared(t, hs)') <= Cardinality(rs \ excess)
        /\ Cardinality(RowsSpared(t, hs)') \in Nat /\ Cardinality(rs \ excess) \in Nat
    <3> HIDE DEF rs
    <3> QED  BY <2>1, <2>2, FiniteSizes
  <2> QED  BY <1>0, <1>3, <2>3
<1>9. h \in hs => InHour(h, t)
  BY <1>4 DEF InHour
<1> QED  BY <1>0, <1>5, <1>7, <1>8, <1>9, HourTransfer DEF HourInv

(* A delete that was counted on is done.                                   *)
LEMMA HourDeleted ==
    ASSUME StatusInv, HourInv, RowsCountable', NEW h \in Handler, S!DeleteSinceLastHour(h)
    PROVE  HourLeft'
<1> SUFFICES ASSUME NEW t \in S!Time,
                    NEW hs \in SUBSET {k \in Handler : handler'[k].stage = "trimHour" /\ InHour(k, t)'}
             PROVE  Cardinality(RowsSpared(t, hs)') <= HourlyCap + Cardinality(Owing(t)' \ hs)
  BY DEF HourLeft, S!Time
<1>0. S!TypeOK
  BY DEF StatusInv
<1>1. /\ handler[h].stage = "trimHour" /\ statuses' = statuses \ handler[h].doomed
      /\ S!Goto(h, "readOld", {})
  BY DEF S!DeleteSinceLastHour, S!At
<1>2. handler'[h].stage = "readOld" /\ \A k \in Handler \ {h} : handler'[k] = handler[k]
  BY <1>0, <1>1, GotoTyped DEF S!Stage
<1>3. h \notin hs /\ hs \in SUBSET {k \in Handler : handler[k].stage = "trimHour" /\ InHour(k, t)}
  BY <1>2 DEF InHour
<1>4. CASE InHour(h, t)
  <2>1. hs \cup {h} \in SUBSET {k \in Handler : handler[k].stage = "trimHour" /\ InHour(k, t)}
    BY <1>1, <1>3, <1>4
  <2>2. RowsSpared(t, hs)' \subseteq RowsSpared(t, hs \cup {h})
    BY <1>1, <1>2, <1>3 DEF RowsSpared, RowsOfHour
  <2>3. Owing(t) \ (hs \cup {h}) \subseteq Owing(t)' \ hs
    BY <1>2 DEF Owing, InHour
  <2> QED  BY <1>0, <2>1, <2>2, <2>3, HourTransfer DEF HourInv
<1>5. CASE ~InHour(h, t)
  <2>1. RowsSpared(t, hs)' \subseteq RowsSpared(t, hs)
    BY <1>1, <1>2, <1>3 DEF RowsSpared, RowsOfHour
  <2>2. Owing(t) \ hs \subseteq Owing(t)' \ hs
    BY <1>1, <1>2, <1>5 DEF Owing, InHour
  <2> QED  BY <1>0, <1>3, <2>1, <2>2, HourTransfer DEF HourInv
<1> QED  BY <1>4, <1>5

(* Every other step adds no row of a message and lets no handling go.      *)
LEMMA HourOthers ==
    ASSUME StatusInv,
           \/ UNCHANGED statusVars \/ S!Restart \/ S!Connect \/ S!FindLatest \/ S!NeverSeen \/ S!Tick
           \/ \E online \in BOOLEAN : S!ReceiveGatewayStatus(online) \/ S!SeedStatus(online)
           \/ \E h \in Handler : S!FindOld(h) \/ S!DeleteOld(h)
    PROVE  /\ \E row \in S!RowAt : statuses' \subseteq statuses \cup {row} /\ row.seeded
           /\ \A h \in Handler :
                /\ handler'[h].stage = "trimHour" => handler'[h] = handler[h]
                /\ handler[h].stage = "aborted" => handler'[h].stage = "aborted"
                /\ handler[h].stage \in {"readHour", "trimHour"} =>
                      handler'[h].stage = "aborted" \/ handler'[h] = handler[h]
<1> DEFINE Rows == \E row \in S!RowAt : statuses' \subseteq statuses \cup {row} /\ row.seeded
           Stays(h) ==
             /\ handler'[h].stage = "trimHour" => handler'[h] = handler[h]
             /\ handler[h].stage = "aborted" => handler'[h].stage = "aborted"
             /\ handler[h].stage \in {"readHour", "trimHour"} =>
                   handler'[h].stage = "aborted" \/ handler'[h] = handler[h]
<1>0. S!TypeOK /\ now \in S!Time
  BY DEF StatusInv, S!TypeOK
<1>1. [timestamp |-> now, wasOnline |-> TRUE, seeded |-> TRUE] \in S!RowAt
  BY <1>0 DEF S!RowAt
<1>2. statuses' \subseteq statuses => Rows
  BY <1>1
<1>3. CASE UNCHANGED statusVars \/ S!Connect \/ S!FindLatest \/ S!NeverSeen \/ S!Tick
  BY <1>2, <1>3 DEF statusVars, S!Connect, S!FindLatest, S!NeverSeen, S!Tick
<1>4. CASE S!Restart
  <2>1. statuses' = statuses /\ \A h \in Handler :
          handler'[h] = IF S!Running(h) THEN [S!Free EXCEPT !.stage = "aborted"] ELSE handler[h]
    BY <1>4 DEF S!Restart
  <2>2. [S!Free EXCEPT !.stage = "aborted"].stage = "aborted"
    BY DEF S!Free
  <2>3. ASSUME NEW h \in Handler PROVE Stays(h)
    <3>1. S!Running(h) => handler[h].stage # "aborted"
      BY DEF S!Running
    <3>2. ~S!Running(h) => handler[h].stage \notin {"readHour", "trimHour"}
      BY DEF S!Running
    <3> QED  BY <2>1, <2>2, <3>1, <3>2
  <2> QED  BY <1>2, <2>1, <2>3
<1>5. ASSUME NEW online \in BOOLEAN, S!ReceiveGatewayStatus(online) PROVE Rows /\ \A h \in Handler : Stays(h)
  <2>1. PICK hs \in SUBSET {h \in Handler : S!At(h, "free")}, stamp \in [Handler -> now..(now + 1)] :
          handler' = [h \in Handler |->
                 IF h \in hs THEN [S!Free EXCEPT !.stage = "save", !.timestamp = stamp[h], !.wasOnline = online]
                 ELSE handler[h]]
    BY <1>5 DEF S!ReceiveGatewayStatus
  <2>2. \A h \in hs : handler[h].stage = "free" /\ handler'[h].stage = "save"
    BY <2>1 DEF S!At, S!Free
  <2>3. \A h \in Handler \ hs : handler'[h] = handler[h]
    BY <2>1
  <2>4. statuses' = statuses
    BY <1>5 DEF S!ReceiveGatewayStatus
  <2> QED  BY <1>2, <2>2, <2>3, <2>4
<1>6. ASSUME NEW online \in BOOLEAN, S!SeedStatus(online), ~S!Restart PROVE Rows /\ \A h \in Handler : Stays(h)
  <2> DEFINE w == [timestamp |-> now, wasOnline |-> online, seeded |-> TRUE]
  <2>1. w \in S!RowAt /\ w.seeded
    BY <1>0 DEF S!RowAt
  <2>2. statuses' = statuses \cup {w} /\ handler' = handler
    BY <1>6 DEF S!SeedStatus
  <2> HIDE DEF w
  <2> QED  BY <2>1, <2>2
<1>7. ASSUME NEW h \in Handler, handler[h].stage \in {"readOld", "trimOld"}, statuses' \subseteq statuses,
             \/ \E found \in SUBSET S!RowAt : S!Goto(h, "trimOld", found)
             \/ S!Done(h)
      PROVE  Rows /\ \A k \in Handler : Stays(k)
  <2>1. handler'[h].stage \in {"trimOld", "done"} /\ \A k \in Handler \ {h} : handler'[k] = handler[k]
    <3>1. CASE S!Done(h)
      <4>1. [S!Free EXCEPT !.stage = "done"].stage = "done"
        BY DEF S!Free
      <4> QED  BY <1>0, <3>1, <4>1 DEF S!Done, S!TypeOK
    <3>2. ASSUME NEW found \in SUBSET S!RowAt, S!Goto(h, "trimOld", found)
          PROVE  handler'[h].stage = "trimOld" /\ \A k \in Handler \ {h} : handler'[k] = handler[k]
      BY <1>0, <3>2, GotoTyped DEF S!Stage
    <3> QED  BY <1>7, <3>1, <3>2
  <2> QED  BY <1>2, <1>7, <2>1
<1>8. ASSUME NEW h \in Handler, S!FindOld(h) \/ S!DeleteOld(h) PROVE Rows /\ \A k \in Handler : Stays(k)
  <2>1. CASE S!FindOld(h)
    <3>1. statuses' = statuses /\ handler[h].stage = "readOld"
      BY <2>1 DEF S!FindOld, S!At
    <3>2. \/ \E found \in SUBSET S!RowAt : S!Goto(h, "trimOld", found)
          \/ S!Done(h)
      <4> DEFINE old == {w \in statuses : w.timestamp + SavedDays < now}
      <4>1. old \in SUBSET S!RowAt
        BY <1>0 DEF S!TypeOK
      <4>2. S!Goto(h, "trimOld", old) \/ S!Done(h)
        BY <2>1 DEF S!FindOld
      <4> QED  BY <4>1, <4>2
    <3> QED  BY <1>7, <3>1, <3>2
  <2>2. CASE S!DeleteOld(h)
    <3>1. statuses' \subseteq statuses /\ handler[h].stage = "trimOld" /\ S!Done(h)
      BY <2>2 DEF S!DeleteOld, S!At
    <3> QED  BY <1>7, <3>1
  <2> QED  BY <1>8, <2>1, <2>2
<1>9. (\E online \in BOOLEAN : S!SeedStatus(online)) /\ S!Restart => Rows /\ \A h \in Handler : Stays(h)
  BY <1>4
<1> QED  BY <1>3, <1>4, <1>5, <1>6, <1>8, <1>9

(* Every step of the part keeps the bounds of its hours.                   *)
LEMMA HourStep ==
    ASSUME StatusInv, HourInv, StatusInv', S!Next \/ UNCHANGED statusVars
    PROVE  HourInv'
<1>0. S!TypeOK /\ S!TypeOK' /\ RowsCountable
  BY DEF StatusInv, HourInv
<1>1. CASE \/ UNCHANGED statusVars \/ S!Restart \/ S!Connect \/ S!FindLatest \/ S!NeverSeen \/ S!Tick
           \/ \E online \in BOOLEAN : S!ReceiveGatewayStatus(online) \/ S!SeedStatus(online)
           \/ \E h \in Handler : S!FindOld(h) \/ S!DeleteOld(h)
  <2>1. RowsCountable'
    BY <1>0, <1>1, HourOthers, CountableStep
  <2>2. \A w \in statuses' : w \in statuses \/ w.seeded
    BY <1>1, HourOthers
  <2> QED  BY <1>0, <1>1, <2>1, <2>2, HourOthers, HourStays DEF HourInv
<1>2. ASSUME NEW h \in Handler, S!SaveStatus(h), ~S!Restart PROVE HourInv'
  <2>1. S!RowOf(h) \in S!RowAt /\ statuses' = statuses \cup {S!RowOf(h)}
    BY <1>0, <1>2, StatusTyped DEF S!SaveStatus, S!RowOf, S!RowAt
  <2>2. RowsCountable'
    BY <1>0, <2>1, CountableStep
  <2> QED  BY <1>2, <2>2, HourSaved DEF HourInv
<1>3. ASSUME NEW h \in Handler, S!FindSinceLastHour(h) \/ S!DeleteSinceLastHour(h) PROVE HourInv'
  <2>1. statuses' \subseteq statuses
    BY <1>3 DEF S!FindSinceLastHour, S!DeleteSinceLastHour
  <2>2. [timestamp |-> now, wasOnline |-> TRUE, seeded |-> TRUE] \in S!RowAt
    BY <1>0 DEF S!RowAt, S!TypeOK
  <2>3. RowsCountable'
    BY <1>0, <2>1, <2>2, CountableStep
  <2> QED  BY <1>3, <2>3, HourFound, HourDeleted DEF HourInv
<1> QED  BY <1>1, <1>2, <1>3 DEF S!Next, S!Crash

(* It holds where the part's behaviours are followed. *)
LEMMA HourAlways == Spec => [](on = "status" => HourInv)
<1>1. Init => (on = "status" => HourInv)
  <2> SUFFICES ASSUME S!Init PROVE HourInv
    BY DEF Init
  <2>1. statuses = {} /\ handler = [h \in Handler |-> S!Free]
    BY DEF S!Init
  <2>2. RowsCountable
    BY <2>1, FS_EmptySet DEF RowsCountable
  <2>3. HourLeft
    <3> SUFFICES ASSUME NEW t \in S!Time,
                        NEW hs \in SUBSET {h \in Handler : handler[h].stage = "trimHour" /\ InHour(h, t)}
                 PROVE  Cardinality(RowsSpared(t, hs)) <= HourlyCap + Cardinality(Owing(t) \ hs)
      BY DEF HourLeft
    <3>1. RowsSpared(t, hs) = {} /\ Owing(t) \ hs = {}
      BY <2>1 DEF RowsSpared, RowsOfHour, Owing, S!Free
    <3>2. HourlyCap \in Nat
      BY NetworkAssumption DEF S!StatusAssumption
    <3>3. Cardinality(RowsSpared(t, hs)) = 0 /\ Cardinality(Owing(t) \ hs) = 0
      BY <3>1, FS_EmptySet
    <3> QED  BY <3>2, <3>3
  <2> QED  BY <2>2, <2>3 DEF HourInv
<1>2. /\ (on = "status" => StatusInv) /\ (on = "status" => StatusInv)'
      /\ (on = "status" => HourInv) /\ [Next]_vars
      => (on = "status" => HourInv)'
  <2> SUFFICES ASSUME on = "status" => StatusInv, (on = "status" => StatusInv)',
                      on = "status" => HourInv, [Next]_vars, on' = "status"
               PROVE  HourInv'
    OBVIOUS
  <2> QED  BY PartSteps, HourStep
<1> QED  BY <1>1, <1>2, StatusAlways, PTL DEF Spec

(* Within any hour there are at most HourlyCap rows made from messages,    *)
(* and one for each handling that has not cleaned up yet or was cut off,   *)
(* however many of them overlap.                                           *)
THEOREM HourAlwaysCapped == Spec => []HourCapped
<1>1. StatusInv /\ HourInv => S!HourCapped
  <2> SUFFICES ASSUME StatusInv, HourInv, NEW t \in S!Time
               PROVE  S!Cardinality({w \in statuses : w.timestamp <= t /\ w.timestamp + Hour > t /\ ~w.seeded})
                         <= HourlyCap + S!Cardinality(S!Unfinished)
    BY DEF S!HourCapped
  <2>1. Cardinality(RowsSpared(t, {})) <= HourlyCap + Cardinality(Owing(t) \ {})
    BY DEF HourInv, HourLeft
  <2>2. RowsSpared(t, {}) = RowsOfHour(t) /\ Owing(t) \ {} = Owing(t)
    BY DEF RowsSpared
  <2>3. IsFiniteSet(RowsOfHour(t)) /\ IsFiniteSet(S!Unfinished) /\ Owing(t) \in SUBSET S!Unfinished
    <3>1. RowsOfHour(t) \in SUBSET statuses /\ S!Unfinished \in SUBSET Handler /\ IsFiniteSet(Handler)
      BY NetworkAssumption DEF RowsOfHour, S!Unfinished, S!StatusAssumption, S!IsFiniteSet, IsFiniteSet
    <3>2. Owing(t) \subseteq S!Unfinished
      BY DEF Owing, S!Unfinished
    <3> QED  BY <3>1, <3>2, FiniteSizes DEF HourInv, RowsCountable
  <2>4. /\ Cardinality(RowsOfHour(t)) \in Nat /\ Cardinality(Owing(t)) \in Nat
        /\ Cardinality(S!Unfinished) \in Nat /\ Cardinality(Owing(t)) <= Cardinality(S!Unfinished)
        /\ HourlyCap \in Nat
    BY <2>3, FiniteSizes, StatusTyped DEF StatusInv
  <2>5. Cardinality(RowsOfHour(t)) <= HourlyCap + Cardinality(S!Unfinished)
    BY <2>1, <2>2, <2>4
  <2> QED  BY <2>5, SameCardinality DEF RowsOfHour
<1>2. (on = "status" => StatusInv) /\ (on = "status" => HourInv) => HourCapped
  BY <1>1 DEF HourCapped
<1> QED  BY <1>2, StatusAlways, HourAlways, PTL
-----------------------------------------------------------------------------
(* Gateways. *)

(* The inductive invariant for the gateways, one part about one gateway.   *)
(* A request at work has its gateway and organization; nobody else works   *)
(* on a gateway that is not contended.                                     *)
Called ==
    \A r \in Request : G!Busy(r) => call[r].gw \in Gateway /\ call[r].org \in Org

Alone(g) ==
    g \notin contended =>
        /\ \A q, r \in G!BusyOn(g) : q = r
        /\ G!Importing(g) => G!BusyOn(g) = {}

(* What a request has written to ChirpStack stays until it has finished.   *)
PutStays(g) ==
    g \notin contended =>
        \A r \in G!BusyOn(g) : G!At(r, "update") => cs[g] = [org |-> call[r].org, content |-> r]

(* The gateway being imported has no row, and is still what it was.        *)
ImportFresh(g) ==
    /\ import[g] \in {"findOrg", "save"} => imported[g] # None
    /\ g \notin contended =>
         /\ import[g] \in {"get", "findOrg", "save"} => G!RowsOf(g) = {}
         /\ import[g] \in {"findOrg", "save"} => imported[g] = cs[g]

(* A request before its first change finds the stores in step; after it,   *)
(* the database is what it was.                                            *)
Halves(g, r) ==
    /\ call[r].stage \in {"findOrg", "post", "metrics", "put", "csDelete"} => G!Agree(g)
    /\ call[r].stage \in {"metrics", "put", "update"} => \A w \in G!RowsOf(g) : w.org = call[r].org
    /\ G!At(r, "insert") => G!RowsOf(g) = {} /\ cs[g] = [org |-> call[r].org, content |-> r]
    /\ G!At(r, "update") => G!RowsOf(g) # {}
    /\ G!At(r, "dbDelete") => cs[g] = None

InStep(g) ==
    g \notin contended \cup hurt =>
        /\ \A v, w \in G!RowsOf(g) : v = w
        /\ \A r \in G!BusyOn(g) : Halves(g, r)
        /\ G!BusyOn(g) = {} => G!Agree(g)

(* What the statistics job holds is the time of the row, unless late.      *)
TimesTrue(g) ==
    /\ job[g] # "idle" => read[g] # None
    /\ g \notin late \cup contended \cup hurt =>
         \A w \in G!RowsOf(g) : /\ w.updatedAt = w.content
                                /\ job[g] # "idle" => read[g] = w.updatedAt

GatewayInv(g) == Alone(g) /\ PutStays(g) /\ ImportFresh(g) /\ InStep(g) /\ TimesTrue(g)

GatewaysInv == G!TypeOK /\ Called /\ \A g \in Gateway : GatewayInv(g)

CallStage == {"new", "findOrg", "post", "insert", "metrics", "put", "update",
              "csDelete", "dbDelete", "done", "failed"}

(* The rows, requests and jobs are what they are taken for. *)
LEMMA GatewaysTyped ==
    ASSUME G!TypeOK
    PROVE  /\ gateways \subseteq G!Row /\ orgs \subseteq Org
           /\ \A w \in G!Row : /\ w.gw \in Gateway /\ w.org \in Org
                               /\ w.content \in G!Writer /\ w.updatedAt \in G!Writer
           /\ \A r \in Request : /\ call[r] \in G!Call /\ call[r].stage \in CallStage
                                 /\ call[r].gw \in Gateway \cup {None}
                                 /\ call[r].org \in Org \cup {None}
                                 /\ r \in G!Writer
           /\ \A g \in Gateway : /\ cs[g] \in G!CsGateway \cup {None}
                                 /\ imported[g] \in G!CsGateway \cup {None}
                                 /\ read[g] \in G!Writer \cup {None}
           /\ \A c \in G!CsGateway : c # None /\ c.org \in Org /\ c.content \in G!Writer
           /\ None \notin G!Writer /\ None \notin Org
           /\ Request \cap Gateway = {} /\ MaxFaults \in Nat
<1>1. /\ None \notin G!CsGateway /\ None \notin G!Writer /\ None \notin Org
      /\ Request \cap Gateway = {} /\ MaxFaults \in Nat
  BY NetworkAssumption DEF G!GatewaysAssumption
<1>2. \A w \in G!Row : /\ w.gw \in Gateway /\ w.org \in Org
                       /\ w.content \in G!Writer /\ w.updatedAt \in G!Writer
  BY DEF G!Row
<1>3. \A c \in G!CsGateway : c # None /\ c.org \in Org /\ c.content \in G!Writer
  BY <1>1 DEF G!CsGateway
<1>4. \A r \in Request : /\ call[r] \in G!Call /\ call[r].stage \in CallStage
                         /\ call[r].gw \in Gateway \cup {None}
                         /\ call[r].org \in Org \cup {None}
                         /\ r \in G!Writer
  BY DEF G!TypeOK, G!Call, CallStage, G!Writer
<1>5. \A g \in Gateway : /\ cs[g] \in G!CsGateway \cup {None}
                         /\ imported[g] \in G!CsGateway \cup {None}
                         /\ read[g] \in G!Writer \cup {None}
  BY DEF G!TypeOK
<1> QED  BY <1>1, <1>2, <1>3, <1>4, <1>5 DEF G!TypeOK

(* A request goes to another stage. *)
LEMMA GotoCall ==
    ASSUME G!TypeOK, NEW r \in Request, NEW s \in CallStage, G!Goto(r, s)
    PROVE  /\ call' \in [Request -> G!Call]
           /\ call'[r].stage = s /\ call'[r].gw = call[r].gw /\ call'[r].org = call[r].org
           /\ \A q \in Request \ {r} : call'[q] = call[q]
<1>1. call \in [Request -> G!Call] /\ call' = [call EXCEPT ![r].stage = s]
  BY DEF G!TypeOK, G!Goto
<1>2. call[r] \in G!Call
  BY <1>1
<1>3. [call[r] EXCEPT !.stage = s] \in G!Call
  BY <1>2 DEF G!Call, CallStage
<1> QED  BY <1>1, <1>2, <1>3 DEF G!Call

(* At the start the stores agree. *)
LEMMA GatewaysInit == G!Init => GatewaysInv
<1> SUFFICES ASSUME G!Init PROVE GatewaysInv
  OBVIOUS
<1>1. /\ orgs = Org /\ contended = {} /\ hurt = {} /\ late = {} /\ faults = 0
      /\ gateways = {[id |-> g, gw |-> g, org |-> OldOrg, content |-> First,
                      updatedAt |-> First] : g \in OldGateways}
      /\ cs = [g \in Gateway |-> IF g \in OldGateways THEN [org |-> OldOrg, content |-> First]
                                 ELSE None]
      /\ call = [r \in Request |-> G!Idle]
      /\ import = [g \in Gateway |-> "due"] /\ imported = [g \in Gateway |-> None]
      /\ job = [g \in Gateway |-> "idle"] /\ read = [g \in Gateway |-> None]
  BY DEF G!Init
<1>2. OldGateways \subseteq Gateway /\ OldOrg \in Org /\ MaxFaults \in Nat /\ First \in G!Writer
  BY NetworkAssumption DEF G!GatewaysAssumption, G!Writer
<1>3. G!Idle \in G!Call /\ G!Idle.stage = "new"
  BY DEF G!Idle, G!Call
<1>4. G!TypeOK
  <2>1. gateways \subseteq G!Row
    BY <1>1, <1>2 DEF G!Row
  <2>2. cs \in [Gateway -> G!CsGateway \cup {None}]
    BY <1>1, <1>2 DEF G!CsGateway
  <2> QED  BY <1>1, <1>2, <1>3, <2>1, <2>2 DEF G!TypeOK
<1>5. \A r \in Request : ~G!Busy(r)
  BY <1>1, <1>3 DEF G!Busy
<1>6. \A g \in Gateway : G!BusyOn(g) = {}
  BY <1>5 DEF G!BusyOn
<1>7. \A w \in gateways : /\ w.gw \in OldGateways /\ w.org = OldOrg /\ w.content = First
                          /\ w.updatedAt = First
                          /\ w = [id |-> w.gw, gw |-> w.gw, org |-> OldOrg, content |-> First,
                                  updatedAt |-> First]
  BY <1>1
<1>8. ASSUME NEW g \in Gateway PROVE GatewayInv(g)
  <2>1. G!Agree(g)
    <3>1. CASE g \in OldGateways
      <4> DEFINE w == [id |-> g, gw |-> g, org |-> OldOrg, content |-> First, updatedAt |-> First]
      <4>1. w \in gateways /\ w.gw = g /\ w.org = OldOrg /\ w.content = First
        BY <1>1, <3>1
      <4>2. \A v \in gateways : v.gw = g => v = w
        BY <1>7
      <4>3. cs[g] = [org |-> OldOrg, content |-> First] /\ cs[g] # None
        BY <1>1, <1>4, <3>1, GatewaysTyped, <1>2 DEF G!CsGateway
      <4> HIDE DEF w
      <4>4. G!RowsOf(g) = {w}
        BY <4>1, <4>2 DEF G!RowsOf
      <4> QED  BY <4>1, <4>3, <4>4 DEF G!Agree
    <3>2. CASE g \notin OldGateways
      BY <1>1, <1>7, <3>2 DEF G!Agree, G!RowsOf
    <3> QED  BY <3>1, <3>2
  <2>2. \A v, w \in G!RowsOf(g) : v = w
    BY <1>7 DEF G!RowsOf
  <2>3. \A w \in G!RowsOf(g) : w.updatedAt = w.content
    BY <1>7 DEF G!RowsOf
  <2>4. import[g] = "due" /\ job[g] = "idle"
    BY <1>1
  <2> QED  BY <1>6, <2>1, <2>2, <2>3, <2>4
           DEF GatewayInv, Alone, PutStays, ImportFresh, InStep, TimesTrue, G!Importing
<1> QED  BY <1>4, <1>5, <1>8 DEF GatewaysInv, Called

(* What a step does not touch stays as it was, whatever it does to others. *)
LEMMA Untouched ==
    ASSUME NEW g \in Gateway, GatewayInv(g),
           \A r \in Request : call'[r] = call[r] \/ (~(G!Busy(r) /\ call[r].gw = g)
                                                     /\ ~(G!Busy(r)' /\ call'[r].gw = g)),
           G!RowsOf(g)' = G!RowsOf(g), cs'[g] = cs[g],
           import'[g] = import[g], imported'[g] = imported[g],
           job'[g] = job[g], read'[g] = read[g],
           g \in contended => g \in contended', g \in hurt => g \in hurt',
           g \in late => g \in late'
    PROVE  GatewayInv(g)'
<1>1. G!BusyOn(g)' = G!BusyOn(g) /\ \A r \in G!BusyOn(g) : r \in Request /\ call'[r] = call[r]
  BY DEF G!BusyOn, G!Busy
<1>2. G!Agree(g)' = G!Agree(g)
  <2>1. \A w \in G!RowsOf(g) : w \in gateways /\ w \in gateways'
    BY DEF G!RowsOf
  <2>2. G!Agree(g) = IF cs[g] = None THEN G!RowsOf(g) = {}
                     ELSE \E w \in G!RowsOf(g) : G!RowsOf(g) = {w} /\ w.org = cs[g].org /\ w.content = cs[g].content
    BY <2>1 DEF G!Agree
  <2>3. G!Agree(g)' = IF cs'[g] = None THEN G!RowsOf(g)' = {}
                     ELSE \E w \in G!RowsOf(g)' : G!RowsOf(g)' = {w} /\ w.org = cs'[g].org /\ w.content = cs'[g].content
    BY <2>1 DEF G!Agree
  <2> QED  BY <2>2, <2>3
<1>3. Alone(g)'
  BY <1>1 DEF GatewayInv, Alone, G!Importing
<1>4. PutStays(g)'
  BY <1>1 DEF GatewayInv, PutStays, G!At
<1>5. ImportFresh(g)'
  BY DEF GatewayInv, ImportFresh
<1>6. InStep(g)'
  <2>1. ASSUME NEW r \in G!BusyOn(g), Halves(g, r) PROVE Halves(g, r)'
    BY <1>1, <1>2, <2>1 DEF Halves, G!At
  <2> QED  BY <1>1, <1>2, <2>1 DEF GatewayInv, InStep
<1>7. TimesTrue(g)'
  BY DEF GatewayInv, TimesTrue
<1> QED  BY <1>3, <1>4, <1>5, <1>6, <1>7 DEF GatewayInv

(* What request r leaves, going to stage s, if it is alone on gateway g.   *)
Leaves(g, r, s) ==
    /\ s = "update" => cs'[g] = [org |-> call[r].org, content |-> r]
    /\ g \notin hurt' =>
         /\ \A v, w \in G!RowsOf(g)' : v = w
         /\ s \notin {"new", "done", "failed"} => Halves(g, r)'
         /\ s \in {"new", "done", "failed"} => G!Agree(g)'
    /\ g \notin late' \cup hurt' =>
         \A w \in G!RowsOf(g)' : /\ w.updatedAt = w.content
                                 /\ job[g] # "idle" => read[g] = w.updatedAt

(* One request takes a step on its gateway: what has to be shown of it.    *)
LEMMA RequestWorks ==
    ASSUME GatewaysInv, NEW r \in Request, NEW s \in CallStage, G!Busy(r), G!Goto(r, s),
           NEW g \in Gateway, g = call[r].gw,
           UNCHANGED <<import, imported, job, read, contended>>,
           \A x \in Gateway \ {g} :
              /\ G!RowsOf(x)' = G!RowsOf(x) /\ cs'[x] = cs[x]
              /\ x \in hurt => x \in hurt'
              /\ x \in late => x \in late',
           g \notin contended => Leaves(g, r, s)
    PROVE  Called' /\ \A x \in Gateway : GatewayInv(x)'
<1>1. /\ call'[r].stage = s /\ call'[r].gw = g /\ call'[r].org = call[r].org
      /\ \A q \in Request \ {r} : call'[q] = call[q]
  BY GotoCall DEF GatewaysInv
<1>2. r \in G!BusyOn(g) /\ GatewayInv(g)
  BY DEF GatewaysInv, Called, G!BusyOn
<1>3. Called'
  BY <1>1 DEF GatewaysInv, Called, G!Busy
<1>4. ASSUME NEW x \in Gateway \ {g} PROVE GatewayInv(x)'
  <2>1. \A q \in Request : call'[q] = call[q] \/ (call[q].gw # x /\ call'[q].gw # x)
    BY <1>1, <1>4
  <2>2. GatewayInv(x)
    BY DEF GatewaysInv
  <2>3. /\ G!RowsOf(x)' = G!RowsOf(x) /\ cs'[x] = cs[x]
        /\ x \in hurt => x \in hurt'
        /\ x \in late => x \in late'
    BY <1>4
  <2> QED  BY <2>1, <2>2, <2>3, Untouched
<1>5. GatewayInv(g)'
  <2>0. G!BusyOn(g)' \subseteq G!BusyOn(g)
    BY <1>1, <1>2 DEF G!BusyOn, G!Busy
  <2>1. CASE g \in contended
    BY <1>2, <2>1 DEF GatewayInv, Alone, PutStays, ImportFresh, InStep, TimesTrue
  <2>2. CASE g \notin contended
    <3>1. G!BusyOn(g) = {r} /\ ~G!Importing(g)
      BY <1>2, <2>2 DEF GatewayInv, Alone
    <3>2. Leaves(g, r, s)
      BY <2>2
    <3>3. r \in G!BusyOn(g)' <=> s \notin {"new", "done", "failed"}
      BY <1>1 DEF G!BusyOn, G!Busy
    <3>4. Alone(g)'
      BY <2>0, <3>1 DEF Alone, G!Importing
    <3>5. PutStays(g)'
      BY <1>1, <2>0, <3>1, <3>2 DEF PutStays, G!At, Leaves
    <3>6. ImportFresh(g)'
      BY <1>2, <3>1 DEF GatewayInv, ImportFresh, G!Importing
    <3>7. InStep(g)'
      BY <2>0, <3>1, <3>2, <3>3 DEF InStep, Leaves
    <3>8. TimesTrue(g)'
      BY <1>2, <3>2 DEF GatewayInv, TimesTrue, Leaves
    <3> QED  BY <3>4, <3>5, <3>6, <3>7, <3>8 DEF GatewayInv
  <2> QED  BY <2>1, <2>2
<1> QED  BY <1>3, <1>4, <1>5

(* A request at work has a gateway and an organization. *)
LEMMA BusyCalled ==
    ASSUME GatewaysInv, NEW r \in Request, G!Busy(r)
    PROVE  /\ call[r].gw \in Gateway /\ call[r].org \in Org /\ r \in G!Writer
           /\ [org |-> call[r].org, content |-> r] \in G!CsGateway
  BY GatewaysTyped DEF GatewaysInv, Called, G!CsGateway

(* What a request can count on before its step, if it is alone. *)
LEMMA BeforeStep ==
    ASSUME GatewaysInv, NEW r \in Request, G!Busy(r), NEW g \in Gateway, g = call[r].gw,
           g \notin contended
    PROVE  /\ ~G!Importing(g)
           /\ g \notin hurt => Halves(g, r)
           /\ g \notin hurt => \A v, w \in G!RowsOf(g) : v = w
           /\ g \notin hurt \cup late =>
                \A w \in G!RowsOf(g) : /\ w.updatedAt = w.content
                                       /\ job[g] # "idle" => read[g] = w.updatedAt
<1>1. r \in G!BusyOn(g) /\ GatewayInv(g)
  BY DEF G!BusyOn, GatewaysInv
<1> QED  BY <1>1 DEF GatewayInv, Alone, InStep, TimesTrue

(* ... and before its last one. *)
LEMMA BeforeUpdate ==
    ASSUME GatewaysInv, NEW r \in Request, G!Busy(r), NEW g \in Gateway, g = call[r].gw,
           g \notin contended, call[r].stage = "update"
    PROVE  cs[g] = [org |-> call[r].org, content |-> r]
<1>1. r \in G!BusyOn(g) /\ GatewayInv(g)
  BY DEF G!BusyOn, GatewaysInv
<1> QED  BY <1>1 DEF GatewayInv, PutStays, G!At

(* The stores agree on g, told by the rows of g. *)
AgreementByRows ==
    \A g \in Gateway :
        G!Agree(g) <=> IF cs[g] = None THEN G!RowsOf(g) = {}
                       ELSE \E w \in G!RowsOf(g) : /\ \A v \in G!RowsOf(g) : v = w
                                                   /\ w.org = cs[g].org /\ w.content = cs[g].content

(* That is what it means ... *)
LEMMA AgreeNow == AgreementByRows
<1> SUFFICES ASSUME NEW g \in Gateway
             PROVE  G!Agree(g) <=> IF cs[g] = None THEN G!RowsOf(g) = {}
                       ELSE \E w \in G!RowsOf(g) : /\ \A v \in G!RowsOf(g) : v = w
                                                   /\ w.org = cs[g].org /\ w.content = cs[g].content
  BY DEF AgreementByRows
<1>1. \A w \in G!RowsOf(g) : w \in gateways
  BY DEF G!RowsOf
<1>2. \A w \in G!RowsOf(g) : G!RowsOf(g) = {w} <=> \A v \in G!RowsOf(g) : v = w
  OBVIOUS
<1>3. \A w \in gateways : G!RowsOf(g) = {w} => w \in G!RowsOf(g)
  OBVIOUS
<1> QED  BY <1>1, <1>2, <1>3 DEF G!Agree

(* ... also after a step. *)
LEMMA AgreeAfter == AgreementByRows'
<1> QED  BY AgreeNow, PTL

(* A request only reads. *)
LEMMA RequestReads ==
    ASSUME GatewaysInv, NEW r \in Request, G!FindOrganization(r) \/ G!GetMetrics(r)
    PROVE  GatewaysInv'
<1>1. /\ UNCHANGED <<orgs, gateways, cs, import, imported, job, read, contended, hurt, late, faults>>
      /\ G!Busy(r)
      /\ \/ call[r].stage = "findOrg" /\ G!Goto(r, "post")
         \/ call[r].stage = "metrics" /\ cs[call[r].gw] # None /\ (G!Goto(r, "put") \/ G!Goto(r, "csDelete"))
  BY DEF G!FindOrganization, G!GetMetrics, G!jobs, G!Quiet, G!history, G!At, G!Busy
<1>2. PICK s \in {"post", "put", "csDelete"} :
        /\ G!Goto(r, s)
        /\ call[r].stage \in {"findOrg", "metrics"}
        /\ s = "put" => call[r].stage = "metrics"
  BY <1>1
<1>3. PICK g \in Gateway : g = call[r].gw
  BY <1>1, BusyCalled
<1>4. s \in CallStage
  BY DEF CallStage
<1>5. /\ call'[r].stage = s /\ call'[r].gw = g /\ call'[r].org = call[r].org
      /\ call' \in [Request -> G!Call]
  BY <1>2, <1>3, <1>4, GotoCall DEF GatewaysInv
<1>6. G!TypeOK'
  BY <1>1, <1>5 DEF GatewaysInv, G!TypeOK
<1>7. \A x \in Gateway : G!RowsOf(x)' = G!RowsOf(x) /\ cs'[x] = cs[x]
  BY <1>1 DEF G!RowsOf
<1>8. G!Agree(g) => G!Agree(g)'
  BY <1>1, <1>7 DEF G!Agree
<1>9. Halves(g, r) => Halves(g, r)'
  <2> SUFFICES ASSUME Halves(g, r) PROVE Halves(g, r)'
    OBVIOUS
  <2>1. G!Agree(g)'
    BY <1>2, <1>8 DEF Halves
  <2>2. s \in {"metrics", "put", "update"} => \A w \in G!RowsOf(g) : w.org = call[r].org
    BY <1>2 DEF Halves
  <2> QED  BY <1>1, <1>2, <1>5, <1>7, <2>1, <2>2 DEF Halves, G!At
<1>10. g \notin contended => Leaves(g, r, s)
  BY <1>1, <1>2, <1>3, <1>7, <1>9, BeforeStep DEF Leaves
<1>11. Called' /\ \A x \in Gateway : GatewayInv(x)'
  BY <1>1, <1>2, <1>3, <1>4, <1>7, <1>10, RequestWorks
<1> QED  BY <1>6, <1>11 DEF GatewaysInv

(* A request changes ChirpStack. *)
LEMMA RequestChanges ==
    ASSUME GatewaysInv, NEW r \in Request,
           G!PostGateway(r) \/ G!PutGateway(r) \/ G!DeleteInChirpstack(r)
    PROVE  GatewaysInv'
<1>1. /\ UNCHANGED <<orgs, gateways, import, imported, job, read, contended, hurt, late, faults>>
      /\ G!Busy(r)
  BY DEF G!PostGateway, G!PutGateway, G!DeleteInChirpstack, G!jobs, G!Quiet, G!history,
         G!At, G!Busy
<1>2. PICK g \in Gateway : g = call[r].gw
  BY <1>1, BusyCalled
<1>3. ASSUME NEW s \in {"insert", "update", "dbDelete"}, NEW c \in G!CsGateway \cup {None},
             G!Goto(r, s), cs' = [cs EXCEPT ![g] = c],
             s = "insert" => call[r].stage = "post" /\ cs[g] = None,
             s = "update" => call[r].stage = "put" /\ cs[g] # None,
             c = IF s = "dbDelete" THEN None ELSE [org |-> call[r].org, content |-> r]
      PROVE  GatewaysInv'
  <2>1. s \in CallStage
    BY DEF CallStage
  <2>2. /\ call'[r].stage = s /\ call'[r].gw = g /\ call'[r].org = call[r].org
        /\ call' \in [Request -> G!Call]
    BY <1>2, <1>3, <2>1, GotoCall DEF GatewaysInv
  <2>3. /\ cs' \in [Gateway -> G!CsGateway \cup {None}] /\ cs'[g] = c
        /\ \A x \in Gateway \ {g} : cs'[x] = cs[x]
    BY <1>3 DEF GatewaysInv, G!TypeOK
  <2>4. G!TypeOK'
    BY <1>1, <2>2, <2>3 DEF GatewaysInv, G!TypeOK
  <2>5. \A x \in Gateway : G!RowsOf(x)' = G!RowsOf(x)
    BY <1>1 DEF G!RowsOf
  <2>6. ASSUME Halves(g, r) PROVE Halves(g, r)'
    <3>1. s = "insert" => G!RowsOf(g) = {}
      BY <1>3, <2>6 DEF Halves, G!Agree
    <3>2. s = "update" => G!RowsOf(g) # {} /\ \A w \in G!RowsOf(g) : w.org = call[r].org
      BY <1>3, <2>6, AgreeNow DEF Halves, AgreementByRows
    <3> QED  BY <1>3, <2>2, <2>3, <2>5, <3>1, <3>2 DEF Halves, G!At
  <2>7. g \notin contended => Leaves(g, r, s)
    BY <1>1, <1>2, <1>3, <2>3, <2>5, <2>6, BeforeStep DEF Leaves
  <2>8. Called' /\ \A x \in Gateway : GatewayInv(x)'
    BY <1>1, <1>2, <1>3, <2>1, <2>3, <2>5, <2>7, RequestWorks
  <2> QED  BY <2>4, <2>8 DEF GatewaysInv
<1>4. [org |-> call[r].org, content |-> r] \in G!CsGateway
  BY <1>1, BusyCalled DEF G!CsGateway
<1>5. CASE G!PostGateway(r)
  BY <1>2, <1>3, <1>4, <1>5 DEF G!PostGateway, G!At
<1>6. CASE G!PutGateway(r)
  BY <1>2, <1>3, <1>4, <1>6 DEF G!PutGateway, G!At, G!TagOf
<1>7. CASE G!DeleteInChirpstack(r)
  BY <1>2, <1>3, <1>4, <1>7 DEF G!DeleteInChirpstack, G!At
<1> QED  BY <1>5, <1>6, <1>7

(* A request inserts its row. *)
LEMMA RequestInserts ==
    ASSUME GatewaysInv, NEW r \in Request, G!InsertGateway(r)
    PROVE  GatewaysInv'
<1>1. /\ UNCHANGED <<orgs, cs, import, imported, job, read, contended, hurt, faults>>
      /\ G!Busy(r) /\ call[r].stage = "insert" /\ G!Goto(r, "done") /\ "done" \in CallStage
  BY DEF G!InsertGateway, G!jobs, G!At, G!Busy, CallStage
<1>2. PICK g \in Gateway : g = call[r].gw
  BY <1>1, BusyCalled
<1>3. PICK row : /\ row = [id |-> r, gw |-> g, org |-> call[r].org, content |-> r, updatedAt |-> r]
                 /\ gateways' = gateways \cup {row}
  BY <1>2 DEF G!InsertGateway
<1>4. late' = G!Overtaken(g)
  BY <1>2 DEF G!InsertGateway
<1>5. /\ row \in G!Row /\ row.gw = g /\ row.org = call[r].org /\ row.content = r /\ row.updatedAt = r
  BY <1>1, <1>3, BusyCalled DEF G!Row
<1>6. /\ call'[r].stage = "done" /\ call'[r].gw = g /\ call'[r].org = call[r].org
      /\ call' \in [Request -> G!Call]
  BY <1>1, <1>2, GotoCall DEF GatewaysInv
<1>7. late' \subseteq Gateway /\ (\A x \in Gateway \ {g} : x \in late <=> x \in late')
      /\ (job[g] # "idle" => g \in late')
  BY <1>4 DEF G!Overtaken, GatewaysInv, G!TypeOK
<1>8. G!TypeOK'
  BY <1>1, <1>3, <1>5, <1>6, <1>7 DEF GatewaysInv, G!TypeOK
<1>9. \A x \in Gateway \ {g} : G!RowsOf(x)' = G!RowsOf(x)
  BY <1>3, <1>5 DEF G!RowsOf
<1>10. G!RowsOf(g)' = G!RowsOf(g) \cup {row}
  BY <1>3, <1>5 DEF G!RowsOf
<1>11. ASSUME g \notin contended PROVE Leaves(g, r, "done")
  <2>1. ASSUME g \notin hurt
        PROVE  /\ \A v \in G!RowsOf(g)' : v = row
               /\ cs'[g] = [org |-> call[r].org, content |-> r]
    BY <1>1, <1>2, <1>10, <1>11, <2>1, BeforeStep DEF Halves, G!At
  <2>2. [org |-> call[r].org, content |-> r] \in G!CsGateway
    BY <1>1, BusyCalled DEF G!CsGateway
  <2>3. [org |-> call[r].org, content |-> r] # None
    BY <2>2, GatewaysTyped DEF GatewaysInv
  <2>4. ASSUME g \notin hurt PROVE G!Agree(g)'
    <3>1. row \in G!RowsOf(g)'
      BY <1>10
    <3>2. cs'[g] # None /\ cs'[g].org = row.org /\ cs'[g].content = row.content
      BY <1>5, <2>1, <2>3, <2>4
    <3> QED  BY <2>1, <2>4, <3>1, <3>2, AgreeAfter DEF AgreementByRows
  <2> QED  BY <1>1, <1>5, <1>7, <2>1, <2>4 DEF Leaves
<1>12. Called' /\ \A x \in Gateway : GatewayInv(x)'
  BY <1>1, <1>2, <1>7, <1>9, <1>11, RequestWorks
<1> QED  BY <1>8, <1>12 DEF GatewaysInv

(* A request updates its row: what a failure had left is mended, if it is  *)
(* alone and there is one row of its organization.                         *)
LEMMA RequestUpdates ==
    ASSUME GatewaysInv, NEW r \in Request, G!UpdateGateway(r)
    PROVE  GatewaysInv'
<1>1. /\ UNCHANGED <<orgs, cs, import, imported, job, read, contended, faults>>
      /\ G!Busy(r) /\ call[r].stage = "update" /\ G!Goto(r, "done") /\ "done" \in CallStage
  BY DEF G!UpdateGateway, G!jobs, G!At, G!Busy, CallStage
<1>2. PICK g \in Gateway : g = call[r].gw
  BY <1>1, BusyCalled
<1>3. /\ gateways' = (gateways \ G!RowsOf(g)) \cup {G!Modified(w, r) : w \in G!RowsOf(g)}
      /\ late' = G!Overtaken(g)
      /\ hurt' = IF G!BusyOn(g) = {r} /\ \E w \in gateways : G!RowsOf(g) = {w} /\ w.org = call[r].org
                 THEN hurt \ {g} ELSE hurt
  BY <1>2 DEF G!UpdateGateway
<1>4. \A w \in gateways : /\ G!Modified(w, r) \in G!Row /\ G!Modified(w, r).gw = w.gw
                          /\ G!Modified(w, r).org = w.org
                          /\ G!Modified(w, r).content = r /\ G!Modified(w, r).updatedAt = r
  BY <1>1, BusyCalled DEF GatewaysInv, G!TypeOK, G!Row, G!Modified
<1>5. call' \in [Request -> G!Call]
  BY <1>1, <1>2, GotoCall DEF GatewaysInv
<1>6. late' \subseteq Gateway /\ (\A x \in Gateway \ {g} : x \in late <=> x \in late')
      /\ (job[g] # "idle" => g \in late')
  BY <1>3 DEF G!Overtaken, GatewaysInv, G!TypeOK
<1>7. hurt' \subseteq Gateway /\ (\A x \in Gateway \ {g} : x \in hurt <=> x \in hurt')
  BY <1>3 DEF GatewaysInv, G!TypeOK
<1>8. G!TypeOK'
  <2>1. gateways' \subseteq G!Row
    BY <1>3, <1>4 DEF GatewaysInv, G!TypeOK, G!RowsOf
  <2> QED  BY <1>1, <1>5, <1>6, <1>7, <2>1 DEF GatewaysInv, G!TypeOK
<1>9. \A x \in Gateway \ {g} : G!RowsOf(x)' = G!RowsOf(x)
  BY <1>3, <1>4 DEF G!RowsOf
<1>10. /\ \A v \in G!RowsOf(g)' : \E w \in G!RowsOf(g) : v = G!Modified(w, r)
       /\ \A w \in G!RowsOf(g) : G!Modified(w, r) \in G!RowsOf(g)'
  BY <1>3, <1>4 DEF G!RowsOf
<1>11. \A w \in G!RowsOf(g) : w \in gateways
  BY DEF G!RowsOf
<1>12. ASSUME g \notin contended PROVE Leaves(g, r, "done")
  <2>1. cs[g] = [org |-> call[r].org, content |-> r] /\ [org |-> call[r].org, content |-> r] \in G!CsGateway
    BY <1>1, <1>2, <1>12, BeforeUpdate, BusyCalled
  <2>2. cs'[g] # None /\ cs'[g].org = call[r].org /\ cs'[g].content = r
    <3>1. cs'[g] = [org |-> call[r].org, content |-> r] /\ cs'[g] # None
      BY <1>1, <2>1, GatewaysTyped DEF GatewaysInv
    <3> QED  BY <3>1
  <2>3. ASSUME g \notin hurt'
        PROVE  \E w \in G!RowsOf(g) : w.org = call[r].org /\ \A v \in G!RowsOf(g) : v = w
    <3>1. CASE g \notin hurt
      <4>1. Halves(g, r) /\ \A v, w \in G!RowsOf(g) : v = w
        <5>1. G!Busy(r)
          BY <1>1
        <5> QED  BY <1>2, <1>12, <3>1, <5>1, BeforeStep
      <4> QED  BY <1>1, <4>1 DEF Halves, G!At
    <3>2. CASE g \in hurt
      <4>1. PICK w \in gateways : G!RowsOf(g) = {w} /\ w.org = call[r].org
        BY <1>3, <2>3, <3>2
      <4> QED  BY <4>1
    <3> QED  BY <3>1, <3>2
  <2>4. ASSUME g \notin hurt' PROVE G!Agree(g)' /\ \A v, w \in G!RowsOf(g)' : v = w
    <3>1. PICK w \in G!RowsOf(g) : w.org = call[r].org /\ \A v \in G!RowsOf(g) : v = w
      BY <2>3, <2>4
    <3>2. /\ \A v \in G!RowsOf(g)' : v = G!Modified(w, r)
          /\ G!Modified(w, r) \in G!RowsOf(g)'
          /\ G!Modified(w, r).org = call[r].org /\ G!Modified(w, r).content = r
      BY <1>4, <1>10, <1>11, <3>1
    <3> QED  BY <2>2, <3>2, AgreeAfter DEF AgreementByRows
  <2>5. ASSUME g \notin late'
        PROVE  job[g] = "idle" /\ \A v \in G!RowsOf(g)' : v.updatedAt = v.content
    BY <1>4, <1>6, <1>10, <1>11, <2>5
  <2> QED  BY <1>1, <2>4, <2>5 DEF Leaves
<1>13. Called' /\ \A x \in Gateway : GatewayInv(x)'
  BY <1>1, <1>2, <1>6, <1>7, <1>9, <1>12, RequestWorks
<1> QED  BY <1>8, <1>13 DEF GatewaysInv

(* A request deletes the rows of its gateway. *)
LEMMA RequestDeletes ==
    ASSUME GatewaysInv, NEW r \in Request, G!DeleteRows(r)
    PROVE  GatewaysInv'
<1>1. /\ UNCHANGED <<orgs, cs, import, imported, job, read, contended, hurt, late, faults>>
      /\ G!Busy(r) /\ call[r].stage = "dbDelete" /\ G!Goto(r, "done") /\ "done" \in CallStage
  BY DEF G!DeleteRows, G!jobs, G!At, G!Busy, CallStage, G!Quiet, G!history
<1>2. PICK g \in Gateway : g = call[r].gw
  BY <1>1, BusyCalled
<1>3. gateways' = gateways \ G!RowsOf(g)
  BY <1>2 DEF G!DeleteRows
<1>4. call' \in [Request -> G!Call]
  BY <1>1, <1>2, GotoCall DEF GatewaysInv
<1>5. G!TypeOK'
  BY <1>1, <1>3, <1>4 DEF GatewaysInv, G!TypeOK
<1>6. G!RowsOf(g)' = {} /\ \A x \in Gateway \ {g} : G!RowsOf(x)' = G!RowsOf(x)
  BY <1>3 DEF G!RowsOf
<1>7. ASSUME g \notin contended PROVE Leaves(g, r, "done")
  <2>1. g \notin hurt => cs'[g] = None
    BY <1>1, <1>2, <1>7, BeforeStep DEF Halves, G!At
  <2>2. g \notin hurt => G!Agree(g)'
    BY <1>6, <2>1, AgreeAfter DEF AgreementByRows
  <2> QED  BY <1>1, <1>6, <2>2 DEF Leaves
<1>8. Called' /\ \A x \in Gateway : GatewayInv(x)'
  BY <1>1, <1>2, <1>6, <1>7, RequestWorks
<1> QED  BY <1>5, <1>8 DEF GatewaysInv

(* A request fails, before or after its first change. *)
LEMMA RequestFails ==
    ASSUME GatewaysInv, NEW r \in Request, G!Refuse(r) \/ G!CallFails(r) \/ G!AnswerLost(r)
    PROVE  GatewaysInv'
<1>1. /\ UNCHANGED <<orgs, gateways, import, imported, job, read, contended, late>>
      /\ G!Busy(r) /\ G!Goto(r, "failed") /\ "failed" \in CallStage
      /\ faults' \in 0..MaxFaults
  <2>1. faults \in 0..MaxFaults /\ MaxFaults \in Nat
    BY GatewaysTyped DEF GatewaysInv, G!TypeOK
  <2>2. faults' = faults \/ (faults < MaxFaults /\ faults' = faults + 1)
    BY DEF G!Refuse, G!CallFails, G!AnswerLost, G!Fault
  <2>3. faults' \in 0..MaxFaults
    BY <2>1, <2>2
  <2> QED  BY <2>3 DEF G!Refuse, G!CallFails, G!AnswerLost, G!Abort, G!jobs, G!At, G!Busy, CallStage
<1>2. PICK g \in Gateway : g = call[r].gw
  BY <1>1, BusyCalled
<1>3. /\ cs' \in [Gateway -> G!CsGateway \cup {None}]
      /\ \A x \in Gateway \ {g} : cs'[x] = cs[x]
      /\ hurt \subseteq hurt' /\ hurt' \subseteq hurt \cup {g}
      /\ \/ cs' = cs /\ hurt' = hurt \cup G!Halfway(r)
         \/ g \in hurt'
  <2>1. CASE G!Abort(r)
    BY <1>2, <2>1 DEF G!Abort, G!Halfway, GatewaysInv, G!TypeOK
  <2>2. CASE G!AnswerLost(r)
    <3>1. /\ hurt' = hurt \cup {g}
          /\ \E c \in {[org |-> call[r].org, content |-> r], None} : cs' = [cs EXCEPT ![g] = c]
      BY <1>2, <2>2 DEF G!AnswerLost, G!TagOf
    <3>2. [org |-> call[r].org, content |-> r] \in G!CsGateway
      BY <1>1, BusyCalled DEF G!CsGateway
    <3> QED  BY <3>1, <3>2 DEF GatewaysInv, G!TypeOK
  <2> QED  BY <2>1, <2>2 DEF G!Refuse, G!CallFails
<1>4. call' \in [Request -> G!Call]
  BY <1>1, <1>2, GotoCall DEF GatewaysInv
<1>5. G!TypeOK'
  BY <1>1, <1>3, <1>4 DEF GatewaysInv, G!TypeOK
<1>6. \A x \in Gateway : G!RowsOf(x)' = G!RowsOf(x)
  BY <1>1 DEF G!RowsOf
<1>7. ASSUME g \notin contended PROVE Leaves(g, r, "failed")
  <2>1. ASSUME g \notin hurt' PROVE G!Agree(g)' /\ \A v, w \in G!RowsOf(g)' : v = w
    <3>1. cs' = cs /\ g \notin hurt /\ g \notin G!Halfway(r)
      BY <1>3, <2>1
    <3>2. Halves(g, r) /\ \A v, w \in G!RowsOf(g) : v = w
      <4>1. G!Busy(r)
        BY <1>1
      <4> QED  BY <1>2, <1>7, <3>1, <4>1, BeforeStep
    <3>3. call[r].stage \in {"findOrg", "post", "metrics", "put", "csDelete"}
      BY <1>1, <1>2, <3>1, GatewaysTyped DEF GatewaysInv, G!Halfway, G!Busy, CallStage
    <3>4. G!Agree(g)
      BY <3>2, <3>3 DEF Halves
    <3> QED  BY <1>6, <3>1, <3>2, <3>4, AgreeNow, AgreeAfter DEF AgreementByRows
  <2>2. g \notin late' \cup hurt' =>
          \A w \in G!RowsOf(g)' : /\ w.updatedAt = w.content
                                  /\ job[g] # "idle" => read[g] = w.updatedAt
    <3>1. G!Busy(r) /\ late' = late /\ hurt \subseteq hurt' /\ job' = job /\ read' = read
      BY <1>1, <1>3
    <3> QED  BY <1>2, <1>6, <1>7, <3>1, BeforeStep
  <2> QED  BY <2>1, <2>2 DEF Leaves
<1>8. Called' /\ \A x \in Gateway : GatewayInv(x)'
  BY <1>1, <1>2, <1>3, <1>6, <1>7, RequestWorks
<1> QED  BY <1>5, <1>8 DEF GatewaysInv

(* A request begins: alone, or from then on the gateway is contended.      *)
LEMMA BeginCall ==
    ASSUME GatewaysInv, NEW r \in Request, NEW g \in Gateway, NEW o \in Org,
           NEW kind \in {"create", "modify", "delete"}, NEW stage \in {"findOrg", "metrics"},
           G!Begin(r, kind, stage, g, o),
           stage = "metrics" => \E w \in G!RowsOf(g) : w.org = o
    PROVE  GatewaysInv'
<1> DEFINE c == [kind |-> kind, stage |-> stage, gw |-> g, org |-> o]
<1>1. /\ UNCHANGED <<orgs, gateways, cs, import, imported, job, read, hurt, late, faults>>
      /\ call[r] = G!Idle /\ call' = [call EXCEPT ![r] = c]
      /\ contended' = IF G!BusyOn(g) # {} \/ G!Importing(g) THEN contended \cup {g} ELSE contended
  BY DEF G!Begin, G!jobs
<1>2. c \in G!Call /\ c.stage = stage /\ c.gw = g /\ c.org = o
  BY DEF G!Call
<1> HIDE DEF c
<1>3. /\ call' \in [Request -> G!Call] /\ call'[r] = c
      /\ \A q \in Request \ {r} : call'[q] = call[q]
  BY <1>1, <1>2 DEF GatewaysInv, G!TypeOK
<1>4. G!TypeOK'
  BY <1>1, <1>3 DEF GatewaysInv, G!TypeOK
<1>5. ~G!Busy(r) /\ G!Busy(r)'
  BY <1>1, <1>2, <1>3 DEF G!Busy, G!Idle
<1>6. Called'
  BY <1>2, <1>3 DEF GatewaysInv, Called, G!Busy
<1>7. \A x \in Gateway : G!RowsOf(x)' = G!RowsOf(x)
  BY <1>1 DEF G!RowsOf
<1>8. ASSUME NEW x \in Gateway \ {g} PROVE GatewayInv(x)'
  <2>1. \A q \in Request : call'[q] = call[q] \/ (~(G!Busy(q) /\ call[q].gw = x)
                                                    /\ ~(G!Busy(q)' /\ call'[q].gw = x))
    BY <1>2, <1>3, <1>5, <1>8
  <2>2. GatewayInv(x)
    BY DEF GatewaysInv
  <2> QED  BY <1>1, <1>7, <2>1, <2>2, Untouched
<1>9. GatewayInv(g)'
  <2>0. GatewayInv(g)
    BY DEF GatewaysInv
  <2>1. CASE g \in contended'
    BY <1>1, <2>0, <2>1 DEF GatewayInv, Alone, PutStays, ImportFresh, InStep, TimesTrue
  <2>2. CASE g \notin contended'
    <3>1. G!BusyOn(g) = {} /\ ~G!Importing(g) /\ g \notin contended
      BY <1>1, <2>2
    <3>2. \A q \in G!BusyOn(g)' : q = r
      BY <1>3, <3>1 DEF G!BusyOn, G!Busy
    <3>3. Alone(g)'
      BY <1>1, <3>1, <3>2 DEF Alone, G!Importing
    <3>4. PutStays(g)'
      BY <1>2, <1>3, <3>2 DEF PutStays, G!At
    <3>5. ImportFresh(g)'
      BY <1>1, <1>7, <2>0, <3>1 DEF GatewayInv, ImportFresh
    <3>6. ASSUME g \notin hurt PROVE Halves(g, r)' /\ \A v, w \in G!RowsOf(g)' : v = w
      <4>1. G!Agree(g) /\ \A v, w \in G!RowsOf(g) : v = w
        BY <2>0, <3>1, <3>6 DEF GatewayInv, InStep
      <4>2. G!Agree(g)'
        BY <1>1, <1>7, <4>1 DEF G!Agree
      <4>3. stage = "metrics" => \A w \in G!RowsOf(g)' : w.org = o
        BY <1>7, <4>1
      <4> QED  BY <1>2, <1>3, <1>7, <4>1, <4>2, <4>3 DEF Halves, G!At
    <3>7. r \in G!BusyOn(g)'
      BY <1>2, <1>3, <1>5 DEF G!BusyOn
    <3>8. InStep(g)'
      BY <1>1, <3>2, <3>6, <3>7 DEF InStep
    <3>9. TimesTrue(g)'
      BY <1>1, <1>7, <2>0, <2>2, <3>1 DEF GatewayInv, TimesTrue
    <3> QED  BY <3>3, <3>4, <3>5, <3>8, <3>9 DEF GatewayInv
  <2> QED  BY <2>1, <2>2
<1> QED  BY <1>4, <1>6, <1>8, <1>9 DEF GatewaysInv

(* The requests that create, modify and delete begin so. *)
LEMMA RequestBegins ==
    ASSUME GatewaysInv, NEW r \in Request, NEW g \in Gateway,
           \/ \E o \in Org : G!BeginCreate(r, g, o)
           \/ G!BeginModify(r, g) \/ G!BeginDelete(r, g)
    PROVE  GatewaysInv'
<1>1. CASE \E o \in Org : G!BeginCreate(r, g, o)
  <2>1. PICK o \in Org : G!BeginCreate(r, g, o)
    BY <1>1
  <2> QED  BY <2>1, BeginCall DEF G!BeginCreate
<1>2. \A w \in G!RowsOf(g) : w.org \in Org
  BY GatewaysTyped DEF GatewaysInv, G!RowsOf
<1>3. CASE G!BeginModify(r, g)
  <2>1. PICK w \in G!RowsOf(g) : G!Begin(r, "modify", "metrics", g, w.org)
    BY <1>3 DEF G!BeginModify
  <2> QED  BY <1>2, <2>1, BeginCall
<1>4. CASE G!BeginDelete(r, g)
  <2>1. PICK w \in G!RowsOf(g) : G!Begin(r, "delete", "metrics", g, w.org)
    BY <1>4 DEF G!BeginDelete
  <2> QED  BY <1>2, <2>1, BeginCall
<1> QED  BY <1>1, <1>3, <1>4

(* No request takes a step, and ChirpStack does not change: what is left   *)
(* to show is the rest.                                                    *)
LEMMA CallsStay ==
    ASSUME NEW g \in Gateway, GatewayInv(g), UNCHANGED <<call, cs>>,
           g \in contended => g \in contended', g \in hurt => g \in hurt',
           G!Importing(g)' => G!Importing(g) \/ g \in contended' \/ G!BusyOn(g) = {},
           g \notin hurt' =>
              /\ (\A v, w \in G!RowsOf(g) : v = w) => \A v, w \in G!RowsOf(g)' : v = w
              /\ \A v \in G!RowsOf(g)' : \E w \in G!RowsOf(g) : v.org = w.org /\ v.content = w.content
              /\ \A w \in G!RowsOf(g) : \E v \in G!RowsOf(g)' : v.org = w.org /\ v.content = w.content,
           ImportFresh(g)', TimesTrue(g)'
    PROVE  GatewayInv(g)'
<1>1. G!BusyOn(g)' = G!BusyOn(g)
  BY DEF G!BusyOn, G!Busy
<1>2. Alone(g)'
  BY <1>1 DEF GatewayInv, Alone
<1>3. PutStays(g)'
  BY <1>1 DEF GatewayInv, PutStays, G!At
<1>4. ASSUME g \notin hurt', \A v, w \in G!RowsOf(g) : v = w
      PROVE  /\ \A v, w \in G!RowsOf(g)' : v = w
             /\ G!Agree(g) => G!Agree(g)'
             /\ \A r \in G!BusyOn(g) : Halves(g, r) => Halves(g, r)'
  <2>1. \A v, w \in G!RowsOf(g)' : v = w
    BY <1>4
  <2>2. G!Agree(g) => G!Agree(g)'
    BY <1>4, <2>1, AgreeNow, AgreeAfter DEF AgreementByRows
  <2>3. ASSUME NEW r \in G!BusyOn(g), Halves(g, r) PROVE Halves(g, r)'
    <3>1. G!RowsOf(g) = {} <=> G!RowsOf(g)' = {}
      BY <1>4
    <3> QED  BY <1>4, <2>2, <2>3, <3>1 DEF Halves, G!At
  <2> QED  BY <2>1, <2>2, <2>3
<1>5. InStep(g)'
  BY <1>1, <1>4 DEF GatewayInv, InStep
<1> QED  BY <1>2, <1>3, <1>5 DEF GatewayInv

(* The organization goes with its rows: their gateways are remembered. *)
LEMMA OrganizationGoes ==
    ASSUME GatewaysInv, NEW o \in Org, G!DeleteOrganization(o)
    PROVE  GatewaysInv'
<1>1. /\ UNCHANGED <<cs, call, import, imported, job, read, contended, late, faults>>
      /\ orgs' = orgs \ {o} /\ gateways' = {w \in gateways : w.org # o}
      /\ hurt' = hurt \cup {g \in Gateway : cs[g] # None /\ cs[g].org = o}
                      \cup {w.gw : w \in gateways \ gateways'}
  BY DEF G!DeleteOrganization, G!jobs
<1>2. hurt' \subseteq Gateway
  BY <1>1, GatewaysTyped DEF GatewaysInv, G!TypeOK
<1>3. G!TypeOK'
  BY <1>1, <1>2 DEF GatewaysInv, G!TypeOK
<1>4. ASSUME NEW x \in Gateway
      PROVE  /\ G!RowsOf(x)' \subseteq G!RowsOf(x)
             /\ x \notin hurt' => G!RowsOf(x)' = G!RowsOf(x)
  BY <1>1 DEF G!RowsOf
<1>5. ASSUME NEW x \in Gateway PROVE GatewayInv(x)'
  <2>1. GatewayInv(x)
    BY DEF GatewaysInv
  <2>2. ImportFresh(x)'
    BY <1>1, <1>4, <2>1 DEF GatewayInv, ImportFresh
  <2>3. TimesTrue(x)'
    BY <1>1, <1>4, <2>1 DEF GatewayInv, TimesTrue
  <2>4. G!Importing(x)' = G!Importing(x)
    BY <1>1 DEF G!Importing
  <2>5. x \notin hurt' =>
          /\ (\A v, w \in G!RowsOf(x) : v = w) => \A v, w \in G!RowsOf(x)' : v = w
          /\ \A v \in G!RowsOf(x)' : \E w \in G!RowsOf(x) : v.org = w.org /\ v.content = w.content
          /\ \A w \in G!RowsOf(x) : \E v \in G!RowsOf(x)' : v.org = w.org /\ v.content = w.content
    BY <1>4
  <2> QED  BY <1>1, <2>1, <2>2, <2>3, <2>4, <2>5, CallsStay
<1>6. Called'
  BY <1>1 DEF GatewaysInv, Called, G!Busy
<1> QED  BY <1>3, <1>5, <1>6 DEF GatewaysInv

JobsTyped ==
    /\ import \in [Gateway -> {"due", "listed", "get", "findOrg", "save", "done"}]
    /\ imported \in [Gateway -> G!CsGateway \cup {None}]
    /\ job \in [Gateway -> {"idle", "listed", "metrics", "update"}]
    /\ read \in [Gateway -> G!Writer \cup {None}]

(* Only the import or the statistics job takes a step, and writes nothing. *)
LEMMA JobsStep ==
    ASSUME GatewaysInv, UNCHANGED <<orgs, gateways, cs, call, hurt, late>>,
           contended \subseteq contended', contended' \subseteq Gateway, faults' \in 0..MaxFaults,
           JobsTyped',
           \A x \in Gateway :
              /\ G!Importing(x)' => G!Importing(x) \/ x \in contended' \/ G!BusyOn(x) = {}
              /\ ImportFresh(x)' /\ TimesTrue(x)'
    PROVE  GatewaysInv'
<1>1. G!TypeOK'
  BY DEF GatewaysInv, G!TypeOK, JobsTyped
<1>2. Called'
  BY DEF GatewaysInv, Called, G!Busy
<1>3. ASSUME NEW x \in Gateway PROVE GatewayInv(x)'
  <2>1. GatewayInv(x)
    BY DEF GatewaysInv
  <2>2. G!RowsOf(x)' = G!RowsOf(x)
    BY DEF G!RowsOf
  <2>3. x \in contended => x \in contended'
    OBVIOUS
  <2>4. /\ (\A v, w \in G!RowsOf(x) : v = w) => \A v, w \in G!RowsOf(x)' : v = w
        /\ \A v \in G!RowsOf(x)' : \E w \in G!RowsOf(x) : v.org = w.org /\ v.content = w.content
        /\ \A w \in G!RowsOf(x) : \E v \in G!RowsOf(x)' : v.org = w.org /\ v.content = w.content
    BY <2>2
  <2> QED  BY <2>1, <2>3, <2>4, CallsStay
<1> QED  BY <1>1, <1>2, <1>3 DEF GatewaysInv

(* The import reads what ChirpStack has, and what the database has not.    *)
LEMMA ImportReads ==
    ASSUME GatewaysInv,
           \/ G!ListChirpstack \/ G!ListDatabase
           \/ \E g \in Gateway : G!GetForImport(g) \/ G!FindOrgForImport(g)
    PROVE  GatewaysInv'
<1>1. /\ UNCHANGED <<orgs, gateways, cs, call, hurt, late, faults, job, read>>
      /\ contended \subseteq contended' /\ contended' \subseteq Gateway
      /\ faults' \in 0..MaxFaults
  BY DEF G!ListChirpstack, G!ListDatabase, G!GetForImport, G!FindOrgForImport, G!Quiet, G!history,
         GatewaysInv, G!TypeOK
<1>2. \A x \in Gateway : GatewayInv(x) /\ G!RowsOf(x)' = G!RowsOf(x)
  BY <1>1 DEF GatewaysInv, G!RowsOf
<1>3. \A x \in Gateway : TimesTrue(x)'
  BY <1>1, <1>2 DEF GatewayInv, TimesTrue
<1>4. JobsTyped
  BY DEF GatewaysInv, G!TypeOK, JobsTyped
<1>5. CASE G!ListChirpstack
  <2>1. /\ import' = [g \in Gateway |-> IF cs[g] # None THEN "listed" ELSE "done"]
        /\ contended' = contended \cup {g \in Gateway : cs[g] # None /\ G!BusyOn(g) # {}}
        /\ imported' = imported
    BY <1>5 DEF G!ListChirpstack
  <2>2. JobsTyped'
    BY <1>1, <1>4, <2>1 DEF JobsTyped
  <2>3. \A x \in Gateway : G!Importing(x)' => x \in contended' \/ G!BusyOn(x) = {}
    BY <2>1 DEF G!Importing
  <2>4. \A x \in Gateway : ImportFresh(x)'
    BY <2>1 DEF ImportFresh
  <2> QED  BY <1>1, <1>3, <2>2, <2>3, <2>4, JobsStep
<1>6. CASE G!ListDatabase
  <2>1. /\ import' = [g \in Gateway |->
                        IF import[g] # "listed" THEN import[g]
                        ELSE IF g \in G!MissingIn(gateways) THEN "get" ELSE "done"]
        /\ imported' = imported /\ contended' = contended
    BY <1>6 DEF G!ListDatabase, G!Quiet, G!history
  <2>2. JobsTyped'
    BY <1>1, <1>4, <2>1 DEF JobsTyped
  <2>3. \A x \in Gateway : G!Importing(x)' => G!Importing(x)
    BY <2>1 DEF G!Importing
  <2>4. ASSUME NEW x \in Gateway PROVE ImportFresh(x)'
    <3>1. CASE import[x] # "listed"
      BY <1>1, <1>2, <2>1, <3>1 DEF GatewayInv, ImportFresh
    <3>2. CASE import[x] = "listed"
      <4>1. x \in G!MissingIn(gateways) => G!RowsOf(x)' = {}
        BY <1>1, <1>2 DEF G!MissingIn, G!RowsOf
      <4>2. import'[x] = "done" \/ (import'[x] = "get" /\ x \in G!MissingIn(gateways))
        BY <2>1, <3>2
      <4> QED  BY <4>1, <4>2 DEF ImportFresh
    <3> QED  BY <3>1, <3>2
  <2> QED  BY <1>1, <1>3, <2>2, <2>3, <2>4, JobsStep
<1>7. ASSUME NEW g \in Gateway, G!GetForImport(g) \/ G!FindOrgForImport(g)
      PROVE  GatewaysInv'
  <2>1. /\ contended' = contended
        /\ import[g] \in {"get", "findOrg"}
        /\ \E s \in {"done", "findOrg", "save"}, c \in G!CsGateway \cup {None} :
             /\ import' = [import EXCEPT ![g] = s] /\ imported' = [imported EXCEPT ![g] = c]
             /\ s = "findOrg" => c = cs[g] /\ c # None
             /\ s = "save" => c = imported[g] /\ import[g] = "findOrg"
    <3>1. CASE G!GetForImport(g)
      <4>1. cs[g] \in G!CsGateway \cup {None}
        BY GatewaysTyped DEF GatewaysInv
      <4> QED  BY <3>1, <4>1 DEF G!GetForImport, G!Quiet, G!history
    <3>2. CASE G!FindOrgForImport(g)
      <4>1. imported[g] \in G!CsGateway \cup {None} /\ imported \in [Gateway -> G!CsGateway \cup {None}]
        BY <1>4 DEF JobsTyped
      <4>2. imported = [imported EXCEPT ![g] = imported[g]]
        BY <4>1
      <4> QED  BY <3>2, <4>1, <4>2 DEF G!FindOrgForImport, G!Quiet, G!history
    <3> QED  BY <1>7, <3>1, <3>2
  <2>2. PICK s \in {"done", "findOrg", "save"} : \E c \in G!CsGateway \cup {None} :
             /\ import' = [import EXCEPT ![g] = s] /\ imported' = [imported EXCEPT ![g] = c]
             /\ s = "findOrg" => c = cs[g] /\ c # None
             /\ s = "save" => c = imported[g] /\ import[g] = "findOrg"
    BY <2>1
  <2>3. PICK c \in G!CsGateway \cup {None} :
             /\ import' = [import EXCEPT ![g] = s] /\ imported' = [imported EXCEPT ![g] = c]
             /\ s = "findOrg" => c = cs[g] /\ c # None
             /\ s = "save" => c = imported[g] /\ import[g] = "findOrg"
    BY <2>2
  <2>4. /\ import'[g] = s /\ imported'[g] = c
        /\ \A x \in Gateway \ {g} : import'[x] = import[x] /\ imported'[x] = imported[x]
    BY <1>4, <2>3 DEF JobsTyped
  <2>5. JobsTyped'
    BY <1>1, <1>4, <2>3 DEF JobsTyped
  <2>6. \A x \in Gateway : G!Importing(x)' => G!Importing(x)
    BY <2>1, <2>4 DEF G!Importing
  <2>7. ASSUME NEW x \in Gateway PROVE ImportFresh(x)'
    <3>1. CASE x = g
      BY <1>1, <1>2, <2>1, <2>3, <2>4, <3>1 DEF GatewayInv, ImportFresh
    <3>2. CASE x # g
      BY <1>1, <1>2, <2>1, <2>4, <3>2 DEF GatewayInv, ImportFresh
    <3> QED  BY <3>1, <3>2
  <2> QED  BY <1>1, <1>3, <2>5, <2>6, <2>7, JobsStep
<1> QED  BY <1>5, <1>6, <1>7

(* The statistics job reads the rows, and what ChirpStack has of them.     *)
LEMMA StatsRead ==
    ASSUME GatewaysInv,
           \/ G!ReadForStats \/ G!ListForStats
           \/ \E g \in Gateway : G!GetStats(g)
    PROVE  GatewaysInv'
<1>1. /\ UNCHANGED <<orgs, gateways, cs, call, hurt, late, contended, faults, import, imported>>
      /\ contended' \subseteq Gateway /\ faults' \in 0..MaxFaults
  BY DEF G!ReadForStats, G!ListForStats, G!GetStats, G!Quiet, G!history, GatewaysInv, G!TypeOK
<1>2. \A x \in Gateway : GatewayInv(x) /\ G!RowsOf(x)' = G!RowsOf(x)
  BY <1>1 DEF GatewaysInv, G!RowsOf
<1>3. \A x \in Gateway : ImportFresh(x)' /\ (G!Importing(x)' => G!Importing(x))
  BY <1>1, <1>2 DEF GatewayInv, ImportFresh, G!Importing
<1>4. JobsTyped
  BY DEF GatewaysInv, G!TypeOK, JobsTyped
<1>5. ASSUME JobsTyped', \A x \in Gateway : \/ job'[x] = "idle"
                                            \/ job[x] # "idle" /\ read'[x] = read[x]
      PROVE  GatewaysInv'
  <2>1. ASSUME NEW x \in Gateway PROVE TimesTrue(x)'
    BY <1>1, <1>2, <1>5 DEF GatewayInv, TimesTrue
  <2> QED  BY <1>1, <1>3, <1>5, <2>1, JobsStep
<1>6. CASE G!ReadForStats
  <2>1. PICK f \in [{w.gw : w \in gateways} -> gateways] :
         /\ \A g \in DOMAIN f : f[g].gw = g
         /\ read' = [g \in Gateway |-> IF g \in DOMAIN f THEN f[g].updatedAt ELSE None]
         /\ job' = [g \in Gateway |-> IF g \in DOMAIN f THEN "listed" ELSE "idle"]
    BY <1>6 DEF G!ReadForStats
  <2>2. \A g \in DOMAIN f : f[g] \in gateways /\ f[g].updatedAt \in G!Writer /\ f[g].gw = g
    BY <2>1, GatewaysTyped DEF GatewaysInv
  <2>3. JobsTyped'
    BY <1>1, <1>4, <2>1, <2>2 DEF JobsTyped
  <2>4. ASSUME NEW x \in Gateway PROVE TimesTrue(x)'
    <3>1. CASE x \in DOMAIN f
      <4>1. job'[x] = "listed" /\ read'[x] = f[x].updatedAt /\ read'[x] # None
        BY <2>1, <2>2, <3>1, GatewaysTyped DEF GatewaysInv
      <4>2. f[x] \in G!RowsOf(x)
        BY <2>2, <3>1 DEF G!RowsOf
      <4>3. x \notin contended \cup hurt => \A w \in G!RowsOf(x) : w = f[x]
        BY <1>2, <4>2 DEF GatewayInv, InStep
      <4> QED  BY <1>1, <1>2, <4>1, <4>2, <4>3 DEF GatewayInv, TimesTrue
    <3>2. CASE x \notin DOMAIN f
      <4>1. job'[x] = "idle"
        BY <2>1, <3>2
      <4> QED  BY <1>1, <1>2, <4>1 DEF GatewayInv, TimesTrue
    <3> QED  BY <3>1, <3>2
  <2> QED  BY <1>1, <1>3, <2>3, <2>4, JobsStep
<1>7. CASE G!ListForStats
  <2>1. /\ job' = [g \in Gateway |-> IF job[g] # "listed" THEN job[g]
                                     ELSE IF cs[g] # None THEN "metrics" ELSE "idle"]
        /\ read' = [g \in Gateway |-> IF job[g] = "listed" /\ cs[g] = None THEN None
                                      ELSE read[g]]
    BY <1>7 DEF G!ListForStats
  <2>2. JobsTyped'
    BY <1>1, <1>4, <2>1 DEF JobsTyped
  <2>3. \A x \in Gateway : job'[x] = "idle" \/ (job[x] # "idle" /\ read'[x] = read[x])
    BY <2>1
  <2> QED  BY <1>5, <2>2, <2>3
<1>8. ASSUME NEW g \in Gateway, G!GetStats(g) PROVE GatewaysInv'
  <2>1. \/ job' = [job EXCEPT ![g] = "update"] /\ read' = read /\ job[g] = "metrics"
        \/ job' = [job EXCEPT ![g] = "idle"] /\ read' = [read EXCEPT ![g] = None]
    BY <1>8 DEF G!GetStats, G!LeaveJob
  <2>2. JobsTyped'
    BY <1>1, <1>4, <2>1 DEF JobsTyped
  <2>3. \A x \in Gateway : job'[x] = "idle" \/ (job[x] # "idle" /\ read'[x] = read[x])
    BY <1>4, <2>1 DEF JobsTyped
  <2> QED  BY <1>5, <2>2, <2>3
<1> QED  BY <1>6, <1>7, <1>8

(* The import inserts a row: nobody has worked on the gateway since it was *)
(* found missing, so it is the only one, or the gateway is contended.      *)
LEMMA ImportSaves ==
    ASSUME GatewaysInv, NEW g \in Gateway, G!SaveImported(g)
    PROVE  GatewaysInv'
<1>1. /\ UNCHANGED <<orgs, cs, call, job, read, contended, faults>>
      /\ import[g] = "save" /\ import' = [import EXCEPT ![g] = "done"]
      /\ imported' = [imported EXCEPT ![g] = None]
  BY DEF G!SaveImported
<1>2. /\ import'[g] = "done" /\ imported'[g] = None
      /\ \A x \in Gateway \ {g} : import'[x] = import[x] /\ imported'[x] = imported[x]
      /\ import' \in [Gateway -> {"due", "listed", "get", "findOrg", "save", "done"}]
      /\ imported' \in [Gateway -> G!CsGateway \cup {None}]
  BY <1>1 DEF GatewaysInv, G!TypeOK
<1>3. \A x \in Gateway : GatewayInv(x)
  BY DEF GatewaysInv
<1>4. /\ imported[g] \in G!CsGateway
      /\ g \notin contended => G!RowsOf(g) = {} /\ imported[g] = cs[g] /\ G!BusyOn(g) = {}
  <2>1. G!Importing(g)
    BY <1>1 DEF G!Importing
  <2> QED  BY <1>1, <1>3, <2>1, GatewaysTyped DEF GatewaysInv, GatewayInv, ImportFresh, Alone
<1>5. Called'
  BY <1>1 DEF GatewaysInv, Called, G!Busy
<1>6. CASE imported[g].org \in orgs
  <2>1. PICK row : /\ row = [id |-> g, gw |-> g, org |-> imported[g].org,
                             content |-> imported[g].content, updatedAt |-> imported[g].content]
                   /\ gateways' = gateways \cup {row}
    BY <1>6 DEF G!SaveImported
  <2>2. hurt' = hurt \ {g} /\ late' = G!Overtaken(g)
    BY <1>6 DEF G!SaveImported
  <2>3. /\ row \in G!Row /\ row.gw = g /\ row.org = imported[g].org
        /\ row.content = imported[g].content /\ row.updatedAt = row.content
    BY <1>4, <2>1, GatewaysTyped DEF GatewaysInv, G!Row
  <2>4. late' \subseteq Gateway /\ (\A x \in Gateway \ {g} : x \in late <=> x \in late')
        /\ (job[g] # "idle" => g \in late')
    BY <2>2 DEF G!Overtaken, GatewaysInv, G!TypeOK
  <2>5. G!TypeOK'
    BY <1>1, <1>2, <2>1, <2>2, <2>3, <2>4 DEF GatewaysInv, G!TypeOK
  <2>6. \A x \in Gateway \ {g} : G!RowsOf(x)' = G!RowsOf(x)
    BY <2>1, <2>3 DEF G!RowsOf
  <2>7. G!RowsOf(g)' = G!RowsOf(g) \cup {row}
    BY <2>1, <2>3 DEF G!RowsOf
  <2>8. ASSUME NEW x \in Gateway \ {g} PROVE GatewayInv(x)'
    <3>1. x \in hurt => x \in hurt'
      BY <2>2, <2>8
    <3> QED  BY <1>1, <1>2, <1>3, <2>4, <2>6, <2>8, <3>1, Untouched
  <2>9. GatewayInv(g)'
    <3>1. ImportFresh(g)'
      BY <1>2 DEF ImportFresh
    <3>2. G!BusyOn(g)' = G!BusyOn(g)
      BY <1>1 DEF G!BusyOn, G!Busy
    <3>3. Alone(g)'
      BY <1>1, <1>2, <1>3, <3>2 DEF GatewayInv, Alone, G!Importing
    <3>4. PutStays(g)'
      BY <1>1, <1>3, <3>2 DEF GatewayInv, PutStays, G!At
    <3>5. InStep(g)'
      <4>1. CASE g \in contended
        BY <1>1, <4>1 DEF InStep
      <4>2. CASE g \notin contended
        <5>1. \A w \in G!RowsOf(g)' : w = row
          BY <1>4, <2>7, <4>2
        <5>2. cs'[g] = imported[g] /\ cs'[g] # None
          BY <1>1, <1>4, <4>2, GatewaysTyped DEF GatewaysInv
        <5>3. row \in G!RowsOf(g)'
          BY <2>7
        <5>4. G!Agree(g)'
          BY <2>3, <5>1, <5>2, <5>3, AgreeAfter DEF AgreementByRows
        <5> QED  BY <1>4, <3>2, <4>2, <5>1, <5>4 DEF InStep
      <4> QED  BY <4>1, <4>2
    <3>6. TimesTrue(g)'
      <4>1. CASE g \in contended
        BY <1>1, <1>3, <4>1 DEF GatewayInv, TimesTrue
      <4>2. CASE g \notin contended
        <5>1. \A w \in G!RowsOf(g)' : w = row
          BY <1>4, <2>7, <4>2
        <5> QED  BY <1>1, <1>3, <2>3, <2>4, <5>1 DEF GatewayInv, TimesTrue
      <4> QED  BY <4>1, <4>2
    <3> QED  BY <3>1, <3>3, <3>4, <3>5, <3>6 DEF GatewayInv
  <2> QED  BY <1>5, <2>5, <2>8, <2>9 DEF GatewaysInv
<1>7. CASE imported[g].org \notin orgs
  <2>1. UNCHANGED <<gateways, hurt, late>>
    BY <1>7 DEF G!SaveImported
  <2>2. \A x \in Gateway : G!RowsOf(x)' = G!RowsOf(x)
    BY <2>1 DEF G!RowsOf
  <2>3. JobsTyped'
    BY <1>1, <1>2 DEF JobsTyped, GatewaysInv, G!TypeOK
  <2>4. \A x \in Gateway : TimesTrue(x)'
    BY <1>1, <1>3, <2>1, <2>2 DEF GatewayInv, TimesTrue
  <2>5. ASSUME NEW x \in Gateway PROVE ImportFresh(x)' /\ (G!Importing(x)' => G!Importing(x))
    <3>1. CASE x = g
      BY <1>2, <3>1 DEF ImportFresh, G!Importing
    <3>2. CASE x # g
      BY <1>1, <1>2, <1>3, <2>2, <3>2 DEF GatewayInv, ImportFresh, G!Importing
    <3> QED  BY <3>1, <3>2
  <2>6. contended' \subseteq Gateway /\ faults' \in 0..MaxFaults
    BY <1>1 DEF GatewaysInv, G!TypeOK
  <2> QED  BY <1>1, <2>1, <2>3, <2>4, <2>5, <2>6, JobsStep
<1> QED  BY <1>6, <1>7

(* The statistics job writes the time it has read: the row's own, unless late. *)
LEMMA StatsWritten ==
    ASSUME GatewaysInv, NEW g \in Gateway, G!UpdateStats(g)
    PROVE  GatewaysInv'
<1>1. /\ UNCHANGED <<orgs, cs, call, import, imported, contended, hurt, late, faults>>
      /\ job[g] = "update" /\ job' = [job EXCEPT ![g] = "idle"] /\ read' = [read EXCEPT ![g] = None]
      /\ gateways' = (gateways \ G!RowsOf(g)) \cup {[w EXCEPT !.updatedAt = read[g]] : w \in G!RowsOf(g)}
  BY DEF G!UpdateStats, G!Quiet, G!history, G!LeaveJob, G!WithStats
<1>2. /\ job'[g] = "idle"
      /\ \A x \in Gateway \ {g} : job'[x] = job[x] /\ read'[x] = read[x]
      /\ job' \in [Gateway -> {"idle", "listed", "metrics", "update"}]
      /\ read' \in [Gateway -> G!Writer \cup {None}]
  BY <1>1 DEF GatewaysInv, G!TypeOK
<1>3. \A x \in Gateway : GatewayInv(x)
  BY DEF GatewaysInv
<1>4. read[g] \in G!Writer
  BY <1>1, <1>3, GatewaysTyped DEF GatewaysInv, GatewayInv, TimesTrue
<1> DEFINE new(w) == [w EXCEPT !.updatedAt = read[g]]
<1>5. \A w \in gateways : /\ new(w) \in G!Row /\ new(w).gw = w.gw /\ new(w).org = w.org
                          /\ new(w).content = w.content /\ new(w).updatedAt = read[g]
  BY <1>4 DEF GatewaysInv, G!TypeOK, G!Row
<1>6. \A w \in G!RowsOf(g) : w \in gateways /\ w.gw = g
  BY DEF G!RowsOf
<1>7. gateways' = (gateways \ G!RowsOf(g)) \cup {new(w) : w \in G!RowsOf(g)}
  BY <1>1
<1> HIDE DEF new
<1>8. gateways' \subseteq G!Row
  BY <1>5, <1>6, <1>7 DEF GatewaysInv, G!TypeOK
<1>9. G!TypeOK'
  BY <1>1, <1>2, <1>8 DEF GatewaysInv, G!TypeOK
<1>10. Called'
  BY <1>1 DEF GatewaysInv, Called, G!Busy
<1>11. \A x \in Gateway \ {g} : G!RowsOf(x)' = G!RowsOf(x)
  BY <1>5, <1>6, <1>7 DEF G!RowsOf
<1>12. /\ \A v \in G!RowsOf(g)' : \E w \in G!RowsOf(g) : v = new(w)
       /\ \A w \in G!RowsOf(g) : new(w) \in G!RowsOf(g)'
  BY <1>5, <1>6, <1>7 DEF G!RowsOf
<1>13. ASSUME NEW x \in Gateway \ {g} PROVE GatewayInv(x)'
  BY <1>1, <1>2, <1>3, <1>11, <1>13, Untouched
<1>14. GatewayInv(g)'
  <2>1. ImportFresh(g)'
    BY <1>1, <1>3, <1>12 DEF GatewayInv, ImportFresh
  <2>2. TimesTrue(g)'
    BY <1>1, <1>2, <1>3, <1>5, <1>6, <1>12 DEF GatewayInv, TimesTrue
  <2>3. /\ (\A v, w \in G!RowsOf(g) : v = w) => \A v, w \in G!RowsOf(g)' : v = w
        /\ \A v \in G!RowsOf(g)' : \E w \in G!RowsOf(g) : v.org = w.org /\ v.content = w.content
        /\ \A w \in G!RowsOf(g) : \E v \in G!RowsOf(g)' : v.org = w.org /\ v.content = w.content
    BY <1>5, <1>6, <1>12
  <2>4. G!Importing(g)' = G!Importing(g)
    BY <1>1 DEF G!Importing
  <2> QED  BY <1>1, <1>3, <2>1, <2>2, <2>3, <2>4, CallsStay
<1> QED  BY <1>9, <1>10, <1>13, <1>14 DEF GatewaysInv

(* The import or the job gives up a gateway. *)
LEMMA JobGivesUp ==
    ASSUME GatewaysInv, NEW g \in Gateway, G!JobFails(g)
    PROVE  GatewaysInv'
<1>1. /\ UNCHANGED <<orgs, gateways, cs, call, contended, hurt, late>>
      /\ faults' \in 0..MaxFaults /\ contended' \subseteq Gateway
  <2>1. faults \in 0..MaxFaults /\ MaxFaults \in Nat
    BY GatewaysTyped DEF GatewaysInv, G!TypeOK
  <2>2. faults < MaxFaults /\ faults' = faults + 1
    BY DEF G!JobFails, G!Fault
  <2>3. faults' \in 0..MaxFaults
    BY <2>1, <2>2
  <2> QED  BY <2>3 DEF G!JobFails, G!history, GatewaysInv, G!TypeOK
<1>2. \A x \in Gateway : GatewayInv(x) /\ G!RowsOf(x)' = G!RowsOf(x)
  BY <1>1 DEF GatewaysInv, G!RowsOf
<1>3. JobsTyped
  BY DEF GatewaysInv, G!TypeOK, JobsTyped
<1>4. /\ \/ import' = [import EXCEPT ![g] = "done"] /\ imported' = [imported EXCEPT ![g] = None]
         \/ import' = import /\ imported' = imported
      /\ \/ job' = [job EXCEPT ![g] = "idle"] /\ read' = [read EXCEPT ![g] = None]
         \/ job' = job /\ read' = read
  BY DEF G!JobFails, G!LeaveJob
<1>5. JobsTyped'
  BY <1>3, <1>4 DEF JobsTyped
<1>6. ASSUME NEW x \in Gateway
      PROVE  ImportFresh(x)' /\ TimesTrue(x)' /\ (G!Importing(x)' => G!Importing(x))
  <2>1. import'[x] = "done" \/ (import'[x] = import[x] /\ imported'[x] = imported[x])
    BY <1>3, <1>4 DEF JobsTyped
  <2>2. job'[x] = "idle" \/ (job'[x] = job[x] /\ read'[x] = read[x])
    BY <1>3, <1>4 DEF JobsTyped
  <2>3. ImportFresh(x)' /\ (G!Importing(x)' => G!Importing(x))
    BY <1>1, <1>2, <2>1 DEF GatewayInv, ImportFresh, G!Importing
  <2>4. TimesTrue(x)'
    BY <1>1, <1>2, <2>2 DEF GatewayInv, TimesTrue
  <2> QED  BY <2>3, <2>4
<1> QED  BY <1>1, <1>5, <1>6, JobsStep

(* The process dies: what requests had done in ChirpStack only is hurt.    *)
LEMMA GatewaysCrash ==
    ASSUME GatewaysInv, G!Crash
    PROVE  GatewaysInv'
<1>1. /\ UNCHANGED <<orgs, gateways, cs, contended, late>>
      /\ hurt' = hurt \cup UNION {G!Halfway(r) : r \in Request}
      /\ call' = [r \in Request |-> IF G!Busy(r) THEN [call[r] EXCEPT !.stage = "failed"]
                                    ELSE call[r]]
      /\ import' = [g \in Gateway |-> "due"] /\ imported' = [g \in Gateway |-> None]
      /\ job' = [g \in Gateway |-> "idle"] /\ read' = [g \in Gateway |-> None]
  BY DEF G!Crash
<1>2. faults' \in 0..MaxFaults
  <2>1. faults \in 0..MaxFaults /\ MaxFaults \in Nat
    BY GatewaysTyped DEF GatewaysInv, G!TypeOK
  <2>2. faults < MaxFaults /\ faults' = faults + 1
    BY DEF G!Crash, G!Fault
  <2> QED  BY <2>1, <2>2
<1>3. \A r \in Request : [call[r] EXCEPT !.stage = "failed"] \in G!Call
                         /\ [call[r] EXCEPT !.stage = "failed"].stage = "failed"
  BY GatewaysTyped DEF GatewaysInv, G!Call
<1>4. call' \in [Request -> G!Call]
  BY <1>1, <1>3, GatewaysTyped DEF GatewaysInv
<1>5. \A r \in Request : ~G!Busy(r)'
  BY <1>1, <1>3 DEF G!Busy
<1>6. \A r \in Request : G!Halfway(r) \subseteq Gateway
  BY BusyCalled DEF G!Halfway, G!Busy
<1>7. G!TypeOK'
  BY <1>1, <1>2, <1>4, <1>6 DEF GatewaysInv, G!TypeOK
<1>8. ASSUME NEW g \in Gateway PROVE GatewayInv(g)'
  <2>1. GatewayInv(g) /\ G!BusyOn(g)' = {} /\ G!RowsOf(g)' = G!RowsOf(g)
    BY <1>1, <1>5 DEF GatewaysInv, G!BusyOn, G!RowsOf
  <2>2. ASSUME g \notin contended \cup hurt' PROVE G!Agree(g)
    <3>1. CASE G!BusyOn(g) = {}
      BY <1>1, <2>1, <2>2, <3>1 DEF GatewayInv, InStep
    <3>2. CASE G!BusyOn(g) # {}
      <4>1. PICK r \in G!BusyOn(g) : TRUE
        BY <3>2
      <4>2. r \in Request /\ G!Busy(r) /\ call[r].gw = g /\ Halves(g, r)
        BY <1>1, <2>1, <2>2, <4>1 DEF GatewayInv, InStep, G!BusyOn
      <4>3. g \notin G!Halfway(r)
        BY <1>1, <2>2, <4>2
      <4>4. call[r].stage \in {"findOrg", "post", "metrics", "put", "csDelete"}
        BY <4>2, <4>3, GatewaysTyped DEF GatewaysInv, G!Halfway, G!Busy, CallStage
      <4> QED  BY <4>2, <4>4 DEF Halves
    <3> QED  BY <3>1, <3>2
  <2>3. InStep(g)'
    <3>1. ASSUME g \notin contended \cup hurt'
          PROVE  G!Agree(g)' /\ \A v, w \in G!RowsOf(g)' : v = w
      <4>1. G!Agree(g) <=> G!Agree(g)'
        BY <1>1, <2>1, AgreeNow, AgreeAfter DEF AgreementByRows
      <4> QED  BY <1>1, <2>1, <2>2, <3>1, <4>1 DEF GatewayInv, InStep
    <3> QED  BY <1>1, <2>1, <3>1 DEF InStep
  <2>4. TimesTrue(g)'
    BY <1>1, <2>1 DEF GatewayInv, TimesTrue
  <2>5. Alone(g)' /\ PutStays(g)' /\ ImportFresh(g)'
    BY <1>1, <2>1 DEF Alone, PutStays, ImportFresh, G!Importing
  <2> QED  BY <2>3, <2>4, <2>5 DEF GatewayInv
<1> QED  BY <1>5, <1>7, <1>8 DEF GatewaysInv, Called

(* Every step of the part preserves the invariant. *)
LEMMA GatewaysStep ==
    ASSUME GatewaysInv, G!Next \/ UNCHANGED <<common, gatewayVars>>
    PROVE  GatewaysInv'
<1>1. CASE UNCHANGED <<common, gatewayVars>>
  <2>0. UNCHANGED <<orgs, gateways, cs, call, import, imported, job, read, late, contended, hurt, faults>>
    BY <1>1 DEF common, gatewayVars
  <2>1. G!TypeOK'
    BY <2>0 DEF GatewaysInv, G!TypeOK
  <2>2. Called'
    BY <2>0 DEF GatewaysInv, Called, G!Busy
  <2>3. ASSUME NEW g \in Gateway PROVE GatewayInv(g)'
    <3>1. GatewayInv(g) /\ G!RowsOf(g)' = G!RowsOf(g)
      BY <2>0 DEF GatewaysInv, G!RowsOf
    <3> QED  BY <2>0, <3>1, Untouched
  <2> QED  BY <2>1, <2>2, <2>3 DEF GatewaysInv
<1>2. CASE G!Next
  <2>1. ASSUME NEW r \in Request, G!Create(r) \/ G!Change(r) \/ G!Refuse(r) \/ G!CallFails(r) \/ G!AnswerLost(r)
        PROVE  GatewaysInv'
    <3>1. CASE G!Create(r)
      BY <3>1, RequestBegins, RequestReads, RequestChanges, RequestInserts DEF G!Create
    <3>2. CASE G!Change(r)
      BY <3>2, RequestBegins, RequestReads, RequestChanges, RequestUpdates, RequestDeletes DEF G!Change
    <3> QED  BY <2>1, <3>1, <3>2, RequestFails
  <2>2. CASE G!Import
    BY <2>2, ImportReads, ImportSaves DEF G!Import
  <2>3. CASE G!Stats
    BY <2>3, StatsRead, StatsWritten DEF G!Stats
  <2> QED  BY <1>2, <2>1, <2>2, <2>3, OrganizationGoes, JobGivesUp, GatewaysCrash DEF G!Next
<1> QED  BY <1>1, <1>2

(* The gateway invariant holds where the part's behaviours are followed.   *)
LEMMA GatewaysAlways == Spec => [](on = "gateways" => GatewaysInv)
<1>1. Init => (on = "gateways" => GatewaysInv)
  BY GatewaysInit DEF Init
<1>2. (on = "gateways" => GatewaysInv) /\ [Next]_vars => (on = "gateways" => GatewaysInv)'
  <2> SUFFICES ASSUME on = "gateways" => GatewaysInv, [Next]_vars, on' = "gateways"
               PROVE  GatewaysInv'
    OBVIOUS
  <2> QED  BY PartSteps, GatewaysStep
<1> QED  BY <1>1, <1>2, PTL DEF Spec

(* ChirpStack and the database agree on every gateway no request of        *)
(* ChirpstackGatewayService is working on, whatever requests, imports and  *)
(* restarts came before, unless a failure or two at once left it different *)
(* -- and the import, or a later update, mends what a failure had left.    *)
THEOREM GatewaysAlwaysInStep == Spec => []GatewaysInStep
<1>1. GatewaysInv => G!GatewaysInStep
  BY DEF GatewaysInv, GatewayInv, InStep, G!GatewaysInStep
<1>2. (on = "gateways" => GatewaysInv) => GatewaysInStep
  BY <1>1 DEF GatewaysInStep
<1> QED  BY <1>2, GatewaysAlways, PTL

(* The statistics job (updateGatewayStats) never changes updatedAt, except *)
(* of a gateway saved while it held the time before.                       *)
THEOREM UpdatedAtAlwaysTrue == Spec => []UpdatedAtTrue
<1>1. GatewaysInv => G!UpdatedAtTrue
  <2> SUFFICES ASSUME GatewaysInv, NEW w \in gateways
               PROVE  w.gw \in late \cup contended \cup hurt \/ w.updatedAt = w.content
    BY DEF G!UpdatedAtTrue
  <2>1. w.gw \in Gateway /\ w \in G!RowsOf(w.gw)
    BY GatewaysTyped DEF GatewaysInv, G!RowsOf
  <2> QED  BY <2>1 DEF GatewaysInv, GatewayInv, TimesTrue
<1>2. (on = "gateways" => GatewaysInv) => UpdatedAtTrue
  BY <1>1 DEF UpdatedAtTrue
<1> QED  BY <1>2, GatewaysAlways, PTL
=============================================================================
