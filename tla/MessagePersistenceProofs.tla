----------------------- MODULE MessagePersistenceProofs -----------------------
(***************************************************************************)
(* Proofs about MessagePersistence, for any messages, times and bounds.    *)
(* The tables are bounded because every row beyond those to keep has its   *)
(* own handler that is still cleaning up; to prove it, the bound is stated *)
(* for what would be left if any set of the deletes under way were done.   *)
(***************************************************************************)
EXTENDS MessagePersistence, FiniteSetTheorems, TLAPS

(* Subsets of the messages are finite, and their sizes ordered.            *)
LEMMA Sizes ==
    ASSUME NEW A \in SUBSET Message
    PROVE  /\ IsFiniteSet(A) /\ Cardinality(A) \in Nat
           /\ \A B \in SUBSET A : Cardinality(B) \in Nat /\ Cardinality(B) <= Cardinality(A)
           /\ \A m \in Message \ A : Cardinality(A \cup {m}) = Cardinality(A) + 1
           /\ \A m \in A : Cardinality(A \ {m}) = Cardinality(A) - 1
<1>1. IsFiniteSet(A)
  BY PersistenceAssumption, FS_Subset
<1>2. \A B \in SUBSET A : IsFiniteSet(B) /\ Cardinality(B) <= Cardinality(A)
  BY <1>1, FS_Subset
<1>3. \A B \in SUBSET A : Cardinality(B) \in Nat
  BY <1>2, FS_CardinalityType
<1> QED  BY <1>1, <1>2, <1>3, FS_AddElement, FS_RemoveElement

(* A bound that holds of a set of rows and one of handlers goes on to hold *)
(* when there are fewer rows, or more handlers, or one more of each.       *)
LEMMA StillBounded ==
    ASSUME NEW A \in SUBSET Message, NEW B \in SUBSET Message, NEW c \in Nat,
           Cardinality(A) <= c + Cardinality(B),
           NEW A1 \in SUBSET Message, NEW B1 \in SUBSET Message,
           \/ A1 \subseteq A /\ B \subseteq B1
           \/ \E m \in Message \ B : A1 \subseteq A \cup {m} /\ B \cup {m} \subseteq B1
           \/ Cardinality(A1) <= c
    PROVE  Cardinality(A1) <= c + Cardinality(B1)
<1>0. Cardinality(A) \in Nat /\ Cardinality(B) \in Nat /\ Cardinality(A1) \in Nat /\ Cardinality(B1) \in Nat
  BY Sizes
<1>1. CASE A1 \subseteq A /\ B \subseteq B1
  <2>1. Cardinality(A1) <= Cardinality(A) /\ Cardinality(B) <= Cardinality(B1)
    BY <1>1, Sizes
  <2> QED  BY <1>0, <2>1
<1>2. ASSUME NEW m \in Message \ B, A1 \subseteq A \cup {m}, B \cup {m} \subseteq B1
      PROVE  Cardinality(A1) <= c + Cardinality(B1)
  <2>1. Cardinality(A \cup {m}) \in Nat /\ Cardinality(A \cup {m}) <= Cardinality(A) + 1
    <3>1. CASE m \in A
      <4>1. Cardinality(A \cup {m}) = Cardinality(A)
        <5>1. A \cup {m} = A
          BY <3>1
        <5> QED  BY <5>1
      <4> QED  BY <1>0, <4>1
    <3>2. CASE m \notin A
      BY <1>0, <3>2, Sizes
    <3> QED  BY <3>1, <3>2
  <2>2. Cardinality(A1) <= Cardinality(A \cup {m})
    BY <1>2, Sizes
  <2>3. Cardinality(B) + 1 <= Cardinality(B1)
    <3>1. Cardinality(B \cup {m}) = Cardinality(B) + 1
      BY Sizes
    <3>2. Cardinality(B \cup {m}) <= Cardinality(B1)
      BY <1>2, Sizes
    <3> QED  BY <3>1, <3>2
  <2> QED  BY <1>0, <2>1, <2>2, <2>3
<1>3. CASE Cardinality(A1) <= c
  BY <1>0, <1>3
<1> QED  BY <1>1, <1>2, <1>3

(* What a query skips, and what it gives. *)
LEMMA Beyond ==
    ASSUME NEW rs \in SUBSET Message, NEW n \in Nat, NEW d \in BeyondNewest(rs, n)
    PROVE  /\ d \subseteq rs
           /\ d = {} => Cardinality(rs) <= n
           /\ d # {} => Cardinality(rs \ d) = n /\ \A x \in d, y \in rs \ d : SentTime[x] <= SentTime[y]
<1>0. Cardinality(rs) \in Nat
  BY Sizes
<1>1. CASE Cardinality(rs) <= n
  BY <1>1 DEF BeyondNewest
<1>2. CASE ~(Cardinality(rs) <= n)
  <2>1. /\ d \subseteq rs /\ Cardinality(rs \ d) = n
        /\ \A x \in d, y \in rs \ d : SentTime[x] <= SentTime[y]
    BY <1>2 DEF BeyondNewest
  <2>2. d # {}
    <3> SUFFICES ASSUME d = {} PROVE FALSE
      OBVIOUS
    <3>1. rs \ d = rs
      OBVIOUS
    <3> QED  BY <1>0, <1>2, <2>1, <3>1
  <2> QED  BY <2>1, <2>2
<1> QED  BY <1>1, <1>2
-----------------------------------------------------------------------------
(* A handler stores its metadata before it cleans up, then its statistics, *)
(* once; a row was inserted.                                               *)
Placed ==
    /\ \A m \in Message :
        /\ stage[m] \in {"new", "readLatest", "saveLatest", "insert"} => m \notin stored \cup logged
        /\ stage[m] \in {"select", "delete", "logStat"} => m \notin logged
        /\ stage[m] \in {"select", "delete"} => m \in stored
        /\ stage[m] \in {"readHour", "trimHour"} => m \in logged
    /\ metadata \subseteq stored /\ stats \subseteq logged

(* Messages come after they were sent, and handlers do not last.           *)
InTime ==
    \A m \in Message : stage[m] # "new" =>
        /\ SentTime[m] <= arrived[m] /\ arrived[m] <= SentTime[m] + Lateness /\ arrived[m] <= now
        /\ stage[m] \in Active => now <= arrived[m] + Lasting

(* A delete spares enough of what is newer. *)
EnoughNewer ==
    \A m \in Message : stage[m] = "delete" =>
        Cardinality({x \in stored : SentTime[x] >= threshold[m]}) > SavedCount

(* The metadata there would be if the deletes of S were done.              *)
Surviving(S) == {x \in metadata : \A m \in S : SentTime[x] > threshold[m]}

MetadataLeft ==
    \A S \in SUBSET {m \in Message : stage[m] = "delete"} :
        Cardinality(Surviving(S)) <= SavedCount + Cardinality(Cleaning \ S)

(* The statistics of an hour there would be if the deletes of S were done, *)
(* which are those of messages sent in that hour.                          *)
Undoomed(t, S) == {x \in Within(Hour, t, stats) : \A m \in S : x \notin doomed[m]}

StatsLeft ==
    \A t \in 0..MaxTime : \A S \in SUBSET {m \in Within(Hour, t, Message) : stage[m] = "trimHour"} :
        Cardinality(Undoomed(t, S)) <= HourlyCap + Cardinality(Within(Hour, t, Trimming) \ S)

(* What is deleted for its hour was sent in a time with too many.          *)
Crowded(z) ==
    \E t \in 0..MaxTime :
        LET near == Within(Hour + Lateness + Lasting, t, logged) IN
        z \in near /\ Cardinality(near) > HourlyCap

DoomedCrowded == \A m \in Message : stage[m] = "trimHour" => \A z \in doomed[m] : Crowded(z)

PersistInv ==
    /\ TypeOK /\ Placed /\ InTime /\ EnoughNewer /\ NewestKept /\ MetadataLeft /\ StatsLeft
    /\ DoomedCrowded /\ KeptWhenQuiet

(* The bounds at the start: there is nothing. *)
LEMMA PersistInit == Init => PersistInv
<1> SUFFICES ASSUME Init PROVE PersistInv
  OBVIOUS
<1>1. TypeOK
  BY PersistenceAssumption DEF Init, TypeOK
<1>2. Placed /\ InTime /\ EnoughNewer /\ NewestKept /\ DoomedCrowded /\ KeptWhenQuiet
  BY DEF Init, Placed, InTime, EnoughNewer, NewestKept, DoomedCrowded, KeptWhenQuiet
<1>3. MetadataLeft
  <2> SUFFICES ASSUME NEW S \in SUBSET {m \in Message : stage[m] = "delete"}
               PROVE  Cardinality(Surviving(S)) <= SavedCount + Cardinality(Cleaning \ S)
    BY DEF MetadataLeft
  <2>1. Surviving(S) = {} /\ Cleaning \ S = {}
    BY DEF Init, Surviving, Cleaning
  <2>2. SavedCount \in Nat
    BY PersistenceAssumption
  <2>3. Cardinality({}) = 0
    BY FS_EmptySet
  <2> QED  BY <2>1, <2>2, <2>3
<1>4. StatsLeft
  <2> SUFFICES ASSUME NEW t \in 0..MaxTime, NEW S \in SUBSET {m \in Within(Hour, t, Message) : stage[m] = "trimHour"}
               PROVE  Cardinality(Undoomed(t, S)) <= HourlyCap + Cardinality(Within(Hour, t, Trimming) \ S)
    BY DEF StatsLeft
  <2>1. Undoomed(t, S) = {} /\ Within(Hour, t, Trimming) \ S = {}
    BY DEF Init, Undoomed, Within, Trimming
  <2>2. HourlyCap \in Nat
    BY PersistenceAssumption
  <2>3. Cardinality({}) = 0
    BY FS_EmptySet
  <2> QED  BY <2>1, <2>2, <2>3
<1> QED  BY <1>1, <1>2, <1>3, <1>4 DEF PersistInv
-----------------------------------------------------------------------------
(* A step of one handler changes where it is, and no other.                *)
LEMMA ProcessEndsTyped == TypeOK /\ ProcessEnds /\ crashes' \in 0..MaxCrashes => TypeOK'
<1> SUFFICES ASSUME TypeOK, ProcessEnds, crashes' \in 0..MaxCrashes PROVE TypeOK'
  OBVIOUS
<1>1. stage' \in [Message -> Active \cup {"new", "done", "aborted"}]
  BY DEF ProcessEnds, TypeOK
<1> QED  BY <1>1 DEF ProcessEnds, TypeOK, rows, notes, history

LEMMA Typed == TypeOK /\ Next => TypeOK'
<1> SUFFICES ASSUME TypeOK, Next PROVE TypeOK'
  OBVIOUS
<1> USE DEF TypeOK, At, Goto, rows, notes, history, AfterMetadata
<1>0. \A m \in Message : SentTime[m] \in Nat
  BY PersistenceAssumption
<1>1. ASSUME NEW m \in Message, RawRequest(m) PROVE TypeOK'
  BY <1>1 DEF RawRequest, Active
<1>2. ASSUME NEW m \in Message, FindExistingReceivedMessage(m) PROVE TypeOK'
  BY <1>2 DEF FindExistingReceivedMessage, Active
<1>3. ASSUME NEW m \in Message, SaveLatestMessage(m) PROVE TypeOK'
  <2>1. CASE ProcessEnds
    BY <1>3, <2>1, ProcessEndsTyped DEF SaveLatestMessage
  <2>2. CASE ~ProcessEnds
    BY <1>3, <2>2 DEF SaveLatestMessage, Active
  <2> QED  BY <2>1, <2>2
<1>4. ASSUME NEW m \in Message, SaveMessageMetadata(m) PROVE TypeOK'
  <2>1. CASE ProcessEnds
    BY <1>4, <2>1, ProcessEndsTyped DEF SaveMessageMetadata
  <2>2. CASE ~ProcessEnds
    BY <1>4, <2>2 DEF SaveMessageMetadata, Active
  <2> QED  BY <2>1, <2>2
<1>5. ASSUME NEW m \in Message, FindNewestToDelete(m) PROVE TypeOK'
  <2>1. PICK d \in BeyondNewest(metadata, SavedCount) :
          \/ d = {} /\ Goto(m, AfterMetadata) /\ UNCHANGED threshold
          \/ \E x \in d : threshold' = [threshold EXCEPT ![m] = SentTime[x]] /\ Goto(m, "delete")
    BY <1>5 DEF FindNewestToDelete
  <2>2. d \subseteq Message
    BY <2>1, PersistenceAssumption, Beyond
  <2>3. threshold' \in [Message -> Nat]
    BY <1>0, <2>1, <2>2
  <2>4. stage' \in [Message -> Active \cup {"new", "done", "aborted"}]
    BY <2>1 DEF Active
  <2> QED  BY <1>5, <2>3, <2>4 DEF FindNewestToDelete
<1>6. ASSUME NEW m \in Message, DoDeleteOldMetadata(m) PROVE TypeOK'
  BY <1>6 DEF DoDeleteOldMetadata, Active
<1>7. ASSUME NEW m \in Message, SaveSigFoxStats(m) PROVE TypeOK'
  <2>1. CASE ProcessEnds
    BY <1>7, <2>1, ProcessEndsTyped DEF SaveSigFoxStats
  <2>2. CASE ~ProcessEnds
    BY <1>7, <2>2 DEF SaveSigFoxStats, Active
  <2> QED  BY <2>1, <2>2
<1>8. ASSUME NEW m \in Message, FindStatsSinceLastHour(m) PROVE TypeOK'
  <2>1. PICK d \in BeyondNewest(SinceLastHour(m), HourlyCap) :
          /\ doomed' = [doomed EXCEPT ![m] = d]
          /\ Goto(m, IF d = {} THEN "readYear" ELSE "trimHour")
    BY <1>8 DEF FindStatsSinceLastHour
  <2>2. d \subseteq Message
    <3>1. SinceLastHour(m) \in SUBSET Message
      BY DEF SinceLastHour
    <3> QED  BY <2>1, <3>1, PersistenceAssumption, Beyond
  <2>3. stage' \in [Message -> Active \cup {"new", "done", "aborted"}]
    BY <2>1 DEF Active
  <2> QED  BY <1>8, <2>1, <2>2, <2>3 DEF FindStatsSinceLastHour
<1>9. ASSUME NEW m \in Message, DeleteStatsSinceLastHour(m) PROVE TypeOK'
  BY <1>9 DEF DeleteStatsSinceLastHour, Active
<1>10. ASSUME NEW m \in Message, FindOldStats(m) PROVE TypeOK'
  BY <1>10 DEF FindOldStats, Active
<1>11. ASSUME NEW m \in Message, DeleteOldStats(m) PROVE TypeOK'
  BY <1>11 DEF DeleteOldStats, Active
<1>12. CASE DeleteDevice
  BY <1>12 DEF DeleteDevice
<1>13. CASE Crash
  <2>1. crashes' \in 0..MaxCrashes
    BY <1>13, PersistenceAssumption DEF Crash
  <2> QED  BY <1>13, <2>1, ProcessEndsTyped DEF Crash
<1>14. CASE Tick
  BY <1>14, PersistenceAssumption DEF Tick
<1> QED
  BY <1>1, <1>2, <1>3, <1>4, <1>5, <1>6, <1>7, <1>8, <1>9, <1>10, <1>11, <1>12, <1>13, <1>14 DEF Next, Step


(* A handler's rows are there from its insert on, and nobody inserts twice.*)
LEMMA StepPlaced == TypeOK /\ Placed /\ Next => Placed'
<1> SUFFICES ASSUME TypeOK, Placed, Next PROVE Placed'
  OBVIOUS
<1> USE DEF TypeOK, Placed, At, Goto, rows, notes, history
<1>0. ProcessEnds => Placed'
  BY DEF ProcessEnds, Active
<1>1. ASSUME NEW m \in Message, RawRequest(m) PROVE Placed'
  BY <1>1 DEF RawRequest
<1>2. ASSUME NEW m \in Message, FindExistingReceivedMessage(m) PROVE Placed'
  BY <1>2 DEF FindExistingReceivedMessage
<1>3. ASSUME NEW m \in Message, SaveLatestMessage(m) PROVE Placed'
  BY <1>0, <1>3 DEF SaveLatestMessage
<1>4. ASSUME NEW m \in Message, SaveMessageMetadata(m) PROVE Placed'
  BY <1>0, <1>4 DEF SaveMessageMetadata
<1>5. ASSUME NEW m \in Message, FindNewestToDelete(m) PROVE Placed'
  BY <1>5 DEF FindNewestToDelete, AfterMetadata
<1>6. ASSUME NEW m \in Message, DoDeleteOldMetadata(m) PROVE Placed'
  BY <1>6 DEF DoDeleteOldMetadata, AfterMetadata
<1>7. ASSUME NEW m \in Message, SaveSigFoxStats(m) PROVE Placed'
  BY <1>0, <1>7 DEF SaveSigFoxStats
<1>8. ASSUME NEW m \in Message, FindStatsSinceLastHour(m) PROVE Placed'
  BY <1>8 DEF FindStatsSinceLastHour
<1>9. ASSUME NEW m \in Message, DeleteStatsSinceLastHour(m) PROVE Placed'
  BY <1>9 DEF DeleteStatsSinceLastHour
<1>10. ASSUME NEW m \in Message, FindOldStats(m) PROVE Placed'
  BY <1>10 DEF FindOldStats
<1>11. ASSUME NEW m \in Message, DeleteOldStats(m) PROVE Placed'
  BY <1>11 DEF DeleteOldStats
<1>12. DeleteDevice \/ Tick => Placed'
  BY DEF DeleteDevice, Tick
<1> QED
  BY <1>0, <1>1, <1>2, <1>3, <1>4, <1>5, <1>6, <1>7, <1>8, <1>9, <1>10, <1>11, <1>12 DEF Next, Step, Crash

(* Only the first step of a handler notes a time; the clock goes on only   *)
(* while every handler may last.                                           *)
LEMMA StepInTime == TypeOK /\ InTime /\ Next => InTime'
<1> SUFFICES ASSUME TypeOK, InTime, Next PROVE InTime'
  OBVIOUS
<1> USE DEF TypeOK, At, Goto, rows, notes, history
<1>0. /\ \A m \in Message : SentTime[m] \in Nat /\ arrived[m] \in Nat
      /\ now \in Nat /\ Lateness \in Nat /\ Lasting \in Nat
  BY PersistenceAssumption
<1>1. ASSUME NEW m \in Message, RawRequest(m) PROVE InTime'
  <2>1. /\ stage' \in [Message -> {stage[p] : p \in Message} \cup {"readLatest", "done"}]
        /\ \A p \in Message \ {m} : stage'[p] = stage[p] /\ arrived'[p] = arrived[p]
        /\ arrived'[m] = now /\ now' = now /\ SentTime[m] <= now /\ now <= SentTime[m] + Lateness
    BY <1>1 DEF RawRequest
  <2>2. now <= now + Lasting
    BY <1>0
  <2> QED  BY <2>1, <2>2 DEF InTime
<1>2. ASSUME UNCHANGED <<now, arrived>>,
             \A m \in Message : stage'[m] # "new" => stage[m] # "new" /\ (stage'[m] \in Active => stage[m] \in Active)
      PROVE  InTime'
  BY <1>2 DEF InTime
<1>3. ASSUME NEW m \in Message,
             \/ FindExistingReceivedMessage(m) \/ SaveLatestMessage(m)
             \/ SaveMessageMetadata(m) \/ FindNewestToDelete(m) \/ DoDeleteOldMetadata(m)
             \/ SaveSigFoxStats(m) \/ FindStatsSinceLastHour(m) \/ DeleteStatsSinceLastHour(m)
             \/ FindOldStats(m) \/ DeleteOldStats(m)
      PROVE  /\ UNCHANGED <<now, arrived>> /\ stage[m] \in Active
             /\ \A p \in Message \ {m} : stage'[p] = stage[p] \/ (stage[p] \in Active /\ stage'[p] = "aborted")
  BY <1>3 DEF FindExistingReceivedMessage, SaveLatestMessage, SaveMessageMetadata, FindNewestToDelete,
     DoDeleteOldMetadata, SaveSigFoxStats, FindStatsSinceLastHour, DeleteStatsSinceLastHour, FindOldStats,
     DeleteOldStats, ProcessEnds, Active
<1>4. ASSUME NEW m \in Message, Step(m), ~RawRequest(m) PROVE InTime'
  BY <1>2, <1>3, <1>4 DEF Step, Active
<1>5. CASE DeleteDevice \/ ProcessEnds
  BY <1>2, <1>5 DEF DeleteDevice, ProcessEnds, Active
<1>6. CASE Tick
  <2>1. /\ now' = now + 1 /\ UNCHANGED <<stage, arrived>>
        /\ \A m \in Message : stage[m] \in Active => now < arrived[m] + Lasting
    BY <1>6 DEF Tick
  <2> QED  BY <1>0, <2>1 DEF InTime
<1> QED  BY <1>1, <1>4, <1>5, <1>6 DEF Next, Crash
-----------------------------------------------------------------------------
(* The steps but for those that insert, look for and delete metadata: no   *)
(* handler enters or leaves its clean-up, but by the end of the process.   *)
LEMMA MetadataAlone ==
    ASSUME TypeOK, Next
    PROVE  \/ \E m \in Message : SaveMessageMetadata(m) /\ ~ProcessEnds
           \/ \E m \in Message : FindNewestToDelete(m)
           \/ \E m \in Message : DoDeleteOldMetadata(m)
           \/ /\ stored' = stored /\ threshold' = threshold /\ metadata' \subseteq metadata
              /\ exists' => exists /\ metadata' = metadata
              /\ \A m \in Message :
                   /\ stage'[m] = "delete" => stage[m] = "delete"
                   /\ stage[m] \in {"select", "delete", "aborted"} => stage'[m] \in {"select", "delete", "aborted"}
<1> DEFINE Quiet ==
           /\ stored' = stored /\ threshold' = threshold /\ metadata' \subseteq metadata
           /\ exists' => exists /\ metadata' = metadata
           /\ \A m \in Message :
                /\ stage'[m] = "delete" => stage[m] = "delete"
                /\ stage[m] \in {"select", "delete", "aborted"} => stage'[m] \in {"select", "delete", "aborted"}
<1> USE DEF TypeOK, At, Goto, rows, notes, history
<1>1. ProcessEnds => Quiet
  BY DEF ProcessEnds, Active
<1>2. ASSUME NEW m \in Message, ~ProcessEnds,
             \/ RawRequest(m) \/ FindExistingReceivedMessage(m) \/ SaveLatestMessage(m)
             \/ SaveSigFoxStats(m) \/ FindStatsSinceLastHour(m) \/ DeleteStatsSinceLastHour(m)
             \/ FindOldStats(m) \/ DeleteOldStats(m)
      PROVE  Quiet
  BY <1>2 DEF RawRequest, FindExistingReceivedMessage, SaveLatestMessage,
     SaveSigFoxStats, FindStatsSinceLastHour, DeleteStatsSinceLastHour, FindOldStats, DeleteOldStats
<1>3. DeleteDevice \/ Tick => Quiet
  BY DEF DeleteDevice, Tick
<1> QED  BY <1>1, <1>2, <1>3 DEF Next, Step, Crash

(* What is at least as new as the first row to delete: it and those kept.  *)
LEMMA FoundEnough ==
    ASSUME TypeOK, Placed, NEW d \in BeyondNewest(metadata, SavedCount), NEW x \in d
    PROVE  Cardinality({y \in stored : SentTime[y] >= SentTime[x]}) > SavedCount
<1>1. SavedCount \in Nat /\ \A y \in Message : SentTime[y] \in Nat
  BY PersistenceAssumption
<1>2. metadata \in SUBSET Message /\ metadata \subseteq stored /\ stored \subseteq Message
  BY DEF TypeOK, Placed
<1>3. /\ d \subseteq metadata /\ Cardinality(metadata \ d) = SavedCount
      /\ \A y \in metadata \ d : SentTime[x] <= SentTime[y]
  BY <1>1, <1>2, Beyond
<1> DEFINE K == {y \in stored : SentTime[y] >= SentTime[x]}
<1>4. (metadata \ d) \cup {x} \subseteq K /\ K \in SUBSET Message
  BY <1>1, <1>2, <1>3
<1>5. Cardinality((metadata \ d) \cup {x}) = SavedCount + 1
  <2>1. metadata \ d \in SUBSET Message /\ x \in Message \ (metadata \ d)
    BY <1>2, <1>3
  <2> QED  BY <1>3, <2>1, Sizes
<1>6. Cardinality(K) \in Nat /\ SavedCount + 1 <= Cardinality(K)
  BY <1>4, <1>5, Sizes
<1> QED  BY <1>1, <1>6

(* A delete under way goes on to spare enough: what is stored only grows.  *)
LEMMA StepEnough == TypeOK /\ Placed /\ EnoughNewer /\ Next /\ TypeOK' => EnoughNewer'
<1> SUFFICES ASSUME TypeOK, Placed, EnoughNewer, Next, TypeOK', NEW m \in Message, stage'[m] = "delete"
             PROVE  Cardinality({x \in stored' : SentTime[x] >= threshold'[m]}) > SavedCount
  BY DEF EnoughNewer
<1>1. SavedCount \in Nat
  BY PersistenceAssumption
<1>2. ASSUME stored \subseteq stored', threshold'[m] = threshold[m], stage[m] = "delete"
      PROVE  Cardinality({x \in stored' : SentTime[x] >= threshold'[m]}) > SavedCount
  <2>1. Cardinality({x \in stored : SentTime[x] >= threshold[m]}) > SavedCount
    BY <1>2 DEF EnoughNewer
  <2>2. /\ {x \in stored : SentTime[x] >= threshold[m]} \in SUBSET Message
        /\ {x \in stored' : SentTime[x] >= threshold'[m]} \in SUBSET Message
        /\ {x \in stored : SentTime[x] >= threshold[m]} \subseteq {x \in stored' : SentTime[x] >= threshold'[m]}
    BY <1>2 DEF TypeOK
  <2> QED  BY <1>1, <2>1, <2>2, Sizes
<1>3. ASSUME NEW p \in Message, SaveMessageMetadata(p), ~ProcessEnds
      PROVE  Cardinality({x \in stored' : SentTime[x] >= threshold'[m]}) > SavedCount
  BY <1>2, <1>3 DEF SaveMessageMetadata, At, Goto, notes, TypeOK
<1>4. ASSUME NEW p \in Message, FindNewestToDelete(p)
      PROVE  Cardinality({x \in stored' : SentTime[x] >= threshold'[m]}) > SavedCount
  <2>1. stored' = stored
    BY <1>4 DEF FindNewestToDelete, history
  <2>2. CASE m # p
    BY <1>2, <1>4, <2>1, <2>2 DEF FindNewestToDelete, At, Goto, TypeOK, AfterMetadata
  <2>3. CASE m = p
    <3>1. PICK d \in BeyondNewest(metadata, SavedCount) :
            \/ d = {} /\ Goto(m, AfterMetadata) /\ UNCHANGED threshold
            \/ \E x \in d : threshold' = [threshold EXCEPT ![m] = SentTime[x]] /\ Goto(m, "delete")
      BY <1>4, <2>3 DEF FindNewestToDelete
    <3>2. ~Goto(m, AfterMetadata)
      BY DEF Goto, AfterMetadata, TypeOK
    <3>3. PICK x \in d : threshold' = [threshold EXCEPT ![m] = SentTime[x]]
      BY <3>1, <3>2
    <3>4. threshold'[m] = SentTime[x]
      BY <3>3 DEF TypeOK
    <3> QED  BY <2>1, <3>4, FoundEnough
  <2> QED  BY <2>2, <2>3
<1>5. ASSUME NEW p \in Message, DoDeleteOldMetadata(p)
      PROVE  Cardinality({x \in stored' : SentTime[x] >= threshold'[m]}) > SavedCount
  BY <1>2, <1>5 DEF DoDeleteOldMetadata, At, Goto, notes, history, TypeOK, AfterMetadata
<1> QED  BY <1>2, <1>3, <1>4, <1>5, MetadataAlone

(* What a delete takes has enough that is as new.                          *)
LEMMA StepNewest == TypeOK /\ Placed /\ EnoughNewer /\ NewestKept /\ Next /\ TypeOK' => NewestKept'
<1> SUFFICES ASSUME TypeOK, Placed, EnoughNewer, NewestKept, Next, TypeOK', exists',
                    NEW z \in stored', z \notin metadata'
             PROVE  Cardinality(AtLeastAsNew(z)' \ {z}) >= SavedCount
  BY DEF NewestKept
<1>1. SavedCount \in Nat /\ \A y \in Message : SentTime[y] \in Nat
  BY PersistenceAssumption
<1>2. /\ AtLeastAsNew(z)' \in SUBSET Message /\ z \in AtLeastAsNew(z)'
      /\ z \in Message /\ SentTime[z] \in Nat
  BY <1>1 DEF AtLeastAsNew, TypeOK
<1>3. ASSUME exists, stored \subseteq stored', z \in stored \ metadata
      PROVE  Cardinality(AtLeastAsNew(z)' \ {z}) >= SavedCount
  <2>1. Cardinality(AtLeastAsNew(z) \ {z}) >= SavedCount
    BY <1>3 DEF NewestKept
  <2>2. AtLeastAsNew(z) \ {z} \subseteq AtLeastAsNew(z)' \ {z} /\ AtLeastAsNew(z)' \ {z} \in SUBSET Message
    BY <1>2, <1>3 DEF AtLeastAsNew
  <2>3. /\ Cardinality(AtLeastAsNew(z) \ {z}) <= Cardinality(AtLeastAsNew(z)' \ {z})
        /\ Cardinality(AtLeastAsNew(z) \ {z}) \in Nat /\ Cardinality(AtLeastAsNew(z)' \ {z}) \in Nat
    BY <2>2, Sizes
  <2> QED  BY <1>1, <2>1, <2>3
<1>4. ASSUME NEW m \in Message, SaveMessageMetadata(m), ~ProcessEnds
      PROVE  Cardinality(AtLeastAsNew(z)' \ {z}) >= SavedCount
  BY <1>3, <1>4 DEF SaveMessageMetadata
<1>5. ASSUME NEW m \in Message, FindNewestToDelete(m)
      PROVE  Cardinality(AtLeastAsNew(z)' \ {z}) >= SavedCount
  BY <1>3, <1>5 DEF FindNewestToDelete, rows, history
<1>6. ASSUME NEW m \in Message, DoDeleteOldMetadata(m)
      PROVE  Cardinality(AtLeastAsNew(z)' \ {z}) >= SavedCount
  <2>1. /\ exists /\ stored' = stored /\ stage[m] = "delete"
        /\ metadata' = {x \in metadata : SentTime[x] > threshold[m]}
    BY <1>6 DEF DoDeleteOldMetadata, history, At
  <2>2. CASE z \notin metadata
    BY <1>3, <2>1, <2>2
  <2>3. CASE z \in metadata
    <3>1. SentTime[z] <= threshold[m] /\ threshold[m] \in Nat
      BY <1>2, <2>1, <2>3 DEF TypeOK
    <3>2. {x \in stored : SentTime[x] >= threshold[m]} \subseteq AtLeastAsNew(z)'
      BY <1>1, <1>2, <2>1, <3>1 DEF AtLeastAsNew, TypeOK
    <3>3. Cardinality({x \in stored : SentTime[x] >= threshold[m]}) > SavedCount
      BY <2>1 DEF EnoughNewer
    <3>4. /\ Cardinality({x \in stored : SentTime[x] >= threshold[m]}) <= Cardinality(AtLeastAsNew(z)')
          /\ Cardinality({x \in stored : SentTime[x] >= threshold[m]}) \in Nat
          /\ Cardinality(AtLeastAsNew(z)') \in Nat
          /\ Cardinality(AtLeastAsNew(z)' \ {z}) = Cardinality(AtLeastAsNew(z)') - 1
      BY <1>2, <3>2, Sizes
    <3> QED  BY <1>1, <3>3, <3>4
  <2> QED  BY <2>2, <2>3
<1> QED  BY <1>3, <1>4, <1>5, <1>6, MetadataAlone

(* A row inserted comes with a handler that cleans up; a handler that      *)
(* leaves found few enough, or has deleted what its query told it to.      *)
LEMMA StepMetadataLeft == TypeOK /\ Placed /\ MetadataLeft /\ Next /\ TypeOK' => MetadataLeft'
<1> SUFFICES ASSUME TypeOK, Placed, MetadataLeft, Next, TypeOK',
                    NEW S \in SUBSET {m \in Message : stage'[m] = "delete"}
             PROVE  Cardinality(Surviving(S)') <= SavedCount + Cardinality(Cleaning' \ S)
  BY DEF MetadataLeft
<1>1. /\ SavedCount \in Nat /\ \A y \in Message : SentTime[y] \in Nat
      /\ metadata \subseteq stored /\ metadata \in SUBSET Message /\ stored \in SUBSET Message
  BY PersistenceAssumption DEF Placed, TypeOK
<1>2. /\ Surviving(S)' \in SUBSET Message /\ Cleaning' \ S \in SUBSET Message
      /\ \A R \in SUBSET Message : Surviving(R) \in SUBSET Message /\ Cleaning \ R \in SUBSET Message
  BY <1>1 DEF Surviving, Cleaning, TypeOK
<1>3. ASSUME NEW R \in SUBSET {m \in Message : stage[m] = "delete"},
             \/ Surviving(S)' \subseteq Surviving(R) /\ Cleaning \ R \subseteq Cleaning' \ S
             \/ \E m \in Message \ (Cleaning \ R) :
                  Surviving(S)' \subseteq Surviving(R) \cup {m} /\ (Cleaning \ R) \cup {m} \subseteq Cleaning' \ S
             \/ Cardinality(Surviving(S)') <= SavedCount
      PROVE  Cardinality(Surviving(S)') <= SavedCount + Cardinality(Cleaning' \ S)
  <2>1. Cardinality(Surviving(R)) <= SavedCount + Cardinality(Cleaning \ R)
    BY DEF MetadataLeft
  <2>2. R \in SUBSET Message
    OBVIOUS
  <2> HIDE DEF MetadataLeft
  <2> QED  BY <1>1, <1>2, <1>3, <2>1, <2>2, StillBounded
<1>4. CASE /\ stored' = stored /\ threshold' = threshold /\ metadata' \subseteq metadata
           /\ \A m \in Message :
                /\ stage'[m] = "delete" => stage[m] = "delete"
                /\ stage[m] \in {"select", "delete", "aborted"} => stage'[m] \in {"select", "delete", "aborted"}
  <2>1. S \in SUBSET {m \in Message : stage[m] = "delete"}
    BY <1>4
  <2>2. Surviving(S)' \subseteq Surviving(S)
    BY <1>4 DEF Surviving
  <2>3. Cleaning \ S \subseteq Cleaning' \ S
    BY <1>1, <1>4 DEF Cleaning
  <2> QED  BY <1>3, <2>1, <2>2, <2>3
<1>5. ASSUME NEW m \in Message, SaveMessageMetadata(m), ~ProcessEnds
      PROVE  Cardinality(Surviving(S)') <= SavedCount + Cardinality(Cleaning' \ S)
  <2>1. /\ stage[m] = "insert" /\ stage' = [stage EXCEPT ![m] = "select"] /\ threshold' = threshold
        /\ metadata' = metadata \cup {m} /\ stored' = stored \cup {m}
    BY <1>5 DEF SaveMessageMetadata, At, Goto, notes
  <2>2. m \notin stored
    BY <2>1 DEF Placed
  <2>3. /\ stage'[m] = "select" /\ \A p \in Message \ {m} : stage'[p] = stage[p]
    BY <2>1 DEF TypeOK
  <2>4. S \in SUBSET {p \in Message : stage[p] = "delete"} /\ m \notin S
    BY <2>3
  <2>5. Surviving(S)' \subseteq Surviving(S) \cup {m}
    BY <2>1 DEF Surviving
  <2>6. m \notin Cleaning \ S /\ (Cleaning \ S) \cup {m} \subseteq Cleaning' \ S
    BY <1>1, <2>1, <2>2, <2>3, <2>4 DEF Cleaning
  <2> QED  BY <1>3, <2>4, <2>5, <2>6
<1>6. ASSUME NEW m \in Message, FindNewestToDelete(m)
      PROVE  Cardinality(Surviving(S)') <= SavedCount + Cardinality(Cleaning' \ S)
  <2>1. stage[m] = "select" /\ metadata' = metadata /\ stored' = stored
    BY <1>6 DEF FindNewestToDelete, At, rows, history
  <2>2. PICK d \in BeyondNewest(metadata, SavedCount) :
          \/ d = {} /\ Goto(m, AfterMetadata) /\ UNCHANGED threshold
          \/ \E x \in d : /\ \A y \in d : SentTime[y] <= SentTime[x]
                          /\ threshold' = [threshold EXCEPT ![m] = SentTime[x]] /\ Goto(m, "delete")
    BY <1>6 DEF FindNewestToDelete
  <2>3. /\ d \subseteq metadata
        /\ d = {} => Cardinality(metadata) <= SavedCount
        /\ d # {} => Cardinality(metadata \ d) = SavedCount
    BY <1>1, Beyond
  <2>4. \A p \in Message \ {m} : stage'[p] = stage[p] /\ threshold'[p] = threshold[p]
    BY <2>2 DEF Goto, TypeOK
  <2>5. S \ {m} \in SUBSET {p \in Message : stage[p] = "delete"}
    BY <2>4
  <2>6. ASSUME NEW K \in SUBSET metadata, Surviving(S)' \subseteq K, Cardinality(K) <= SavedCount
        PROVE  Cardinality(Surviving(S)') <= SavedCount
    <3>1. /\ Cardinality(Surviving(S)') \in Nat /\ Cardinality(K) \in Nat
          /\ Cardinality(Surviving(S)') <= Cardinality(K)
      BY <1>1, <2>6, Sizes
    <3> QED  BY <1>1, <2>6, <3>1
  <2>7. CASE d = {}
    <3>1. Surviving(S)' \subseteq metadata
      BY <2>1 DEF Surviving
    <3> QED  BY <1>3, <2>3, <2>5, <2>6, <2>7, <3>1
  <2>8. CASE d # {} /\ m \in S
    <3>1. PICK x \in d : /\ \A y \in d : SentTime[y] <= SentTime[x]
                         /\ threshold' = [threshold EXCEPT ![m] = SentTime[x]]
      BY <2>2, <2>8
    <3>2. threshold'[m] = SentTime[x]
      BY <3>1 DEF TypeOK
    <3>3. Surviving(S)' \subseteq metadata \ d
      <4> SUFFICES ASSUME NEW y \in Surviving(S)', y \in d PROVE FALSE
        BY <2>1 DEF Surviving
      <4>1. SentTime[y] > SentTime[x]
        BY <2>8, <3>2 DEF Surviving
      <4>2. SentTime[y] <= SentTime[x] /\ SentTime[x] \in Nat /\ SentTime[y] \in Nat
        BY <1>1, <2>3, <3>1
      <4> QED  BY <4>1, <4>2
    <3>4. Cardinality(metadata \ d) <= SavedCount
      BY <1>1, <2>3, <2>8
    <3> QED  BY <1>3, <2>5, <2>6, <3>3, <3>4
  <2>9. CASE d # {} /\ m \notin S
    <3>1. Goto(m, "delete")
      BY <2>2, <2>9
    <3>2. Surviving(S)' \subseteq Surviving(S)
      BY <2>1, <2>4, <2>9 DEF Surviving
    <3>3. Cleaning \ S \subseteq Cleaning' \ S
      BY <1>1, <2>1, <2>4, <3>1 DEF Cleaning, Goto, TypeOK
    <3> QED  BY <1>3, <2>5, <2>9, <3>2, <3>3
  <2> QED  BY <2>7, <2>8, <2>9
<1>7. ASSUME NEW m \in Message, DoDeleteOldMetadata(m)
      PROVE  Cardinality(Surviving(S)') <= SavedCount + Cardinality(Cleaning' \ S)
  <2>1. /\ stage[m] = "delete" /\ stored' = stored /\ threshold' = threshold
        /\ metadata' = {x \in metadata : SentTime[x] > threshold[m]}
        /\ stage'[m] # "delete" /\ \A p \in Message \ {m} : stage'[p] = stage[p]
    BY <1>7 DEF DoDeleteOldMetadata, At, Goto, notes, history, AfterMetadata, TypeOK
  <2>2. S \cup {m} \in SUBSET {p \in Message : stage[p] = "delete"}
    BY <2>1
  <2>3. Surviving(S)' \subseteq Surviving(S \cup {m})
    BY <2>1 DEF Surviving
  <2>4. Cleaning \ (S \cup {m}) \subseteq Cleaning' \ S
    BY <1>1, <2>1 DEF Cleaning
  <2> QED  BY <1>3, <2>2, <2>3, <2>4
<1> QED  BY <1>4, <1>5, <1>6, <1>7, MetadataAlone

(* What there is when no delete is done. *)
LEMMA LeftBounded == TypeOK /\ MetadataLeft => MetadataBounded
<1> SUFFICES ASSUME TypeOK, MetadataLeft PROVE MetadataBounded
  OBVIOUS
<1>1. Cardinality(Surviving({})) <= SavedCount + Cardinality(Cleaning \ {})
  BY DEF MetadataLeft
<1>2. Surviving({}) = metadata /\ Cleaning \ {} = Cleaning
  BY DEF Surviving
<1> QED  BY <1>1, <1>2 DEF MetadataBounded
-----------------------------------------------------------------------------
(* The steps but for those that insert, look for and delete statistics for *)
(* their hour: rows go only for their age, or with the device.             *)
LEMMA StatsAlone ==
    ASSUME TypeOK, Next
    PROVE  \/ \E m \in Message : SaveSigFoxStats(m) /\ ~ProcessEnds
           \/ \E m \in Message : FindStatsSinceLastHour(m)
           \/ \E m \in Message : DeleteStatsSinceLastHour(m)
           \/ /\ logged' = logged /\ stats' \subseteq stats /\ expired \subseteq expired'
              /\ exists' => exists /\ stats \ stats' \subseteq expired'
              /\ \A m \in Message :
                   /\ stage'[m] = "trimHour" => stage[m] = "trimHour" /\ doomed'[m] = doomed[m]
                   /\ stage[m] \in {"readHour", "trimHour", "aborted"} => stage'[m] \in {"readHour", "trimHour", "aborted"}
<1> DEFINE Quiet ==
           /\ logged' = logged /\ stats' \subseteq stats /\ expired \subseteq expired'
           /\ exists' => exists /\ stats \ stats' \subseteq expired'
           /\ \A m \in Message :
                /\ stage'[m] = "trimHour" => stage[m] = "trimHour" /\ doomed'[m] = doomed[m]
                /\ stage[m] \in {"readHour", "trimHour", "aborted"} => stage'[m] \in {"readHour", "trimHour", "aborted"}
<1> USE DEF TypeOK, At, Goto, rows, notes, history, AfterMetadata
<1>1. ProcessEnds => Quiet
  BY DEF ProcessEnds, Active
<1>2. ASSUME NEW m \in Message, ~ProcessEnds,
             \/ RawRequest(m) \/ FindExistingReceivedMessage(m) \/ SaveLatestMessage(m)
             \/ SaveMessageMetadata(m) \/ DoDeleteOldMetadata(m)
      PROVE  Quiet
  BY <1>2 DEF RawRequest, FindExistingReceivedMessage, SaveLatestMessage, SaveMessageMetadata, DoDeleteOldMetadata
<1>3. ASSUME NEW m \in Message, FindNewestToDelete(m) PROVE Quiet
  BY <1>3 DEF FindNewestToDelete
<1>4. ASSUME NEW m \in Message, FindOldStats(m) PROVE Quiet
  BY <1>4 DEF FindOldStats
<1>5. ASSUME NEW m \in Message, DeleteOldStats(m) PROVE Quiet
  BY <1>5 DEF DeleteOldStats
<1>6. DeleteDevice \/ Tick => Quiet
  BY DEF DeleteDevice, Tick
<1> QED  BY <1>1, <1>2, <1>3, <1>4, <1>5, <1>6 DEF Next, Step, Crash

(* As for the metadata; but a handler sees only the rows since an hour     *)
(* before its message, all of any hour that its message was sent in.       *)
LEMMA StepStatsLeft == TypeOK /\ Placed /\ StatsLeft /\ Next /\ TypeOK' => StatsLeft'
<1> SUFFICES ASSUME TypeOK, Placed, StatsLeft, Next, TypeOK', NEW t \in 0..MaxTime,
                    NEW S \in SUBSET {m \in Within(Hour, t, Message) : stage'[m] = "trimHour"}
             PROVE  Cardinality(Undoomed(t, S)') <= HourlyCap + Cardinality(Within(Hour, t, Trimming)' \ S)
  BY DEF StatsLeft, Within
<1>1. /\ HourlyCap \in Nat /\ Hour \in Nat /\ t \in Nat /\ \A y \in Message : SentTime[y] \in Nat
      /\ stats \subseteq logged /\ stats \in SUBSET Message /\ logged \in SUBSET Message
  BY PersistenceAssumption DEF Placed, TypeOK
<1>2. /\ Undoomed(t, S)' \in SUBSET Message /\ Within(Hour, t, Trimming)' \ S \in SUBSET Message
      /\ \A R \in SUBSET Message :
            Undoomed(t, R) \in SUBSET Message /\ Within(Hour, t, Trimming) \ R \in SUBSET Message
  BY <1>1 DEF Undoomed, Within, Trimming, TypeOK
<1>3. ASSUME NEW R \in SUBSET {m \in Within(Hour, t, Message) : stage[m] = "trimHour"},
             \/ /\ Undoomed(t, S)' \subseteq Undoomed(t, R)
                /\ Within(Hour, t, Trimming) \ R \subseteq Within(Hour, t, Trimming)' \ S
             \/ \E m \in Message \ (Within(Hour, t, Trimming) \ R) :
                  /\ Undoomed(t, S)' \subseteq Undoomed(t, R) \cup {m}
                  /\ (Within(Hour, t, Trimming) \ R) \cup {m} \subseteq Within(Hour, t, Trimming)' \ S
             \/ Cardinality(Undoomed(t, S)') <= HourlyCap
      PROVE  Cardinality(Undoomed(t, S)') <= HourlyCap + Cardinality(Within(Hour, t, Trimming)' \ S)
  <2>1. Cardinality(Undoomed(t, R)) <= HourlyCap + Cardinality(Within(Hour, t, Trimming) \ R)
    BY DEF StatsLeft
  <2>2. R \in SUBSET Message
    BY DEF Within
  <2> QED  BY <1>1, <1>2, <1>3, <2>1, <2>2, StillBounded
<1>4. CASE /\ logged' = logged /\ stats' \subseteq stats
           /\ \A m \in Message :
                /\ stage'[m] = "trimHour" => stage[m] = "trimHour" /\ doomed'[m] = doomed[m]
                /\ stage[m] \in {"readHour", "trimHour", "aborted"} => stage'[m] \in {"readHour", "trimHour", "aborted"}
  <2>1. S \in SUBSET {m \in Within(Hour, t, Message) : stage[m] = "trimHour"}
    BY <1>4 DEF Within
  <2>2. \A m \in S : doomed'[m] = doomed[m]
    BY <1>4 DEF Within
  <2>3. Undoomed(t, S)' \subseteq Undoomed(t, S)
    BY <1>4, <2>2 DEF Undoomed, Within
  <2>4. Within(Hour, t, Trimming) \ S \subseteq Within(Hour, t, Trimming)' \ S
    BY <1>1, <1>4 DEF Within, Trimming
  <2> QED  BY <1>3, <2>1, <2>3, <2>4
<1>5. ASSUME NEW m \in Message, SaveSigFoxStats(m), ~ProcessEnds
      PROVE  Cardinality(Undoomed(t, S)') <= HourlyCap + Cardinality(Within(Hour, t, Trimming)' \ S)
  <2>1. /\ stage[m] = "logStat" /\ stage' = [stage EXCEPT ![m] = "readHour"] /\ doomed' = doomed
        /\ stats' = stats \cup {m} /\ logged' = logged \cup {m}
    BY <1>5 DEF SaveSigFoxStats, At, Goto, notes
  <2>2. m \notin logged
    BY <2>1 DEF Placed
  <2>3. stage'[m] = "readHour" /\ \A p \in Message \ {m} : stage'[p] = stage[p]
    BY <2>1 DEF TypeOK
  <2>4. S \in SUBSET {p \in Within(Hour, t, Message) : stage[p] = "trimHour"} /\ m \notin S
    BY <2>3 DEF Within
  <2>5. CASE m \in Within(Hour, t, Message)
    <3>1. Undoomed(t, S)' \subseteq Undoomed(t, S) \cup {m}
      BY <2>1 DEF Undoomed, Within
    <3>2. m \notin Within(Hour, t, Trimming) \ S
      BY <2>2 DEF Within, Trimming
    <3>3. (Within(Hour, t, Trimming) \ S) \cup {m} \subseteq Within(Hour, t, Trimming)' \ S
      BY <1>1, <2>1, <2>2, <2>3, <2>4, <2>5 DEF Within, Trimming
    <3> QED  BY <1>3, <2>4, <3>1, <3>2, <3>3
  <2>6. CASE m \notin Within(Hour, t, Message)
    <3>1. Undoomed(t, S)' \subseteq Undoomed(t, S)
      BY <2>1, <2>6 DEF Undoomed, Within
    <3>2. Within(Hour, t, Trimming) \ S \subseteq Within(Hour, t, Trimming)' \ S
      BY <1>1, <2>1, <2>2, <2>3 DEF Within, Trimming
    <3> QED  BY <1>3, <2>4, <3>1, <3>2
  <2> QED  BY <2>5, <2>6
<1>6. ASSUME NEW m \in Message, FindStatsSinceLastHour(m)
      PROVE  Cardinality(Undoomed(t, S)') <= HourlyCap + Cardinality(Within(Hour, t, Trimming)' \ S)
  <2>1. stage[m] = "readHour" /\ stats' = stats /\ logged' = logged
    BY <1>6 DEF FindStatsSinceLastHour, At, rows, history
  <2>2. PICK d \in BeyondNewest(SinceLastHour(m), HourlyCap) :
          /\ doomed' = [doomed EXCEPT ![m] = d]
          /\ stage' = [stage EXCEPT ![m] = IF d = {} THEN "readYear" ELSE "trimHour"]
    BY <1>6 DEF FindStatsSinceLastHour, Goto
  <2>3. /\ SinceLastHour(m) \in SUBSET Message /\ d \subseteq SinceLastHour(m)
        /\ d = {} => Cardinality(SinceLastHour(m)) <= HourlyCap
        /\ d # {} => Cardinality(SinceLastHour(m) \ d) = HourlyCap
    <3>1. SinceLastHour(m) \in SUBSET Message
      BY <1>1 DEF SinceLastHour
    <3> QED  BY <1>1, <3>1, Beyond
  <2>4. /\ \A p \in Message \ {m} : stage'[p] = stage[p] /\ doomed'[p] = doomed[p]
        /\ doomed'[m] = d /\ stage'[m] = IF d = {} THEN "readYear" ELSE "trimHour"
    BY <2>2 DEF TypeOK
  <2>5. S \ {m} \in SUBSET {p \in Within(Hour, t, Message) : stage[p] = "trimHour"}
    BY <2>4 DEF Within
  <2>6. Undoomed(t, S)' \subseteq Undoomed(t, S \ {m})
    BY <2>1, <2>4 DEF Undoomed, Within
  <2>7. CASE m \notin S /\ (d # {} \/ m \notin Within(Hour, t, Message))
    <3>1. Within(Hour, t, Trimming) \ (S \ {m}) \subseteq Within(Hour, t, Trimming)' \ S
      BY <1>1, <2>1, <2>4, <2>7 DEF Within, Trimming
    <3> QED  BY <1>3, <2>5, <2>6, <3>1
  <2>8. ASSUME m \in Within(Hour, t, Message), d = {} \/ m \in S
        PROVE  Cardinality(Undoomed(t, S)') <= HourlyCap
    <3>1. Undoomed(t, S)' \subseteq SinceLastHour(m) \ d
      <4> SUFFICES ASSUME NEW x \in Undoomed(t, S)' PROVE x \in SinceLastHour(m) /\ x \notin d
        OBVIOUS
      <4>1. x \in stats /\ SentTime[x] + Hour > t /\ t >= SentTime[m]
        BY <2>1, <2>8 DEF Undoomed, Within
      <4>2. SentTime[x] + Hour > SentTime[m]
        BY <1>1, <4>1
      <4>3. x \notin d
        BY <2>4, <2>8 DEF Undoomed
      <4> QED  BY <4>1, <4>2, <4>3 DEF SinceLastHour
    <3>2. SinceLastHour(m) \ d \in SUBSET Message /\ Cardinality(SinceLastHour(m) \ d) <= HourlyCap
      <4>1. d = {} => SinceLastHour(m) \ d = SinceLastHour(m)
        OBVIOUS
      <4> QED  BY <1>1, <2>3, <4>1
    <3>3. /\ Cardinality(Undoomed(t, S)') \in Nat /\ Cardinality(SinceLastHour(m) \ d) \in Nat
          /\ Cardinality(Undoomed(t, S)') <= Cardinality(SinceLastHour(m) \ d)
      BY <3>1, <3>2, Sizes
    <3> QED  BY <1>1, <3>2, <3>3
  <2>9. m \in S => m \in Within(Hour, t, Message)
    OBVIOUS
  <2> QED  BY <1>3, <2>5, <2>7, <2>8, <2>9
<1>7. ASSUME NEW m \in Message, DeleteStatsSinceLastHour(m)
      PROVE  Cardinality(Undoomed(t, S)') <= HourlyCap + Cardinality(Within(Hour, t, Trimming)' \ S)
  <2>1. /\ stage[m] = "trimHour" /\ logged' = logged /\ doomed' = doomed /\ stats' = stats \ doomed[m]
        /\ stage'[m] = "readYear" /\ \A p \in Message \ {m} : stage'[p] = stage[p]
    BY <1>7 DEF DeleteStatsSinceLastHour, At, Goto, notes, history, TypeOK
  <2>2. S \in SUBSET {p \in Within(Hour, t, Message) : stage[p] = "trimHour"}
    BY <2>1 DEF Within
  <2>3. CASE m \in Within(Hour, t, Message)
    <3>1. S \cup {m} \in SUBSET {p \in Within(Hour, t, Message) : stage[p] = "trimHour"}
      BY <2>1, <2>2, <2>3
    <3>2. Undoomed(t, S)' \subseteq Undoomed(t, S \cup {m})
      BY <2>1 DEF Undoomed, Within
    <3>3. Within(Hour, t, Trimming) \ (S \cup {m}) \subseteq Within(Hour, t, Trimming)' \ S
      BY <1>1, <2>1 DEF Within, Trimming
    <3> QED  BY <1>3, <3>1, <3>2, <3>3
  <2>4. CASE m \notin Within(Hour, t, Message)
    <3>1. Undoomed(t, S)' \subseteq Undoomed(t, S)
      BY <2>1 DEF Undoomed, Within
    <3>2. Within(Hour, t, Trimming) \ S \subseteq Within(Hour, t, Trimming)' \ S
      BY <1>1, <2>1, <2>4 DEF Within, Trimming
    <3> QED  BY <1>3, <2>2, <3>1, <3>2
  <2> QED  BY <2>3, <2>4
<1> QED  BY <1>4, <1>5, <1>6, <1>7, StatsAlone

(* What there is when no delete is done. *)
LEMMA LeftCapped == TypeOK /\ StatsLeft => StatsCapped
<1> SUFFICES ASSUME TypeOK, StatsLeft, NEW t \in 0..MaxTime
             PROVE  Cardinality(Within(Hour, t, stats)) <= HourlyCap + Cardinality(Trimming)
  BY DEF StatsCapped
<1>1. Cardinality(Undoomed(t, {})) <= HourlyCap + Cardinality(Within(Hour, t, Trimming) \ {})
  BY DEF StatsLeft
<1>2. Undoomed(t, {}) = Within(Hour, t, stats) /\ Within(Hour, t, Trimming) \ {} = Within(Hour, t, Trimming)
  BY DEF Undoomed
<1>3. Within(Hour, t, Trimming) \in SUBSET Trimming /\ Trimming \in SUBSET Message /\ Within(Hour, t, stats) \in SUBSET Message
  BY DEF Within, Trimming, TypeOK
<1>4. /\ Cardinality(Within(Hour, t, Trimming)) <= Cardinality(Trimming)
      /\ Cardinality(Within(Hour, t, Trimming)) \in Nat /\ Cardinality(Trimming) \in Nat
      /\ Cardinality(Within(Hour, t, stats)) \in Nat /\ HourlyCap \in Nat
  BY <1>3, Sizes, PersistenceAssumption
<1> QED  BY <1>1, <1>2, <1>4
-----------------------------------------------------------------------------
(* A time that had too many messages keeps them. *)
LEMMA CrowdedStays ==
    ASSUME TypeOK, TypeOK', logged \subseteq logged', NEW z, Crowded(z)
    PROVE  Crowded(z)'
<1> DEFINE Near(t, rs) == Within(Hour + Lateness + Lasting, t, rs)
<1>1. PICK t \in 0..MaxTime : z \in Near(t, logged) /\ Cardinality(Near(t, logged)) > HourlyCap
  BY DEF Crowded
<1>2. Near(t, logged) \subseteq Near(t, logged') /\ Near(t, logged') \in SUBSET Message
  BY DEF Within, TypeOK
<1>3. /\ Cardinality(Near(t, logged)) <= Cardinality(Near(t, logged'))
      /\ Cardinality(Near(t, logged)) \in Nat /\ Cardinality(Near(t, logged')) \in Nat /\ HourlyCap \in Nat
  BY <1>2, Sizes, PersistenceAssumption
<1>4. z \in Near(t, logged') /\ Cardinality(Near(t, logged')) > HourlyCap
  BY <1>1, <1>2, <1>3
<1> QED  BY <1>4 DEF Crowded

(* What a handler finds beyond the newest was sent, with those newest, in  *)
(* the hour before its message and the time until its query.               *)
LEMMA FoundCrowded ==
    ASSUME TypeOK, Placed, InTime, NEW m \in Message, stage[m] = "readHour",
           NEW d \in BeyondNewest(SinceLastHour(m), HourlyCap), NEW z \in d
    PROVE  Crowded(z)
<1> DEFINE near == Within(Hour + Lateness + Lasting, now, logged)
           newest == SinceLastHour(m) \ d
<1>1. /\ HourlyCap \in Nat /\ Hour \in Nat /\ Lateness \in Nat /\ Lasting \in Nat /\ now \in Nat
      /\ \A y \in Message : SentTime[y] \in Nat /\ arrived[y] \in Nat
      /\ SinceLastHour(m) \in SUBSET Message /\ stats \subseteq logged
  BY PersistenceAssumption DEF Placed, TypeOK, SinceLastHour
<1>2. d \subseteq SinceLastHour(m) /\ Cardinality(newest) = HourlyCap
  BY <1>1, Beyond
<1>3. SinceLastHour(m) \subseteq near
  <2> SUFFICES ASSUME NEW x \in SinceLastHour(m) PROVE x \in near
    OBVIOUS
  <2>1. x \in logged /\ x \in Message /\ SentTime[x] + Hour > SentTime[m]
    BY <1>1 DEF SinceLastHour
  <2>2. now <= arrived[m] + Lasting /\ arrived[m] <= SentTime[m] + Lateness
    BY DEF InTime, Active
  <2>3. SentTime[x] + (Hour + Lateness + Lasting) > now
    BY <1>1, <2>1, <2>2
  <2>4. SentTime[x] <= now
    <3>1. stage[x] # "new"
      BY <2>1 DEF Placed
    <3>2. SentTime[x] <= arrived[x] /\ arrived[x] <= now
      BY <2>1, <3>1 DEF InTime
    <3> QED  BY <1>1, <2>1, <3>2
  <2> QED  BY <2>1, <2>3, <2>4 DEF Within
<1>4. near \in SUBSET Message /\ newest \in SUBSET Message /\ z \in Message \ newest
  BY <1>1, <1>2 DEF Within, TypeOK
<1>5. newest \cup {z} \in SUBSET near
  BY <1>2, <1>3
<1> HIDE DEF near, newest
<1>6. Cardinality(newest \cup {z}) = HourlyCap + 1
  BY <1>2, <1>4, Sizes
<1>7. Cardinality(near) \in Nat /\ HourlyCap + 1 <= Cardinality(near)
  BY <1>4, <1>5, <1>6, Sizes
<1>8. z \in near /\ Cardinality(near) > HourlyCap
  BY <1>1, <1>5, <1>7
<1> QED  BY <1>8 DEF near, Crowded, TypeOK

(* A handler dooms only rows of a crowded time. *)
LEMMA StepDoomed == TypeOK /\ Placed /\ InTime /\ DoomedCrowded /\ Next /\ TypeOK' => DoomedCrowded'
<1> SUFFICES ASSUME TypeOK, Placed, InTime, DoomedCrowded, Next, TypeOK',
                    NEW m \in Message, stage'[m] = "trimHour", NEW z \in doomed'[m]
             PROVE  Crowded(z)'
  BY DEF DoomedCrowded
<1>1. ASSUME logged \subseteq logged', stage[m] = "trimHour", doomed'[m] = doomed[m] PROVE Crowded(z)'
  <2>1. Crowded(z)
    BY <1>1 DEF DoomedCrowded
  <2> QED  BY <1>1, <2>1, CrowdedStays
<1>2. ASSUME NEW p \in Message, SaveSigFoxStats(p), ~ProcessEnds PROVE Crowded(z)'
  BY <1>1, <1>2 DEF SaveSigFoxStats, At, Goto, notes, TypeOK
<1>3. ASSUME NEW p \in Message, FindStatsSinceLastHour(p) PROVE Crowded(z)'
  <2>1. stage[p] = "readHour" /\ logged' = logged
    BY <1>3 DEF FindStatsSinceLastHour, At, history
  <2>2. PICK d \in BeyondNewest(SinceLastHour(p), HourlyCap) :
          /\ doomed' = [doomed EXCEPT ![p] = d]
          /\ Goto(p, IF d = {} THEN "readYear" ELSE "trimHour")
    BY <1>3 DEF FindStatsSinceLastHour
  <2>3. CASE m # p
    BY <1>1, <2>1, <2>2, <2>3 DEF Goto, TypeOK
  <2>4. CASE m = p
    <3>1. z \in d
      BY <2>2, <2>4 DEF TypeOK
    <3>2. Crowded(z)
      BY <2>1, <2>2, <3>1, FoundCrowded
    <3> QED  BY <2>1, <3>2, CrowdedStays
  <2> QED  BY <2>3, <2>4
<1>4. ASSUME NEW p \in Message, DeleteStatsSinceLastHour(p) PROVE Crowded(z)'
  BY <1>1, <1>4 DEF DeleteStatsSinceLastHour, At, Goto, notes, history, TypeOK
<1> QED  BY <1>1, <1>2, <1>3, <1>4, StatsAlone

(* Nothing else is deleted, but for its age or with the device. *)
LEMMA StepKeptWhenQuiet == TypeOK /\ DoomedCrowded /\ KeptWhenQuiet /\ Next /\ TypeOK' => KeptWhenQuiet'
<1> SUFFICES ASSUME TypeOK, DoomedCrowded, KeptWhenQuiet, Next, TypeOK', exists',
                    NEW z \in (logged' \ stats') \ expired'
             PROVE  Crowded(z)'
  BY DEF KeptWhenQuiet, Crowded
<1>1. ASSUME exists, logged \subseteq logged', z \in (logged \ stats) \ expired PROVE Crowded(z)'
  <2>1. Crowded(z)
    BY <1>1 DEF KeptWhenQuiet, Crowded
  <2> QED  BY <1>1, <2>1, CrowdedStays
<1>2. ASSUME NEW m \in Message, SaveSigFoxStats(m), ~ProcessEnds PROVE Crowded(z)'
  BY <1>1, <1>2 DEF SaveSigFoxStats
<1>3. ASSUME NEW m \in Message, FindStatsSinceLastHour(m) PROVE Crowded(z)'
  BY <1>1, <1>3 DEF FindStatsSinceLastHour, rows, history
<1>4. ASSUME NEW m \in Message, DeleteStatsSinceLastHour(m) PROVE Crowded(z)'
  <2>1. /\ exists /\ logged' = logged /\ expired' = expired /\ stage[m] = "trimHour"
        /\ stats' = stats \ doomed[m]
    BY <1>4 DEF DeleteStatsSinceLastHour, At, history
  <2>2. CASE z \in doomed[m]
    <3>1. Crowded(z)
      BY <2>1, <2>2 DEF DoomedCrowded
    <3> QED  BY <2>1, <3>1, CrowdedStays
  <2>3. CASE z \notin doomed[m]
    BY <1>1, <2>1, <2>3
  <2> QED  BY <2>2, <2>3
<1> QED  BY <1>1, <1>2, <1>3, <1>4, StatsAlone
-----------------------------------------------------------------------------
(* Every step keeps all of it. *)
LEMMA PersistStep == PersistInv /\ [Next]_vars => PersistInv'
<1> SUFFICES ASSUME PersistInv, [Next]_vars PROVE PersistInv'
  OBVIOUS
<1>1. CASE Next
  <2>1. TypeOK'
    BY <1>1, Typed DEF PersistInv
  <2> QED
    BY <1>1, <2>1, StepPlaced, StepInTime, StepEnough, StepNewest, StepMetadataLeft, StepStatsLeft,
       StepDoomed, StepKeptWhenQuiet DEF PersistInv
<1>2. CASE UNCHANGED vars
  <2> USE <1>2 DEF vars, rows, notes, history
  <2>1. TypeOK' /\ Placed' /\ InTime' /\ EnoughNewer'
    BY DEF PersistInv, TypeOK, Placed, InTime, EnoughNewer
  <2>2. NewestKept' /\ KeptWhenQuiet' /\ DoomedCrowded'
    BY DEF PersistInv, NewestKept, AtLeastAsNew, KeptWhenQuiet, DoomedCrowded, Crowded, Within
  <2>3. MetadataLeft'
    BY DEF PersistInv, MetadataLeft, Surviving, Cleaning
  <2>4. StatsLeft'
    BY DEF PersistInv, StatsLeft, Undoomed, Within, Trimming
  <2> QED  BY <2>1, <2>2, <2>3, <2>4 DEF PersistInv
<1> QED  BY <1>1, <1>2

(* What the theorems follow from. *)
LEMMA PersistAlways == Spec => []PersistInv
  BY PersistInit, PersistStep, PTL DEF Spec

(* Every variable has its type. *)
THEOREM RowsTyped == Spec => []TypeOK
<1>1. PersistInv => TypeOK
  BY DEF PersistInv
<1> QED  BY <1>1, PersistAlways, PTL

(* Metadata is deleted only when METADATA_SAVED_COUNT other messages, no   *)
(* older, were stored, for any number of handlers, messages and times.     *)
THEOREM NewestAlwaysKept == Spec => []NewestKept
<1>1. PersistInv => NewestKept
  BY DEF PersistInv
<1> QED  BY <1>1, PersistAlways, PTL

(* There are never more metadata rows than to keep and one per unfinished  *)
(* clean-up, those the process took down with it included.                 *)
THEOREM MetadataAlwaysBounded == Spec => []MetadataBounded
<1>1. PersistInv => MetadataBounded
  BY LeftBounded DEF PersistInv
<1> QED  BY <1>1, PersistAlways, PTL

(* No hour has more statistics rows than the limit, but for one per        *)
(* unfinished clean-up.                                                    *)
THEOREM StatsAlwaysCapped == Spec => []StatsCapped
<1>1. PersistInv => StatsCapped
  BY LeftCapped DEF PersistInv
<1> QED  BY <1>1, PersistAlways, PTL

(* Whatever the handlers do at the same time, statistics younger than a    *)
(* year are deleted only where too many messages were sent within an hour  *)
(* and the time that a message and its handler can take.                   *)
THEOREM AlwaysKeptWhenQuiet == Spec => []KeptWhenQuiet
<1>1. PersistInv => KeptWhenQuiet
  BY DEF PersistInv
<1> QED  BY <1>1, PersistAlways, PTL
=============================================================================
