-------------------------- MODULE MqttClientsProofs --------------------------
(***************************************************************************)
(* Proofs about MqttClients for any devices, broker settings and number of *)
(* clients: type correctness, and what clientDictionary holds.             *)
(***************************************************************************)
EXTENDS MqttClients, TLAPS

USE DEF dbVars, requests, saves, slotVars, history

(* An object whose settings are known is behind every slot in use and every *)
(* save in progress; every row and every request is of an id given out.    *)
SlotsInv ==
    /\ \A c \in Slot : conn[c] # "unused" => dev[c] \in ids /\ obj[c] \in Row
    /\ \A c \in Slot : mark[c] # "no" \/ edit[c] # "no" => conn[c] # "unused"
    /\ \A c \in Slot : mark[c] = "write" => markDiff[c].new \in Row
    /\ \A c \in Slot : edit[c] = "write" => editDiff[c].new \in Row
    /\ \A d \in Device : row[d] # NoRow => d \in ids
    /\ \A p \in creating \cup editing : p[1] \in ids

ConnState == {"unused", "none", "live", "ending", "ended"}
Entries == [Device -> Slot \cup {NoSlot}]

(* The slot a request takes is one nobody uses. *)
LEMMA NextSlotUnused ==
    ASSUME Unused # {} PROVE NextSlot \in Slot /\ conn[NextSlot] = "unused"
  BY DEF Unused, NextSlot

(* The initial state is well typed. *)
LEMMA InitTypeOK == Init => TypeOK /\ SlotsInv
  BY MqttAssumption DEF Init, TypeOK, SlotsInv, Diff, NoDiff

(* What the operators on clients and rows return. *)
LEMMA RemoveTyped ==
    ASSUME TypeOK, NEW d
    PROVE  /\ ConnAfterRemove(d) \in [Slot -> ConnState]
           /\ DictionaryAfterRemove(d) \in Entries
           /\ \A c \in Slot : conn[c] = "unused" <=> ConnAfterRemove(d)[c] = "unused"
  BY DEF ConnAfterRemove, DictionaryAfterRemove, TypeOK, ConnState, Entries

(* Only the entry of the device can be cleared. *)
LEMMA RemoveEntries ==
    ASSUME TypeOK, NEW d \in Device
    PROVE  \A e \in Device : \/ DictionaryAfterRemove(d)[e] = clientDictionary[e]
                             \/ DictionaryAfterRemove(d)[e] = NoSlot /\ e = d
<1>1. DictionaryAfterRemove(d)
        \in {clientDictionary, [clientDictionary EXCEPT ![d] = NoSlot]}
  BY DEF DictionaryAfterRemove
<1> QED
  BY <1>1 DEF TypeOK

(* createMQTTClients keeps the types and fills the slot it takes. *)
LEMMA MakeClientTyped ==
    ASSUME TypeOK, NEW c \in Slot, NEW d \in Device, NEW o \in Row,
           NEW dictionary \in Entries, NEW conns \in [Slot -> ConnState],
           MakeClient(c, d, o, dictionary, conns)
    PROVE  /\ dev' \in [Slot -> Device \cup {NoDevice}]
           /\ obj' \in [Slot -> Row \cup {NoRow}]
           /\ conn' \in [Slot -> ConnState]
           /\ mark' \in [Slot -> {"no", "select", "write", "remove"}]
           /\ clientDictionary' \in Entries
           /\ markDiff' = markDiff
           /\ dev' = [dev EXCEPT ![c] = d] /\ obj' = [obj EXCEPT ![c] = o]
           /\ \A b \in Slot \ {c} : conn'[b] = conns[b] /\ mark'[b] = mark[b]
           /\ conn'[c] \in {"none", "live"} /\ mark'[c] \in {mark[c], "select"}
  BY DEF MakeClient, TypeOK, ConnState, Entries

(* The end of the process keeps the types. *)
LEMMA ProcessEndsTypeOK ==
    ASSUME TypeOK, SlotsInv, ProcessEnds, crashes' \in 0..MaxCrashes
    PROVE  TypeOK' /\ SlotsInv'
<1>1. NoDiff \in Diff
  BY DEF NoDiff, Diff
<1> QED
  BY <1>1 DEF ProcessEnds, TypeOK, SlotsInv

(* So does a death from outside. *)
LEMMA CrashTypeOK ==
    ASSUME TypeOK, SlotsInv, Crash PROVE TypeOK' /\ SlotsInv'
  BY ProcessEndsTypeOK, MqttAssumption DEF Crash, TypeOK

(* What booting does to a slot: it is given to a device that has a row, and *)
(* is its registered client if the settings have a topic, or is left alone. *)
LEMMA BootSlots ==
    ASSUME TypeOK, Boot
    PROVE  /\ TypeOK'
           /\ \A c \in Slot :
                \/ /\ conn[c] = "unused" /\ conn'[c] \in {"none", "live"}
                   /\ dev'[c] \in Device /\ row[dev'[c]] # NoRow /\ obj'[c] \in Row
                   /\ conn'[c] = "live" => clientDictionary'[dev'[c]] = c
                   /\ mark'[c] \in {mark[c], "select"}
                   /\ ~row[dev'[c]].invalid /\ (mark'[c] # mark[c] => obj'[c].invalid)
                \/ /\ dev'[c] = dev[c] /\ obj'[c] = obj[c]
                   /\ conn'[c] = conn[c] /\ mark'[c] = mark[c]
           /\ \A d \in Device :
                clientDictionary'[d] # NoSlot => /\ dev'[clientDictionary'[d]] = d
                                                 /\ conn'[clientDictionary'[d]] = "live"
<1> DEFINE valid == {d \in Device : row[d] # NoRow /\ ~row[d].invalid}
<1>1. PICK f \in [valid -> Unused] :
         /\ \A a, b \in valid : a # b => f[a] # f[b]
         /\ LET made == {f[d] : d \in valid}
                of(c) == CHOOSE d \in valid : f[d] = c
                noTopic(d) == row[d].cfg \in NoTopic
            IN /\ dev' = [c \in Slot |-> IF c \in made THEN of(c) ELSE dev[c]]
               /\ obj' = [c \in Slot |->
                     IF c \in made THEN [row[of(c)] EXCEPT !.invalid = noTopic(of(c))]
                                   ELSE obj[c]]
               /\ conn' = [c \in Slot |->
                     IF c \in made THEN IF noTopic(of(c)) THEN "none" ELSE "live"
                                   ELSE conn[c]]
               /\ mark' = [c \in Slot |->
                     IF c \in made /\ noTopic(of(c)) THEN "select" ELSE mark[c]]
         /\ clientDictionary' = [d \in Device |->
                IF d \in valid /\ row[d].cfg \notin NoTopic THEN f[d] ELSE NoSlot]
  BY DEF Boot
<1> DEFINE made == {f[d] : d \in valid}
           of(c) == CHOOSE d \in valid : f[d] = c
           noTopic(d) == row[d].cfg \in NoTopic
<1>2. \A c \in made : of(c) \in valid
  OBVIOUS
<1>3. \A d \in valid : row[d] \in Row
  BY DEF TypeOK
<1>4. dev' \in [Slot -> Device \cup {NoDevice}]
  BY <1>1, <1>2 DEF TypeOK
<1>5. /\ obj' \in [Slot -> Row \cup {NoRow}]
       /\ \A c \in made : c \in Slot => obj'[c] \in Row
  <2>1. \A r \in Row, b \in BOOLEAN : [r EXCEPT !.invalid = b] \in Row
    BY DEF Row
  <2>2. \A d : noTopic(d) \in BOOLEAN
    OBVIOUS
  <2>3. \A c \in made : row[of(c)] \in Row
    BY <1>2, <1>3
  <2>4. \A c \in made : [row[of(c)] EXCEPT !.invalid = noTopic(of(c))] \in Row
    <3> HIDE DEF made, of, noTopic
    <3> QED
      BY <2>1, <2>2, <2>3
  <2>5. obj' = [c \in Slot |-> IF c \in made
                               THEN [row[of(c)] EXCEPT !.invalid = noTopic(of(c))]
                               ELSE obj[c]]
    BY <1>1
  <2>6. obj \in [Slot -> Row \cup {NoRow}]
    BY DEF TypeOK
  <2> HIDE DEF made, of, noTopic
  <2> QED
    BY <2>4, <2>5, <2>6
<1>6. conn' \in [Slot -> {"unused", "none", "live", "ending", "ended"}]
  BY <1>1 DEF TypeOK
<1>7. mark' \in [Slot -> {"no", "select", "write", "remove"}]
  BY <1>1 DEF TypeOK
<1>8. clientDictionary' \in [Device -> Slot \cup {NoSlot}]
  BY <1>1 DEF Unused
<1>9. TypeOK'
  BY <1>4, <1>5, <1>6, <1>7, <1>8 DEF Boot, TypeOK
<1>10. \A d \in valid : f[d] \in made /\ of(f[d]) = d /\ f[d] \in Slot
  <2>1. \A d \in valid : f[d] \in made
    OBVIOUS
  <2>2. \A d \in valid : of(f[d]) \in valid /\ f[of(f[d])] = f[d]
    OBVIOUS
  <2> QED
    BY <1>1, <2>1, <2>2 DEF Unused
<1>11. \A c \in made : of(c) \in valid /\ f[of(c)] = c /\ conn[c] = "unused" /\ c \in Slot
  BY DEF Unused
<1>12. ASSUME NEW c \in Slot, c \in made
       PROVE  /\ conn[c] = "unused" /\ conn'[c] \in {"none", "live"}
              /\ dev'[c] \in Device /\ row[dev'[c]] # NoRow /\ obj'[c] \in Row
              /\ conn'[c] = "live" => clientDictionary'[dev'[c]] = c
              /\ mark'[c] \in {mark[c], "select"}
              /\ ~row[dev'[c]].invalid /\ (mark'[c] # mark[c] => obj'[c].invalid)
  <2>1. dev'[c] = of(c)
    BY <1>1, <1>12
  <2>2. conn'[c] \in {"none", "live"} /\ (conn'[c] = "live" => row[of(c)].cfg \notin NoTopic)
    BY <1>1, <1>12
  <2>3. mark'[c] \in {mark[c], "select"}
    BY <1>1, <1>12
  <2>4. clientDictionary'[of(c)] = IF row[of(c)].cfg \notin NoTopic THEN f[of(c)] ELSE NoSlot
    BY <1>1, <1>11, <1>12
  <2>5. obj'[c] \in Row
    BY <1>1, <1>12, <1>5
  <2>6. mark'[c] # mark[c] => obj'[c].invalid
    <3>1. row[of(c)] \in Row
      BY <1>2, <1>3, <1>12
    <3>2. obj'[c] = [row[of(c)] EXCEPT !.invalid = noTopic(of(c))] /\ (mark'[c] # mark[c] => noTopic(of(c)))
      BY <1>1, <1>12
    <3> HIDE DEF of, noTopic
    <3> QED  BY <3>1, <3>2 DEF Row
  <2> QED
    BY <1>11, <1>12, <2>1, <2>2, <2>3, <2>4, <2>5, <2>6
<1>13. \A c \in Slot \ made :
          dev'[c] = dev[c] /\ obj'[c] = obj[c] /\ conn'[c] = conn[c] /\ mark'[c] = mark[c]
  BY <1>1
<1>14. ASSUME NEW d \in Device, clientDictionary'[d] # NoSlot
       PROVE  dev'[clientDictionary'[d]] = d /\ conn'[clientDictionary'[d]] = "live"
  <2>1. d \in valid /\ row[d].cfg \notin NoTopic /\ clientDictionary'[d] = f[d]
    BY <1>1, <1>14
  <2>2. f[d] \in made /\ of(f[d]) = d /\ f[d] \in Slot
    BY <1>10, <2>1
  <2>3. dev'[f[d]] = of(f[d])
    BY <1>1, <2>2
  <2>4. conn'[f[d]] = IF noTopic(of(f[d])) THEN "none" ELSE "live"
    BY <1>1, <2>2
  <2> QED
    BY <2>1, <2>2, <2>3, <2>4
<1> QED
  BY <1>9, <1>12, <1>13, <1>14

(* A start of the process keeps the types. *)
LEMMA BootTypeOK ==
    ASSUME TypeOK, SlotsInv, Boot PROVE TypeOK' /\ SlotsInv'
<1>1. UNCHANGED <<dbVars, requests, markDiff, edit, editDiff>> /\ TypeOK'
  BY BootSlots DEF Boot
<1>2. ASSUME NEW c \in Slot
      PROVE  /\ conn'[c] # "unused" => dev'[c] \in ids /\ obj'[c] \in Row
             /\ mark'[c] # "no" \/ edit[c] # "no" => conn'[c] # "unused"
             /\ mark'[c] = "write" => markDiff[c].new \in Row
  BY BootSlots DEF SlotsInv
<1> QED
  BY <1>1, <1>2 DEF SlotsInv

(* Creating, reading and mapping devices. *)
LEMMA CreateSaveTypeOK ==
    ASSUME TypeOK, SlotsInv, NEW d \in Device, NEW cfg \in Config, CreateSave(d, cfg)
    PROVE  TypeOK' /\ SlotsInv'
<1>1. [cfg |-> cfg, invalid |-> FALSE] \in Row
  BY DEF Row
<1>2. row' \in [Device -> Row \cup {NoRow}]
  BY <1>1 DEF CreateSave, TypeOK
<1>3. TypeOK'
  BY <1>2 DEF CreateSave, TypeOK
<1> QED
  BY <1>3 DEF CreateSave, SlotsInv, TypeOK

(* The second half of a creation keeps the types. *)
LEMMA CreateClientTypeOK ==
    ASSUME TypeOK, SlotsInv, NEW d \in Device, NEW cfg \in Config, CreateClient(d, cfg)
    PROVE  TypeOK' /\ SlotsInv'
<1> DEFINE c == NextSlot
           o == [cfg |-> cfg, invalid |-> cfg \in NoTopic]
<1>1. c \in Slot /\ conn[c] = "unused" /\ o \in Row
  BY NextSlotUnused DEF CreateClient, Row
<1>2. MakeClient(c, d, o, clientDictionary, conn)
  BY DEF CreateClient
<1>3. clientDictionary \in Entries /\ conn \in [Slot -> ConnState]
  BY DEF TypeOK, Entries, ConnState
<1>4. /\ dev' \in [Slot -> Device \cup {NoDevice}] /\ obj' \in [Slot -> Row \cup {NoRow}]
      /\ conn' \in [Slot -> ConnState] /\ clientDictionary' \in Entries
      /\ mark' \in [Slot -> {"no", "select", "write", "remove"}]
      /\ markDiff' = markDiff
      /\ dev' = [dev EXCEPT ![c] = d] /\ obj' = [obj EXCEPT ![c] = o]
      /\ \A b \in Slot \ {c} : conn'[b] = conn[b] /\ mark'[b] = mark[b]
      /\ conn'[c] \in {"none", "live"} /\ mark'[c] \in {mark[c], "select"}
  <2> HIDE DEF c, o
  <2> QED
    BY <1>1, <1>2, <1>3, MakeClientTyped
<1>5. TypeOK'
  BY <1>4 DEF CreateClient, TypeOK, Entries, ConnState
<1> HIDE DEF c, o
<1>6. d \in ids /\ UNCHANGED <<ids, row, edit, editDiff, editing>> /\ creating' \subseteq creating
  BY DEF CreateClient, SlotsInv
<1> QED
  BY <1>1, <1>4, <1>5, <1>6 DEF SlotsInv, TypeOK

(* The reading half of an update keeps the types. *)
LEMMA UpdateReadTypeOK ==
    ASSUME TypeOK, SlotsInv, NEW d \in Device, NEW cfg \in Config, UpdateRead(d, cfg)
    PROVE  TypeOK' /\ SlotsInv'
  BY DEF UpdateRead, TypeOK, SlotsInv

(* mapMQTTExternalBrokerDevice keeps the types. *)
LEMMA UpdateMapTypeOK ==
    ASSUME TypeOK, SlotsInv, NEW d \in Device, NEW cfg \in Config, UpdateMap(d, cfg)
    PROVE  TypeOK' /\ SlotsInv'
<1> DEFINE c == NextSlot
           o == [cfg |-> cfg, invalid |-> FALSE]
           cs == ConnAfterRemove(d)
           ds == DictionaryAfterRemove(d)
<1>1. c \in Slot /\ conn[c] = "unused" /\ o \in Row
  BY NextSlotUnused DEF UpdateMap, Row
<1>2. MakeClient(c, d, o, ds, cs)
  BY DEF UpdateMap
<1>3. ds \in Entries /\ cs \in [Slot -> ConnState]
      /\ \A b \in Slot : conn[b] = "unused" <=> cs[b] = "unused"
  BY RemoveTyped
<1>4. /\ dev' \in [Slot -> Device \cup {NoDevice}] /\ obj' \in [Slot -> Row \cup {NoRow}]
      /\ conn' \in [Slot -> ConnState] /\ clientDictionary' \in Entries
      /\ mark' \in [Slot -> {"no", "select", "write", "remove"}]
      /\ markDiff' = markDiff
      /\ dev' = [dev EXCEPT ![c] = d] /\ obj' = [obj EXCEPT ![c] = o]
      /\ \A b \in Slot \ {c} : conn'[b] = cs[b] /\ mark'[b] = mark[b]
      /\ conn'[c] \in {"none", "live"} /\ mark'[c] \in {mark[c], "select"}
  <2> HIDE DEF c, o, cs, ds
  <2> QED
    BY <1>1, <1>2, <1>3, MakeClientTyped
<1>5. edit' = [edit EXCEPT ![c] = "select"]
  BY DEF UpdateMap
<1>6. TypeOK'
  BY <1>4, <1>5 DEF UpdateMap, TypeOK, Entries, ConnState
<1> HIDE DEF c, o, cs, ds
<1>7. d \in ids /\ UNCHANGED <<ids, row, editDiff, creating>> /\ editing' \subseteq editing
  BY DEF UpdateMap, SlotsInv
<1> QED
  BY <1>1, <1>3, <1>4, <1>5, <1>6, <1>7 DEF SlotsInv, TypeOK

(* Deleting a device. *)
LEMMA DeleteTypeOK ==
    ASSUME TypeOK, SlotsInv, NEW d \in Device, DeleteRow(d) \/ DeleteCommit(d) \/ DeleteRollback(d)
    PROVE  TypeOK' /\ SlotsInv'
<1>1. CASE DeleteRow(d)
  <2>1. TypeOK'
    BY <1>1, RemoveTyped DEF DeleteRow, TypeOK, ConnState, Entries
  <2> QED
    BY <1>1, <2>1, RemoveTyped DEF DeleteRow, SlotsInv
<1>2. CASE DeleteCommit(d)
  BY <1>2 DEF DeleteCommit, TypeOK, SlotsInv
<1>3. CASE DeleteRollback(d)
  BY <1>3 DEF DeleteRollback, TypeOK, SlotsInv
<1> QED  BY <1>1, <1>2, <1>3

(* What a save writes is a row. *)
LEMMA SavedTyped ==
    ASSUME TypeOK, NEW d \in Device, NEW diff \in Diff, diff.new \in Row
    PROVE  Saved(d, diff) \in Row \cup {NoRow}
<1>1. diff.seen \in Row \cup {NoRow} /\ row[d] \in Row \cup {NoRow}
  BY DEF Diff, TypeOK
<1> QED
  BY <1>1 DEF Saved, Row

(* What a save has selected and wants to write is a row, or none. *)
LEMMA DiffTyped ==
    ASSUME TypeOK, NEW c \in Slot, dev[c] \in Device, obj[c] \in Row
    PROVE  DiffOf(c) \in Diff /\ DiffOf(c).new \in Row
  BY DEF DiffOf, Diff, TypeOK

(* The end of a client, and the saves it and an update start. *)
LEMMA ContinueTypeOK ==
    ASSUME TypeOK, SlotsInv, NEW c \in Slot, Continue(c)
    PROVE  TypeOK' /\ SlotsInv'
<1>1. CASE Ended(c)
  <2>1. dev[c] \in ids /\ obj[c] \in Row
    BY <1>1 DEF Ended, SlotsInv
  <2>2. [obj[c] EXCEPT !.invalid = TRUE] \in Row
    BY <2>1 DEF Row
  <2>3. obj' \in [Slot -> Row \cup {NoRow}] /\ obj'[c] \in Row
        /\ \A b \in Slot \ {c} : obj'[b] = obj[b]
    BY <1>1, <2>2 DEF Ended, TypeOK
  <2>4. TypeOK'
    BY <1>1, <2>3 DEF Ended, TypeOK
  <2>5. /\ \A b \in Slot : conn'[b] # "unused" <=> conn[b] # "unused"
        /\ conn[c] # "unused"
        /\ \A b \in Slot \ {c} : mark'[b] = mark[b]
        /\ mark'[c] = "select"
        /\ UNCHANGED <<dev, ids, edit, markDiff, editDiff, row, creating, editing>>
    BY <1>1 DEF Ended, TypeOK
  <2>6. \A b \in Slot : conn'[b] # "unused" => dev'[b] \in ids' /\ obj'[b] \in Row
    BY <2>1, <2>3, <2>5 DEF SlotsInv
  <2>7. \A b \in Slot : mark'[b] # "no" \/ edit'[b] # "no" => conn'[b] # "unused"
    BY <2>5 DEF SlotsInv
  <2>8. \A b \in Slot : mark'[b] = "write" => markDiff'[b].new \in Row
    BY <2>5 DEF SlotsInv
  <2> QED
    BY <2>4, <2>5, <2>6, <2>7, <2>8 DEF SlotsInv
<1>2. CASE MarkSelect(c)
  <2>1. DiffOf(c) \in Diff /\ DiffOf(c).new \in Row
    BY <1>2, DiffTyped DEF MarkSelect, SlotsInv, TypeOK
  <2> QED
    BY <1>2, <2>1 DEF MarkSelect, SlotsInv, TypeOK
<1>3. CASE MarkWrite(c)
  <2>1. crashes' \in 0..MaxCrashes
    BY <1>3 DEF MarkWrite, TypeOK
  <2>2. CASE ProcessEnds
    BY <2>1, <2>2, ProcessEndsTypeOK
  <2>3. CASE ~ProcessEnds
    <3>1. dev[c] \in Device /\ dev[c] \in ids /\ markDiff[c] \in Diff /\ markDiff[c].new \in Row
      BY <1>3 DEF MarkWrite, SlotsInv, TypeOK
    <3>2. Saved(dev[c], markDiff[c]) \in Row \cup {NoRow}
      BY <3>1, SavedTyped
    <3>3. NoDiff \in Diff
      BY DEF NoDiff, Diff
    <3>4. /\ row' = [row EXCEPT ![dev[c]] = Saved(dev[c], markDiff[c])]
          /\ mark' = [mark EXCEPT ![c] = IF conn[c] = "ended" THEN "remove" ELSE "no"]
          /\ markDiff' = [markDiff EXCEPT ![c] = NoDiff]
          /\ UNCHANGED <<up, deleting, ids, clientDictionary, requests, dev, obj, conn,
                         edit, editDiff, history, crashes>>
          /\ mark[c] = "write"
      BY <1>3, <2>3 DEF MarkWrite
    <3>5. row' \in [Device -> Row \cup {NoRow}]
      BY <3>2, <3>4 DEF TypeOK
    <3>6. mark' \in [Slot -> {"no", "select", "write", "remove"}] /\ markDiff' \in [Slot -> Diff]
      BY <3>3, <3>4 DEF TypeOK
    <3>7. TypeOK'
      BY <3>4, <3>5, <3>6 DEF TypeOK
    <3>8. \A b \in Slot : mark'[b] # "no" \/ edit'[b] # "no" => conn'[b] # "unused"
      BY <3>4 DEF SlotsInv, TypeOK
    <3>9. \A b \in Slot : mark'[b] = "write" => markDiff'[b].new \in Row
      BY <3>4 DEF SlotsInv, TypeOK
    <3>10. \A d \in Device : row'[d] # NoRow => d \in ids'
      BY <3>1, <3>4 DEF SlotsInv, TypeOK
    <3> QED
      BY <3>4, <3>7, <3>8, <3>9, <3>10 DEF SlotsInv
  <2> QED  BY <2>2, <2>3
<1>4. CASE MarkRemove(c)
  <2>1. TypeOK'
    BY <1>4, RemoveTyped DEF MarkRemove, TypeOK, ConnState, Entries
  <2> QED
    BY <1>4, <2>1, RemoveTyped DEF MarkRemove, SlotsInv, TypeOK
<1>5. CASE EditSelect(c)
  <2>1. DiffOf(c) \in Diff /\ DiffOf(c).new \in Row
    BY <1>5, DiffTyped DEF EditSelect, SlotsInv, TypeOK
  <2> QED
    BY <1>5, <2>1 DEF EditSelect, SlotsInv, TypeOK
<1>6. CASE EditWrite(c)
  <2>1. dev[c] \in Device /\ dev[c] \in ids /\ editDiff[c] \in Diff /\ editDiff[c].new \in Row
    BY <1>6 DEF EditWrite, SlotsInv, TypeOK
  <2>2. Saved(dev[c], editDiff[c]) \in Row \cup {NoRow}
    BY <2>1, SavedTyped
  <2>3. NoDiff \in Diff
    BY DEF NoDiff, Diff
  <2>4. TypeOK'
    BY <1>6, <2>2, <2>3 DEF EditWrite, TypeOK
  <2> QED
    BY <1>6, <2>1, <2>4 DEF EditWrite, SlotsInv, TypeOK
<1> QED  BY <1>1, <1>2, <1>3, <1>4, <1>5, <1>6 DEF Continue

(* Every step keeps the types and the slots in order. *)
LEMMA NextTypeOK ==
    ASSUME TypeOK, SlotsInv, Next
    PROVE  TypeOK' /\ SlotsInv'
<1>1. CASE Crash \/ Boot
  BY <1>1, CrashTypeOK, BootTypeOK
<1>2. CASE Request
  BY <1>2, CreateSaveTypeOK, UpdateReadTypeOK, CreateClientTypeOK, UpdateMapTypeOK,
     DeleteTypeOK DEF Request
<1>3. CASE \E c \in Slot : Continue(c)
  BY <1>3, ContinueTypeOK
<1> QED  BY <1>1, <1>2, <1>3 DEF Next

(* Types and slots, in every reachable state. *)
LEMMA SlotsInvariant == Spec => [](TypeOK /\ SlotsInv)
<1>1. TypeOK /\ SlotsInv /\ [Next]_vars => TypeOK' /\ SlotsInv'
  <2> SUFFICES ASSUME TypeOK, SlotsInv, [Next]_vars PROVE TypeOK' /\ SlotsInv'
    OBVIOUS
  <2>1. CASE UNCHANGED vars
    BY <2>1 DEF vars, TypeOK, SlotsInv
  <2> QED  BY <2>1, NextTypeOK
<1> QED  BY InitTypeOK, <1>1, PTL DEF Spec

(* Type correctness of the MQTT clients. *)
THEOREM TypeCorrect == Spec => []TypeOK
  BY SlotsInvariant, PTL
-----------------------------------------------------------------------------
Active(c) == conn[c] \in {"live", "ending"}

(* A device that has not been updated has at most one client that can      *)
(* still receive.                                                          *)
OneClient ==
    \A b, c \in Slot :
        b # c /\ dev[b] = dev[c] /\ Active(b) /\ Active(c) => dev[b] \in updated

(* A device that waits for its first client has none yet, and waits once.  *)
FirstClient ==
    \A p \in creating :
        /\ \A q \in creating : q[1] = p[1] => q = p
        /\ \A c \in Slot : dev[c] = p[1] /\ Active(c) => p[1] \in updated

(* Neither clients nor requests outlive the process. *)
NoneWhenDown == ~up => creating = {} /\ \A c \in Slot : ~Active(c)

(* The inductive invariant. *)
ClientInv ==
    NoDanglingRegistration /\ RegisteredUnlessUpdated /\ OneClient /\ FirstClient /\ NoneWhenDown

clientVars == <<up, clientDictionary, creating, dev, conn, updated>>

(* The dictionary starts empty, as the process does. *)
LEMMA InitClients == Init => ClientInv
  BY MqttAssumption DEF Init, ClientInv, NoDanglingRegistration, RegisteredUnlessUpdated, OneClient,
     FirstClient, NoneWhenDown, Active

(* A step that leaves clients, dictionary and requests alone keeps ClientInv. *)
LEMMA UntouchedClients ==
    ASSUME ClientInv, UNCHANGED clientVars PROVE ClientInv'
  BY DEF clientVars, ClientInv, NoDanglingRegistration, RegisteredUnlessUpdated, OneClient,
         FirstClient, NoneWhenDown, Active

(* The end of the process empties the dictionary and ends every client. *)
LEMMA ProcessEndsClients ==
    ASSUME ProcessEnds PROVE ClientInv'
  BY DEF ProcessEnds, ClientInv, NoDanglingRegistration, RegisteredUnlessUpdated, OneClient,
         FirstClient, NoneWhenDown, Active

(* removeMQTTClient ends the one registered client, or clears the entry of *)
(* one that is ending already.                                             *)
LEMMA RemoveClients ==
    ASSUME TypeOK, ClientInv, NEW d \in Device, up,
           conn' = ConnAfterRemove(d), clientDictionary' = DictionaryAfterRemove(d),
           UNCHANGED <<up, creating, dev, updated>>
    PROVE  ClientInv'
<1>1. \A c \in Slot : (Active(c))' <=> Active(c)
  BY DEF Active, ConnAfterRemove, TypeOK
<1>2. \A c \in Slot : conn'[c] = "live" => conn[c] = "live" /\ c # clientDictionary[d]
  BY DEF ConnAfterRemove, TypeOK
<1>3. \A e \in Device : clientDictionary'[e] = clientDictionary[e]
                          \/ (clientDictionary'[e] = NoSlot /\ e = d)
  BY RemoveEntries
<1>4. NoDanglingRegistration'
  BY <1>1, <1>3 DEF ClientInv, NoDanglingRegistration, Active, TypeOK
<1>5. RegisteredUnlessUpdated'
  <2> SUFFICES ASSUME NEW c \in Slot, conn'[c] = "live", dev[c] \notin updated
               PROVE  clientDictionary'[dev[c]] = c
    BY DEF RegisteredUnlessUpdated
  <2>1. conn[c] = "live" /\ c # clientDictionary[d]
    BY <1>2
  <2>2. clientDictionary[dev[c]] = c
    BY <2>1 DEF ClientInv, RegisteredUnlessUpdated
  <2>3. dev[c] # d
    BY <2>1, <2>2
  <2> QED
    BY <2>2, <2>3 DEF DictionaryAfterRemove, TypeOK
<1> QED
  BY <1>1, <1>4, <1>5 DEF ClientInv, OneClient, FirstClient, NoneWhenDown

(* A start enters exactly the clients it makes. *)
LEMMA BootClients ==
    ASSUME TypeOK, ClientInv, Boot PROVE ClientInv'
<1>1. ~up /\ up' /\ creating' = {} /\ \A c \in Slot : ~Active(c)
  BY DEF Boot, ClientInv, NoneWhenDown
<1>2. \A c \in Slot : (Active(c))' =>
         conn'[c] = "live" /\ dev'[c] \in Device /\ clientDictionary'[dev'[c]] = c
  BY <1>1, BootSlots DEF Active
<1>3. NoDanglingRegistration'
  BY BootSlots DEF NoDanglingRegistration
<1>4. RegisteredUnlessUpdated' /\ OneClient'
  BY <1>2 DEF RegisteredUnlessUpdated, OneClient, Active
<1>5. FirstClient'
  BY <1>1 DEF FirstClient
<1> QED
  BY <1>1, <1>3, <1>4, <1>5 DEF ClientInv, NoneWhenDown

(* A new client is made for a device: it is registered, or it has no topic *)
(* and never connects.                                                     *)
LEMMA MadeClient ==
    ASSUME TypeOK, SlotsInv, NEW c \in Slot, conn[c] = "unused", NEW d \in Device,
           NEW o \in Row, NEW ds \in Entries, NEW cs \in [Slot -> ConnState],
           MakeClient(c, d, o, ds, cs)
    PROVE  /\ dev'[c] = d /\ conn'[c] \in {"none", "live"}
           /\ \A b \in Slot \ {c} : dev'[b] = dev[b] /\ conn'[b] = cs[b]
           /\ conn'[c] = "live" => clientDictionary' = [ds EXCEPT ![d] = c]
           /\ conn'[c] = "none" => clientDictionary' = ds
  BY DEF MakeClient, ConnState, Entries, TypeOK

(* The steps of creating a device. *)
LEMMA CreateClients ==
    ASSUME TypeOK, SlotsInv, ClientInv, NEW d \in Device, NEW cfg \in Config,
           CreateSave(d, cfg) \/ CreateClient(d, cfg)
    PROVE  ClientInv'
<1>1. CASE CreateSave(d, cfg)
  <2>1. creating' = creating \cup {<<d, cfg>>} /\ d \notin ids /\ up
        /\ UNCHANGED <<up, clientDictionary, dev, conn, updated>>
    BY <1>1 DEF CreateSave
  <2>2. \A c \in Slot : Active(c) => dev[c] \in ids
    BY DEF Active, SlotsInv
  <2>3. \A p \in creating : p[1] \in ids
    BY DEF SlotsInv
  <2>4. FirstClient'
    <3>1. \A p, q \in creating' : p[1] = q[1] => p = q
      BY <2>1, <2>3 DEF ClientInv, FirstClient
    <3>2. \A p \in creating' : \A c \in Slot : dev[c] = p[1] /\ Active(c) => p[1] \in updated
      BY <2>1, <2>2 DEF ClientInv, FirstClient
    <3> QED
      BY <2>1, <3>1, <3>2 DEF FirstClient, Active
  <2> QED
    BY <2>1, <2>4 DEF ClientInv, NoDanglingRegistration, RegisteredUnlessUpdated, OneClient,
                      NoneWhenDown, Active
<1>2. CASE CreateClient(d, cfg)
  <2> DEFINE c == NextSlot
             o == [cfg |-> cfg, invalid |-> cfg \in NoTopic]
  <2>1. c \in Slot /\ conn[c] = "unused" /\ o \in Row
    BY <1>2, NextSlotUnused DEF CreateClient, Row
  <2>2. MakeClient(c, d, o, clientDictionary, conn)
    BY <1>2 DEF CreateClient
  <2>3. clientDictionary \in Entries /\ conn \in [Slot -> ConnState]
    BY DEF TypeOK, Entries, ConnState
  <2> HIDE DEF c, o
  <2>4. /\ dev'[c] = d /\ conn'[c] \in {"none", "live"}
        /\ \A b \in Slot \ {c} : dev'[b] = dev[b] /\ conn'[b] = conn[b]
        /\ conn'[c] = "live" => clientDictionary' = [clientDictionary EXCEPT ![d] = c]
        /\ conn'[c] = "none" => clientDictionary' = clientDictionary
    BY <2>1, <2>2, <2>3, MadeClient
  <2>5. /\ up /\ up' /\ <<d, cfg>> \in creating
        /\ creating' = creating \ {<<d, cfg>>} /\ updated' = updated
    BY <1>2 DEF CreateClient
  <2>6. \A b \in Slot : dev[b] = d /\ Active(b) => d \in updated
    BY <2>5 DEF ClientInv, FirstClient
  <2>7. \A p \in creating' : p[1] # d
    BY <2>5 DEF ClientInv, FirstClient
  <2>8. NoDanglingRegistration'
    <3> SUFFICES ASSUME NEW e \in Device, clientDictionary'[e] # NoSlot
                 PROVE  /\ dev'[clientDictionary'[e]] = e
                        /\ conn'[clientDictionary'[e]] \in {"live", "ending"}
      BY DEF NoDanglingRegistration
    <3>1. CASE e = d /\ conn'[c] = "live"
      BY <2>1, <2>3, <2>4, <3>1 DEF Entries
    <3>2. CASE ~(e = d /\ conn'[c] = "live")
      <4>1. clientDictionary'[e] = clientDictionary[e]
        BY <2>3, <2>4, <3>2 DEF Entries
      <4>2. clientDictionary[e] \in Slot \ {c}
        BY <2>1, <2>3, <4>1 DEF ClientInv, NoDanglingRegistration, Entries
      <4> QED
        BY <2>4, <4>1, <4>2 DEF ClientInv, NoDanglingRegistration
    <3> QED  BY <3>1, <3>2
  <2>9. RegisteredUnlessUpdated'
    <3> SUFFICES ASSUME NEW b \in Slot, conn'[b] = "live", dev'[b] \notin updated
                 PROVE  clientDictionary'[dev'[b]] = b
      BY <2>5 DEF RegisteredUnlessUpdated
    <3>1. CASE b = c
      BY <2>3, <2>4, <3>1 DEF Entries
    <3>2. CASE b # c
      <4>1. dev'[b] = dev[b] /\ conn[b] = "live" /\ dev[b] # d /\ dev[b] \in Device
        BY <2>4, <2>6, <3>2 DEF Active, SlotsInv, TypeOK
      <4>2. clientDictionary'[dev[b]] = clientDictionary[dev[b]]
        BY <2>4, <4>1, <2>3 DEF Entries
      <4> QED
        BY <4>1, <4>2 DEF ClientInv, RegisteredUnlessUpdated
    <3> QED  BY <3>1, <3>2
  <2>10. OneClient'
    BY <2>1, <2>4, <2>5, <2>6 DEF ClientInv, OneClient, Active
  <2>11. FirstClient'
    BY <2>1, <2>4, <2>5, <2>7 DEF ClientInv, FirstClient, Active
  <2> QED
    BY <2>5, <2>8, <2>9, <2>10, <2>11 DEF ClientInv, NoneWhenDown
<1> QED  BY <1>1, <1>2

(* An update makes a client for its device whatever clients that has.      *)
LEMMA UpdateClients ==
    ASSUME TypeOK, SlotsInv, ClientInv, NEW d \in Device, NEW cfg \in Config, UpdateMap(d, cfg)
    PROVE  ClientInv'
<1> DEFINE c == NextSlot
           o == [cfg |-> cfg, invalid |-> FALSE]
           cs == ConnAfterRemove(d)
           ds == DictionaryAfterRemove(d)
<1>1. c \in Slot /\ conn[c] = "unused" /\ o \in Row
  BY NextSlotUnused DEF UpdateMap, Row
<1>2. MakeClient(c, d, o, ds, cs)
  BY DEF UpdateMap
<1>3. ds \in Entries /\ cs \in [Slot -> ConnState]
  BY RemoveTyped
<1>4. /\ \A b \in Slot : Active(b) <=> cs[b] \in {"live", "ending"}
      /\ \A b \in Slot : cs[b] = "live" => conn[b] = "live"
  BY DEF Active, ConnAfterRemove, TypeOK
<1>5. \A e \in Device : ds[e] = clientDictionary[e] \/ (ds[e] = NoSlot /\ e = d)
  BY RemoveEntries
<1> HIDE DEF c, o, cs, ds
<1>6. /\ dev'[c] = d /\ conn'[c] \in {"none", "live"}
      /\ \A b \in Slot \ {c} : dev'[b] = dev[b] /\ conn'[b] = cs[b]
      /\ conn'[c] = "live" => clientDictionary' = [ds EXCEPT ![d] = c]
      /\ conn'[c] = "none" => clientDictionary' = ds
  BY <1>1, <1>2, <1>3, MadeClient
<1>7. up' /\ creating' = creating /\ updated' = updated \cup {d}
  BY DEF UpdateMap
<1>8. NoDanglingRegistration'
  <2> SUFFICES ASSUME NEW e \in Device, clientDictionary'[e] # NoSlot
               PROVE  /\ dev'[clientDictionary'[e]] = e
                      /\ conn'[clientDictionary'[e]] \in {"live", "ending"}
    BY DEF NoDanglingRegistration
  <2>1. CASE e = d /\ conn'[c] = "live"
    BY <1>1, <1>3, <1>6, <2>1 DEF Entries
  <2>2. CASE ~(e = d /\ conn'[c] = "live")
    <3>1. clientDictionary'[e] = clientDictionary[e]
      BY <1>3, <1>5, <1>6, <2>2 DEF Entries
    <3>2. clientDictionary[e] \in Slot \ {c} /\ Active(clientDictionary[e])
          /\ dev[clientDictionary[e]] = e
      BY <1>1, <3>1 DEF ClientInv, NoDanglingRegistration, Active, TypeOK
    <3> QED
      BY <1>4, <1>6, <3>1, <3>2
  <2> QED  BY <2>1, <2>2
<1>9. RegisteredUnlessUpdated'
  <2> SUFFICES ASSUME NEW b \in Slot, conn'[b] = "live", dev'[b] \notin updated', b # c
               PROVE  clientDictionary'[dev'[b]] = b
    BY <1>6, <1>7 DEF RegisteredUnlessUpdated
  <2>1. dev'[b] = dev[b] /\ conn[b] = "live" /\ dev[b] # d /\ dev[b] \notin updated
    BY <1>4, <1>6, <1>7
  <2>2. clientDictionary[dev[b]] = b /\ dev[b] \in Device
    BY <2>1 DEF ClientInv, RegisteredUnlessUpdated, SlotsInv, TypeOK
  <2>3. clientDictionary'[dev[b]] = clientDictionary[dev[b]]
    BY <1>3, <1>5, <1>6, <2>1, <2>2 DEF Entries
  <2> QED
    BY <2>1, <2>2, <2>3
<1>10. OneClient'
  BY <1>1, <1>4, <1>6, <1>7 DEF ClientInv, OneClient, Active
<1>11. FirstClient'
  BY <1>1, <1>4, <1>6, <1>7 DEF ClientInv, FirstClient, Active
<1> QED
  BY <1>7, <1>8, <1>9, <1>10, <1>11 DEF ClientInv, NoneWhenDown

(* A client that has ended takes only its own entry with it.               *)
LEMMA EndedClients ==
    ASSUME TypeOK, SlotsInv, ClientInv, NEW c \in Slot, Ended(c)
    PROVE  ClientInv'
<1>1. /\ conn[c] = "ending" /\ up /\ dev[c] \in Device
      /\ conn' = [conn EXCEPT ![c] = "ended"]
      /\ clientDictionary' = [clientDictionary EXCEPT ![dev[c]] = NoSlot]
      /\ UNCHANGED <<up, creating, dev, updated>>
  BY DEF Ended, SlotsInv, TypeOK
<1>2. \A b \in Slot : b # c => conn'[b] = conn[b]
  BY <1>1 DEF TypeOK
<1>3. conn'[c] = "ended"
  BY <1>1 DEF TypeOK
<1>4. NoDanglingRegistration'
  <2> SUFFICES ASSUME NEW e \in Device, clientDictionary'[e] # NoSlot
               PROVE  /\ dev[clientDictionary'[e]] = e
                      /\ conn'[clientDictionary'[e]] \in {"live", "ending"}
    BY <1>1 DEF NoDanglingRegistration
  <2>1. e # dev[c] /\ clientDictionary'[e] = clientDictionary[e]
    BY <1>1 DEF TypeOK
  <2>2. dev[clientDictionary[e]] = e /\ conn[clientDictionary[e]] \in {"live", "ending"}
    BY <2>1 DEF ClientInv, NoDanglingRegistration
  <2>3. clientDictionary[e] # c /\ clientDictionary[e] \in Slot
    BY <2>1, <2>2 DEF TypeOK
  <2> QED
    BY <1>2, <2>1, <2>2, <2>3
<1>5. RegisteredUnlessUpdated'
  <2> SUFFICES ASSUME NEW b \in Slot, conn'[b] = "live", dev[b] \notin updated
               PROVE  clientDictionary'[dev[b]] = b
    BY <1>1 DEF RegisteredUnlessUpdated
  <2>1. b # c /\ conn[b] = "live"
    BY <1>2, <1>3
  <2>2. clientDictionary[dev[b]] = b
    BY <2>1 DEF ClientInv, RegisteredUnlessUpdated
  <2>3. dev[b] # dev[c]
    BY <1>1, <2>1 DEF ClientInv, OneClient, Active
  <2> QED
    BY <1>1, <2>2, <2>3 DEF TypeOK
<1>6. \A b \in Slot : (Active(b))' => Active(b)
  BY <1>2, <1>3 DEF Active
<1> QED
  BY <1>1, <1>4, <1>5, <1>6 DEF ClientInv, OneClient, FirstClient, NoneWhenDown

(* Every step keeps ClientInv. *)
LEMMA NextClients ==
    ASSUME TypeOK, SlotsInv, ClientInv, Next
    PROVE  ClientInv'
<1>1. CASE Crash \/ Boot
  BY <1>1, ProcessEndsClients, BootClients DEF Crash
<1>2. ASSUME NEW d \in Device, NEW cfg \in Config,
             CreateSave(d, cfg) \/ CreateClient(d, cfg) \/ UpdateMap(d, cfg)
      PROVE  ClientInv'
  BY <1>2, CreateClients, UpdateClients
<1>3. ASSUME NEW d \in Device, NEW cfg \in Config,
             UpdateRead(d, cfg) \/ DeleteCommit(d) \/ DeleteRollback(d)
      PROVE  ClientInv'
  BY <1>3, UntouchedClients DEF UpdateRead, DeleteCommit, DeleteRollback, clientVars
<1>4. ASSUME NEW d \in Device, DeleteCommit(d) \/ DeleteRollback(d)
      PROVE  ClientInv'
  BY <1>4, UntouchedClients DEF DeleteCommit, DeleteRollback, clientVars
<1>5. ASSUME NEW d \in Device, DeleteRow(d)
      PROVE  ClientInv'
  BY <1>5, RemoveClients DEF DeleteRow
<1>6. ASSUME NEW c \in Slot, Continue(c)
      PROVE  ClientInv'
  <2>1. CASE Ended(c)
    BY <2>1, EndedClients
  <2>2. CASE MarkSelect(c) \/ EditSelect(c) \/ EditWrite(c)
    BY <2>2, UntouchedClients DEF MarkSelect, EditSelect, EditWrite, clientVars
  <2>3. CASE MarkWrite(c)
    BY <2>3, ProcessEndsClients, UntouchedClients DEF MarkWrite, clientVars
  <2>4. CASE MarkRemove(c)
    <3>1. dev[c] \in Device
      BY <2>4 DEF MarkRemove, SlotsInv, TypeOK
    <3> QED
      BY <2>4, <3>1, RemoveClients DEF MarkRemove
  <2> QED  BY <1>6, <2>1, <2>2, <2>3, <2>4 DEF Continue
<1> QED  BY <1>1, <1>2, <1>3, <1>4, <1>5, <1>6 DEF Next, Request

(* The invariant holds in every reachable state. *)
THEOREM ClientInvariant == Spec => []ClientInv
<1>1. TypeOK /\ SlotsInv /\ ClientInv /\ [Next]_vars => ClientInv'
  <2> SUFFICES ASSUME TypeOK, SlotsInv, ClientInv, [Next]_vars PROVE ClientInv'
    OBVIOUS
  <2>1. CASE UNCHANGED vars
    BY <2>1, UntouchedClients DEF vars, clientVars
  <2> QED  BY <2>1, NextClients
<1> QED  BY InitClients, SlotsInvariant, <1>1, PTL DEF Spec

(* clientDictionary never names an ended client or one of another device.  *)
THEOREM NoDangling == Spec => []NoDanglingRegistration
  BY ClientInvariant, PTL DEF ClientInv

(* The client of a device that was not updated can always be ended.        *)
THEOREM Registered == Spec => []RegisteredUnlessUpdated
  BY ClientInvariant, PTL DEF ClientInv
-----------------------------------------------------------------------------
NoLive(d) == \A c \in Slot : dev[c] = d => conn[c] # "live"

(***************************************************************************)
(* A device that is being deleted, with no other request on it, has no     *)
(* client that receives, and no request that will make one.  Once it is    *)
(* deleted a save that was in progress may still insert its row again: but *)
(* only the saves of an update save a valid one, so that the next start    *)
(* of the process makes no client for it.                                  *)
(***************************************************************************)
GoneInv ==
    /\ ~up => quiet = {}
    /\ \A d \in quiet : d \in ids \ updated /\ NoLive(d) /\ \A p \in creating \cup editing : p[1] # d
    /\ \A d \in gone : /\ d \in ids \ updated /\ NoLive(d) /\ \A p \in creating : p[1] # d
                       /\ row[d] # NoRow => row[d].invalid
    /\ \A c \in Slot : edit[c] # "no" => dev[c] \in updated
    /\ \A c \in Slot : mark[c] = "select" => dev[c] \in updated \/ obj[c].invalid
    /\ \A c \in Slot : mark[c] = "write" => dev[c] \in updated \/ markDiff[c].new.invalid

(* At first nothing has been deleted. *)
LEMMA InitGone == Init => GoneInv
  BY DEF Init, GoneInv, NoLive

(* The process ends: no client receives, no request goes on. *)
LEMMA ProcessEndsGone == ASSUME TypeOK, GoneInv, ProcessEnds PROVE GoneInv'
  BY DEF ProcessEnds, GoneInv, NoLive, TypeOK

(* It starts, with clients for the devices that are not marked invalid. *)
LEMMA BootGone == ASSUME TypeOK, SlotsInv, GoneInv, Boot PROVE GoneInv'
<1>1. up' /\ UNCHANGED <<row, ids, creating, editing, markDiff, edit, updated, quiet, gone>>
  BY DEF Boot
<1>2. \A d \in quiet \cup gone : NoLive(d)'
  <2> SUFFICES ASSUME NEW d \in quiet \cup gone, NEW c \in Slot, dev'[c] = d, conn'[c] = "live" PROVE FALSE
    BY <1>1 DEF NoLive
  <2>1. CASE conn'[c] = conn[c] /\ dev'[c] = dev[c]
    BY <2>1 DEF GoneInv, NoLive
  <2>2. CASE conn[c] = "unused" /\ row[dev'[c]] # NoRow /\ ~row[dev'[c]].invalid
    <3>1. d \in quiet
      BY <2>2 DEF GoneInv
    <3> QED  BY <3>1 DEF Boot, GoneInv
  <2> QED  BY <2>1, <2>2, BootSlots
<1>3. \A c \in Slot : mark'[c] = "select" => dev'[c] \in updated \/ obj'[c].invalid
  BY BootSlots DEF GoneInv, SlotsInv
<1>4. \A c \in Slot : mark'[c] = "write" => dev'[c] \in updated \/ markDiff[c].new.invalid
  BY BootSlots DEF GoneInv, SlotsInv
<1>5. \A c \in Slot : edit[c] # "no" => dev'[c] \in updated
  BY BootSlots DEF GoneInv, SlotsInv
<1> QED  BY <1>1, <1>2, <1>3, <1>4, <1>5 DEF GoneInv

(* A device is created under an id that no device has had. *)
LEMMA CreateGone ==
    ASSUME TypeOK, SlotsInv, GoneInv, NEW d \in Device, NEW cfg \in Config, CreateSave(d, cfg) \/ CreateClient(d, cfg)
    PROVE  GoneInv'
<1>1. CASE CreateSave(d, cfg)
  <2>1. d \notin ids /\ d \notin quiet \cup gone
    BY <1>1 DEF CreateSave, GoneInv
  <2> QED  BY <1>1, <2>1 DEF CreateSave, GoneInv, NoLive, TypeOK
<1>2. CASE CreateClient(d, cfg)
  <2> DEFINE c == NextSlot
             o == [cfg |-> cfg, invalid |-> cfg \in NoTopic]
  <2>1. c \in Slot /\ conn[c] = "unused" /\ (cfg \in NoTopic => o.invalid) /\ o.cfg = cfg
    <3>1. cfg \in NoTopic => o.invalid
      OBVIOUS
    <3> QED  BY <1>2, <3>1, NextSlotUnused DEF CreateClient
  <2>2. MakeClient(c, d, o, clientDictionary, conn)
    BY <1>2 DEF CreateClient
  <2>3. d \notin quiet \cup gone
    BY <1>2 DEF CreateClient, GoneInv
  <2>4. /\ UNCHANGED <<up, row, ids, editing, edit, markDiff, updated, quiet, gone>> /\ creating' \subseteq creating
    BY <1>2, <2>2 DEF CreateClient, MakeClient
  <2>5. mark[c] = "no" /\ edit[c] = "no"
    BY <2>1 DEF SlotsInv
  <2> HIDE DEF c, o
  <2>6. /\ dev'[c] = d /\ obj'[c] = o /\ (mark'[c] = "select" => o.invalid) /\ mark'[c] # "write"
        /\ \A b \in Slot \ {c} : dev'[b] = dev[b] /\ obj'[b] = obj[b] /\ conn'[b] = conn[b] /\ mark'[b] = mark[b]
    BY <2>1, <2>2, <2>5 DEF MakeClient, TypeOK
  <2> QED  BY <2>1, <2>3, <2>4, <2>5, <2>6 DEF GoneInv, NoLive
<1> QED  BY <1>1, <1>2

(* A device that is updated, or is to be, does not count as gone. *)
LEMMA UpdateGone ==
    ASSUME TypeOK, SlotsInv, GoneInv, NEW d \in Device, NEW cfg \in Config, UpdateRead(d, cfg) \/ UpdateMap(d, cfg)
    PROVE  GoneInv'
<1>1. CASE UpdateRead(d, cfg)
  BY <1>1 DEF UpdateRead, GoneInv, NoLive
<1>2. CASE UpdateMap(d, cfg)
  <2> DEFINE c == NextSlot
             o == [cfg |-> cfg, invalid |-> FALSE]
             cs == ConnAfterRemove(d)
             ds == DictionaryAfterRemove(d)
  <2>1. c \in Slot /\ conn[c] = "unused"
    BY <1>2, NextSlotUnused DEF UpdateMap
  <2>2. MakeClient(c, d, o, ds, cs)
    BY <1>2 DEF UpdateMap
  <2>3. d \notin quiet
    BY <1>2 DEF UpdateMap, GoneInv
  <2>4. \A b \in Slot : cs[b] = "live" => conn[b] = "live"
    BY DEF ConnAfterRemove
  <2>5. mark[c] = "no" /\ edit[c] = "no"
    BY <2>1 DEF SlotsInv
  <2> HIDE DEF o, cs, ds
  <2>6. /\ UNCHANGED <<row, ids, creating, markDiff, quiet>> /\ editing' \subseteq editing
        /\ updated' = updated \cup {d} /\ gone' = gone \ {d} /\ edit' = [edit EXCEPT ![c] = "select"] /\ up'
    BY <1>2, <2>2 DEF UpdateMap, MakeClient
  <2> HIDE DEF c
  <2>7. cs \in [Slot -> ConnState]
    BY RemoveTyped DEF cs
  <2>8. /\ dev'[c] = d
        /\ \A b \in Slot \ {c} : dev'[b] = dev[b] /\ obj'[b] = obj[b] /\ conn'[b] = cs[b] /\ mark'[b] = mark[b]
    BY <2>1, <2>2, <2>7 DEF MakeClient, TypeOK
  <2> QED  BY <2>1, <2>3, <2>4, <2>5, <2>6, <2>8 DEF GoneInv, NoLive, TypeOK
<1> QED  BY <1>1, <1>2

(* A deletion ends the one client that the device has, if it was not       *)
(* updated.                                                                *)
LEMMA DeleteGone ==
    ASSUME TypeOK, SlotsInv, ClientInv, GoneInv, NEW d \in Device,
           DeleteRow(d) \/ DeleteCommit(d) \/ DeleteRollback(d)
    PROVE  GoneInv'
<1>1. CASE DeleteRow(d)
  <2>1. \A c \in Slot : conn'[c] = "live" => conn[c] = "live" /\ c # clientDictionary[d]
    BY <1>1 DEF DeleteRow, ConnAfterRemove, TypeOK
  <2>2. d \notin updated => NoLive(d)'
    BY <1>1, <2>1 DEF DeleteRow, ClientInv, RegisteredUnlessUpdated, NoLive
  <2>3. d \in ids
    BY <1>1 DEF DeleteRow, SlotsInv
  <2>4. \A e \in quiet' : e \in ids \ updated /\ NoLive(e)' /\ \A p \in creating \cup editing : p[1] # e
    <3>1. \A e : NoLive(e) => NoLive(e)'
      BY <1>1, <2>1 DEF DeleteRow, NoLive
    <3>2. \A e \in quiet' : e \in quiet \/ (e = d /\ d \notin updated /\ \A p \in creating \cup editing : p[1] # d)
      BY <1>1 DEF DeleteRow
    <3> QED  BY <2>2, <2>3, <3>1, <3>2 DEF GoneInv
  <2> QED  BY <1>1, <2>1, <2>4 DEF DeleteRow, GoneInv, NoLive
<1>2. CASE DeleteCommit(d)
  BY <1>2 DEF DeleteCommit, GoneInv, NoLive, TypeOK
<1>3. CASE DeleteRollback(d)
  BY <1>3 DEF DeleteRollback, GoneInv, NoLive
<1> QED  BY <1>1, <1>2, <1>3

(* What a save that is not of an update writes is marked invalid, or is    *)
(* not a row.                                                              *)
LEMMA SavedInvalid ==
    ASSUME NEW d, NEW diff, row[d] # NoRow => row[d].invalid, diff.new.invalid
    PROVE  Saved(d, diff) # NoRow => Saved(d, diff).invalid
  BY DEF Saved

(* The end of a client, and the saves: only those of an update can make a  *)
(* row valid.                                                              *)
LEMMA ContinueGone ==
    ASSUME TypeOK, SlotsInv, GoneInv, NEW c \in Slot, Continue(c)
    PROVE  GoneInv'
<1>1. CASE Ended(c)
  <2>1. obj[c] \in Row
    BY <1>1 DEF Ended, SlotsInv
  <2>2. obj'[c].invalid /\ \A b \in Slot \ {c} : obj'[b] = obj[b] /\ mark'[b] = mark[b]
    BY <1>1, <2>1 DEF Ended, TypeOK, Row
  <2>3. mark'[c] = "select" /\ \A b \in Slot : conn'[b] = "live" => conn[b] = "live"
    BY <1>1 DEF Ended, TypeOK
  <2> QED  BY <1>1, <2>2, <2>3 DEF Ended, GoneInv, NoLive
<1>2. CASE MarkSelect(c)
  <2>1. dev[c] \in updated \/ DiffOf(c).new.invalid
    BY <1>2 DEF MarkSelect, GoneInv, DiffOf
  <2>2. markDiff'[c] = DiffOf(c) /\ \A b \in Slot \ {c} : markDiff'[b] = markDiff[b] /\ mark'[b] = mark[b]
    BY <1>2 DEF MarkSelect, TypeOK
  <2>3. mark'[c] = "write"
    BY <1>2 DEF MarkSelect, TypeOK
  <2> QED  BY <1>2, <2>1, <2>2, <2>3 DEF MarkSelect, GoneInv, NoLive
<1>3. CASE MarkWrite(c)
  <2>1. CASE ProcessEnds
    BY <2>1, ProcessEndsGone
  <2>2. CASE ~ProcessEnds
    <3>1. /\ row' = [row EXCEPT ![dev[c]] = Saved(dev[c], markDiff[c])]
          /\ mark' = [mark EXCEPT ![c] = IF conn[c] = "ended" THEN "remove" ELSE "no"]
          /\ markDiff' = [markDiff EXCEPT ![c] = NoDiff] /\ mark[c] = "write"
          /\ UNCHANGED <<up, ids, requests, dev, obj, conn, edit, history>>
      BY <1>3, <2>2 DEF MarkWrite
    <3>2. \A d \in gone : row'[d] # NoRow => row'[d].invalid
      <4> SUFFICES ASSUME NEW d \in gone, row'[d] # NoRow PROVE row'[d].invalid
        OBVIOUS
      <4>1. CASE d = dev[c]
        <5>1. markDiff[c].new.invalid /\ (row[d] # NoRow => row[d].invalid)
          BY <3>1, <4>1 DEF GoneInv
        <5>2. row'[d] = Saved(d, markDiff[c])
          BY <3>1, <4>1 DEF TypeOK
        <5> QED  BY <5>1, <5>2, SavedInvalid
      <4>2. CASE d # dev[c]
        BY <3>1, <4>2 DEF GoneInv, TypeOK
      <4> QED  BY <4>1, <4>2
    <3> QED  BY <3>1, <3>2 DEF GoneInv, NoLive, TypeOK
  <2> QED  BY <2>1, <2>2
<1>4. CASE MarkRemove(c)
  <2>1. \A b \in Slot : conn'[b] = "live" => conn[b] = "live"
    BY <1>4 DEF MarkRemove, ConnAfterRemove
  <2> QED  BY <1>4, <2>1 DEF MarkRemove, GoneInv, NoLive, TypeOK
<1>5. CASE EditSelect(c)
  BY <1>5 DEF EditSelect, GoneInv, NoLive, TypeOK
<1>6. CASE EditWrite(c)
  <2>1. dev[c] \notin gone
    BY <1>6 DEF EditWrite, GoneInv
  <2> QED  BY <1>6, <2>1 DEF EditWrite, GoneInv, NoLive, TypeOK
<1> QED  BY <1>1, <1>2, <1>3, <1>4, <1>5, <1>6 DEF Continue

(* Every step keeps GoneInv. *)
LEMMA NextGone ==
    ASSUME TypeOK, SlotsInv, ClientInv, GoneInv, [Next]_vars
    PROVE  GoneInv'
<1>1. CASE Next
  BY <1>1, ProcessEndsGone, BootGone, CreateGone, UpdateGone, DeleteGone, ContinueGone DEF Next, Crash, Request
<1>2. CASE UNCHANGED vars
  BY <1>2 DEF vars, GoneInv, NoLive
<1> QED  BY <1>1, <1>2

(* For any number of devices and clients: after a deletion that no other   *)
(* request on the device overlaps, and which no update went before, no     *)
(* client made for the device goes on receiving - whatever saves were in   *)
(* progress, and whether or not the process is started again               *)
(* (iot-device.service.ts, internal-mqtt-client-listener.service.ts).      *)
THEOREM DeletedNotListenedTo == Spec => []DeletedIsNotListenedTo
<1>1. GoneInv => DeletedIsNotListenedTo
  BY DEF GoneInv, NoLive, DeletedIsNotListenedTo
<1> QED  BY InitGone, SlotsInvariant, ClientInvariant, NextGone, <1>1, PTL DEF Spec
=============================================================================
