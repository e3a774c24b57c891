------------------------ MODULE ArtifactStoreProofs ------------------------
(***************************************************************************)
(* Proofs about the artifact store, for every set of uris and any ring     *)
(* sizes.  StoreInv is inductive: that the free slots are the ones from    *)
(* the index on is what makes a reused slot the place of an artifact that  *)
(* may go, and that no uri without a file is in a ring when the disk does  *)
(* not fail is what keeps the entries distinct.                            *)
(***************************************************************************)
EXTENDS ArtifactStore, FiniteSetTheorems, TLAPS

(* The index stays inside the ring, and wraps to its start.                *)
LEMMA NextIndex ==
  ASSUME NEW n \in Nat \ {0}, NEW i \in 0..(n - 1)
  PROVE  /\ (i + 1) % n \in 0..(n - 1)
         /\ i < n - 1 => (i + 1) % n = i + 1
         /\ i = n - 1 => (i + 1) % n = 0
  <1>1. CASE i < n - 1
    <2>1. i + 1 \in 0..(n - 1) BY <1>1
    <2>2. (i + 1) % n = i + 1 BY <2>1
    <2> QED BY <1>1, <2>1, <2>2
  <1>2. CASE i = n - 1
    <2>1. i + 1 = n BY <1>2
    <2>2. n % n = 0 OBVIOUS
    <2> QED BY <1>2, <2>1, <2>2
  <1> QED BY <1>1, <1>2

(* What a save of a trimmed type does to its ring.                         *)
LEMMA RingStep ==
  ASSUME TypeOK, NEW u \in Uri, RingOf(u) \in Ring, TakeSlot(u)
  PROVE  LET k == RingOf(u) IN
         /\ slots' = [slots EXCEPT ![k] = [slots[k] EXCEPT ![index[k]] = u]]
         /\ slots'[k] \in [Slot(k) -> Holds(k)]
         /\ slots'[k][index[k]] = u
         /\ \A i \in Slot(k) : i # index[k] => slots'[k][i] = slots[k][i]
         /\ index'[k] = (index[k] + 1) % Max[k]
         /\ index'[k] \in Slot(k)
         /\ \A l \in Ring : l # k => slots'[l] = slots[l] /\ index'[l] = index[l]
         /\ slots' = [l \in Ring |-> slots'[l]]
         /\ index' \in [Ring -> Nat]
  <1> DEFINE k == RingOf(u)
  <1>1. k \in Ring /\ Max[k] \in Nat \ {0} /\ index[k] \in 0..(Max[k] - 1)
    BY StoreAssumption DEF TypeOK, Slot
  <1>2. slots[k] \in [Slot(k) -> Holds(k)] BY <1>1 DEF TypeOK
  <1>3. slots' = [slots EXCEPT ![k] = [slots[k] EXCEPT ![index[k]] = u]]
    BY <1>1 DEF TakeSlot, TypeOK
  <1>4. index' = [index EXCEPT ![k] = (index[k] + 1) % Max[k]]
    BY <1>1 DEF TakeSlot, increment_current_artifact_index, TypeOK
  <1>5. (index[k] + 1) % Max[k] \in 0..(Max[k] - 1) BY <1>1, NextIndex
  <1>6. slots'[k] = [slots[k] EXCEPT ![index[k]] = u]
    BY <1>1, <1>3 DEF TypeOK
  <1>7. slots'[k] \in [Slot(k) -> Holds(k)]
    BY <1>1, <1>2, <1>6 DEF Slot, Holds
  <1>8. index'[k] = (index[k] + 1) % Max[k] BY <1>1, <1>4 DEF TypeOK
  <1>9. index' \in [Ring -> Nat] BY <1>1, <1>4, <1>5 DEF TypeOK
  <1>10. slots' = [l \in Ring |-> slots'[l]] BY <1>3 DEF TypeOK
  <1>11. \A i \in Slot(k) : i # index[k] => slots'[k][i] = slots[k][i]
    BY <1>2, <1>6
  <1>12. slots'[k][index[k]] = u BY <1>1, <1>2, <1>6 DEF Slot
  <1>13. \A l \in Ring : l # k => slots'[l] = slots[l] /\ index'[l] = index[l]
    BY <1>3, <1>4 DEF TypeOK
  <1> QED
    BY <1>1, <1>3, <1>5, <1>7, <1>8, <1>9, <1>10, <1>11, <1>12, <1>13 DEF Slot

LEMMA TypeStep == TypeOK /\ [Next]_vars => TypeOK'
  <1> SUFFICES ASSUME TypeOK, [Next]_vars PROVE TypeOK'
    OBVIOUS
  <1>1. CASE new
    <2>1. \A k \in Ring : 0 \in Slot(k) BY StoreAssumption DEF Slot
    <2>2. \A k \in Ring : EmptySlots[k] \in [Slot(k) -> Holds(k)]
      BY DEF EmptySlots, Holds
    <2>3. EmptySlots = [k \in Ring |-> EmptySlots[k]] BY DEF EmptySlots
    <2> QED BY <1>1, <2>1, <2>2, <2>3 DEF new, TypeOK
  <1>2. ASSUME NEW u \in Uri, handle_create_artifact(u) PROVE TypeOK'
    BY <1>2 DEF handle_create_artifact, TypeOK
  <1>3. ASSUME NEW u \in Uri, handle_save_artifact(u) PROVE TypeOK'
    <2>1. disk' \subseteq upload_uris' /\ upload_uris' = upload_uris
      BY <1>3 DEF handle_save_artifact, Trimmed, handle_delete_artifact, TypeOK
    <2>2. CASE RingOf(u) \in Ring
      BY <1>3, <2>1, <2>2, RingStep DEF handle_save_artifact, TypeOK
    <2>3. CASE RingOf(u) \notin Ring
      BY <1>3, <2>1, <2>3 DEF handle_save_artifact, TakeSlot, TypeOK
    <2> QED BY <2>2, <2>3
  <1>4. CASE UNCHANGED vars BY <1>4 DEF vars, TypeOK, Slot
  <1> QED BY <1>1, <1>2, <1>3, <1>4 DEF Next

(* Slots are filled from the index on, wrapping round only when full.      *)
LEMMA FillStep == TypeOK /\ FillsInOrder /\ [Next]_vars => FillsInOrder'
  <1> SUFFICES ASSUME TypeOK, FillsInOrder, [Next]_vars PROVE FillsInOrder'
    OBVIOUS
  <1>1. CASE new
    BY <1>1 DEF new, EmptySlots, FillsInOrder, Slot
  <1>2. ASSUME NEW u \in Uri, handle_create_artifact(u) PROVE FillsInOrder'
    BY <1>2 DEF handle_create_artifact, FillsInOrder, Slot
  <1>3. ASSUME NEW u \in Uri, handle_save_artifact(u) PROVE FillsInOrder'
    <2>1. CASE RingOf(u) \notin Ring
      BY <1>3, <2>1 DEF handle_save_artifact, TakeSlot, FillsInOrder, Slot
    <2>2. CASE RingOf(u) \in Ring
      <3> DEFINE k == RingOf(u)
                 Full(s, l) == \A i \in Slot(l) : s[l][i] # Default
                 Front(s, x, l) ==
                   \A i \in Slot(l) : s[l][i] = Default <=> i >= x[l]
      <3>1. TakeSlot(u) BY <1>3 DEF handle_save_artifact
      <3>2. /\ slots'[k][index[k]] = u
            /\ \A i \in Slot(k) : i # index[k] => slots'[k][i] = slots[k][i]
            /\ index'[k] = (index[k] + 1) % Max[k]
            /\ \A l \in Ring : l # k => slots'[l] = slots[l] /\ index'[l] = index[l]
        BY <2>2, <3>1, RingStep
      <3>3. u # Default BY StoreAssumption
      <3>4. /\ Max[k] \in Nat \ {0}
            /\ index[k] \in 0..(Max[k] - 1)
            /\ \A i \in Slot(k) : i \in 0..(Max[k] - 1)
        BY <2>2, StoreAssumption DEF TypeOK, Slot
      <3>5. Full(slots, k) => Full(slots', k)
        BY <3>2, <3>3
      <3>6. ASSUME Front(slots, index, k), index[k] < Max[k] - 1
            PROVE  Front(slots', index', k)
        <4>1. index'[k] = index[k] + 1 BY <3>2, <3>4, <3>6, NextIndex
        <4>2. SUFFICES ASSUME NEW i \in Slot(k)
                       PROVE  slots'[k][i] = Default <=> i >= index[k] + 1
          BY <4>1
        <4>3. CASE i = index[k] BY <3>2, <3>3, <3>4, <4>3
        <4>4. CASE i # index[k]
          <5>1. slots'[k][i] = slots[k][i] BY <3>2, <4>4
          <5>2. slots[k][i] = Default <=> i >= index[k] BY <3>6
          <5>3. i \in Int /\ index[k] \in Int BY <3>4
          <5> QED BY <4>4, <5>1, <5>2, <5>3
        <4> QED BY <4>3, <4>4
      <3>7. ASSUME Front(slots, index, k), index[k] = Max[k] - 1
            PROVE  Full(slots', k)
        <4>1. SUFFICES ASSUME NEW i \in Slot(k) PROVE slots'[k][i] # Default
          OBVIOUS
        <4>2. CASE i = index[k] BY <3>2, <3>3, <4>2
        <4>3. CASE i # index[k]
          <5>1. i < index[k] BY <3>4, <3>7, <4>3
          <5>2. slots[k][i] # Default BY <3>4, <3>7, <5>1
          <5> QED BY <3>2, <4>3, <5>2
        <4> QED BY <4>2, <4>3
      <3>8. Full(slots', k) \/ Front(slots', index', k)
        <4>1. Full(slots, k) \/ Front(slots, index, k)
          BY <2>2 DEF FillsInOrder
        <4>2. index[k] < Max[k] - 1 \/ index[k] = Max[k] - 1 BY <3>4
        <4> QED BY <3>5, <3>6, <3>7, <4>1, <4>2
      <3>9. ASSUME NEW l \in Ring, l # k
            PROVE  Full(slots', l) \/ Front(slots', index', l)
        <4>1. slots'[l] = slots[l] /\ index'[l] = index[l] BY <3>2, <3>9
        <4>2. Full(slots, l) \/ Front(slots, index, l) BY DEF FillsInOrder
        <4> QED BY <4>1, <4>2
      <3> QED BY <3>8, <3>9 DEF FillsInOrder, Slot
    <2> QED BY <2>1, <2>2
  <1>4. CASE UNCHANGED vars BY <1>4 DEF vars, FillsInOrder, Slot
  <1> QED BY <1>1, <1>2, <1>3, <1>4 DEF Next

(* No file of a trimmed type is left without a slot.                       *)
LEMMA TrackStep == TypeOK /\ FilesTracked /\ [Next]_vars => FilesTracked'
  <1> SUFFICES ASSUME TypeOK, FilesTracked, [Next]_vars, "remove" \notin Failures,
                      NEW l \in Ring, NEW v \in disk', RingOf(v) = l
               PROVE  \E i \in Slot(l) : slots'[l][i] = v /\ v # Default
    BY DEF FilesTracked, Files, Entries, Slot
  <1>0. ASSUME v \in disk PROVE \E i \in Slot(l) : slots[l][i] = v /\ v # Default
    BY <1>0 DEF FilesTracked, Files, Entries
  <1>1. CASE new BY <1>1 DEF new
  <1>2. ASSUME NEW u \in Uri, handle_create_artifact(u)
        PROVE  \E i \in Slot(l) : slots'[l][i] = v /\ v # Default
    BY <1>0, <1>2 DEF handle_create_artifact
  <1>3. ASSUME NEW u \in Uri, handle_save_artifact(u)
        PROVE  \E i \in Slot(l) : slots'[l][i] = v /\ v # Default
    <2>1. TakeSlot(u) BY <1>3 DEF handle_save_artifact
    <2>2. PICK d \in Trimmed(u) : disk' \subseteq d \cup {u}
      BY <1>3 DEF handle_save_artifact
    <2>3. d \subseteq disk
      BY <2>2 DEF Trimmed, handle_delete_artifact
    <2>4. CASE v = u
      <3>1. u # Default BY StoreAssumption
      <3>2. slots'[l][index[l]] = u BY <2>1, <2>4, RingStep
      <3>3. index[l] \in Slot(l) BY DEF TypeOK
      <3> QED BY <2>4, <3>1, <3>2, <3>3
    <2>5. CASE v # u
      <3>1. v \in d BY <2>2, <2>5
      <3>2. PICK i \in Slot(l) : slots[l][i] = v /\ v # Default
        BY <1>0, <2>3, <3>1
      <3>3. CASE RingOf(u) # l
        <4>1. slots'[l] = slots[l]
          BY <2>1, <3>3, RingStep DEF TakeSlot
        <4> QED BY <3>2, <4>1
      <3>4. CASE RingOf(u) = l
        <4>1. i # index[l]
          <5>1. SUFFICES ASSUME i = index[l] PROVE FALSE
            OBVIOUS
          <5>2. d = disk \ {v}
            BY <2>2, <3>2, <3>4, <5>1 DEF Trimmed, handle_delete_artifact
          <5> QED BY <3>1, <5>2
        <4>2. slots'[l][i] = slots[l][i] BY <2>1, <3>4, <4>1, RingStep
        <4> QED BY <3>2, <4>2
      <3> QED BY <3>3, <3>4
    <2> QED BY <2>4, <2>5
  <1>4. CASE UNCHANGED vars BY <1>0, <1>4 DEF vars
  <1> QED BY <1>1, <1>2, <1>3, <1>4 DEF Next

(* Without failures, every entry has its file, and no two share one.       *)
LEMMA MatchStep ==
  TypeOK /\ RingMatchesDisk /\ FilesTracked' /\ [Next]_vars => RingMatchesDisk'
  <1> DEFINE Backed(s, d, l) == \A i \in Slot(l) : s[l][i] # Default => s[l][i] \in d
             Apart(s, l) == \A i, j \in Slot(l) :
                              i # j /\ s[l][i] # Default => s[l][i] # s[l][j]
  <1> SUFFICES ASSUME TypeOK, RingMatchesDisk, FilesTracked', TypeOK',
                      [Next]_vars, Failures = {}, NEW l \in Ring
               PROVE  Backed(slots', disk', l) /\ Apart(slots', l)
    <2>1. ASSUME TypeOK', NEW l \in Ring, Backed(slots', disk', l)
          PROVE  Entries(l)' \subseteq Files(l)'
      <3>1. SUFFICES ASSUME NEW i \in Slot(l), slots'[l][i] # Default
                     PROVE  slots'[l][i] \in disk' /\ RingOf(slots'[l][i]) = l
        BY DEF Entries, Files, Slot
      <3>2. slots'[l] \in [Slot(l) -> Holds(l)] BY <2>1 DEF TypeOK, Slot, Holds
      <3> QED BY <2>1, <3>1, <3>2 DEF Holds
    <2> QED BY <2>1, TypeStep DEF RingMatchesDisk, FilesTracked, Slot
  <1>0. Backed(slots, disk, l) /\ Apart(slots, l)
    BY DEF RingMatchesDisk, Files, Entries
  <1>1. CASE new BY <1>1 DEF new, EmptySlots
  <1>2. ASSUME NEW u \in Uri, handle_create_artifact(u)
        PROVE  Backed(slots', disk', l) /\ Apart(slots', l)
    BY <1>0, <1>2 DEF handle_create_artifact
  <1>3. ASSUME NEW u \in Uri, handle_save_artifact(u)
        PROVE  Backed(slots', disk', l) /\ Apart(slots', l)
    <2>1. TakeSlot(u) /\ u \notin disk BY <1>3 DEF handle_save_artifact
    <2>2. PICK d \in Trimmed(u) : disk' = d \cup {u}
      BY <1>3 DEF handle_save_artifact
    <2>3. CASE RingOf(u) # l
      <3>1. slots'[l] = slots[l] BY <2>1, <2>3, RingStep DEF TakeSlot
      <3>2. ASSUME NEW v \in disk, RingOf(v) = l PROVE v \in d
        <4>1. \A k \in Ring : slots[k][index[k]] \in Holds(k)
          BY DEF TypeOK
        <4>2. d = disk \/ (RingOf(u) \in Ring /\ d = disk \ {slots[RingOf(u)][index[RingOf(u)]]}
                             /\ slots[RingOf(u)][index[RingOf(u)]] # Default)
          BY <2>2 DEF Trimmed, handle_delete_artifact
        <4> QED BY <2>3, <3>2, <4>1, <4>2 DEF Holds
      <3>3. \A i \in Slot(l) : slots[l][i] # Default => RingOf(slots[l][i]) = l
        BY DEF TypeOK, Holds
      <3> QED BY <1>0, <2>2, <3>1, <3>2, <3>3
    <2>4. CASE RingOf(u) = l
      <3>1. /\ slots'[l][index[l]] = u
            /\ \A i \in Slot(l) : i # index[l] => slots'[l][i] = slots[l][i]
        BY <2>1, <2>4, RingStep
      <3>2. index[l] \in Slot(l) BY DEF TypeOK
      <3>3. \A i \in Slot(l) : slots[l][i] # u
        BY <1>0, <2>1, StoreAssumption
      <3>4. Apart(slots', l) BY <1>0, <3>1, <3>3
      <3>5. ASSUME NEW i \in Slot(l), i # index[l], slots[l][i] # Default
            PROVE  slots[l][i] \in d
        <4>1. slots[l][i] \in disk /\ slots[l][i] # slots[l][index[l]]
          BY <1>0, <3>2, <3>5
        <4>2. d = disk \/ d = disk \ {slots[l][index[l]]}
          BY <2>2, <2>4 DEF Trimmed, handle_delete_artifact
        <4> QED BY <4>1, <4>2
      <3>6. Backed(slots', disk', l) BY <2>2, <3>1, <3>5
      <3> QED BY <3>4, <3>6
    <2> QED BY <2>3, <2>4
  <1>4. CASE UNCHANGED vars BY <1>0, <1>4 DEF vars
  <1> QED BY <1>1, <1>2, <1>3, <1>4 DEF Next

(* The store's invariant: the rings hold uris of their own type and fill   *)
(* in order, every trimmed file has a slot, and without failures slots and *)
(* files agree.                                                            *)
THEOREM StoreInvariant == Spec => []StoreInv
  <1>1. Init => StoreInv
    <2> SUFFICES ASSUME Init PROVE StoreInv
      OBVIOUS
    <2>1. \A k \in Ring : 0 \in Slot(k) BY StoreAssumption DEF Slot
    <2>2. \A k \in Ring : EmptySlots[k] = [i \in Slot(k) |-> Default]
      BY DEF EmptySlots
    <2>3. TypeOK BY <2>1, <2>2 DEF Init, TypeOK, Holds, EmptySlots
    <2>4. FilesTracked BY DEF Init, FilesTracked, Files
    <2>5. FillsInOrder
      <3>1. SUFFICES ASSUME NEW k \in Ring, NEW i \in Slot(k)
                     PROVE  slots[k][i] = Default /\ i >= index[k]
        BY DEF FillsInOrder
      <3>2. slots[k][i] = Default BY <2>2 DEF Init
      <3>3. index[k] = 0 BY DEF Init
      <3>4. Max[k] \in Nat BY StoreAssumption
      <3> QED BY <3>2, <3>3, <3>4 DEF Slot
    <2>6. RingMatchesDisk
      <3>1. \A k \in Ring : \A i \in Slot(k) : slots[k][i] = Default
        BY <2>2 DEF Init
      <3>2. \A k \in Ring : Entries(k) = {} BY <3>1 DEF Entries
      <3>3. \A k \in Ring : Files(k) = {} BY DEF Init, Files
      <3> QED BY <3>1, <3>2, <3>3 DEF RingMatchesDisk
    <2> QED BY <2>3, <2>4, <2>5, <2>6 DEF StoreInv
  <1>2. StoreInv /\ [Next]_vars => StoreInv'
    BY TypeStep, FillStep, TrackStep, MatchStep DEF StoreInv
  <1> QED BY <1>1, <1>2, PTL DEF Spec

(* The disk never holds more artifacts of a trimmed type than configured,  *)
(* whatever writes fail and however often the store is restarted.          *)
THEOREM BoundedDisk == Spec => []DiskBounded
  <1>1. StoreInv => DiskBounded
    <2> SUFFICES ASSUME StoreInv, "remove" \notin Failures, NEW k \in Ring
                 PROVE  Cardinality(Files(k)) <= Max[k]
      BY DEF DiskBounded
    <2> DEFINE T == {slots[k][i] : i \in Slot(k)}
    <2>1. Max[k] \in Nat \ {0} BY StoreAssumption
    <2>2. IsFiniteSet(Slot(k)) /\ Cardinality(Slot(k)) = Max[k]
      <3>1. \A a, b \in Int :
              /\ IsFiniteSet(a..b)
              /\ Cardinality(a..b) = IF a > b THEN 0 ELSE b - a + 1
        BY FS_Interval
      <3>2. 0 \in Int /\ Max[k] - 1 \in Int BY <2>1
      <3>3. /\ IsFiniteSet(Slot(k))
            /\ Cardinality(Slot(k)) = IF 0 > Max[k] - 1 THEN 0 ELSE Max[k] - 1 - 0 + 1
        BY <3>1, <3>2 DEF Slot
      <3> QED BY <2>1, <3>3
    <2>3. slots[k] \in Surjection(Slot(k), T)
      BY DEF StoreInv, TypeOK, Surjection
    <2>4. IsFiniteSet(T) /\ Cardinality(T) <= Max[k]
      BY <2>2, <2>3, FS_Surjection
    <2>5. Files(k) \subseteq T
      BY DEF StoreInv, FilesTracked, Entries
    <2>6. Cardinality(Files(k)) <= Cardinality(T)
      BY <2>4, <2>5, FS_Subset
    <2>7. IsFiniteSet(Files(k)) BY <2>4, <2>5, FS_Subset
    <2>8. Cardinality(T) \in Nat /\ Cardinality(Files(k)) \in Nat
      BY <2>4, <2>7, FS_CardinalityType
    <2> QED BY <2>1, <2>4, <2>6, <2>8
  <1> QED BY <1>1, StoreInvariant, PTL

(* No artifact is deleted while its ring has a free slot.                  *)
THEOREM LateEviction == Spec => NoEarlyEviction
  <1> DEFINE Late ==
        \A u \in disk \ disk' :
          upload_uris \subseteq upload_uris'
            => \A i \in Slot(RingOf(u)) : slots[RingOf(u)][i] # Default
  <1>1. StoreInv /\ [Next]_vars => [Late]_vars
    <2> SUFFICES ASSUME StoreInv, Next, NEW u \in disk, u \notin disk',
                        upload_uris \subseteq upload_uris',
                        NEW i \in Slot(RingOf(u))
                 PROVE  slots[RingOf(u)][i] # Default
      OBVIOUS
    <2>1. ~new BY DEF new, StoreInv, TypeOK
    <2>2. \A v \in Uri : ~handle_create_artifact(v)
      BY DEF handle_create_artifact
    <2>3. PICK v \in Uri : handle_save_artifact(v) BY <2>1, <2>2 DEF Next
    <2> DEFINE k == RingOf(v)
    <2>4. /\ k \in Ring
          /\ slots[k][index[k]] # Default
          /\ u = slots[k][index[k]]
      BY <2>3 DEF handle_save_artifact, Trimmed, handle_delete_artifact
    <2>5. index[k] \in Slot(k) /\ slots[k][index[k]] \in Holds(k)
      BY <2>4 DEF StoreInv, TypeOK
    <2>6. RingOf(u) = k BY <2>4, <2>5 DEF Holds
    <2>7. index[k] >= index[k] BY <2>4 DEF StoreInv, TypeOK
    <2>8. \A j \in Slot(k) : slots[k][j] # Default
      BY <2>4, <2>5, <2>7 DEF StoreInv, FillsInOrder
    <2> QED BY <2>6, <2>8
  <1> QED BY <1>1, StoreInvariant, PTL DEF Spec, NoEarlyEviction

(* While the disk works, entries and files agree one to one.               *)
THEOREM MatchingRings == Spec => []RingMatchesDisk
  <1>1. StoreInv => RingMatchesDisk BY DEF StoreInv
  <1> QED BY <1>1, StoreInvariant, PTL

-----------------------------------------------------------------------------
(* The store implements ArtifactWindow.                                    *)

(* Reading on from a slot wraps around at most once.                       *)
LEMMA Wrap ==
  ASSUME NEW n \in Nat \ {0}, NEW x \in 0..(2 * n - 1)
  PROVE  x % n = IF x < n THEN x ELSE x - n
  <1>1. CASE x < n
    BY <1>1
  <1>2. CASE x >= n
    <2>1. x = n + (x - n) /\ x - n \in 0..(n - 1)
      BY <1>2
    <2>2. (x - n) % n = x - n
      BY <2>1
    <2> QED
      BY <1>2, <2>1, <2>2
  <1> QED
    BY <1>1, <1>2

(* A function on 1..m is a list of length m.                               *)
LEMMA ListOf ==
  ASSUME NEW S, NEW m \in Nat, NEW s \in [1..m -> S]
  PROVE  s \in Seq(S) /\ Len(s) = m
  OBVIOUS

(* What the listing of a ring's uris, oldest first, consists of.           *)
LEMMA ChronicleFacts ==
  ASSUME TypeOK, NEW k \in Ring
  PROVE  /\ Max[k] \in Nat \ {0} /\ index[k] \in 0..(Max[k] - 1)
         /\ Used(k) \in 0..Max[k]
         /\ Chronicle(k) \in Seq(Holds(k))
         /\ Len(Chronicle(k)) = Used(k)
         /\ \A i \in 1..Used(k) :
              Chronicle(k)[i] = slots[k][(Oldest(k) + i - 1) % Max[k]]
  <1>1. Max[k] \in Nat \ {0} /\ index[k] \in 0..(Max[k] - 1)
    BY StoreAssumption DEF TypeOK, Slot
  <1>2. Used(k) \in 0..Max[k] /\ Oldest(k) \in 0..(Max[k] - 1)
    BY <1>1 DEF Used, Oldest
  <1>3. \A i \in 1..Used(k) : (Oldest(k) + i - 1) % Max[k] \in Slot(k)
    BY <1>1, <1>2 DEF Slot
  <1>4. \A i \in 1..Used(k) : slots[k][(Oldest(k) + i - 1) % Max[k]] \in Holds(k)
    BY <1>3 DEF TypeOK
  <1> QED
    BY <1>1, <1>2, <1>4 DEF Chronicle

LEMMA InitWindow == Init => Window!Init
  <1> SUFFICES ASSUME Init, NEW k \in Ring PROVE Chronicle(k) = <<>>
    BY DEF Init, Window!Init
  <1>1. slots[k][index[k]] = Default /\ index[k] = 0
    BY StoreAssumption DEF Init, EmptySlots, Slot
  <1>2. Used(k) = 0
    BY <1>1 DEF Used, Filling
  <1> QED
    BY <1>2 DEF Chronicle

(* A save of a trimmed type while its ring fills.                          *)
LEMMA FillingChronicle ==
  ASSUME StoreInv, TypeOK', NEW u \in Uri, RingOf(u) \in Ring, TakeSlot(u),
         Filling(RingOf(u))
  PROVE  LET k == RingOf(u) IN
         Used(k) < Max[k] /\ Chronicle(k)' = Append(Chronicle(k), u)
  <1> DEFINE k == RingOf(u)
             n == Max[k]
             x == index[k]
  <1>1. n \in Nat \ {0} /\ x \in 0..(n - 1) /\ Used(k) = x /\ Oldest(k) = 0
    BY ChronicleFacts DEF StoreInv, Used, Oldest
  <1>2. \A i \in Slot(k) : slots[k][i] = Default <=> i >= x
    BY <1>1 DEF StoreInv, FillsInOrder, Filling, Slot
  <1>3. /\ slots'[k][x] = u
        /\ \A i \in Slot(k) : i # x => slots'[k][i] = slots[k][i]
        /\ index'[k] = (x + 1) % n
    BY RingStep DEF StoreInv
  <1>4. u # Default
    BY StoreAssumption
  <1>5. Used(k)' = x + 1 /\ Oldest(k)' = 0
    <2>1. CASE x < n - 1
      <3>1. index'[k] = x + 1 /\ x + 1 \in Slot(k)
        BY <1>1, <1>3, <2>1, NextIndex DEF Slot
      <3>2. slots'[k][x + 1] = Default
        BY <1>1, <1>2, <1>3, <3>1
      <3> QED
        BY <3>1, <3>2 DEF Used, Oldest, Filling
    <2>2. CASE x = n - 1
      <3>1. index'[k] = 0 /\ 0 \in Slot(k)
        BY <1>1, <1>3, <2>2, NextIndex DEF Slot
      <3>2. slots'[k][0] # Default
        BY <1>1, <1>2, <1>3, <1>4, <3>1
      <3> QED
        BY <1>1, <2>2, <3>1, <3>2 DEF Used, Oldest, Filling
    <2> QED
      BY <1>1, <2>1, <2>2
  <1>6. \A i \in 1..(x + 1) : (0 + i - 1) % n = i - 1 /\ i - 1 \in Slot(k)
    BY <1>1, Wrap DEF Slot
  <1>7. /\ Chronicle(k) \in Seq(Holds(k)) /\ Len(Chronicle(k)) = x
        /\ \A i \in 1..x : Chronicle(k)[i] = slots[k][i - 1]
    <2>1. \A i \in 1..x : i \in 1..(x + 1)
      BY <1>1
    <2> QED
      BY <1>1, <1>6, <2>1, ChronicleFacts DEF StoreInv
  <1>8. /\ Chronicle(k)' \in Seq(Holds(k)) /\ Len(Chronicle(k)') = x + 1
        /\ \A i \in 1..(x + 1) : Chronicle(k)'[i] = slots'[k][i - 1]
    <2>1. Chronicle(k)' = [i \in 1..(x + 1) |-> slots'[k][(0 + i - 1) % n]]
      BY <1>5 DEF Chronicle
    <2>2. \A i \in 1..(x + 1) : slots'[k][(0 + i - 1) % n] \in Holds(k)
      BY <1>6 DEF TypeOK
    <2>3. x + 1 \in Nat
      BY <1>1
    <2>4. Chronicle(k)' \in Seq(Holds(k)) /\ Len(Chronicle(k)') = x + 1
      <3>1. Chronicle(k)' \in [1..(x + 1) -> Holds(k)]
        BY <2>1, <2>2
      <3> QED
        BY <2>3, <3>1, ListOf
    <2>5. \A i \in 1..(x + 1) : Chronicle(k)'[i] = slots'[k][(0 + i - 1) % n]
      BY <2>1
    <2> QED
      BY <1>6, <2>4, <2>5
  <1>9. \A i \in 1..x : Chronicle(k)'[i] = Chronicle(k)[i]
    <2>1. \A i \in 1..x : i \in 1..(x + 1) /\ i - 1 # x /\ i - 1 \in Slot(k)
      BY <1>1, <1>6
    <2> QED
      BY <1>3, <1>7, <1>8, <2>1
  <1>10. Chronicle(k)'[x + 1] = u
    BY <1>1, <1>3, <1>8
  <1>11. u \in Holds(k)
    BY DEF Holds
  <1>12. Chronicle(k)' = Append(Chronicle(k), u)
    BY <1>1, <1>7, <1>8, <1>9, <1>10, <1>11
  <1> QED
    BY <1>1, <1>12

(* A save of a trimmed type when its ring is full.                         *)
LEMMA FullChronicle ==
  ASSUME StoreInv, TypeOK', NEW u \in Uri, RingOf(u) \in Ring, TakeSlot(u),
         ~Filling(RingOf(u))
  PROVE  LET k == RingOf(u) IN
         /\ Used(k) = Max[k]
         /\ Head(Chronicle(k)) = slots[k][index[k]]
         /\ Chronicle(k)' = Append(Tail(Chronicle(k)), u)
  <1> DEFINE k == RingOf(u)
             n == Max[k]
             x == index[k]
  <1>1. n \in Nat \ {0} /\ x \in 0..(n - 1) /\ Used(k) = n /\ Oldest(k) = x
    BY ChronicleFacts DEF StoreInv, Used, Oldest
  <1>2. \A i \in Slot(k) : slots[k][i] # Default
    BY <1>1 DEF StoreInv, FillsInOrder, Filling, Slot
  <1>3. /\ slots'[k][x] = u
        /\ \A i \in Slot(k) : i # x => slots'[k][i] = slots[k][i]
        /\ index'[k] = (x + 1) % n /\ index'[k] \in Slot(k)
    BY RingStep DEF StoreInv
  <1>4. Used(k)' = n /\ Oldest(k)' = (x + 1) % n
    <2>1. slots'[k][index'[k]] # Default
      BY <1>2, <1>3, StoreAssumption
    <2> QED
      BY <1>3, <2>1 DEF Used, Oldest, Filling
  <1>5. /\ Chronicle(k) \in Seq(Holds(k)) /\ Len(Chronicle(k)) = n
        /\ \A i \in 1..n : Chronicle(k)[i] = slots[k][(x + i - 1) % n]
    BY <1>1, ChronicleFacts DEF StoreInv
  <1>6. \A i \in 1..n : /\ (((x + 1) % n) + i - 1) % n = (x + i) % n
                        /\ (x + i) % n \in Slot(k)
                        /\ (x + i) % n = x <=> i = n
    <2> SUFFICES ASSUME NEW i \in 1..n
                 PROVE  /\ (((x + 1) % n) + i - 1) % n = (x + i) % n
                        /\ (x + i) % n \in Slot(k)
                        /\ (x + i) % n = x <=> i = n
      OBVIOUS
    <2>1. (x + i) % n = IF x + i < n THEN x + i ELSE x + i - n
      BY <1>1, Wrap
    <2>2. CASE x < n - 1
      <3>1. (x + 1) % n = x + 1
        BY <1>1, <2>2, NextIndex
      <3> QED
        BY <1>1, <2>1, <3>1 DEF Slot
    <2>3. CASE x = n - 1
      <3>1. (x + 1) % n = 0
        BY <1>1, <2>3, NextIndex
      <3>2. (0 + i - 1) % n = i - 1
        BY <1>1, Wrap
      <3> QED
        BY <1>1, <2>1, <2>3, <3>1, <3>2 DEF Slot
    <2> QED
      BY <1>1, <2>2, <2>3
  <1>7. /\ Chronicle(k)' \in Seq(Holds(k)) /\ Len(Chronicle(k)') = n
        /\ \A i \in 1..n : Chronicle(k)'[i] = slots'[k][(x + i) % n]
    <2>1. Chronicle(k)' = [i \in 1..n |-> slots'[k][(((x + 1) % n) + i - 1) % n]]
      BY <1>4 DEF Chronicle
    <2>2. \A i \in 1..n : slots'[k][(((x + 1) % n) + i - 1) % n] \in Holds(k)
      BY <1>6 DEF TypeOK
    <2>3. Chronicle(k)' \in Seq(Holds(k)) /\ Len(Chronicle(k)') = n
      <3>1. Chronicle(k)' \in [1..n -> Holds(k)]
        BY <2>1, <2>2
      <3> QED
        BY <1>1, <3>1, ListOf
    <2>4. \A i \in 1..n : Chronicle(k)'[i] = slots'[k][(((x + 1) % n) + i - 1) % n]
      BY <2>1
    <2> QED
      BY <1>6, <2>3, <2>4
  <1>8. \A i \in 1..(n - 1) : Chronicle(k)'[i] = Chronicle(k)[i + 1]
    <2> SUFFICES ASSUME NEW i \in 1..(n - 1)
                 PROVE  Chronicle(k)'[i] = Chronicle(k)[i + 1]
      OBVIOUS
    <2>1. i \in 1..n /\ i # n /\ i + 1 \in 1..n /\ x + (i + 1) - 1 = x + i
      BY <1>1
    <2>2. Chronicle(k)'[i] = slots'[k][(x + i) % n]
      BY <1>7, <2>1
    <2>3. (x + i) % n \in Slot(k) /\ (x + i) % n # x
      BY <1>6, <2>1
    <2>4. Chronicle(k)[i + 1] = slots[k][(x + (i + 1) - 1) % n]
      BY <1>5, <2>1
    <2>5. slots'[k][(x + i) % n] = slots[k][(x + i) % n]
      BY <1>3, <2>3
    <2> QED
      BY <2>1, <2>2, <2>4, <2>5
  <1>9. Chronicle(k)'[n] = u
    <2>1. n \in 1..n
      BY <1>1
    <2>2. (x + n) % n = x
      BY <1>6, <2>1
    <2>3. Chronicle(k)'[n] = slots'[k][(x + n) % n]
      BY <1>7, <2>1
    <2> QED
      BY <1>3, <2>2, <2>3
  <1>10. Head(Chronicle(k)) = slots[k][x]
    <2>1. (x + 1 - 1) % n = x /\ 1 \in 1..n
      BY <1>1
    <2>2. Chronicle(k)[1] = slots[k][x]
      BY <1>5, <2>1
    <2> QED
      BY <1>1, <1>5, <2>2
  <1>11. u \in Holds(k)
    BY DEF Holds
  <1>12. Chronicle(k)' = Append(Tail(Chronicle(k)), u)
    <2> DEFINE t == Tail(Chronicle(k))
    <2>1. /\ t \in Seq(Holds(k)) /\ Len(t) = n - 1
          /\ \A i \in 1..(n - 1) : t[i] = Chronicle(k)[i + 1]
      BY <1>1, <1>5
    <2> HIDE DEF t
    <2>2. /\ Append(t, u) \in Seq(Holds(k)) /\ Len(Append(t, u)) = n
          /\ \A i \in 1..(n - 1) : Append(t, u)[i] = t[i]
          /\ Append(t, u)[n] = u
      BY <1>1, <1>11, <2>1
    <2>3. \A i \in 1..n : Chronicle(k)'[i] = Append(t, u)[i]
      BY <1>1, <1>8, <1>9, <2>1, <2>2
    <2> QED
      BY <1>7, <2>2, <2>3 DEF t
  <1> QED
    BY <1>1, <1>10, <1>12

(* A ring that is not touched is read as before.                           *)
LEMMA SameChronicle ==
  ASSUME NEW l \in Ring, slots'[l] = slots[l], index'[l] = index[l]
  PROVE  Chronicle(l)' = Chronicle(l)
  BY DEF Chronicle, Used, Oldest, Filling

(* The state of the abstract store the rings stand for.                    *)
Kept == [k \in Ring |-> Chronicle(k)]

LEMMA SaveView ==
  ASSUME "remove" \notin Failures, StoreInv, TypeOK', NEW u \in Uri,
         handle_save_artifact(u)
  PROVE  Window!Next
  <1> DEFINE k == RingOf(u)
  <1>1. TakeSlot(u) /\ u \notin disk
    BY DEF handle_save_artifact
  <1>2. PICK d \in Trimmed(u) :
          disk' = d \cup {u} \/ ("write" \in Failures /\ disk' = d)
    BY DEF handle_save_artifact
  <1>3. CASE k \notin Ring
    <2>1. d = disk /\ slots' = slots /\ index' = index
      BY <1>1, <1>2, <1>3 DEF Trimmed, TakeSlot
    <2>2. \A l \in Ring : Chronicle(l)' = Chronicle(l)
      BY <2>1, SameChronicle
    <2> QED
      BY <1>1, <1>2, <1>3, <2>1, <2>2
      DEF Window!Next, Window!SaveKept, Window!Written
  <1>4. CASE k \in Ring
    <2>1. \A l \in Ring : l # k => Chronicle(l)' = Chronicle(l)
      BY <1>1, <1>4, RingStep, SameChronicle DEF StoreInv
    <2>2. Kept[k] = Chronicle(k) /\ Len(Chronicle(k)) = Used(k)
      BY <1>4, ChronicleFacts DEF StoreInv, Kept
    <2>3. CASE Filling(k)
      <3>1. Used(k) < Max[k] /\ Chronicle(k)' = Append(Chronicle(k), u)
        BY <1>1, <1>4, <2>3, FillingChronicle
      <3>2. d = disk
        BY <1>2, <2>3 DEF Trimmed, Filling
      <3>3. Kept' = [Kept EXCEPT ![k] = Append(@, u)]
        BY <2>1, <3>1 DEF Kept
      <3>4. Window!SaveWithin(u)
        BY <1>1, <1>2, <1>4, <2>2, <3>1, <3>2, <3>3
        DEF Window!SaveWithin, Window!Written, Kept
      <3> QED
        BY <3>4 DEF Window!Next
    <2>4. CASE ~Filling(k)
      <3>1. /\ Used(k) = Max[k]
            /\ Head(Chronicle(k)) = slots[k][index[k]]
            /\ Chronicle(k)' = Append(Tail(Chronicle(k)), u)
        BY <1>1, <1>4, <2>4, FullChronicle
      <3>2. d = disk \ {slots[k][index[k]]}
        BY <1>2, <1>4, <2>4 DEF Trimmed, handle_delete_artifact, Filling
      <3>3. Kept' = [Kept EXCEPT ![k] = Append(Tail(@), u)]
        BY <2>1, <3>1 DEF Kept
      <3>4. Window!SaveReplacing(u)
        BY <1>1, <1>2, <1>4, <2>2, <3>1, <3>2, <3>3
        DEF Window!SaveReplacing, Window!Written, Kept
      <3> QED
        BY <3>4 DEF Window!Next
    <2> QED
      BY <2>3, <2>4
  <1> QED
    BY <1>3, <1>4

(* Where removing files works, the store implements ArtifactWindow: what a *)
(* save deletes is the file named by the oldest of the last Max saves of   *)
(* its type, failed ones included, and no other file disappears.           *)
THEOREM LatestKept ==
  ASSUME "remove" \notin Failures
  PROVE  Spec => KeepsLatest
  <1>1. StoreInv /\ StoreInv' /\ [Next]_vars => [Window!Next]_(Window!vars)
    <2> SUFFICES ASSUME StoreInv, TypeOK', [Next]_vars
                 PROVE  Window!Next \/ UNCHANGED Window!vars
      BY DEF StoreInv
    <2>1. CASE new
      <3> SUFFICES ASSUME NEW k \in Ring PROVE Chronicle(k)' = <<>>
        BY <2>1 DEF new, Window!Next, Window!Restart
      <3>1. slots'[k][index'[k]] = Default /\ index'[k] = 0
        BY <2>1, StoreAssumption DEF new, EmptySlots, Slot
      <3>2. Used(k)' = 0
        BY <3>1 DEF Used, Filling
      <3> QED
        BY <3>2 DEF Chronicle
    <2>2. ASSUME slots' = slots, index' = index, disk' = disk
          PROVE  UNCHANGED Window!vars
      <3>1. \A l \in Ring : Chronicle(l)' = Chronicle(l)
        BY <2>2, SameChronicle
      <3> QED
        BY <2>2, <3>1 DEF Window!vars
    <2>3. ASSUME NEW u \in Uri, handle_create_artifact(u)
          PROVE  UNCHANGED Window!vars
      BY <2>2, <2>3 DEF handle_create_artifact
    <2>4. ASSUME NEW u \in Uri, handle_save_artifact(u) PROVE Window!Next
      BY <2>4, SaveView
    <2>5. CASE UNCHANGED vars
      BY <2>2, <2>5 DEF vars
    <2> QED
      BY <2>1, <2>3, <2>4, <2>5 DEF Next
  <1> QED
    BY <1>1, InitWindow, StoreInvariant, PTL DEF Spec, KeepsLatest, Window!Spec

(* A saved artifact stays until Max further saves of its type were begun,  *)
(* counted from the save that took its oldest slot; on a disk that does    *)
(* not fail it has one slot only, so nothing is deleted before its ring    *)
(* has turned once.                                                        *)
THEOREM TermServed == Spec => FullTerm
  <1> DEFINE Served ==
        \A u \in disk \ disk' :
          upload_uris \subseteq upload_uris' =>
            LET s == Chronicle(RingOf(u)) IN
              /\ Len(s) = Max[RingOf(u)] /\ s[1] = u
              /\ (\E i \in 2..Len(s) : s[i] = u) => Failures # {}
  <1>1. StoreInv /\ [Next]_vars => [Served]_vars
    <2> SUFFICES ASSUME StoreInv, Next, NEW u \in disk, u \notin disk',
                        upload_uris \subseteq upload_uris'
                 PROVE  LET s == Chronicle(RingOf(u)) IN
                          /\ Len(s) = Max[RingOf(u)] /\ s[1] = u
                          /\ (\E i \in 2..Len(s) : s[i] = u) => Failures # {}
      OBVIOUS
    <2>1. ~new
      BY DEF new, StoreInv, TypeOK
    <2>2. \A v \in Uri : ~handle_create_artifact(v)
      BY DEF handle_create_artifact
    <2>3. PICK v \in Uri : handle_save_artifact(v)
      BY <2>1, <2>2 DEF Next
    <2> DEFINE k == RingOf(v)
               n == Max[k]
               x == index[k]
    <2>4. k \in Ring /\ slots[k][x] # Default /\ u = slots[k][x]
      BY <2>3 DEF handle_save_artifact, Trimmed, handle_delete_artifact
    <2>5. x \in Slot(k) /\ slots[k][x] \in Holds(k)
      BY <2>4 DEF StoreInv, TypeOK
    <2>6. RingOf(u) = k
      BY <2>4, <2>5 DEF Holds
    <2>7. /\ n \in Nat \ {0} /\ x \in 0..(n - 1)
          /\ Len(Chronicle(k)) = n
          /\ \A i \in 1..n : Chronicle(k)[i] = slots[k][(x + i - 1) % n]
      <3>1. Used(k) = n /\ Oldest(k) = x
        BY <2>4 DEF Used, Oldest, Filling
      <3> QED
        BY <2>4, <3>1, ChronicleFacts DEF StoreInv
    <2>8. n \in Nat \ {0} /\ x \in 0..(n - 1)
      BY <2>7
    <2> HIDE DEF n, x, k
    <2>9. Chronicle(k)[1] = u
      <3>1. 1 \in 1..n /\ x + 1 - 1 = x /\ x \in 0..(2 * n - 1)
        BY <2>8
      <3>2. x % n = x
        BY <2>8, <3>1, Wrap
      <3> QED
        BY <2>4, <2>7, <3>1, <3>2
    <2>10. ASSUME NEW i \in 2..n, Chronicle(k)[i] = u PROVE Failures # {}
      <3> DEFINE j == x + i - 1
      <3>1. i \in 1..n /\ j \in 0..(2 * n - 1) /\ j # x /\ j # x + n
        BY <2>8
      <3>2. j % n = IF j < n THEN j ELSE j - n
        BY <2>8, <3>1, Wrap
      <3>3. j % n \in 0..(n - 1) /\ j % n # x
        BY <2>8, <3>1, <3>2
      <3>4. Chronicle(k)[i] = slots[k][j % n]
        BY <2>7, <3>1
      <3>5. j % n \in Slot(k)
        BY <3>3 DEF Slot, n
      <3> HIDE DEF j
      <3> QED
        BY <2>4, <2>5, <2>10, <3>3, <3>4, <3>5 DEF StoreInv, RingMatchesDisk
    <2> QED
      BY <2>6, <2>7, <2>9, <2>10 DEF n
  <1> QED
    BY <1>1, StoreInvariant, PTL DEF Spec, FullTerm
=============================================================================
