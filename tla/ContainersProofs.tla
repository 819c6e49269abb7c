-------------------------- MODULE ContainersProofs --------------------------
(***************************************************************************)
(* The containers, for all their constants: the lookup table counts its    *)
(* nodes and implements NodeMap, the array leads to every item at its      *)
(* index, the list implements ItemList from both ends, and the hash array  *)
(* implements KeyedList.                                                   *)
(*                                                                         *)
(* Neither the bounds of the table's count nor its being the number of     *)
(* slots in use is inductive alone: a removal keeps count from going below *)
(* zero only because the slot it frees had been counted.  That nothing but *)
(* a collision is refused needs both, and every id in its slot.  The array *)
(* needs that the chain of its unused entries is the rest of the array,    *)
(* behind every entry that was ever used.  The list needs a sequence that  *)
(* both ends and all links agree on; what the walks along the links meet   *)
(* is then proved by induction on their length.  The hash array needs,     *)
(* beside the nodes of every chain, the places of their buckets in the     *)
(* list, which rise along the chain.  That a bucket has one hash then      *)
(* keeps the chains apart: what a step does to one is not seen in another. *)
(***************************************************************************)
EXTENDS MCContainers, TLAPS, FiniteSetTheorems, SequenceTheorems,
        WellFoundedInduction

(* The lookup table.                                                       *)

(* A slot is free, or has an item whose id belongs there.                  *)
Placed == \A s \in Slot :
    IF slot[s].item = Null THEN slot[s] = Empty
    ELSE slot[s].id \in Id /\ Hash(slot[s].id) = s

(* The inductive invariant of the table: types, every id in its slot, and  *)
(* the count is exact.                                                     *)
IInv == TypeOK /\ Placed /\ CountExact

(* Every id hashes to a slot of the array.                                 *)
LEMMA HashIsSlot ==
    ASSUME NEW id \in Id
    PROVE  Hash(id) \in Slot
<1>1. id \in Nat /\ Size \in Nat \ {0}
  BY LookupTableAssumption
<1>2. \A a \in Nat, b \in Nat \ {0} : a % b \in 0 .. b - 1
  OBVIOUS
<1> QED
  BY <1>1, <1>2 DEF Hash, Slot

(* The slots in use are finitely many.                                     *)
LEMMA OccupiedFinite == IsFiniteSet(Occupied)
<1>1. IsFiniteSet(Slot)
  BY LookupTableAssumption, FS_Interval DEF Slot
<1> QED
  BY <1>1, FS_Subset DEF Occupied

(* An id that is found fills its slot.                                     *)
LEMMA FoundOccupies ==
    ASSUME NEW id \in Id, Lookup(id) # Null
    PROVE  Hash(id) \in Occupied /\ slot[Hash(id)].id = id
  BY HashIsSlot DEF Lookup, Occupied

-----------------------------------------------------------------------------

(* lu_table_create establishes the invariant.                              *)
LEMMA InitTable == Init => IInv
<1> SUFFICES ASSUME Init PROVE IInv
  OBVIOUS
<1>1. TypeOK
  BY LookupTableAssumption DEF Init, TypeOK, Empty
<1>2. Occupied = {}
  BY DEF Init, Occupied, Empty
<1> QED
  BY <1>1, <1>2, FS_EmptySet DEF Init, IInv, CountExact, Placed, Empty

(* lu_add_item puts one more slot to use, or does nothing.                 *)
LEMMA AddTable ==
    ASSUME IInv, NEW id \in Id, NEW node \in Node, Add(id, node)
    PROVE  IInv'
<1> DEFINE h == Hash(id)
<1>1. h \in Slot
  BY HashIsSlot
<1>2. CASE answer' = Added /\ slot[h].item = Null /\ count < Size
           /\ slot' = [slot EXCEPT ![h] = [id |-> id, item |-> node]]
           /\ count' = count + 1
  <2>1. TypeOK'
    <3>1. count' \in 0 .. Size
      BY <1>2, LookupTableAssumption DEF IInv, TypeOK
    <3> QED
      BY <1>1, <1>2, <3>1 DEF IInv, TypeOK
  <2>2. Occupied' = Occupied \cup {h} /\ h \notin Occupied
    <3>1. slot'[h].item # Null
      BY <1>1, <1>2, LookupTableAssumption DEF IInv, TypeOK
    <3>2. \A s \in Slot : s # h => slot'[s] = slot[s]
      BY <1>2 DEF IInv, TypeOK
    <3> QED
      BY <1>1, <1>2, <3>1, <3>2 DEF Occupied
  <2>3. Cardinality(Occupied') = Cardinality(Occupied) + 1
    BY <2>2, OccupiedFinite, FS_AddElement
  <2>4. Placed'
    <3>1. id \in Id /\ node # Null
      BY LookupTableAssumption
    <3>2. slot'[h] = [id |-> id, item |-> node]
      BY <1>1, <1>2 DEF IInv, TypeOK
    <3>3. \A s \in Slot : s # h => slot'[s] = slot[s]
      BY <1>2 DEF IInv, TypeOK
    <3> QED
      BY <3>1, <3>2, <3>3 DEF IInv, Placed, Hash
  <2> QED
    BY <1>2, <2>1, <2>3, <2>4 DEF IInv, CountExact
<1>3. CASE answer' = Refused /\ UNCHANGED <<slot, count>>
  BY <1>3 DEF IInv, TypeOK, CountExact, Occupied, Placed, Hash
<1> QED
  BY <1>2, <1>3 DEF Add

(* lu_rem_item of a node that is there frees one slot.                     *)
LEMMA RemoveTable ==
    ASSUME IInv, NEW id \in Id, Remove(id)
    PROVE  IInv'
<1> DEFINE h == Hash(id)
<1>1. h \in Slot /\ h \in Occupied
  BY HashIsSlot, FoundOccupies DEF Remove
<1>2. /\ slot' = [slot EXCEPT ![h] = Empty]
      /\ count' = count - 1
      /\ answer' = answer
  BY DEF Remove
<1>3. Occupied' = Occupied \ {h}
  <2>1. slot'[h].item = Null
    BY <1>1, <1>2 DEF IInv, TypeOK, Empty
  <2>2. \A s \in Slot : s # h => slot'[s] = slot[s]
    BY <1>2 DEF IInv, TypeOK
  <2> QED
    BY <1>1, <2>1, <2>2 DEF Occupied
<1>4. Cardinality(Occupied') = Cardinality(Occupied) - 1
  BY <1>1, <1>3, OccupiedFinite, FS_RemoveElement
<1>5. Cardinality(Occupied') \in Nat
  <2>1. IsFiniteSet(Occupied')
    BY <1>3, OccupiedFinite, FS_RemoveElement
  <2> QED
    BY <2>1, FS_CardinalityType
<1>6. count' = Cardinality(Occupied')
  BY <1>2, <1>4 DEF IInv, CountExact
<1>7. count' \in 0 .. Size
  BY <1>2, <1>5, <1>6, LookupTableAssumption DEF IInv, TypeOK
<1>8. slot' \in [Slot -> [id : Id \cup {NoId}, item : Node \cup {Null}]]
  BY <1>2 DEF IInv, TypeOK, Empty
<1>9. Placed'
  <2>1. slot'[h] = Empty /\ Empty.item = Null
    BY <1>1, <1>2 DEF IInv, TypeOK, Empty
  <2>2. \A s \in Slot : s # h => slot'[s] = slot[s]
    BY <1>2 DEF IInv, TypeOK
  <2> QED
    BY <2>1, <2>2 DEF IInv, Placed, Hash
<1> QED
  BY <1>2, <1>6, <1>7, <1>8, <1>9 DEF IInv, TypeOK, CountExact

(* lu_find answers with a node of the table or with NULL.                  *)
LEMMA FindTable ==
    ASSUME IInv, NEW id \in Id, Find(id)
    PROVE  IInv'
<1>1. Lookup(id) \in Node \cup {Null}
  BY HashIsSlot DEF IInv, TypeOK, Lookup
<1> QED
  BY <1>1 DEF Find, IInv, TypeOK, CountExact, Occupied, Placed, Hash

(* count is within its bounds and is the number of slots in use, whatever  *)
(* the sequence of operations.                                             *)
THEOREM TableInvariant == Spec => []IInv
<1>1. IInv /\ [Next]_vars => IInv'
  <2> SUFFICES ASSUME IInv, [Next]_vars PROVE IInv'
    OBVIOUS
  <2>1. CASE Next
    BY <2>1, AddTable, RemoveTable, FindTable DEF Next
  <2>2. CASE UNCHANGED vars
    BY <2>2 DEF vars, IInv, TypeOK, CountExact, Occupied, Placed, Hash
  <2> QED
    BY <2>1, <2>2
<1> QED
  BY <1>1, InitTable, PTL DEF Spec

(* count is the number of slots in use: lu_add_item refuses a free slot    *)
(* only when there is none.                                                *)
THEOREM CountExactHolds == Spec => []CountExact
<1>1. IInv => CountExact
  BY DEF IInv
<1> QED
  BY <1>1, TableInvariant, PTL

-----------------------------------------------------------------------------

(* What lu_find would answer after a slot has been overwritten: only the   *)
(* ids of that slot notice.                                                *)
LEMMA OtherSlots ==
    ASSUME TypeOK, NEW id \in Id, NEW e,
           slot' = [slot EXCEPT ![Hash(id)] = e],
           NEW other \in Id, Hash(other) # Hash(id)
    PROVE  Lookup(other)' = Lookup(other)
  BY HashIsSlot DEF TypeOK, Lookup

(* count leaves room as long as a slot is free, and no free slot has the   *)
(* uint16 -1.                                                              *)
LEMMA FreeSlotAccepts ==
    ASSUME IInv, NEW s \in Slot, slot[s].item = Null
    PROVE  count < Size /\ slot[s].id # Uint16Minus1
<1>1. s \notin Occupied /\ Occupied \subseteq Slot
  BY DEF Occupied
<1>2. IsFiniteSet(Slot) /\ Cardinality(Slot) = Size
  BY LookupTableAssumption, FS_Interval DEF Slot
<1>3. Cardinality(Occupied) \in Nat
  BY OccupiedFinite, FS_CardinalityType
<1>4. Cardinality(Occupied \cup {s}) = Cardinality(Occupied) + 1
  BY <1>1, OccupiedFinite, FS_AddElement
<1>5. Cardinality(Occupied \cup {s}) =< Cardinality(Slot)
  BY <1>1, <1>2, FS_Subset
<1>6. count < Size
  BY <1>2, <1>3, <1>4, <1>5, LookupTableAssumption DEF IInv, CountExact
<1> QED
  BY <1>6 DEF IInv, Placed, Empty, NoId, Uint16Minus1

(* The map has a node of an id's place exactly if the id's slot is in use. *)
LEMMA TakenIsInUse ==
    ASSUME IInv, NEW id \in Id
    PROVE  Map!Taken(id) <=> slot[Hash(id)].item # Null
<1>1. ASSUME slot[Hash(id)].item # Null
      PROVE  \E other \in Id : Hash(other) = Hash(id) /\ Lookup(other) # Null
  <2>1. slot[Hash(id)].id \in Id /\ Hash(slot[Hash(id)].id) = Hash(id)
    BY <1>1, HashIsSlot DEF IInv, Placed
  <2>2. Lookup(slot[Hash(id)].id) # Null
    BY <1>1, <2>1 DEF Lookup
  <2> QED
    BY <2>1, <2>2
<1>2. ASSUME NEW other \in Id, Hash(other) = Hash(id), Lookup(other) # Null
      PROVE  slot[Hash(id)].item # Null
  BY <1>2 DEF Lookup
<1> QED
  BY <1>1, <1>2 DEF Map!Taken

(* An addition that is accepted gives the id its node and nothing to the   *)
(* ids that collide with it; it is refused if one of those has a node.     *)
LEMMA AddMaps ==
    ASSUME IInv, NEW id \in Id, NEW node \in Node, Add(id, node)
    PROVE  Map!Add(id, node)
<1>1. CASE answer' = Added /\ slot[Hash(id)].item = Null
           /\ slot' = [slot EXCEPT ![Hash(id)] = [id |-> id, item |-> node]]
  <2>1. slot'[Hash(id)] = [id |-> id, item |-> node]
    BY <1>1, HashIsSlot DEF IInv, TypeOK
  <2>2. Lookup(id)' = node
    BY <1>1, <2>1 DEF Lookup, Hash
  <2>3. ASSUME NEW other \in Id, other # id
        PROVE  Lookup(other)' = Lookup(other)
    <3>1. CASE Hash(other) = Hash(id)
      <4>1. Lookup(other) = Null
        BY <1>1, <3>1 DEF Lookup
      <4>2. Lookup(other)' = Null
        BY <2>1, <2>3, <3>1 DEF Lookup, Hash
      <4> QED
        BY <4>1, <4>2
    <3>2. CASE Hash(other) # Hash(id)
      BY <1>1, <3>2, OtherSlots DEF IInv
    <3> QED
      BY <3>1, <3>2
  <2>4. [i \in Id |-> Lookup(i)]' =
           [[i \in Id |-> Lookup(i)] EXCEPT ![id] = node]
    BY <2>2, <2>3
  <2>5. ~Map!Taken(id)
    BY <1>1, TakenIsInUse
  <2> QED
    BY <1>1, <2>4, <2>5 DEF Map!Add, Map!Added, Added
<1>2. CASE answer' = Refused /\ UNCHANGED <<slot, count>>
           /\ slot[Hash(id)].item # Null
  <2>1. Map!Taken(id)
    BY <1>2, TakenIsInUse
  <2>2. [i \in Id |-> Lookup(i)]' = [i \in Id |-> Lookup(i)]
    BY <1>2 DEF Lookup, Hash
  <2> QED
    BY <1>2, <2>1, <2>2 DEF Map!Add, Map!Refused, Refused
<1>3. slot[Hash(id)].item = Null => /\ count < Size
                                    /\ slot[Hash(id)].id # Uint16Minus1
  BY HashIsSlot, FreeSlotAccepts
<1> QED
  BY <1>1, <1>2, <1>3 DEF Add

(* A removal takes the id's node and no other.                             *)
LEMMA RemoveMaps ==
    ASSUME TypeOK, NEW id \in Id, Remove(id)
    PROVE  Map!Remove(id)
<1>1. Lookup(id) # Null /\ slot' = [slot EXCEPT ![Hash(id)] = Empty]
  BY DEF Remove
<1>2. slot[Hash(id)].id = id
  BY <1>1, FoundOccupies
<1>3. slot'[Hash(id)] = Empty
  BY <1>1, HashIsSlot DEF TypeOK
<1>4. ASSUME NEW other \in Id, Hash(other) = Hash(id)
      PROVE  Lookup(other)' = Null
  BY <1>3, <1>4 DEF Lookup, Hash, Empty
<1>5. ASSUME NEW other \in Id, other # id
      PROVE  Lookup(other)' = Lookup(other)
  <2>1. CASE Hash(other) = Hash(id)
    <3>1. Lookup(other) = Null
      BY <1>2, <1>5, <2>1 DEF Lookup
    <3> QED
      BY <1>4, <2>1, <3>1
  <2>2. CASE Hash(other) # Hash(id)
    BY <1>1, <2>2, OtherSlots
  <2> QED
    BY <2>1, <2>2
<1>6. [i \in Id |-> Lookup(i)]' = [[i \in Id |-> Lookup(i)] EXCEPT ![id] = Null]
  BY <1>4, <1>5
<1> QED
  BY <1>1, <1>6 DEF Remove, Map!Remove

(* lu_table, whatever its size, is a partial map from node ids to nodes    *)
(* that refuses an addition exactly when a colliding id is stored: every   *)
(* operation is one of the map's.                                          *)
THEOREM TableImplementsMap == Spec => ImplementsMap
<1>1. Init => Map!Init
  <2> SUFFICES ASSUME Init PROVE Map!Init
    OBVIOUS
  <2>1. ASSUME NEW id \in Id PROVE Lookup(id) = Null
    BY HashIsSlot DEF Init, Lookup, Empty
  <2> QED
    BY <2>1 DEF Init, Map!Init
<1>2. IInv /\ [Next]_vars => [Map!Next]_(Map!vars)
  <2> SUFFICES ASSUME IInv, [Next]_vars PROVE [Map!Next]_(Map!vars)
    OBVIOUS
  <2>1. ASSUME NEW id \in Id, NEW node \in Node, Add(id, node)
        PROVE  Map!Next
    BY <2>1, AddMaps DEF Map!Next
  <2>2. ASSUME NEW id \in Id, Remove(id)
        PROVE  Map!Next
    BY <2>2, RemoveMaps DEF Map!Next, IInv
  <2>3. ASSUME NEW id \in Id, Find(id)
        PROVE  Map!Next
    <3>1. Map!Find(id)
      BY <2>3 DEF Find, Map!Find, Lookup, Hash
    <3> QED
      BY <3>1 DEF Map!Next
  <2>4. CASE UNCHANGED vars
    BY <2>4 DEF vars, Map!vars, Lookup, Hash
  <2> QED
    BY <2>1, <2>2, <2>3, <2>4 DEF Next
<1> QED
  BY <1>1, <1>2, TableInvariant, PTL DEF Spec, ImplementsMap, Map!Spec

-----------------------------------------------------------------------------
(* Induction over the natural numbers, and sequences.                      *)

(* A set of natural numbers has a least one.                               *)
LEMMA LeastNumber ==
    ASSUME NEW T, T \subseteq Nat, T # {}
    PROVE  \E m \in T : \A n \in T : m =< n
<1> DEFINE R == OpToRel(<, Nat)
<1>1. IsWellFoundedOn(R, Nat)
  BY NatLessThanWellFounded, Zenon
<1> HIDE DEF R
<1>2. PICK m \in T : \A n \in T : ~(<<n, m>> \in R)
  BY <1>1, WFMin, Zenon
<1>3. ASSUME NEW n \in T PROVE m =< n
  <2>1. m \in Nat /\ n \in Nat
    OBVIOUS
  <2>2. CASE n < m
    <3>1. <<n, m>> \in Nat \X Nat /\ <<n, m>>[1] < <<n, m>>[2]
      BY <2>1, <2>2
    <3>2. <<n, m>> \in R
      BY <3>1 DEF OpToRel, R
    <3> QED
      BY <1>2, <3>2
  <2> QED
    BY <2>1, <2>2
<1> QED
  BY <1>3

(* A set with 0 and the successors of its members has them all.            *)
LEMMA Induction ==
    ASSUME NEW T, 0 \in T, \A n \in Nat : n \in T => n + 1 \in T
    PROVE  Nat \subseteq T
<1> SUFFICES ASSUME Nat \ T # {} PROVE FALSE
  OBVIOUS
<1>1. PICK m \in Nat \ T : \A n \in Nat \ T : m =< n
  BY LeastNumber
<1>2. m # 0 /\ m - 1 \in Nat /\ (m - 1) + 1 = m /\ ~(m =< m - 1)
  BY <1>1
<1>3. m - 1 \in T
  BY <1>1, <1>2
<1> QED
  BY <1>1, <1>2, <1>3

(* t is s with x at place k, and t is s without its place k.               *)
IsInserted(t, s, k, x) ==
    /\ Len(t) = Len(s) + 1
    /\ \A i \in 1 .. Len(s) + 1 :
          t[i] = IF i < k THEN s[i] ELSE IF i = k THEN x ELSE s[i - 1]

IsRemoved(t, s, k) ==
    /\ Len(t) = Len(s) - 1
    /\ \A i \in 1 .. Len(s) - 1 : t[i] = IF i < k THEN s[i] ELSE s[i + 1]

(* What RemoveAt and InsertAt put together.                                *)
LEMMA CutsOut ==
    ASSUME NEW S, NEW s \in Seq(S), NEW k \in 1 .. Len(s)
    PROVE  LET t == SubSeq(s, 1, k - 1) \o SubSeq(s, k + 1, Len(s))
           IN  t \in Seq(S) /\ IsRemoved(t, s, k)
<1> DEFINE left == SubSeq(s, 1, k - 1)
           right == SubSeq(s, k + 1, Len(s))
<1>1. Len(s) \in Nat /\ DOMAIN s = 1 .. Len(s)
  BY LenProperties
<1>2. /\ left \in Seq(S) /\ Len(left) = k - 1
      /\ \A i \in 1 .. k - 1 : left[i] = s[i]
  BY <1>1, SubSeqProperties
<1>3. /\ right \in Seq(S) /\ Len(right) = Len(s) - k
      /\ \A i \in 1 .. Len(s) - k : right[i] = s[k + i]
  <2>1. k + 1 \in Int /\ Len(s) \in Int /\ \A i \in k + 1 .. Len(s) : s[i] \in S
    BY <1>1, ElementOfSeq
  <2>2. /\ right \in Seq(S)
        /\ Len(right) = IF k + 1 <= Len(s) THEN Len(s) - (k + 1) + 1 ELSE 0
        /\ \A i \in 1 .. Len(s) - (k + 1) + 1 : right[i] = s[(k + 1) + i - 1]
    BY <2>1, SubSeqProperties
  <2>3. Len(s) - (k + 1) + 1 = Len(s) - k
    BY <1>1
  <2> HIDE DEF right
  <2>4. Len(right) = Len(s) - k
    <3>1. Len(right) = IF k + 1 <= Len(s) THEN Len(s) - (k + 1) + 1 ELSE 0
      BY <2>2
    <3>2. k \in Int /\ k <= Len(s) /\ Len(s) \in Int
      BY <1>1
    <3> QED
      BY <3>1, <3>2
  <2>5. ASSUME NEW i \in 1 .. Len(s) - k PROVE right[i] = s[k + i]
    <3>1. right[i] = s[(k + 1) + i - 1]
      BY <2>2, <2>3, Zenon
    <3>2. (k + 1) + i - 1 = k + i
      OBVIOUS
    <3> QED
      BY <3>1, <3>2
  <2> QED
    BY <2>2, <2>4, <2>5
<1> DEFINE t == left \o right
<1> SUFFICES t \in Seq(S) /\ IsRemoved(t, s, k)
  OBVIOUS
<1> HIDE DEF left, right
<1>4. /\ t \in Seq(S) /\ Len(t) = Len(left) + Len(right)
      /\ \A i \in 1 .. Len(left) + Len(right) :
            t[i] = IF i <= Len(left) THEN left[i] ELSE right[i - Len(left)]
  BY <1>2, <1>3, ConcatProperties
<1> HIDE DEF t
<1>5. Len(t) = Len(s) - 1
  BY <1>1, <1>2, <1>3, <1>4
<1>6. ASSUME NEW i \in 1 .. Len(s) - 1
      PROVE  t[i] = IF i < k THEN s[i] ELSE s[i + 1]
  <2>1. t[i] = IF i <= k - 1 THEN left[i] ELSE right[i - (k - 1)]
    BY <1>1, <1>2, <1>3, <1>4
  <2>2. CASE i < k
    <3>1. i \in 1 .. k - 1
      BY <1>1, <2>2
    <3> QED
      BY <1>1, <1>2, <2>1, <2>2, <3>1
  <2>3. CASE ~(i < k)
    <3>1. /\ i - (k - 1) \in 1 .. Len(s) - k /\ k + (i - (k - 1)) = i + 1
          /\ ~(i <= k - 1)
      BY <1>1, <2>3
    <3>2. right[i - (k - 1)] = s[k + (i - (k - 1))]
      BY <1>3, <3>1
    <3> QED
      BY <2>1, <2>3, <3>1, <3>2
  <2> QED
    BY <2>2, <2>3
<1> QED
  BY <1>4, <1>5, <1>6 DEF IsRemoved

(* What InsertAt puts together: a sequence with x at place k.              *)
LEMMA PutsIn ==
    ASSUME NEW S, NEW s \in Seq(S), NEW k \in 1 .. Len(s) + 1, NEW x \in S
    PROVE  LET t == SubSeq(s, 1, k - 1) \o <<x>> \o SubSeq(s, k, Len(s))
           IN  t \in Seq(S) /\ IsInserted(t, s, k, x)
<1> DEFINE left == SubSeq(s, 1, k - 1)
           right == SubSeq(s, k, Len(s))
           mid == <<x>>
<1>1. Len(s) \in Nat /\ DOMAIN s = 1 .. Len(s)
  BY LenProperties
<1>2. /\ left \in Seq(S) /\ Len(left) = k - 1
      /\ \A i \in 1 .. k - 1 : left[i] = s[i]
  BY <1>1, SubSeqProperties
<1>3. /\ right \in Seq(S) /\ Len(right) = Len(s) - k + 1
      /\ \A i \in 1 .. Len(s) - k + 1 : right[i] = s[k + i - 1]
  <2>1. k - 1 \in 0 .. Len(s) /\ (k - 1) + 1 = k /\ Len(s) \in k - 1 .. Len(s)
    BY <1>1
  <2>2. /\ right \in Seq(S) /\ Len(right) = IF k <= Len(s) THEN Len(s) - k + 1 ELSE 0
        /\ \A i \in 1 .. Len(s) - k + 1 : right[i] = s[k + i - 1]
    BY <1>1, <2>1, SubSeqProperties
  <2> HIDE DEF right
  <2> QED
    BY <1>1, <2>2
<1>4. mid \in Seq(S) /\ Len(mid) = 1 /\ mid[1] = x
  OBVIOUS
<1> DEFINE m == left \o mid
           t == m \o right
<1> SUFFICES t \in Seq(S) /\ IsInserted(t, s, k, x)
  OBVIOUS
<1> HIDE DEF left, right, mid
<1>5. /\ m \in Seq(S) /\ Len(m) = k
      /\ \A i \in 1 .. k : m[i] = IF i < k THEN s[i] ELSE x
  <2>1. /\ m \in Seq(S) /\ Len(m) = Len(left) + Len(mid)
        /\ \A i \in 1 .. Len(left) + Len(mid) :
              m[i] = IF i <= Len(left) THEN left[i] ELSE mid[i - Len(left)]
    BY <1>2, <1>4, ConcatProperties
  <2> HIDE DEF m
  <2>2. Len(m) = k
    BY <1>1, <1>2, <1>4, <2>1
  <2>3. ASSUME NEW i \in 1 .. k PROVE m[i] = IF i < k THEN s[i] ELSE x
    <3>1. CASE i < k
      <4>1. i \in 1 .. k - 1 /\ i <= k - 1
        BY <3>1
      <4> QED
        BY <1>2, <1>4, <2>1, <3>1, <4>1
    <3>2. CASE i = k
      <4>1. i - (k - 1) = 1 /\ ~(i <= k - 1) /\ ~(i < k)
        BY <3>2
      <4> QED
        BY <1>2, <1>4, <2>1, <4>1
    <3> QED
      BY <3>1, <3>2
  <2> QED
    BY <2>1, <2>2, <2>3
<1> HIDE DEF m
<1>6. /\ t \in Seq(S) /\ Len(t) = Len(m) + Len(right)
      /\ \A i \in 1 .. Len(m) + Len(right) :
            t[i] = IF i <= Len(m) THEN m[i] ELSE right[i - Len(m)]
  BY <1>3, <1>5, ConcatProperties
<1> HIDE DEF t
<1>7. Len(t) = Len(s) + 1
  BY <1>1, <1>3, <1>5, <1>6
<1>8. ASSUME NEW i \in 1 .. Len(s) + 1
      PROVE  t[i] = IF i < k THEN s[i] ELSE IF i = k THEN x ELSE s[i - 1]
  <2>1. t[i] = IF i <= k THEN m[i] ELSE right[i - k]
    BY <1>1, <1>3, <1>5, <1>6
  <2>2. CASE i <= k
    <3>1. i \in 1 .. k
      BY <2>2
    <3> QED
      BY <1>5, <2>1, <2>2, <3>1
  <2>3. CASE ~(i <= k)
    <3>1. /\ i - k \in 1 .. Len(s) - k + 1 /\ k + (i - k) - 1 = i - 1
          /\ ~(i < k) /\ i # k
      BY <1>1, <2>3
    <3>2. right[i - k] = s[k + (i - k) - 1]
      BY <1>3, <3>1
    <3> QED
      BY <2>1, <2>3, <3>1, <3>2
  <2> QED
    BY <2>2, <2>3
<1> QED
  BY <1>6, <1>7, <1>8 DEF IsInserted

(* The two ends.                                                           *)
LEMMA PutsInFirst ==
    ASSUME NEW S, NEW s \in Seq(S), NEW x \in S
    PROVE  <<x>> \o s \in Seq(S) /\ IsInserted(<<x>> \o s, s, 1, x)
<1> DEFINE mid == <<x>>
           t == mid \o s
<1>1. mid \in Seq(S) /\ Len(mid) = 1 /\ mid[1] = x /\ Len(s) \in Nat
  BY LenProperties
<1> HIDE DEF mid
<1>2. /\ t \in Seq(S) /\ Len(t) = Len(mid) + Len(s)
      /\ \A i \in 1 .. Len(mid) + Len(s) :
            t[i] = IF i <= Len(mid) THEN mid[i] ELSE s[i - Len(mid)]
  BY <1>1, ConcatProperties
<1> HIDE DEF t
<1>3. Len(t) = Len(s) + 1
  BY <1>1, <1>2
<1>4. ASSUME NEW i \in 1 .. Len(s) + 1
      PROVE  t[i] = IF i < 1 THEN s[i] ELSE IF i = 1 THEN x ELSE s[i - 1]
  <2>1. t[i] = IF i <= 1 THEN mid[i] ELSE s[i - 1]
    BY <1>1, <1>2
  <2> QED
    BY <1>1, <2>1
<1>5. t \in Seq(S) /\ IsInserted(t, s, 1, x)
  BY <1>2, <1>3, <1>4 DEF IsInserted
<1> QED
  BY <1>5 DEF t, mid

(* An item appended is an item at the last place.                          *)
LEMMA PutsInLast ==
    ASSUME NEW S, NEW s \in Seq(S), NEW x \in S
    PROVE  Append(s, x) \in Seq(S) /\ IsInserted(Append(s, x), s, Len(s) + 1, x)
<1> DEFINE t == Append(s, x)
<1>1. /\ t \in Seq(S) /\ Len(t) = Len(s) + 1 /\ Len(s) \in Nat
      /\ \A i \in 1 .. Len(s) : t[i] = s[i]
      /\ t[Len(s) + 1] = x
  BY AppendProperties, LenProperties
<1> HIDE DEF t
<1>2. IsInserted(t, s, Len(s) + 1, x)
  BY <1>1 DEF IsInserted
<1> QED
  BY <1>1, <1>2 DEF t

(* Cardinality is the same in every instance.                              *)
LEMMA SameCardinality ==
    ASSUME NEW S
    PROVE  /\ A!Cardinality(S) = Cardinality(S)
           /\ L!Cardinality(S) = Cardinality(S)
BY Zenon DEF A!Cardinality, L!Cardinality, Cardinality

-----------------------------------------------------------------------------
(* The array.                                                              *)

(* The types of the array. The entries go from 0 on, one for each place of *)
(* the allocated memory.                                                   *)
ArrayType ==
    /\ arrayList \in Seq(ArrayItem) /\ arrayCount \in Nat
    /\ A!Length \in Nat /\ DOMAIN entry = A!Entries(A!Length)
    /\ entry = [i \in DOMAIN entry |-> [item |-> entry[i].item, next |-> entry[i].next]]
    /\ \A i \in DOMAIN entry : entry[i].item \in ArrayItem \cup {Null}
    /\ index \in [ArrayItem -> Int]
    /\ undefined \in BOOLEAN /\ reused \in BOOLEAN

(* The places in use, each of which holds an item.                         *)
Used == {i \in DOMAIN entry : entry[i].item # Null}

(* The list and the array hold the same items, each once.                  *)
SameItems ==
    /\ \A i, j \in DOMAIN arrayList : arrayList[i] = arrayList[j] => i = j
    /\ \A i \in DOMAIN arrayList :
          index[arrayList[i]] \in DOMAIN entry
          /\ entry[index[arrayList[i]]].item = arrayList[i]
    /\ \A i \in Used : /\ entry[i].item \in A!ToSet(arrayList)
                       /\ index[entry[i].item] = i
    /\ arrayCount = Len(arrayList) /\ arrayCount = Cardinality(Used)

(* The chain of unused entries is the rest of the array.                   *)
ChainIsRest ==
    /\ firstFree \in 0 .. A!Length
    /\ \A i \in firstFree .. A!Length - 1 : entry[i] = A!Unused(i + 1)
    /\ ~reused => /\ A!Length > 0
                  /\ 0 .. firstFree - 1 = Used
                  /\ outside \subseteq {2 * n : n \in 1 .. A!Length \div 2}

(* The inductive invariant of the array: until it is written behind its    *)
(* end, the list and the array hold the same items and the unused entries  *)
(* are chained.                                                            *)
ArrayInv ==
    /\ ArrayType
    /\ undefined => reused
    /\ ~undefined => SameItems /\ ChainIsRest

-----------------------------------------------------------------------------

(* As many entries as the array is long.                                   *)
LEMMA LengthIs == A!Length = Cardinality(DOMAIN entry)
BY SameCardinality DEF A!Length

(* v_array_init: one unused entry.                                         *)
LEMMA InitArray == A!Init => ArrayInv
<1> SUFFICES ASSUME A!Init PROVE ArrayInv
  OBVIOUS
<1>1. /\ arrayList = <<>> /\ arrayCount = 0 /\ firstFree = 0
      /\ entry = [i \in A!Entries(1) |-> A!Unused(i + 1)]
      /\ index = [x \in ArrayItem |-> A!NoIndex]
      /\ outside = {} /\ reused = FALSE /\ undefined = FALSE
  BY DEF A!Init
<1>2. A!Entries(1) = {0} /\ DOMAIN entry = {0} /\ entry[0] = A!Unused(1)
  BY <1>1 DEF A!Entries
<1>3. A!Length = 1
  BY <1>2, FS_Singleton, LengthIs
<1>4. Used = {}
  BY <1>2 DEF Used, A!Unused
<1>5. ArrayType
  <2>1. A!NoIndex \in Int
    BY DEF A!NoIndex
  <2> QED
    BY <1>1, <1>2, <1>3, <2>1, EmptySeq DEF ArrayType, A!Unused
<1>6. SameItems
  <2>1. DOMAIN arrayList = {} /\ Len(arrayList) = 0
    BY <1>1
  <2> QED
    BY <1>1, <1>4, <2>1, FS_EmptySet DEF SameItems
<1>7. ChainIsRest
  BY <1>1, <1>2, <1>3, <1>4 DEF ChainIsRest
<1> QED
  BY <1>1, <1>5, <1>6, <1>7 DEF ArrayInv

(* No more entries are in use than there are.                              *)
LEMMA UsedFinite ==
    ASSUME ArrayType
    PROVE  /\ IsFiniteSet(Used) /\ IsFiniteSet(DOMAIN entry)
           /\ Cardinality(Used) \in Nat /\ Cardinality(Used) =< A!Length
           /\ Cardinality(Used) = A!Length => Used = DOMAIN entry
<1>1. IsFiniteSet(DOMAIN entry)
  <2>1. A!Length - 1 \in Int /\ DOMAIN entry = 0 .. A!Length - 1
    BY DEF ArrayType, A!Entries
  <2> HIDE DEF A!Length
  <2> QED
    BY <2>1, FS_Interval
<1>2. Used \subseteq DOMAIN entry
  BY DEF Used
<1> QED
  BY <1>1, <1>2, LengthIs, FS_Subset, FS_CardinalityType

(* The array after it was lengthened, if it had to be: what was in it      *)
(* still is, and from the index of the next addition on it is unused.      *)
LEMMA Lengthened ==
    ASSUME ArrayInv, ~undefined,
           NEW n, n = IF A!IsFull THEN 2 * A!Length ELSE A!Length
    PROVE  /\ n \in Nat /\ DOMAIN A!Grown = 0 .. n - 1 /\ A!Length =< n
           /\ \A i \in DOMAIN entry : A!Grown[i] = entry[i]
           /\ A!FreeIndex \in 0 .. n
           /\ \A i \in A!FreeIndex .. n - 1 : A!Grown[i] = A!Unused(i + 1)
           /\ \A i \in DOMAIN A!Grown \ DOMAIN entry : A!Grown[i].item = Null
           /\ A!IsFull => A!FreeIndex = A!Length
           /\ ~reused => A!FreeIndex = firstFree /\ A!FreeIndex < n
<1>1. /\ A!Length \in Nat /\ DOMAIN entry = 0 .. A!Length - 1
      /\ arrayCount \in Nat /\ arrayCount = Cardinality(Used)
      /\ Used \subseteq 0 .. A!Length - 1 /\ reused \in BOOLEAN
  BY DEF ArrayInv, ArrayType, SameItems, Used, A!Entries
<1>2. /\ Cardinality(Used) =< A!Length
      /\ Cardinality(Used) = A!Length => Used = DOMAIN entry
  BY UsedFinite DEF ArrayInv
<1>3. ChainIsRest
  BY DEF ArrayInv
<1>4. CASE A!IsFull
  <2>1. Used = 0 .. A!Length - 1
    BY <1>1, <1>2, <1>4 DEF A!IsFull
  <2>2. n = 2 * A!Length /\ n \in Nat /\ A!Length =< n /\ A!FreeIndex = A!Length
    BY <1>1, <1>4 DEF A!FreeIndex
  <2>3. A!Grown = [i \in 0 .. n - 1 |->
                      IF i < A!Length THEN entry[i] ELSE A!Unused(i + 1)]
    BY <1>4, <2>2 DEF A!Grown, A!Entries
  <2> HIDE DEF A!Length
  <2>4. /\ DOMAIN A!Grown = 0 .. n - 1
        /\ \A i \in DOMAIN entry : A!Grown[i] = entry[i]
        /\ \A i \in A!Length .. n - 1 : A!Grown[i] = A!Unused(i + 1)
        /\ \A i \in DOMAIN A!Grown \ DOMAIN entry : A!Grown[i] = A!Unused(i + 1)
    BY <1>1, <2>2, <2>3
  <2>5. ASSUME NEW i \in DOMAIN A!Grown \ DOMAIN entry
        PROVE  A!Grown[i].item = Null
    <3>1. A!Grown[i] = A!Unused(i + 1)
      BY <2>4
    <3> QED
      BY <3>1 DEF A!Unused
  <2>6. ~reused => A!Length = firstFree /\ A!Length < n
    <3> SUFFICES ASSUME ~reused PROVE A!Length = firstFree /\ A!Length < n
      OBVIOUS
    <3>1. 0 .. firstFree - 1 = 0 .. A!Length - 1 /\ firstFree \in 0 .. A!Length
          /\ A!Length > 0
      BY <1>3, <2>1 DEF ChainIsRest
    <3>2. CASE firstFree # A!Length
      <4>1. A!Length - 1 \in 0 .. A!Length - 1 /\ A!Length - 1 \notin 0 .. firstFree - 1
        BY <1>1, <3>1, <3>2
      <4> QED
        BY <3>1, <4>1
    <3> QED
      BY <1>1, <2>2, <3>1, <3>2
  <2> QED
    BY <1>1, <2>2, <2>4, <2>5, <2>6
<1>5. CASE ~A!IsFull
  <2>1. n = A!Length /\ A!Grown = entry /\ A!FreeIndex = firstFree
    BY <1>5 DEF A!Grown, A!FreeIndex
  <2>2. Cardinality(Used) < A!Length
    BY <1>1, <1>2, <1>5 DEF A!IsFull
  <2>3. ~reused => firstFree < A!Length
    <3> SUFFICES ASSUME ~reused, firstFree = A!Length PROVE FALSE
      BY <1>1, <1>3 DEF ChainIsRest
    <3>1. Used = DOMAIN entry
      BY <1>1, <1>3 DEF ChainIsRest
    <3>2. Cardinality(Used) = A!Length
      BY <3>1, LengthIs
    <3> QED
      BY <1>1, <2>2, <3>2
  <2> QED
    BY <1>1, <1>3, <2>1, <2>3 DEF ChainIsRest
<1> QED
  BY <1>4, <1>5

(* v_array_add_item.                                                       *)
LEMMA AddArray ==
    ASSUME ArrayInv, NEW x \in ArrayItem, A!AddItem(x)
    PROVE  ArrayInv'
<1> DEFINE n == IF A!IsFull THEN 2 * A!Length ELSE A!Length
           i == A!FreeIndex
           grown == A!Grown
<1>1. /\ ~undefined /\ x \notin A!ToSet(arrayList)
      /\ arrayList' = Append(arrayList, x) /\ arrayCount' = arrayCount + 1
      /\ index' = [index EXCEPT ![x] = i] /\ reused' = reused
      /\ outside' = IF A!IsFull THEN outside \cup {2 * A!Length} ELSE outside
      /\ \/ /\ i \in DOMAIN grown /\ entry' = [grown EXCEPT ![i].item = x]
            /\ firstFree' = grown[i].next /\ undefined' = undefined
         \/ /\ i \notin DOMAIN grown
            /\ undefined' = TRUE /\ entry' = grown /\ firstFree' = i
  BY DEF A!AddItem
<1>2. /\ n \in Nat /\ DOMAIN grown = 0 .. n - 1 /\ A!Length =< n
      /\ \A j \in DOMAIN entry : grown[j] = entry[j]
      /\ i \in 0 .. n
      /\ \A j \in i .. n - 1 : grown[j] = A!Unused(j + 1)
      /\ \A j \in DOMAIN grown \ DOMAIN entry : grown[j].item = Null
      /\ A!IsFull => i = A!Length
      /\ ~reused => i = firstFree /\ i < n
  <2> HIDE DEF n
  <2>1. n = IF A!IsFull THEN 2 * A!Length ELSE A!Length
    BY DEF n
  <2> QED
    BY <1>1, <2>1, Lengthened
<1>3. /\ ArrayType /\ SameItems /\ ChainIsRest /\ A!Length \in Nat
      /\ DOMAIN entry = 0 .. A!Length - 1
  BY <1>1 DEF ArrayInv, ArrayType, A!Entries
<1>4. A!IsFull => n = 2 * A!Length
  OBVIOUS
<1>5. ~A!IsFull => n = A!Length
  OBVIOUS
<1> HIDE DEF n, i, grown
<1>6. /\ arrayList \in Seq(ArrayItem) /\ Len(arrayList) \in Nat
      /\ DOMAIN arrayList = 1 .. Len(arrayList)
      /\ arrayList' \in Seq(ArrayItem) /\ Len(arrayList') = Len(arrayList) + 1
      /\ DOMAIN arrayList' = 1 .. Len(arrayList')
      /\ \A j \in DOMAIN arrayList : arrayList'[j] = arrayList[j]
      /\ arrayList'[Len(arrayList) + 1] = x
      /\ \A j \in DOMAIN arrayList : arrayList[j] # x
  <2>1. arrayList \in Seq(ArrayItem)
    BY <1>3 DEF ArrayType
  <2>2. \A j \in DOMAIN arrayList : arrayList[j] # x
    BY <1>1 DEF A!ToSet
  <2> QED
    BY <1>1, <2>1, <2>2, AppendProperties, LenProperties
<1>7. /\ DOMAIN entry' = 0 .. n - 1 /\ (A!Length)' = n
  <2>1. DOMAIN entry' = 0 .. n - 1
    BY <1>1, <1>2
  <2>2. Cardinality(0 .. n - 1) = n
    <3>1. n \in Nat /\ 0 \in Int /\ n - 1 \in Int
      BY <1>2
    <3> HIDE DEF n
    <3>2. Cardinality(0 .. n - 1) = IF 0 > n - 1 THEN 0 ELSE n - 1 - 0 + 1
      BY <3>1, FS_Interval
    <3> QED
      BY <3>1, <3>2
  <2>3. (A!Length)' = Cardinality(DOMAIN entry')
    BY SameCardinality DEF A!Length
  <2> QED
    BY <2>1, <2>2, <2>3
<1>8. /\ grown = [j \in DOMAIN grown |->
                     [item |-> grown[j].item, next |-> grown[j].next]]
      /\ \A j \in DOMAIN grown : grown[j].item \in ArrayItem \cup {Null}
  <2>1. CASE A!IsFull
    <3>1. grown = [j \in 0 .. n - 1 |->
                      IF j < A!Length THEN entry[j] ELSE A!Unused(j + 1)]
      BY <1>4, <2>1 DEF A!Grown, A!Entries, grown
    <3>2. ASSUME NEW j \in 0 .. n - 1
          PROVE  /\ grown[j] = [item |-> grown[j].item, next |-> grown[j].next]
                 /\ grown[j].item \in ArrayItem \cup {Null}
      <4>1. CASE j < A!Length
        <5>1. j \in DOMAIN entry /\ grown[j] = entry[j]
          BY <1>3, <3>1, <4>1
        <5> QED
          BY <1>3, <5>1 DEF ArrayType
      <4>2. CASE ~(j < A!Length)
        <5>1. grown[j] = A!Unused(j + 1)
          BY <3>1, <4>2
        <5> QED
          BY <5>1 DEF A!Unused
      <4> QED
        BY <4>1, <4>2
    <3> QED
      BY <3>1, <3>2
  <2>2. CASE ~A!IsFull
    BY <1>3, <2>2 DEF ArrayType, A!Grown, grown
  <2> QED
    BY <2>1, <2>2
<1>9. index' \in [ArrayItem -> Int] /\ index'[x] = i
      /\ \A y \in ArrayItem : y # x => index'[y] = index[y]
  BY <1>1, <1>2, <1>3 DEF ArrayType
<1>10. ASSUME i \in DOMAIN grown
       PROVE  /\ entry' = [grown EXCEPT ![i].item = x]
              /\ firstFree' = i + 1 /\ undefined' = undefined
              /\ grown[i] = A!Unused(i + 1)
              /\ entry'[i] = [item |-> x, next |-> i + 1]
              /\ \A j \in DOMAIN grown : j # i => entry'[j] = grown[j]
  <2>1. i \in i .. n - 1
    BY <1>2, <1>10
  <2>2. grown[i] = A!Unused(i + 1)
    BY <1>2, <2>1
  <2> QED
    BY <1>1, <1>10, <2>2 DEF A!Unused
<1>11. ArrayType'
  <2>1. /\ entry' = [j \in DOMAIN entry' |->
                        [item |-> entry'[j].item, next |-> entry'[j].next]]
        /\ \A j \in DOMAIN entry' : entry'[j].item \in ArrayItem \cup {Null}
    <3>1. CASE i \in DOMAIN grown
      <4>1. entry' = [j \in DOMAIN grown |-> entry'[j]]
        BY <1>10, <3>1
      <4>2. ASSUME NEW j \in DOMAIN grown
            PROVE  /\ entry'[j] = [item |-> entry'[j].item, next |-> entry'[j].next]
                   /\ entry'[j].item \in ArrayItem \cup {Null}
        <5>1. CASE j = i
          BY <1>10, <3>1, <5>1
        <5>2. CASE j # i
          BY <1>8, <1>10, <3>1, <5>2
        <5> QED
          BY <5>1, <5>2
      <4> QED
        BY <4>1, <4>2
    <3>2. CASE i \notin DOMAIN grown
      BY <1>1, <1>8, <3>2
    <3> QED
      BY <3>1, <3>2
  <2>2. undefined' \in BOOLEAN
    BY <1>1, <1>3 DEF ArrayType
  <2>3. DOMAIN entry' = A!Entries((A!Length)') /\ (A!Length)' \in Nat
    BY <1>2, <1>7 DEF A!Entries
  <2>4. arrayCount' \in Nat /\ reused' \in BOOLEAN
    BY <1>1, <1>3 DEF ArrayType
  <2> QED
    BY <1>6, <1>9, <2>1, <2>2, <2>3, <2>4 DEF ArrayType
<1>12. CASE i \notin DOMAIN grown
  <2>1. i = n /\ undefined'
    BY <1>1, <1>2, <1>12
  <2>2. reused
    BY <1>2, <2>1
  <2> QED
    BY <1>1, <1>11, <2>1, <2>2 DEF ArrayInv
<1>13. CASE i \in DOMAIN grown
  <2>1. Used' = Used \cup {i} /\ i \notin Used
    <3>1. x # Null
      BY ContainersAssumption
    <3>2. Used' = {j \in DOMAIN grown : entry'[j].item # Null}
      BY <1>2, <1>7 DEF Used
    <3>3. Used \subseteq DOMAIN grown /\ \A j \in Used : grown[j].item # Null
      BY <1>2, <1>3 DEF Used
    <3>4. \A j \in DOMAIN grown : grown[j].item # Null => j \in Used
      BY <1>2 DEF Used
    <3>5. grown[i].item = Null
      BY <1>10, <1>13 DEF A!Unused
    <3> QED
      BY <1>10, <1>13, <3>1, <3>2, <3>3, <3>4, <3>5
  <2>2. Cardinality(Used') = Cardinality(Used) + 1
    BY <1>3, <2>1, UsedFinite, FS_AddElement
  <2>3. \A j \in DOMAIN entry : j # i => entry'[j] = entry[j]
    BY <1>2, <1>3, <1>10, <1>13
  <2>4. DOMAIN entry \subseteq DOMAIN entry' /\ i \in DOMAIN entry'
    BY <1>2, <1>3, <1>7, <1>13
  <2>5. SameItems'
    <3>1. \A j, k \in DOMAIN arrayList' : arrayList'[j] = arrayList'[k] => j = k
      BY <1>3, <1>6 DEF SameItems
    <3>2. ASSUME NEW j \in DOMAIN arrayList'
          PROVE  /\ index'[arrayList'[j]] \in DOMAIN entry'
                 /\ entry'[index'[arrayList'[j]]].item = arrayList'[j]
      <4>1. CASE j \in DOMAIN arrayList
        <5> DEFINE y == arrayList[j]
        <5>1. arrayList'[j] = y /\ y \in ArrayItem /\ y # x
          BY <1>6, <4>1
        <5>2. index'[y] = index[y] /\ index[y] \in DOMAIN entry
              /\ entry[index[y]].item = y
          BY <1>3, <1>9, <4>1, <5>1 DEF SameItems
        <5> HIDE DEF y
        <5>3. index[y] \in Used
          BY <5>1, <5>2, ContainersAssumption DEF Used
        <5>4. index[y] # i
          BY <2>1, <5>3
        <5> QED
          BY <2>3, <2>4, <5>1, <5>2, <5>4
      <4>2. CASE j \notin DOMAIN arrayList
        <5>1. arrayList'[j] = x
          BY <1>6, <4>2
        <5> QED
          BY <1>9, <1>10, <1>13, <2>4, <5>1
      <4> QED
        BY <4>1, <4>2
    <3>3. ASSUME NEW j \in Used'
          PROVE  /\ entry'[j].item \in A!ToSet(arrayList')
                 /\ index'[entry'[j].item] = j
      <4>1. CASE j = i
        <5>1. entry'[j].item = x
          BY <1>10, <1>13, <4>1
        <5>2. x \in A!ToSet(arrayList')
          BY <1>6 DEF A!ToSet
        <5> QED
          BY <1>9, <4>1, <5>1, <5>2
      <4>2. CASE j # i
        <5>1. j \in Used
          BY <2>1, <4>2
        <5>2. entry'[j] = entry[j] /\ entry[j].item \in A!ToSet(arrayList)
              /\ index[entry[j].item] = j
          BY <1>3, <2>3, <4>2, <5>1 DEF Used, SameItems
        <5>3. PICK k \in DOMAIN arrayList : entry[j].item = arrayList[k]
          BY <5>2 DEF A!ToSet
        <5>4. entry[j].item \in ArrayItem /\ entry[j].item # x
          BY <1>6, <5>3
        <5>5. entry[j].item = arrayList'[k] /\ k \in DOMAIN arrayList'
          BY <1>6, <5>3
        <5>6. entry[j].item \in A!ToSet(arrayList')
          BY <5>5 DEF A!ToSet
        <5> QED
          BY <1>9, <5>2, <5>4, <5>6
      <4> QED
        BY <4>1, <4>2
    <3>4. arrayCount' = Len(arrayList') /\ arrayCount' = Cardinality(Used')
      BY <1>1, <1>3, <1>6, <2>2 DEF SameItems
    <3> QED
      BY <3>1, <3>2, <3>3, <3>4 DEF SameItems
  <2>6. ChainIsRest'
    <3>1. firstFree' \in 0 .. (A!Length)'
      BY <1>2, <1>7, <1>10, <1>13
    <3>2. ASSUME NEW j \in firstFree' .. (A!Length)' - 1
          PROVE  entry'[j] = A!Unused(j + 1)
      <4>1. j \in i .. n - 1 /\ j # i /\ j \in DOMAIN grown
        BY <1>2, <1>7, <1>10, <1>13
      <4> QED
        BY <1>2, <1>10, <1>13, <4>1
    <3>3. ASSUME ~reused'
          PROVE  /\ (A!Length)' > 0
                 /\ 0 .. firstFree' - 1 = Used'
                 /\ outside' \subseteq {2 * m : m \in 1 .. (A!Length)' \div 2}
      <4>1. ~reused /\ i = firstFree /\ i < n /\ firstFree' = i + 1 /\ i \in Nat
        BY <1>1, <1>2, <1>10, <1>13, <3>3
      <4>2. 0 .. i - 1 = Used /\ A!Length > 0
            /\ outside \subseteq {2 * m : m \in 1 .. A!Length \div 2}
        BY <1>3, <4>1 DEF ChainIsRest
      <4>3. 0 .. firstFree' - 1 = Used'
        BY <2>1, <4>1, <4>2
      <4>4. CASE A!IsFull
        <5>1. outside' = outside \cup {2 * A!Length} /\ (A!Length)' = 2 * A!Length
          BY <1>1, <1>4, <1>7, <4>4
        <5>2. (2 * A!Length) \div 2 = A!Length /\ A!Length \in 1 .. A!Length
              /\ \A m \in 1 .. A!Length \div 2 : m \in 1 .. A!Length
          BY <1>3, <4>2
        <5> QED
          BY <4>2, <4>3, <5>1, <5>2
      <4>5. CASE ~A!IsFull
        BY <1>1, <1>5, <1>7, <4>2, <4>3, <4>5
      <4> QED
        BY <4>4, <4>5
    <3> QED
      BY <3>1, <3>2, <3>3 DEF ChainIsRest, A!Unused
  <2> QED
    BY <1>1, <1>10, <1>11, <1>13, <2>5, <2>6 DEF ArrayInv
<1> QED
  BY <1>12, <1>13

(* v_array_remove_item: the entry is not chained, and was not before.      *)
LEMMA RemoveArray ==
    ASSUME ArrayInv, NEW i \in DOMAIN entry, A!RemoveItem(i)
    PROVE  ArrayInv'
<1> DEFINE x == entry[i].item
<1>1. /\ ~undefined /\ x # Null
      /\ \E k \in DOMAIN arrayList :
            arrayList[k] = x /\ arrayList' = A!RemoveAt(arrayList, k)
      /\ entry' = [entry EXCEPT ![i] = A!Unused(A!NoIndex)]
      /\ arrayCount' = arrayCount - 1 /\ reused' = TRUE
      /\ firstFree' = firstFree /\ index' = index /\ undefined' = undefined
  BY DEF A!RemoveItem
<1>2. ArrayType /\ SameItems /\ ChainIsRest /\ A!Length \in Nat
      /\ DOMAIN entry = 0 .. A!Length - 1
  BY <1>1 DEF ArrayInv, ArrayType, A!Entries
<1>3. PICK k \in DOMAIN arrayList :
          arrayList[k] = x /\ arrayList' = A!RemoveAt(arrayList, k)
  BY <1>1
<1> HIDE DEF x
<1>4. i \in Used
  BY <1>1 DEF Used, x
<1>5. /\ arrayList \in Seq(ArrayItem) /\ Len(arrayList) \in Nat
      /\ DOMAIN arrayList = 1 .. Len(arrayList)
  BY <1>2, LenProperties DEF ArrayType
<1>6. /\ arrayList' \in Seq(ArrayItem) /\ Len(arrayList') = Len(arrayList) - 1
      /\ DOMAIN arrayList' = 1 .. Len(arrayList) - 1
      /\ \A j \in 1 .. Len(arrayList) - 1 :
            arrayList'[j] = IF j < k THEN arrayList[j] ELSE arrayList[j + 1]
  <2>1. k \in 1 .. Len(arrayList)
    BY <1>5
  <2> DEFINE t == SubSeq(arrayList, 1, k - 1)
                     \o SubSeq(arrayList, k + 1, Len(arrayList))
  <2>2. t \in Seq(ArrayItem) /\ IsRemoved(t, arrayList, k)
    BY <1>5, <2>1, CutsOut
  <2>3. arrayList' = t
    BY <1>3 DEF A!RemoveAt
  <2> HIDE DEF t
  <2> QED
    BY <1>5, <2>2, <2>3, LenProperties, Zenon DEF IsRemoved
<1>7. DOMAIN entry' = DOMAIN entry /\ (A!Length)' = A!Length
  <2>1. DOMAIN entry' = DOMAIN entry
    BY <1>1
  <2> QED
    BY <2>1 DEF A!Length
<1>8. /\ entry'[i] = A!Unused(A!NoIndex) /\ entry'[i].item = Null
      /\ \A j \in DOMAIN entry : j # i => entry'[j] = entry[j]
  BY <1>1 DEF A!Unused
<1>9. Used' = Used \ {i}
  BY <1>4, <1>7, <1>8 DEF Used
<1>10. Cardinality(Used') = Cardinality(Used) - 1 /\ Cardinality(Used') \in Nat
  BY <1>2, <1>4, <1>9, UsedFinite, FS_RemoveElement, FS_CardinalityType
<1>11. arrayCount = Cardinality(Used) /\ arrayCount = Len(arrayList)
  BY <1>2 DEF SameItems
<1>12. ArrayType'
  <2>1. /\ entry' = [j \in DOMAIN entry' |->
                        [item |-> entry'[j].item, next |-> entry'[j].next]]
        /\ \A j \in DOMAIN entry' : entry'[j].item \in ArrayItem \cup {Null}
    <3>1. ASSUME NEW j \in DOMAIN entry
          PROVE  /\ entry'[j] = [item |-> entry'[j].item, next |-> entry'[j].next]
                 /\ entry'[j].item \in ArrayItem \cup {Null}
      <4>1. CASE j = i
        BY <1>8, <4>1 DEF A!Unused
      <4>2. CASE j # i
        BY <1>2, <1>8, <4>2 DEF ArrayType
      <4> QED
        BY <4>1, <4>2
    <3>2. entry' = [j \in DOMAIN entry |-> entry'[j]]
      BY <1>1
    <3> QED
      BY <1>7, <3>1, <3>2
  <2>2. arrayCount' \in Nat
    BY <1>1, <1>10, <1>11
  <2> QED
    BY <1>1, <1>2, <1>6, <1>7, <2>1, <2>2 DEF ArrayType, A!Entries
<1>13. SameItems'
  (* Where in the list before an item is that stays in it.                 *)
  <2> DEFINE from == [j \in 1 .. Len(arrayList) - 1 |-> IF j < k THEN j ELSE j + 1]
  <2>1. /\ \A j \in DOMAIN arrayList' : /\ from[j] \in DOMAIN arrayList
                                        /\ arrayList'[j] = arrayList[from[j]]
                                        /\ from[j] # k
        /\ \A j, l \in DOMAIN arrayList' : from[j] = from[l] => j = l
        /\ \A l \in DOMAIN arrayList :
              l # k => \E j \in DOMAIN arrayList' : from[j] = l
    <3>1. ASSUME NEW l \in DOMAIN arrayList, l # k
          PROVE  \E j \in DOMAIN arrayList' : from[j] = l
      <4>1. CASE l < k
        BY <1>5, <1>6, <3>1, <4>1
      <4>2. CASE l > k
        <5>1. l - 1 \in DOMAIN arrayList' /\ from[l - 1] = l
          BY <1>5, <1>6, <3>1, <4>2
        <5> QED
          BY <5>1
      <4> QED
        BY <1>5, <3>1, <4>1, <4>2
    <3> QED
      BY <1>5, <1>6, <3>1
  <2> HIDE DEF from
  <2>2. \A j, l \in DOMAIN arrayList' : arrayList'[j] = arrayList'[l] => j = l
    BY <1>2, <2>1 DEF SameItems
  <2>3. ASSUME NEW j \in DOMAIN arrayList'
        PROVE  /\ index'[arrayList'[j]] \in DOMAIN entry'
               /\ entry'[index'[arrayList'[j]]].item = arrayList'[j]
    <3> DEFINE y == arrayList[from[j]]
    <3>1. from[j] \in DOMAIN arrayList /\ arrayList'[j] = y /\ from[j] # k
      BY <2>1
    <3>2. y # x
      BY <1>2, <1>3, <3>1 DEF SameItems
    <3>3. index[y] \in DOMAIN entry /\ entry[index[y]].item = y
      BY <1>2, <3>1 DEF SameItems
    <3> HIDE DEF y
    <3>4. index[y] # i
      BY <3>2, <3>3 DEF x
    <3> QED
      BY <1>1, <1>7, <1>8, <3>1, <3>3, <3>4
  <2>4. ASSUME NEW j \in Used'
        PROVE  /\ entry'[j].item \in A!ToSet(arrayList')
               /\ index'[entry'[j].item] = j
    <3>1. j \in Used /\ j # i /\ entry'[j] = entry[j]
      BY <1>8, <1>9 DEF Used
    <3>2. entry[j].item \in A!ToSet(arrayList) /\ index[entry[j].item] = j
      BY <1>2, <3>1 DEF SameItems
    <3>3. PICK l \in DOMAIN arrayList : entry[j].item = arrayList[l]
      BY <3>2 DEF A!ToSet
    <3>4. index[x] = i
      BY <1>2, <1>4 DEF SameItems, x
    <3>5. l # k
      BY <1>3, <3>1, <3>2, <3>3, <3>4
    <3>6. PICK m \in DOMAIN arrayList' : from[m] = l
      BY <2>1, <3>5
    <3>7. entry'[j].item = arrayList'[m]
      BY <2>1, <3>1, <3>3, <3>6
    <3>8. entry'[j].item \in A!ToSet(arrayList')
      BY <3>7 DEF A!ToSet
    <3> QED
      BY <1>1, <3>1, <3>2, <3>8
  <2>5. arrayCount' = Len(arrayList') /\ arrayCount' = Cardinality(Used')
    BY <1>1, <1>6, <1>10, <1>11
  <2> QED
    BY <2>2, <2>3, <2>4, <2>5 DEF SameItems
<1>14. ChainIsRest'
  <2>1. firstFree \in 0 .. A!Length
    BY <1>2 DEF ChainIsRest
  <2>2. ASSUME NEW j \in firstFree .. A!Length - 1
        PROVE  entry'[j] = A!Unused(j + 1)
    <3>1. entry[j] = A!Unused(j + 1) /\ j \in DOMAIN entry
      BY <1>2, <2>1 DEF ChainIsRest
    <3>2. j # i
      BY <1>1, <3>1 DEF A!Unused, x
    <3> QED
      BY <1>8, <3>1, <3>2
  <2> QED
    BY <1>1, <1>7, <2>1, <2>2 DEF ChainIsRest, A!Unused
<1> QED
  BY <1>1, <1>12, <1>13, <1>14 DEF ArrayInv

(* v_array_free: no entries are left.                                      *)
LEMMA FreeArray ==
    ASSUME ArrayInv, A!Free
    PROVE  ArrayInv'
<1>1. /\ ~undefined /\ undefined' = undefined /\ index' = index
      /\ arrayList' = <<>> /\ entry' = [i \in {} |-> Null] /\ arrayCount' = 0
      /\ firstFree' = 0 /\ reused' = TRUE
  BY DEF A!Free
<1>2. DOMAIN entry' = {}
  BY <1>1
<1>3. (A!Length)' = 0
  <2>1. (A!Length)' = Cardinality(DOMAIN entry')
    BY SameCardinality DEF A!Length
  <2> QED
    BY <1>2, <2>1, FS_EmptySet
<1>4. ArrayType'
  <2>1. A!Entries(0) = {}
    BY DEF A!Entries
  <2>2. entry' = [i \in DOMAIN entry' |->
                     [item |-> entry'[i].item, next |-> entry'[i].next]]
    BY <1>1, <1>2
  <2>3. index' \in [ArrayItem -> Int] /\ undefined' \in BOOLEAN
    BY <1>1 DEF ArrayInv, ArrayType
  <2>4. arrayList' \in Seq(ArrayItem)
    BY <1>1, EmptySeq
  <2>5. DOMAIN entry' = A!Entries((A!Length)')
    BY <1>2, <1>3, <2>1
  <2> HIDE DEF A!Length
  <2> QED
    BY <1>1, <1>2, <1>3, <2>2, <2>3, <2>4, <2>5 DEF ArrayType
<1>5. SameItems'
  <2>1. Used' = {} /\ DOMAIN arrayList' = {} /\ Len(arrayList') = 0
    BY <1>1, <1>2 DEF Used
  <2> QED
    BY <1>1, <2>1, FS_EmptySet DEF SameItems
<1>6. ChainIsRest'
  BY <1>1, <1>3 DEF ChainIsRest
<1> QED
  BY <1>1, <1>4, <1>5, <1>6 DEF ArrayInv

(* Of v_array_...: the invariant holds after any sequence of additions,    *)
(* removals and clean-ups, for any set of items and any bound on the       *)
(* length.                                                                 *)
THEOREM ArrayInvariant == A!Spec => []ArrayInv
<1>1. ArrayInv /\ [A!Next]_(A!vars) => ArrayInv'
  <2> SUFFICES ASSUME ArrayInv, [A!Next]_(A!vars) PROVE ArrayInv'
    OBVIOUS
  <2>1. ASSUME UNCHANGED A!vars PROVE ArrayInv'
    BY <2>1, SameCardinality
       DEF A!vars, ArrayInv, ArrayType, SameItems, ChainIsRest, Used, A!Length
  <2>2. ASSUME NEW x \in ArrayItem, A!AddItem(x) PROVE ArrayInv'
    BY <2>2, AddArray
  <2>3. ASSUME NEW x \in ArrayItem, A!AddItemFails(x) PROVE ArrayInv'
    BY <2>1, <2>3 DEF A!AddItemFails
  <2>4. ASSUME NEW i, A!RemoveItem(i) PROVE ArrayInv'
    <3>1. i \in DOMAIN entry
      BY <2>4 DEF A!RemoveItem
    <3> QED
      BY <2>4, <3>1, RemoveArray
  <2>5. ASSUME A!Free PROVE ArrayInv'
    BY <2>5, FreeArray
  <2> QED
    BY <2>1, <2>2, <2>3, <2>4, <2>5 DEF A!Next
<1> QED
  BY <1>1, InitArray, PTL DEF A!Spec

(* The invariant implies that every item of the list is found at its       *)
(* index, as v_array_find_item looks it up.                                *)
LEMMA FoundInArray == ArrayInv => FoundAtIndex
<1> SUFFICES ASSUME ArrayInv PROVE FoundAtIndex
  OBVIOUS
<1>1. undefined => reused
  BY DEF ArrayInv
<1>2. ASSUME ~undefined
      PROVE  /\ \A x \in A!ToSet(arrayList) : A!FindItem(index[x]) = x
             /\ \A i \in DOMAIN entry :
                   A!FindItem(i) \in A!ToSet(arrayList) \cup {Null}
             /\ arrayCount = Len(arrayList) /\ arrayCount =< A!Length
  <2>1. SameItems /\ ArrayType
    BY <1>2 DEF ArrayInv
  <2>2. ASSUME NEW x \in A!ToSet(arrayList) PROVE A!FindItem(index[x]) = x
    BY <2>1 DEF SameItems, A!ToSet, A!FindItem
  <2>3. ASSUME NEW i \in DOMAIN entry
        PROVE  A!FindItem(i) \in A!ToSet(arrayList) \cup {Null}
    BY <2>1 DEF SameItems, Used, A!FindItem
  <2>4. arrayCount = Len(arrayList) /\ arrayCount =< A!Length
    BY <2>1, UsedFinite DEF SameItems
  <2> QED
    BY <2>2, <2>3, <2>4
<1>3. ASSUME ~reused
      PROVE  /\ outside \subseteq {2 * n : n \in 1 .. A!Length \div 2}
             /\ ~A!IsFull => firstFree = arrayCount
  <2>1. ~undefined
    BY <1>1, <1>3
  <2>2. SameItems /\ ChainIsRest
    BY <2>1 DEF ArrayInv
  <2>3. 0 .. firstFree - 1 = Used /\ firstFree \in Int /\ firstFree >= 0
    BY <1>3, <2>2 DEF ChainIsRest
  <2>4. Cardinality(Used) = firstFree
    <3>1. Cardinality(0 .. firstFree - 1) =
             IF 0 > firstFree - 1 THEN 0 ELSE firstFree - 1 - 0 + 1
      BY <2>3, FS_Interval
    <3> QED
      BY <2>3, <3>1
  <2> QED
    BY <1>3, <2>2, <2>4 DEF SameItems, ChainIsRest
<1> QED
  BY <1>1, <1>2, <1>3 DEF FoundAtIndex, A!FoundAtIndex

(* Of v_array_add_item and v_array_remove_item: the array leads to every   *)
(* item of the list at the index that the item was given, as long as       *)
(* nothing was written behind the array, for any set of items and any      *)
(* length.                                                                 *)
THEOREM FoundAtIndexHolds == A!Spec => []FoundAtIndex
  BY ArrayInvariant, FoundInArray, PTL

-----------------------------------------------------------------------------
(* The list.                                                               *)

(* f walks from start along the links for m steps, or until NULL.          *)
IsWalk(f, start, link, m) ==
    f = [n \in 0 .. m |->
           IF n = 0 THEN start
           ELSE IF f[n - 1] = Null THEN Null ELSE link[f[n - 1]]]

(* There is such a walk, of any length: by induction on it.                *)
LEMMA WalkExists ==
    ASSUME NEW start, NEW link, NEW m \in Nat
    PROVE  \E f : IsWalk(f, start, link, m)
<1> DEFINE T == {k \in Nat : \E f : IsWalk(f, start, link, k)}
<1>1. 0 \in T
  <2>1. IsWalk([n \in 0 .. 0 |-> start], start, link, 0)
    BY DEF IsWalk
  <2> QED
    BY <2>1
<1>2. ASSUME NEW n \in Nat, n \in T PROVE n + 1 \in T
  <2>1. PICK f : IsWalk(f, start, link, n)
    BY <1>2
  <2> DEFINE g == [k \in 0 .. n + 1 |->
                      IF k =< n THEN f[k]
                      ELSE IF f[n] = Null THEN Null ELSE link[f[n]]]
  <2>2. ASSUME NEW k \in 0 .. n + 1
        PROVE  g[k] = IF k = 0 THEN start
                      ELSE IF g[k - 1] = Null THEN Null ELSE link[g[k - 1]]
    <3>1. CASE k =< n
      <4>1. k \in 0 .. n /\ g[k] = f[k] /\ (k # 0 => g[k - 1] = f[k - 1])
        BY <3>1
      <4> QED
        BY <2>1, <4>1, Zenon DEF IsWalk
    <3>2. CASE k = n + 1
      BY <3>2
    <3> QED
      BY <3>1, <3>2
  <2>3. IsWalk(g, start, link, n + 1)
    <3>1. g = [k \in 0 .. n + 1 |-> g[k]]
      OBVIOUS
    <3> HIDE DEF g
    <3> QED
      BY <2>2, <3>1 DEF IsWalk
  <2> HIDE DEF g
  <2> QED
    BY <2>3
<1> HIDE DEF T
<1>3. m \in T
  BY <1>1, <1>2, Induction
<1> QED
  BY <1>3 DEF T

(* No list is longer than there are items.                                 *)
Items == Cardinality(ListItem)

(* The recursive function of VList, which the walks use, is a walk: its    *)
(* equation has a solution.                                                *)
LEMMA NthIsWalk ==
    ASSUME NEW start, NEW link
    PROVE  IsWalk(L!Nth(start, link), start, link, Items)
<1>1. L!Nth(start, link) = CHOOSE f : IsWalk(f, start, link, L!Cardinality(ListItem))
  BY Zenon DEF L!Nth, IsWalk
<1>2. Items \in Nat /\ L!Cardinality(ListItem) = Items
  BY SameCardinality, FS_CardinalityType, ContainersAssumption DEF Items
<1>3. \E f : IsWalk(f, start, link, Items)
  BY <1>2, WalkExists
<1> QED
  BY <1>1, <1>2, <1>3, Zenon

-----------------------------------------------------------------------------

(* The item at a place of the list, NULL in front of it and behind it.     *)
At(s, i) == IF i \in 1 .. Len(s) THEN s[i] ELSE Null

(* No item is twice in the list.                                           *)
Once(s) == \A i, j \in DOMAIN s : s[i] = s[j] => i = j

(* The types of the links.                                                 *)
LinkType ==
    /\ next \in [ListItem -> ListItem \cup {Null}]
    /\ prev \in [ListItem -> ListItem \cup {Null}]

(* The base and the links are those of a list of the items of s.           *)
Links(s) ==
    /\ first = At(s, 1) /\ last = At(s, Len(s))
    /\ \A i \in 1 .. Len(s) : /\ next[s[i]] = At(s, i + 1)
                              /\ prev[s[i]] = At(s, i - 1)

(* The base and the links are those of s, which has no item twice.         *)
IsList(s) == s \in Seq(ListItem) /\ Once(s) /\ Links(s)

(* The inductive invariant of the list: there is a sequence whose list it  *)
(* is.                                                                     *)
ListInv == LinkType /\ \E s : IsList(s)

(* The items of a list are not NULL, so At is NULL only outside.           *)
LEMMA ListFacts ==
    ASSUME NEW s \in Seq(ListItem)
    PROVE  /\ Len(s) \in Nat /\ DOMAIN s = 1 .. Len(s)
           /\ \A i \in 1 .. Len(s) : s[i] \in ListItem /\ s[i] # Null /\ At(s, i) = s[i]
           /\ \A i \in 1 .. Len(s) : At(s, i) # Null
BY LenProperties, ElementOfSeq, ContainersAssumption DEF At

(* A list without repetitions has at most as many items as there are.      *)
LEMMA NotTooLong ==
    ASSUME NEW s \in Seq(ListItem), Once(s)
    PROVE  Items \in Nat /\ Len(s) =< Items
<1>1. IsFiniteSet(ListItem)
  BY ContainersAssumption
<1>2. Len(s) \in Nat /\ s \in [1 .. Len(s) -> ListItem] /\ DOMAIN s = 1 .. Len(s)
  BY LenProperties, ElementOfSeq
<1>3. s \in Injection(1 .. Len(s), ListItem)
  BY <1>2 DEF Once, Injection, IsInjective
<1>4. Cardinality(1 .. Len(s)) =< Items
  BY <1>1, <1>3, FS_Injection DEF Items
<1>5. Cardinality(1 .. Len(s)) = IF 1 > Len(s) THEN 0 ELSE Len(s) - 1 + 1
  BY <1>2, FS_Interval
<1>6. Items \in Nat
  BY <1>1, FS_CardinalityType DEF Items
<1> QED
  BY <1>2, <1>4, <1>5, <1>6

(* A walk along links that lead from each place of s to the one by which   *)
(* step differs.                                                           *)
LEMMA WalkVisits ==
    ASSUME NEW s \in Seq(ListItem), NEW link, NEW step \in {1, -1},
           NEW from \in Int,
           \A i \in 1 .. Len(s) : link[s[i]] = At(s, i + step),
           step = 1 => from = 1, step = -1 => from = Len(s),
           NEW n \in 0 .. Items, Items \in Nat
    PROVE  L!Nth(At(s, from), link)[n] = At(s, from + step * n)
<1> DEFINE f == L!Nth(At(s, from), link)
           T == {k \in Nat : k =< Items => f[k] = At(s, from + step * k)}
<1>1. IsWalk(f, At(s, from), link, Items)
  BY NthIsWalk
<1>2. /\ f[0] = At(s, from)
      /\ \A k \in 1 .. Items :
            f[k] = IF f[k - 1] = Null THEN Null ELSE link[f[k - 1]]
  BY <1>1 DEF IsWalk
<1> HIDE DEF f
<1>3. Len(s) \in Nat
  BY ListFacts
<1>4. 0 \in T
  <2>1. from + step * 0 = from
    OBVIOUS
  <2> QED
    BY <1>2, <2>1
<1>5. ASSUME NEW k \in Nat, k \in T PROVE k + 1 \in T
  <2> SUFFICES ASSUME k + 1 =< Items PROVE f[k + 1] = At(s, from + step * (k + 1))
    OBVIOUS
  <2> DEFINE i == from + step * k
  <2>1. f[k] = At(s, i) /\ i \in Int /\ from + step * (k + 1) = i + step
    BY <1>5
  <2>2. f[k + 1] = IF f[k] = Null THEN Null ELSE link[f[k]]
    BY <1>2
  <2>3. CASE i \in 1 .. Len(s)
    <3>1. At(s, i) = s[i] /\ s[i] # Null
      BY <2>3, ListFacts
    <3> QED
      BY <2>1, <2>2, <2>3, <3>1
  <2>4. CASE i \notin 1 .. Len(s)
    <3>1. f[k + 1] = Null
      BY <2>1, <2>2, <2>4 DEF At
    <3>2. i + step \notin 1 .. Len(s)
      BY <1>3, <2>1, <2>4
    <3> QED
      BY <2>1, <3>1, <3>2 DEF At
  <2> QED
    BY <2>3, <2>4
<1> HIDE DEF T
<1>6. n \in T
  BY <1>4, <1>5, Induction
<1> QED
  BY <1>6 DEF T, f

(* What the walks from both ends meet.                                     *)
LEMMA BothWalks ==
    ASSUME NEW s, IsList(s), NEW n \in 0 .. Items
    PROVE  /\ L!Nth(first, next)[n] = At(s, n + 1)
           /\ L!Nth(last, prev)[n] = At(s, Len(s) - n)
<1>1. s \in Seq(ListItem) /\ Items \in Nat /\ Len(s) \in Nat /\ Links(s)
  BY NotTooLong, ListFacts DEF IsList
<1>2. L!Nth(At(s, 1), next)[n] = At(s, 1 + 1 * n)
  BY <1>1, WalkVisits DEF Links
<1>3. L!Nth(At(s, Len(s)), prev)[n] = At(s, Len(s) + (-1) * n)
  <2>1. PICK back \in {1, -1} : back = -1
    OBVIOUS
  <2>2. \A i \in 1 .. Len(s) : prev[s[i]] = At(s, i + back)
    <3>1. \A i \in 1 .. Len(s) : i + back = i - 1
      BY <2>1
    <3> QED
      BY <1>1, <3>1 DEF Links
  <2>3. back # 1 /\ Len(s) \in Int
    BY <1>1, <2>1
  <2>4. L!Nth(At(s, Len(s)), prev)[n] = At(s, Len(s) + back * n)
    BY <1>1, <2>2, <2>3, WalkVisits
  <2> QED
    BY <2>1, <2>4
<1>4. 1 + 1 * n = n + 1 /\ Len(s) + (-1) * n = Len(s) - n
  BY <1>1
<1> QED
  BY <1>1, <1>2, <1>3, <1>4 DEF Links

(* The contents of a list are its items.                                   *)
LEMMA ContentsAre ==
    ASSUME NEW s, IsList(s)
    PROVE  /\ L!CountItems = Len(s)
           /\ L!Contents = s
           /\ \A x : L!InList(x) <=> \E i \in 1 .. Len(s) : s[i] = x
<1>1. /\ s \in Seq(ListItem) /\ Items \in Nat /\ Len(s) \in Nat
      /\ Len(s) =< Items /\ DOMAIN s = 1 .. Len(s)
  BY NotTooLong, ListFacts DEF IsList
<1>2. L!Cardinality(ListItem) = Items
  BY SameCardinality DEF Items
<1> DEFINE met == {n \in 0 .. Items : L!Nth(first, next)[n] # Null}
<1>3. met = 0 .. Len(s) - 1
  <2>1. ASSUME NEW n \in 0 .. Items
        PROVE  L!Nth(first, next)[n] # Null <=> n \in 0 .. Len(s) - 1
    <3>1. L!Nth(first, next)[n] = At(s, n + 1)
      BY BothWalks
    <3>2. CASE n \in 0 .. Len(s) - 1
      <4>1. n + 1 \in 1 .. Len(s)
        BY <1>1, <3>2
      <4> QED
        BY <1>1, <3>1, <3>2, <4>1, ListFacts
    <3>3. CASE n \notin 0 .. Len(s) - 1
      <4>1. n + 1 \notin 1 .. Len(s)
        BY <1>1, <3>3
      <4> QED
        BY <3>1, <3>3, <4>1 DEF At
    <3> QED
      BY <3>2, <3>3
  <2>2. 0 .. Len(s) - 1 \subseteq 0 .. Items
    BY <1>1
  <2> QED
    BY <2>1, <2>2
<1>4. L!CountItems = Len(s)
  <2>1. 0 \in Int /\ Len(s) - 1 \in Int
    BY <1>1
  <2>2. Cardinality(0 .. Len(s) - 1) = IF 0 > Len(s) - 1 THEN 0 ELSE Len(s) - 1 - 0 + 1
    BY <2>1, FS_Interval
  <2>3. L!CountItems = L!Cardinality(met)
    BY <1>2 DEF L!CountItems
  <2> HIDE DEF met
  <2>4. L!CountItems = Cardinality(met)
    BY <2>3, SameCardinality
  <2> QED
    BY <1>1, <1>3, <2>2, <2>4
<1>5. ASSUME NEW i \in 1 .. Len(s) PROVE L!FindItem(i - 1) = s[i]
  <2>1. i - 1 \in 0 .. Items /\ (i - 1) + 1 = i /\ ~(i - 1 < 0)
    BY <1>1
  <2>2. L!Nth(first, next)[i - 1] = At(s, i)
    BY <2>1, BothWalks
  <2> QED
    BY <1>1, <2>1, <2>2, ListFacts DEF L!FindItem
<1>6. L!Contents = s
  <2>1. L!Contents = [i \in 1 .. Len(s) |-> L!FindItem(i - 1)]
    BY <1>4 DEF L!Contents
  <2>2. L!Contents = [i \in 1 .. Len(s) |-> s[i]]
    BY <1>5, <2>1
  <2>3. s = [i \in 1 .. Len(s) |-> s[i]]
    BY <1>1
  <2> QED
    BY <2>2, <2>3
<1>7. \A x : L!InList(x) <=> \E i \in 1 .. Len(s) : s[i] = x
  BY <1>1, <1>6 DEF L!InList, L!ToSet
<1> QED
  BY <1>4, <1>6, <1>7

(* From both ends a list's walk meets the same items.                      *)
LEMMA ListWalks == ListInv => WalksAgree
<1> SUFFICES ASSUME ListInv PROVE WalksAgree
  OBVIOUS
<1>1. PICK s : IsList(s)
  BY DEF ListInv
<1>2. /\ s \in Seq(ListItem) /\ Items \in Nat /\ Len(s) \in Nat
      /\ Len(s) =< Items /\ Once(s) /\ DOMAIN s = 1 .. Len(s)
  BY <1>1, NotTooLong, ListFacts DEF IsList
<1>3. L!Cardinality(ListItem) = Items
  BY SameCardinality DEF Items
<1>4. L!CountItems = Len(s)
  BY <1>1, ContentsAre
<1>5. ASSUME NEW n \in 0 .. Items
      PROVE  L!FindItem(n) = At(s, n + 1) /\ L!Nth(last, prev)[n] = At(s, Len(s) - n)
  <2>1. ~(n < 0)
    OBVIOUS
  <2> QED
    BY <1>1, <2>1, BothWalks DEF L!FindItem
<1>6. ASSUME NEW n \in 0 .. Items
      PROVE  L!Nth(last, prev)[n] = IF n < Len(s) THEN L!FindItem(Len(s) - 1 - n)
                                    ELSE Null
  <2>1. CASE n < Len(s)
    <3>1. Len(s) - 1 - n \in 0 .. Items /\ (Len(s) - 1 - n) + 1 = Len(s) - n
      BY <1>2, <2>1
    <3> QED
      BY <1>5, <2>1, <3>1
  <2>2. CASE ~(n < Len(s))
    <3>1. Len(s) - n \notin 1 .. Len(s)
      BY <1>2, <2>2
    <3> QED
      BY <1>5, <2>2, <3>1 DEF At
  <2> QED
    BY <2>1, <2>2
<1>7. ASSUME NEW n \in 0 .. Len(s) - 1
      PROVE  L!FindIndex(L!FindItem(n)) = n
  <2> DEFINE x == L!FindItem(n)
             found == {m \in 0 .. Items : L!FindItem(m) = x}
  <2>1. n \in 0 .. Items /\ n + 1 \in 1 .. Len(s)
    BY <1>2
  <2>2. x = s[n + 1] /\ x # Null
    BY <1>2, <1>5, <2>1, ListFacts
  <2>3. ASSUME NEW m \in 0 .. Items, L!FindItem(m) = x PROVE m = n
    <3>1. At(s, m + 1) = x
      BY <1>5, <2>3
    <3>2. m + 1 \in 1 .. Len(s) /\ s[m + 1] = s[n + 1]
      BY <2>2, <3>1 DEF At
    <3>3. m + 1 = n + 1
      BY <1>2, <2>1, <3>2 DEF Once
    <3> QED
      BY <3>3
  <2> HIDE DEF x
  <2>4. found = {n}
    BY <2>1, <2>3 DEF x
  <2>5. L!Min({n}) = n
    BY DEF L!Min
  <2>6. L!FindIndex(x) = IF x = Null \/ found = {} THEN -1 ELSE L!Min(found)
    BY <1>3 DEF L!FindIndex
  <2> HIDE DEF found
  <2> QED
    BY <2>2, <2>4, <2>5, <2>6 DEF x
<1> QED
  BY <1>3, <1>4, <1>6, <1>7 DEF WalksAgree, L!WalksAgree

-----------------------------------------------------------------------------

(* What adding x at place k of s makes of the base and the links, and what *)
(* taking out the item at place k does.                                    *)
Insertion(s, k, x) ==
    /\ LinkType'
    /\ first' = IF k = 1 THEN x ELSE first
    /\ last' = IF k = Len(s) + 1 THEN x ELSE last
    /\ next'[x] = At(s, k) /\ prev'[x] = At(s, k - 1)
    /\ \A i \in 1 .. Len(s) :
          /\ next'[s[i]] = IF i = k - 1 THEN x ELSE next[s[i]]
          /\ prev'[s[i]] = IF i = k THEN x ELSE prev[s[i]]

(* What taking out the item at place k makes of them.                      *)
Removal(s, k) ==
    /\ LinkType'
    /\ first' = IF k = 1 THEN At(s, 2) ELSE first
    /\ last' = IF k = Len(s) THEN At(s, k - 1) ELSE last
    /\ \A i \in 1 .. Len(s) :
          i # k => /\ next'[s[i]] = IF i = k - 1 THEN At(s, k + 1) ELSE next[s[i]]
                   /\ prev'[s[i]] = IF i = k + 1 THEN At(s, k - 1) ELSE prev[s[i]]

(* x is an item of the list s.                                             *)
IsIn(x, s) == \E i \in 1 .. Len(s) : s[i] = x

(* What an insertion makes of the base and the links is the list with x at *)
(* place k.                                                                *)
LEMMA Inserted ==
    ASSUME NEW s, IsList(s), NEW x \in ListItem, ~IsIn(x, s),
           NEW k \in 1 .. Len(s) + 1, Insertion(s, k, x),
           NEW t \in Seq(ListItem), IsInserted(t, s, k, x)
    PROVE  IsList(t)'
<1>1. /\ s \in Seq(ListItem) /\ Len(s) \in Nat /\ DOMAIN s = 1 .. Len(s)
      /\ Once(s) /\ Links(s) /\ k \in Nat
  BY ListFacts DEF IsList
<1>2. /\ Len(t) = Len(s) + 1 /\ DOMAIN t = 1 .. Len(s) + 1
      /\ \A i \in 1 .. Len(s) + 1 :
            t[i] = IF i < k THEN s[i] ELSE IF i = k THEN x ELSE s[i - 1]
  BY ListFacts DEF IsInserted
<1>3. ASSUME NEW j \in Int
      PROVE  At(t, j) = IF j < k THEN At(s, j) ELSE IF j = k THEN x ELSE At(s, j - 1)
  BY <1>1, <1>2 DEF At
<1>4. Once(t)
  <2> SUFFICES ASSUME NEW i \in 1 .. Len(s) + 1, NEW j \in 1 .. Len(s) + 1, t[i] = t[j]
               PROVE  i = j
    BY <1>2 DEF Once
  <2>1. \A l \in 1 .. Len(s) : s[l] # x
    BY DEF IsIn
  <2>2. \A l, m \in 1 .. Len(s) : s[l] = s[m] => l = m
    BY <1>1 DEF Once
  <2>3. t[i] = IF i < k THEN s[i] ELSE IF i = k THEN x ELSE s[i - 1]
    BY <1>2
  <2>4. t[j] = IF j < k THEN s[j] ELSE IF j = k THEN x ELSE s[j - 1]
    BY <1>2
  <2>5. (i < k => i \in 1 .. Len(s)) /\ (i > k => i - 1 \in 1 .. Len(s))
    BY <1>1
  <2>6. (j < k => j \in 1 .. Len(s)) /\ (j > k => j - 1 \in 1 .. Len(s))
    BY <1>1
  <2>7. CASE i = k
    <3>1. t[i] = x
      BY <1>1, <2>3, <2>7
    <3>2. CASE j < k
      BY <2>1, <2>4, <2>6, <3>1, <3>2
    <3>3. CASE j > k
      <4>1. j - 1 \in 1 .. Len(s) /\ t[j] = s[j - 1]
        BY <1>1, <2>4, <2>6, <3>3
      <4> QED
        BY <2>1, <3>1, <4>1
    <3> QED
      BY <1>1, <2>7, <3>2, <3>3
  <2>8. CASE i < k
    <3>1. t[i] = s[i] /\ i \in 1 .. Len(s) /\ i < k
      BY <2>3, <2>5, <2>8
    <3>2. CASE j = k
      BY <2>1, <2>4, <3>1, <3>2
    <3>3. CASE j > k
      <4>1. j - 1 \in 1 .. Len(s) /\ t[j] = s[j - 1] /\ j - 1 >= k
        BY <1>1, <2>4, <2>6, <3>3
      <4>2. i = j - 1
        BY <2>2, <3>1, <4>1
      <4> QED
        BY <1>1, <3>1, <4>1, <4>2
    <3>4. CASE j < k
      BY <2>2, <2>4, <2>6, <3>1, <3>4
    <3> QED
      BY <1>1, <3>2, <3>3, <3>4
  <2>9. CASE i > k
    <3>1. i - 1 \in 1 .. Len(s) /\ t[i] = s[i - 1] /\ i - 1 >= k
      BY <1>1, <2>3, <2>5, <2>9
    <3>2. j > k
      <4>1. CASE j = k
        BY <2>1, <2>4, <3>1, <4>1
      <4>2. CASE j < k
        <5>1. i - 1 = j
          BY <2>2, <2>4, <2>6, <3>1, <4>2
        <5> QED
          BY <1>1, <3>1, <4>2, <5>1
      <4> QED
        BY <1>1, <4>1, <4>2
    <3>3. i - 1 = j - 1
      BY <1>1, <2>2, <2>4, <2>6, <3>1, <3>2
    <3> QED
      BY <3>3
  <2> QED
    BY <1>1, <2>7, <2>8, <2>9
<1>5. first' = At(t, 1) /\ last' = At(t, Len(t))
  <2>1. At(t, 1) = IF 1 < k THEN At(s, 1) ELSE IF 1 = k THEN x ELSE At(s, 1 - 1)
    BY <1>3
  <2>2. At(t, Len(t)) = IF Len(s) + 1 < k THEN At(s, Len(s) + 1)
                        ELSE IF Len(s) + 1 = k THEN x ELSE At(s, (Len(s) + 1) - 1)
    BY <1>1, <1>2, <1>3
  <2>3. (Len(s) + 1) - 1 = Len(s)
    BY <1>1
  <2> QED
    BY <1>1, <2>1, <2>2, <2>3 DEF Insertion, Links
<1>6. ASSUME NEW i \in 1 .. Len(s) + 1
      PROVE  next'[t[i]] = At(t, i + 1) /\ prev'[t[i]] = At(t, i - 1)
  <2>1. At(t, i + 1) = IF i + 1 < k THEN At(s, i + 1)
                       ELSE IF i + 1 = k THEN x ELSE At(s, (i + 1) - 1)
    BY <1>3
  <2>2. At(t, i - 1) = IF i - 1 < k THEN At(s, i - 1)
                       ELSE IF i - 1 = k THEN x ELSE At(s, (i - 1) - 1)
    BY <1>3
  <2>3. CASE i < k
    <3>1. i \in 1 .. Len(s) /\ t[i] = s[i] /\ i # k
      BY <1>1, <1>2, <2>3
    <3>2. /\ next'[s[i]] = IF i = k - 1 THEN x ELSE next[s[i]]
          /\ prev'[s[i]] = prev[s[i]]
      BY <3>1 DEF Insertion
    <3>3. next[s[i]] = At(s, i + 1) /\ prev[s[i]] = At(s, i - 1)
      BY <1>1, <3>1 DEF Links
    <3>4. i - 1 < k /\ (i = k - 1 <=> i + 1 = k) /\ (i # k - 1 => i + 1 < k)
      BY <1>1, <2>3
    <3> QED
      BY <2>1, <2>2, <3>1, <3>2, <3>3, <3>4
  <2>4. CASE i = k
    <3>1. t[i] = x /\ next'[x] = At(s, k) /\ prev'[x] = At(s, k - 1)
      BY <1>2, <2>4 DEF Insertion
    <3>2. i - 1 < k /\ ~(i + 1 < k) /\ i + 1 # k /\ (i + 1) - 1 = k /\ i - 1 = k - 1
      BY <1>1, <2>4
    <3> QED
      BY <2>1, <2>2, <3>1, <3>2
  <2>5. CASE i > k
    <3> DEFINE j == i - 1
    <3>1. j \in 1 .. Len(s) /\ t[i] = s[j] /\ j # k - 1 /\ j + 1 = i /\ (i + 1) - 1 = i
      BY <1>1, <1>2, <2>5
    <3>2. ~(i + 1 < k) /\ i + 1 # k /\ ~(j < k)
      BY <1>1, <2>5
    <3> HIDE DEF j
    <3>3. /\ next'[s[j]] = next[s[j]]
          /\ prev'[s[j]] = IF j = k THEN x ELSE prev[s[j]]
      BY <3>1 DEF Insertion
    <3>4. next[s[j]] = At(s, j + 1) /\ prev[s[j]] = At(s, j - 1)
      BY <1>1, <3>1 DEF Links
    <3> QED
      BY <2>1, <2>2, <3>1, <3>2, <3>3, <3>4 DEF j
  <2> QED
    BY <1>1, <2>3, <2>4, <2>5
<1> QED
  BY <1>2, <1>4, <1>5, <1>6 DEF IsList, Links

(* What a removal makes of the base and the links is the list without its  *)
(* place k.                                                                *)
LEMMA TakenOut ==
    ASSUME NEW s, IsList(s), NEW k \in 1 .. Len(s), Removal(s, k),
           NEW t \in Seq(ListItem), IsRemoved(t, s, k)
    PROVE  IsList(t)'
<1>1. /\ s \in Seq(ListItem) /\ Len(s) \in Nat /\ DOMAIN s = 1 .. Len(s)
      /\ Once(s) /\ Links(s) /\ k \in Nat
  BY ListFacts DEF IsList
<1>2. /\ Len(t) = Len(s) - 1 /\ DOMAIN t = 1 .. Len(s) - 1
      /\ \A i \in 1 .. Len(s) - 1 : t[i] = IF i < k THEN s[i] ELSE s[i + 1]
  BY ListFacts DEF IsRemoved
<1>3. ASSUME NEW j \in Int
      PROVE  At(t, j) = IF j < k THEN At(s, j)
                        ELSE IF j >= 1 THEN At(s, j + 1) ELSE Null
  BY <1>1, <1>2 DEF At
<1>4. Once(t)
  <2> SUFFICES ASSUME NEW i \in 1 .. Len(s) - 1, NEW j \in 1 .. Len(s) - 1, t[i] = t[j]
               PROVE  i = j
    BY <1>2 DEF Once
  <2>1. \A l, m \in 1 .. Len(s) : s[l] = s[m] => l = m
    BY <1>1 DEF Once
  <2>2. t[i] = IF i < k THEN s[i] ELSE s[i + 1]
    BY <1>2
  <2>3. t[j] = IF j < k THEN s[j] ELSE s[j + 1]
    BY <1>2
  <2>4. i \in 1 .. Len(s) /\ i + 1 \in 1 .. Len(s) /\ j \in 1 .. Len(s) /\ j + 1 \in 1 .. Len(s)
    BY <1>1
  <2>5. CASE i < k
    <3>1. t[i] = s[i]
      BY <2>2, <2>5
    <3>2. CASE j < k
      BY <2>1, <2>3, <2>4, <3>1, <3>2
    <3>3. CASE ~(j < k)
      <4>1. i = j + 1
        BY <2>1, <2>3, <2>4, <3>1, <3>3
      <4> QED
        BY <1>1, <2>5, <3>3, <4>1
    <3> QED
      BY <3>2, <3>3
  <2>6. CASE ~(i < k)
    <3>1. t[i] = s[i + 1]
      BY <2>2, <2>6
    <3>2. CASE j < k
      <4>1. i + 1 = j
        BY <2>1, <2>3, <2>4, <3>1, <3>2
      <4> QED
        BY <1>1, <2>6, <3>2, <4>1
    <3>3. CASE ~(j < k)
      <4>1. i + 1 = j + 1
        BY <2>1, <2>3, <2>4, <3>1, <3>3
      <4> QED
        BY <4>1
    <3> QED
      BY <3>2, <3>3
  <2> QED
    BY <2>5, <2>6
<1>5. first' = At(t, 1) /\ last' = At(t, Len(t))
  <2>1. At(t, 1) = IF 1 < k THEN At(s, 1) ELSE At(s, 2)
    <3>1. 1 + 1 = 2 /\ 1 >= 1
      OBVIOUS
    <3> QED
      BY <1>3, <3>1
  <2>2. CASE k = Len(s)
    <3>1. Len(t) = k - 1 /\ k - 1 < k
      BY <1>1, <1>2, <2>2
    <3> QED
      BY <1>1, <1>3, <2>1, <2>2, <3>1 DEF Removal, Links
  <2>3. CASE k # Len(s)
    <3>1. ~(Len(s) - 1 < k) /\ Len(s) - 1 >= 1 /\ (Len(s) - 1) + 1 = Len(s)
      <4>1. \A m, n \in Nat : m \in 1 .. n /\ m # n =>
               ~(n - 1 < m) /\ n - 1 >= 1 /\ (n - 1) + 1 = n
        OBVIOUS
      <4> QED
        BY <1>1, <2>3, <4>1, Zenon
    <3>2. At(t, Len(t)) = At(s, Len(s))
      BY <1>1, <1>2, <1>3, <3>1
    <3>3. last' = last /\ last = At(s, Len(s))
      BY <1>1, <2>3 DEF Removal, Links
    <3>4. first' = IF k = 1 THEN At(s, 2) ELSE At(s, 1)
      BY <1>1, Zenon DEF Removal, Links
    <3>5. 1 < k <=> k # 1
      BY <1>1
    <3> QED
      BY <2>1, <3>2, <3>3, <3>4, <3>5
  <2> QED
    BY <2>2, <2>3
<1>6. ASSUME NEW i \in 1 .. Len(s) - 1
      PROVE  next'[t[i]] = At(t, i + 1) /\ prev'[t[i]] = At(t, i - 1)
  <2>1. At(t, i + 1) = IF i + 1 < k THEN At(s, i + 1) ELSE At(s, (i + 1) + 1)
    <3>1. i + 1 >= 1
      OBVIOUS
    <3> QED
      BY <1>3, <3>1
  <2>2. At(t, i - 1) = IF i - 1 < k THEN At(s, i - 1) ELSE At(s, i)
    <3>1. i - 1 < k \/ (i - 1 >= 1 /\ (i - 1) + 1 = i)
      BY <1>1
    <3> QED
      BY <1>3, <3>1
  <2>3. CASE i < k
    <3>1. i \in 1 .. Len(s) /\ t[i] = s[i] /\ i # k /\ i # k + 1
      BY <1>1, <1>2, <2>3
    <3>2. /\ next'[s[i]] = IF i = k - 1 THEN At(s, k + 1) ELSE next[s[i]]
          /\ prev'[s[i]] = prev[s[i]]
      BY <3>1 DEF Removal
    <3>3. next[s[i]] = At(s, i + 1) /\ prev[s[i]] = At(s, i - 1)
      BY <1>1, <3>1 DEF Links
    <3>4. /\ i - 1 < k /\ (i = k - 1 <=> ~(i + 1 < k))
          /\ (i = k - 1 => (i + 1) + 1 = k + 1)
      BY <1>1, <2>3
    <3> QED
      BY <2>1, <2>2, <3>1, <3>2, <3>3, <3>4
  <2>4. CASE ~(i < k)
    <3> DEFINE j == i + 1
    <3>1. /\ j \in 1 .. Len(s) /\ t[i] = s[j] /\ j # k /\ j # k - 1 /\ j - 1 = i
          /\ ~(j < k) /\ (j = k + 1 <=> i - 1 < k) /\ (j = k + 1 => i - 1 = k - 1)
      BY <1>1, <1>2, <2>4
    <3> HIDE DEF j
    <3>2. /\ next'[s[j]] = next[s[j]]
          /\ prev'[s[j]] = IF j = k + 1 THEN At(s, k - 1) ELSE prev[s[j]]
      BY <3>1 DEF Removal
    <3>3. next[s[j]] = At(s, j + 1) /\ prev[s[j]] = At(s, j - 1)
      BY <1>1, <3>1 DEF Links
    <3> QED
      BY <2>1, <2>2, <3>1, <3>2, <3>3 DEF j
  <2> QED
    BY <2>3, <2>4
<1> QED
  BY <1>2, <1>4, <1>5, <1>6 DEF IsList, Links

-----------------------------------------------------------------------------
(* Every operation is an insertion, a removal, or both ends are cleared.   *)

(* A list is empty when its ends are NULL, and an item is at an end when   *)
(* the base points at it.                                                  *)
LEMMA EndsOf ==
    ASSUME NEW s, IsList(s)
    PROVE  /\ s \in Seq(ListItem) /\ Len(s) \in Nat /\ DOMAIN s = 1 .. Len(s)
           /\ Once(s) /\ Links(s)
           /\ first = Null <=> Len(s) = 0
           /\ last = Null <=> Len(s) = 0
           /\ \A i \in 1 .. Len(s) : /\ s[i] \in ListItem /\ s[i] # Null
                                     /\ At(s, i) = s[i]
                                     /\ first = s[i] <=> i = 1
                                     /\ last = s[i] <=> i = Len(s)
<1>1. /\ s \in Seq(ListItem) /\ Len(s) \in Nat /\ DOMAIN s = 1 .. Len(s)
      /\ Once(s) /\ Links(s)
      /\ \A i \in 1 .. Len(s) : s[i] \in ListItem /\ s[i] # Null /\ At(s, i) = s[i]
  BY ListFacts DEF IsList
<1>2. first = At(s, 1) /\ last = At(s, Len(s))
  BY <1>1 DEF Links
<1>3. CASE Len(s) = 0
  BY <1>1, <1>2, <1>3 DEF At
<1>4. CASE Len(s) # 0
  <2>1. 1 \in 1 .. Len(s) /\ Len(s) \in 1 .. Len(s)
    BY <1>1, <1>4
  <2>2. first = s[1] /\ last = s[Len(s)]
    BY <1>1, <1>2, <2>1
  <2> QED
    BY <1>1, <1>4, <2>1, <2>2, Zenon DEF Once
<1> QED
  BY <1>1, <1>3, <1>4, Zenon

(* The items that the walk from the first meets are those of s.            *)
LEMMA InListIs ==
    ASSUME NEW s, IsList(s), NEW x
    PROVE  L!InList(x) <=> IsIn(x, s)
BY ContentsAre DEF IsIn

(* g is f but for v at p, and f itself if p is NULL.                       *)
IsStored(g, f, p, v) ==
    /\ g \in [ListItem -> ListItem \cup {Null}]
    /\ \A y \in ListItem : g[y] = IF y = p THEN v ELSE f[y]

(* A pointer is followed and written through unless it is NULL.            *)
LEMMA Stored ==
    ASSUME NEW f, NEW p, NEW v, f \in [ListItem -> ListItem \cup {Null}],
           p \in ListItem \cup {Null}, v \in ListItem \cup {Null}
    PROVE  IsStored(L!Store(f, p, v), f, p, v)
BY ContainersAssumption DEF L!Store, IsStored

(* An item between the one before place k and the one at place k.          *)
LEMMA Splices ==
    ASSUME NEW s, IsList(s), NEW x \in ListItem, ~IsIn(x, s),
           NEW k \in 1 .. Len(s) + 1, LinkType',
           first' = IF k = 1 THEN x ELSE first,
           last' = IF k = Len(s) + 1 THEN x ELSE last,
           \A y \in ListItem :
              next'[y] = IF y = x THEN At(s, k)
                         ELSE IF y = At(s, k - 1) THEN x ELSE next[y],
           \A y \in ListItem :
              prev'[y] = IF y = x THEN At(s, k - 1)
                         ELSE IF y = At(s, k) THEN x ELSE prev[y]
    PROVE  Insertion(s, k, x)
<1>1. /\ Len(s) \in Nat /\ DOMAIN s = 1 .. Len(s) /\ Once(s)
      /\ \A i \in 1 .. Len(s) : s[i] \in ListItem /\ s[i] # Null /\ s[i] # x
  BY EndsOf DEF IsIn
<1>2. ASSUME NEW i \in 1 .. Len(s), NEW j \in Int
      PROVE  s[i] = At(s, j) <=> i = j
  BY <1>1 DEF At, Once
<1>3. ASSUME NEW i \in 1 .. Len(s)
      PROVE  /\ next'[s[i]] = IF i = k - 1 THEN x ELSE next[s[i]]
             /\ prev'[s[i]] = IF i = k THEN x ELSE prev[s[i]]
  <2>1. s[i] = At(s, k - 1) <=> i = k - 1
    BY <1>2
  <2>2. s[i] = At(s, k) <=> i = k
    BY <1>2
  <2> QED
    BY <1>1, <2>1, <2>2
<1> QED
  BY <1>3 DEF Insertion

(* v_list_add_head.                                                        *)
LEMMA AddHeadInserts ==
    ASSUME LinkType, NEW s, IsList(s), NEW x \in ListItem, L!AddHead(x)
    PROVE  ~IsIn(x, s) /\ Insertion(s, 1, x)
<1>1. ~IsIn(x, s)
  BY InListIs DEF L!AddHead
<1>2. /\ next' = [next EXCEPT ![x] = first]
      /\ prev' = L!Store([prev EXCEPT ![x] = Null], first, x)
      /\ last' = IF last = Null THEN x ELSE last
      /\ first' = x
  BY DEF L!AddHead
<1>3. /\ Len(s) \in Nat /\ (last = Null <=> Len(s) = 0)
      /\ first = At(s, 1) /\ At(s, 0) = Null /\ first \in ListItem \cup {Null}
  BY EndsOf DEF Links, At
<1>4. /\ LinkType'
      /\ \A y \in ListItem : prev'[y] = IF y = first THEN x
                                        ELSE IF y = x THEN Null ELSE prev[y]
  <2> DEFINE f == [prev EXCEPT ![x] = Null]
  <2>1. f \in [ListItem -> ListItem \cup {Null}]
        /\ \A y \in ListItem : f[y] = IF y = x THEN Null ELSE prev[y]
    BY DEF LinkType
  <2> HIDE DEF f
  <2>2. prev' = L!Store(f, first, x)
    BY <1>2 DEF f
  <2>3. next' \in [ListItem -> ListItem \cup {Null}]
    BY <1>2, <1>3 DEF LinkType
  <2>4. prev' \in [ListItem -> ListItem \cup {Null}]
        /\ \A y \in ListItem : prev'[y] = IF y = first THEN x ELSE f[y]
    <3>1. x \in ListItem \cup {Null} /\ first \in ListItem \cup {Null}
      BY <1>3
    <3>2. IsStored(L!Store(f, first, x), f, first, x)
      BY <2>1, <3>1, Stored
    <3> QED
      BY <2>2, <3>2 DEF IsStored
  <2> QED
    BY <2>1, <2>3, <2>4 DEF LinkType
<1>5. x # At(s, 1) /\ \A y \in ListItem : y # Null
  BY <1>1, <1>3, ContainersAssumption DEF IsIn, At
<1>6. \A y \in ListItem : next'[y] = IF y = x THEN At(s, 1) ELSE next[y]
  BY <1>2, <1>3 DEF LinkType
<1>7. 1 \in 1 .. Len(s) + 1 /\ 1 - 1 = 0 /\ (1 = Len(s) + 1 <=> Len(s) = 0)
  BY <1>3
<1>8. \A y \in ListItem :
         /\ next'[y] = IF y = x THEN At(s, 1)
                       ELSE IF y = At(s, 1 - 1) THEN x ELSE next[y]
         /\ prev'[y] = IF y = x THEN At(s, 1 - 1)
                       ELSE IF y = At(s, 1) THEN x ELSE prev[y]
  BY <1>3, <1>4, <1>5, <1>6, <1>7
<1> QED
  BY <1>1, <1>2, <1>3, <1>4, <1>7, <1>8, Splices

(* v_list_add_tail.                                                        *)
LEMMA AddTailInserts ==
    ASSUME LinkType, NEW s, IsList(s), NEW x \in ListItem, L!AddTail(x)
    PROVE  ~IsIn(x, s) /\ Insertion(s, Len(s) + 1, x)
<1>1. ~IsIn(x, s)
  BY InListIs DEF L!AddTail
<1>2. /\ prev' = [prev EXCEPT ![x] = last]
      /\ next' = L!Store([next EXCEPT ![x] = Null], last, x)
      /\ first' = IF first = Null THEN x ELSE first
      /\ last' = x
  BY DEF L!AddTail
<1> DEFINE k == Len(s) + 1
<1>3. /\ Len(s) \in Nat /\ (first = Null <=> Len(s) = 0)
      /\ last = At(s, Len(s)) /\ At(s, k) = Null /\ last \in ListItem \cup {Null}
  BY EndsOf DEF Links, At
<1>4. /\ LinkType'
      /\ \A y \in ListItem : next'[y] = IF y = last THEN x
                                        ELSE IF y = x THEN Null ELSE next[y]
  <2> DEFINE f == [next EXCEPT ![x] = Null]
  <2>1. f \in [ListItem -> ListItem \cup {Null}]
        /\ \A y \in ListItem : f[y] = IF y = x THEN Null ELSE next[y]
    BY DEF LinkType
  <2> HIDE DEF f
  <2>2. next' = L!Store(f, last, x)
    BY <1>2 DEF f
  <2>3. prev' \in [ListItem -> ListItem \cup {Null}]
    BY <1>2, <1>3 DEF LinkType
  <2>4. next' \in [ListItem -> ListItem \cup {Null}]
        /\ \A y \in ListItem : next'[y] = IF y = last THEN x ELSE f[y]
    <3>1. x \in ListItem \cup {Null} /\ last \in ListItem \cup {Null}
      BY <1>3
    <3>2. IsStored(L!Store(f, last, x), f, last, x)
      BY <2>1, <3>1, Stored
    <3> QED
      BY <2>2, <3>2 DEF IsStored
  <2> QED
    BY <2>1, <2>3, <2>4 DEF LinkType
<1>5. x # At(s, Len(s)) /\ \A y \in ListItem : y # Null
  BY <1>1, <1>3, ContainersAssumption DEF IsIn, At
<1>6. \A y \in ListItem : prev'[y] = IF y = x THEN last ELSE prev[y]
  BY <1>2, <1>3 DEF LinkType
<1>7. k \in 1 .. Len(s) + 1 /\ k - 1 = Len(s) /\ (k = 1 <=> Len(s) = 0)
  BY <1>3
<1>8. \A y \in ListItem :
         /\ next'[y] = IF y = x THEN At(s, k)
                       ELSE IF y = At(s, k - 1) THEN x ELSE next[y]
         /\ prev'[y] = IF y = x THEN At(s, k - 1)
                       ELSE IF y = At(s, k) THEN x ELSE prev[y]
  BY <1>3, <1>4, <1>5, <1>6, <1>7
<1>9. first' = (IF k = 1 THEN x ELSE first) /\ last' = x
  BY <1>2, <1>3, <1>7
<1> HIDE DEF k
<1>10. Insertion(s, k, x)
  <2>1. last' = IF k = Len(s) + 1 THEN x ELSE last
    BY <1>9 DEF k
  <2> QED
    BY <1>1, <1>4, <1>7, <1>8, <1>9, <2>1, Splices
<1> QED
  BY <1>1, <1>10 DEF k

(* An item that was in no list is the only one of an empty list.           *)
LEMMA OnlyItemInserts ==
    ASSUME LinkType, NEW s, IsList(s), first = Null, NEW x \in ListItem,
           L!Fresh(x), L!OnlyItem(x)
    PROVE  ~IsIn(x, s) /\ Insertion(s, 1, x)
<1>1. Len(s) = 0
  BY EndsOf
<1>2. /\ first' = x /\ last' = x /\ next' = next /\ prev' = prev
      /\ next[x] = Null /\ prev[x] = Null
  BY DEF L!OnlyItem, L!Fresh, L!links
<1> QED
  BY <1>1, <1>2 DEF IsIn, Insertion, LinkType, At

(* v_insert_item and v_list_insert_item_after.                             *)
LEMMA InsertAfterInserts ==
    ASSUME LinkType, NEW s, IsList(s), NEW x \in ListItem,
           NEW p \in ListItem \cup {Null}, L!InsertItem(p, x)
    PROVE  /\ ~IsIn(x, s)
           /\ ~IsIn(p, s) => Insertion(s, 1, x)
           /\ \A j \in 1 .. Len(s) : s[j] = p => Insertion(s, j + 1, x)
<1>1. ~IsIn(x, s) /\ (p = Null \/ IsIn(p, s) \/ first = Null)
      /\ (first = Null => L!Fresh(x))
  BY InListIs DEF L!InsertItem, L!Insertable
<1>2. CASE first = Null
  <2>1. L!OnlyItem(x) /\ Len(s) = 0
    BY <1>2, EndsOf DEF L!InsertItem
  <2> QED
    BY <1>1, <1>2, <2>1, OnlyItemInserts
<1>3. CASE first # Null /\ p = Null
  <2>1. ~IsIn(p, s)
    BY <1>3, EndsOf DEF IsIn
  <2>2. /\ next' = [next EXCEPT ![x] = first]
        /\ prev' = [prev EXCEPT ![x] = Null, ![first] = x]
        /\ first' = x /\ last' = last
    BY <1>3 DEF L!InsertItem
  <2>3. /\ Len(s) \in Nat /\ Len(s) # 0 /\ first = At(s, 1) /\ At(s, 0) = Null
        /\ first \in ListItem /\ first # x
    <3>1. Len(s) \in Nat /\ Len(s) # 0 /\ first = At(s, 1) /\ At(s, 0) = Null
      BY <1>3, EndsOf DEF Links, At
    <3>2. 1 \in 1 .. Len(s) /\ first = s[1]
      BY <3>1 DEF At
    <3> QED
      BY <1>1, <3>1, <3>2, EndsOf DEF IsIn
  <2>4. /\ LinkType'
        /\ \A y \in ListItem :
              /\ next'[y] = IF y = x THEN first ELSE next[y]
              /\ prev'[y] = IF y = first THEN x ELSE IF y = x THEN Null ELSE prev[y]
    BY <2>2, <2>3 DEF LinkType
  <2>5. 1 \in 1 .. Len(s) + 1 /\ 1 - 1 = 0 /\ 1 # Len(s) + 1
    BY <2>3
  <2>6. \A y \in ListItem :
           /\ next'[y] = IF y = x THEN At(s, 1)
                         ELSE IF y = At(s, 1 - 1) THEN x ELSE next[y]
           /\ prev'[y] = IF y = x THEN At(s, 1 - 1)
                         ELSE IF y = At(s, 1) THEN x ELSE prev[y]
    BY <2>3, <2>4, <2>5, ContainersAssumption
  <2>7. Insertion(s, 1, x)
    BY <1>1, <2>2, <2>4, <2>5, <2>6, Splices
  <2> QED
    BY <1>1, <2>1, <2>7 DEF IsIn
<1>4. CASE first # Null /\ p # Null
  <2>1. IsIn(p, s)
    BY <1>1, <1>4
  <2>2. ASSUME NEW j \in 1 .. Len(s), s[j] = p PROVE Insertion(s, j + 1, x)
    <3>1. /\ next' = [next EXCEPT ![x] = next[p], ![p] = x]
          /\ prev' = L!Store([prev EXCEPT ![x] = p], next[p], x)
          /\ last' = IF last = p THEN x ELSE last
          /\ first' = first
      BY <1>4 DEF L!InsertItem
    <3>2. /\ Len(s) \in Nat /\ p \in ListItem /\ p # x /\ At(s, j) = p
          /\ next[p] = At(s, j + 1) /\ (last = p <=> j = Len(s))
          /\ next[p] \in ListItem \cup {Null} /\ next[p] # x
      <4>1. next[p] = At(s, j + 1)
        BY <2>2, EndsOf DEF Links
      <4>2. At(s, j + 1) # x /\ At(s, j + 1) \in ListItem \cup {Null}
        BY <1>1, EndsOf, ContainersAssumption DEF At, IsIn
      <4> QED
        BY <1>1, <2>2, <4>1, <4>2, EndsOf DEF IsIn
    <3>3. /\ LinkType'
          /\ \A y \in ListItem :
                /\ next'[y] = IF y = p THEN x ELSE IF y = x THEN next[p] ELSE next[y]
                /\ prev'[y] = IF y = next[p] THEN x ELSE IF y = x THEN p ELSE prev[y]
      <4> DEFINE f == [prev EXCEPT ![x] = p]
      <4>1. f \in [ListItem -> ListItem \cup {Null}]
            /\ \A y \in ListItem : f[y] = IF y = x THEN p ELSE prev[y]
        BY DEF LinkType
      <4>2. next' \in [ListItem -> ListItem \cup {Null}]
            /\ \A y \in ListItem :
                  next'[y] = IF y = p THEN x ELSE IF y = x THEN next[p] ELSE next[y]
        BY <3>1, <3>2 DEF LinkType
      <4> HIDE DEF f
      <4>3. prev' = L!Store(f, next[p], x)
        BY <3>1 DEF f
      <4>4. prev' \in [ListItem -> ListItem \cup {Null}]
            /\ \A y \in ListItem : prev'[y] = IF y = next[p] THEN x ELSE f[y]
        <5>1. x \in ListItem \cup {Null} /\ next[p] \in ListItem \cup {Null}
          BY <3>2
        <5>2. IsStored(L!Store(f, next[p], x), f, next[p], x)
          BY <4>1, <5>1, Stored
        <5> QED
          BY <4>3, <5>2 DEF IsStored
      <4> QED
        BY <4>1, <4>2, <4>4 DEF LinkType
    <3> DEFINE k == j + 1
    <3>4. /\ k \in 1 .. Len(s) + 1 /\ k - 1 = j /\ k # 1
          /\ (k = Len(s) + 1 <=> j = Len(s))
      BY <3>2
    <3>5. \A y \in ListItem :
             /\ next'[y] = IF y = x THEN At(s, k)
                           ELSE IF y = At(s, k - 1) THEN x ELSE next[y]
             /\ prev'[y] = IF y = x THEN At(s, k - 1)
                           ELSE IF y = At(s, k) THEN x ELSE prev[y]
      BY <3>2, <3>3, <3>4
    <3> HIDE DEF k
    <3>6. /\ first' = IF k = 1 THEN x ELSE first
          /\ last' = IF k = Len(s) + 1 THEN x ELSE last
      BY <3>1, <3>2, <3>4
    <3>7. Insertion(s, k, x)
      BY <1>1, <3>3, <3>4, <3>5, <3>6, Splices
    <3> QED
      BY <3>7 DEF k
  <2> QED
    BY <1>1, <2>1, <2>2
<1> QED
  BY <1>2, <1>3, <1>4

(* v_list_insert_item_before.                                              *)
LEMMA InsertBeforeInserts ==
    ASSUME LinkType, NEW s, IsList(s), NEW x \in ListItem,
           NEW n \in ListItem \cup {Null}, L!InsertItemBefore(n, x)
    PROVE  /\ ~IsIn(x, s)
           /\ ~IsIn(n, s) => Insertion(s, Len(s) + 1, x)
           /\ \A j \in 1 .. Len(s) : s[j] = n => Insertion(s, j, x)
<1>1. ~IsIn(x, s) /\ (n = Null \/ IsIn(n, s) \/ first = Null)
      /\ (first = Null => L!Fresh(x))
  BY InListIs DEF L!InsertItemBefore, L!Insertable
<1>2. CASE first = Null
  <2>1. L!OnlyItem(x) /\ Len(s) = 0 /\ Len(s) + 1 = 1
    BY <1>2, EndsOf DEF L!InsertItemBefore
  <2>2. Insertion(s, 1, x)
    BY <1>1, <1>2, <2>1, OnlyItemInserts
  <2>3. Insertion(s, Len(s) + 1, x)
    BY <2>1, <2>2
  <2> QED
    BY <1>1, <2>1, <2>3
<1>3. CASE first # Null /\ n = Null
  <2>1. ~IsIn(n, s)
    BY <1>3, EndsOf DEF IsIn
  <2>2. /\ prev' = [prev EXCEPT ![x] = last]
        /\ next' = [next EXCEPT ![x] = Null, ![last] = x]
        /\ last' = x /\ first' = first
    BY <1>3 DEF L!InsertItemBefore
  <2> DEFINE k == Len(s) + 1
  <2>3. /\ Len(s) \in Nat /\ Len(s) # 0 /\ last = At(s, Len(s)) /\ At(s, k) = Null
        /\ last \in ListItem /\ last # x
    <3>1. /\ Len(s) \in Nat /\ Len(s) # 0 /\ last = At(s, Len(s))
          /\ At(s, k) = Null
      BY <1>3, EndsOf DEF Links, At
    <3>2. Len(s) \in 1 .. Len(s) /\ last = s[Len(s)]
      BY <3>1 DEF At
    <3> QED
      BY <1>1, <3>1, <3>2, EndsOf DEF IsIn
  <2>4. /\ LinkType'
        /\ \A y \in ListItem :
              /\ prev'[y] = IF y = x THEN last ELSE prev[y]
              /\ next'[y] = IF y = last THEN x ELSE IF y = x THEN Null ELSE next[y]
    BY <2>2, <2>3 DEF LinkType
  <2>5. k \in 1 .. Len(s) + 1 /\ k - 1 = Len(s) /\ k # 1
    BY <2>3
  <2>6. \A y \in ListItem :
           /\ next'[y] = IF y = x THEN At(s, k)
                         ELSE IF y = At(s, k - 1) THEN x ELSE next[y]
           /\ prev'[y] = IF y = x THEN At(s, k - 1)
                         ELSE IF y = At(s, k) THEN x ELSE prev[y]
    BY <2>3, <2>4, <2>5, ContainersAssumption
  <2>7. last' = IF k = Len(s) + 1 THEN x ELSE last
    BY <2>2
  <2>8. first' = IF k = 1 THEN x ELSE first
    BY <2>2, <2>5
  <2> HIDE DEF k
  <2>9. Insertion(s, k, x)
    BY <1>1, <2>4, <2>5, <2>6, <2>7, <2>8, Splices
  <2> QED
    BY <1>1, <2>1, <2>9 DEF IsIn, k
<1>4. CASE first # Null /\ n # Null
  <2>1. IsIn(n, s)
    BY <1>1, <1>4
  <2>2. ASSUME NEW j \in 1 .. Len(s), s[j] = n PROVE Insertion(s, j, x)
    <3>1. /\ prev' = [prev EXCEPT ![x] = prev[n], ![n] = x]
          /\ next' = L!Store([next EXCEPT ![x] = n], prev[n], x)
          /\ first' = IF first = n THEN x ELSE first
          /\ last' = last
      BY <1>4 DEF L!InsertItemBefore
    <3>2. /\ Len(s) \in Nat /\ n \in ListItem /\ n # x /\ At(s, j) = n
          /\ prev[n] = At(s, j - 1) /\ (first = n <=> j = 1)
          /\ prev[n] \in ListItem \cup {Null} /\ prev[n] # x
      <4>1. prev[n] = At(s, j - 1)
        BY <2>2, EndsOf DEF Links
      <4>2. At(s, j - 1) # x /\ At(s, j - 1) \in ListItem \cup {Null}
        BY <1>1, EndsOf, ContainersAssumption DEF At, IsIn
      <4> QED
        BY <1>1, <2>2, <4>1, <4>2, EndsOf DEF IsIn
    <3>3. /\ LinkType'
          /\ \A y \in ListItem :
                /\ prev'[y] = IF y = n THEN x ELSE IF y = x THEN prev[n] ELSE prev[y]
                /\ next'[y] = IF y = prev[n] THEN x ELSE IF y = x THEN n ELSE next[y]
      <4> DEFINE f == [next EXCEPT ![x] = n]
      <4>1. f \in [ListItem -> ListItem \cup {Null}]
            /\ \A y \in ListItem : f[y] = IF y = x THEN n ELSE next[y]
        BY DEF LinkType
      <4>2. prev' \in [ListItem -> ListItem \cup {Null}]
            /\ \A y \in ListItem :
                  prev'[y] = IF y = n THEN x ELSE IF y = x THEN prev[n] ELSE prev[y]
        BY <3>1, <3>2 DEF LinkType
      <4> HIDE DEF f
      <4>3. next' = L!Store(f, prev[n], x)
        BY <3>1 DEF f
      <4>4. next' \in [ListItem -> ListItem \cup {Null}]
            /\ \A y \in ListItem : next'[y] = IF y = prev[n] THEN x ELSE f[y]
        <5>1. x \in ListItem \cup {Null} /\ prev[n] \in ListItem \cup {Null}
          BY <3>2
        <5>2. IsStored(L!Store(f, prev[n], x), f, prev[n], x)
          BY <4>1, <5>1, Stored
        <5> QED
          BY <4>3, <5>2 DEF IsStored
      <4> QED
        BY <4>1, <4>2, <4>4 DEF LinkType
    <3>4. j \in 1 .. Len(s) + 1 /\ j # Len(s) + 1
      BY <3>2
    <3>5. \A y \in ListItem :
             /\ next'[y] = IF y = x THEN At(s, j)
                           ELSE IF y = At(s, j - 1) THEN x ELSE next[y]
             /\ prev'[y] = IF y = x THEN At(s, j - 1)
                           ELSE IF y = At(s, j) THEN x ELSE prev[y]
      BY <3>2, <3>3
    <3>6. /\ first' = IF j = 1 THEN x ELSE first
          /\ last' = IF j = Len(s) + 1 THEN x ELSE last
      BY <3>1, <3>2, <3>4
    <3> QED
      BY <1>1, <3>3, <3>4, <3>5, <3>6, Splices
  <2> QED
    BY <1>1, <2>1, <2>2
<1> QED
  BY <1>2, <1>3, <1>4

(* v_list_rem_item and v_list_free_item: whatever becomes of the links of  *)
(* the item that is taken out.                                             *)
LEMMA Unlinks ==
    ASSUME LinkType, NEW s, IsList(s), NEW k \in 1 .. Len(s), LinkType',
           \A y \in ListItem :
              y # s[k] =>
                 /\ next'[y] = IF y = prev[s[k]] THEN next[s[k]] ELSE next[y]
                 /\ prev'[y] = IF y = next[s[k]] THEN prev[s[k]] ELSE prev[y],
           last' = IF last = s[k] THEN prev[s[k]] ELSE last,
           first' = IF first = s[k] THEN next[s[k]] ELSE first
    PROVE  Removal(s, k)
<1>1. /\ Len(s) \in Nat /\ DOMAIN s = 1 .. Len(s) /\ Once(s)
      /\ \A i \in 1 .. Len(s) : s[i] \in ListItem /\ s[i] # Null
      /\ next[s[k]] = At(s, k + 1) /\ prev[s[k]] = At(s, k - 1)
      /\ (last = s[k] <=> k = Len(s)) /\ (first = s[k] <=> k = 1)
  BY EndsOf DEF Links
<1>2. ASSUME NEW i \in 1 .. Len(s), NEW j \in Int
      PROVE  s[i] = At(s, j) <=> i = j
  BY <1>1 DEF At, Once
<1>3. ASSUME NEW i \in 1 .. Len(s), i # k
      PROVE  /\ next'[s[i]] = IF i = k - 1 THEN At(s, k + 1) ELSE next[s[i]]
             /\ prev'[s[i]] = IF i = k + 1 THEN At(s, k - 1) ELSE prev[s[i]]
  <2>1. s[i] # s[k]
    BY <1>1, <1>3 DEF Once
  <2>2. s[i] = At(s, k - 1) <=> i = k - 1
    BY <1>2
  <2>3. s[i] = At(s, k + 1) <=> i = k + 1
    BY <1>2
  <2> QED
    BY <1>1, <2>1, <2>2, <2>3
<1>4. k = 1 => k + 1 = 2
  OBVIOUS
<1> QED
  BY <1>1, <1>3, <1>4, Zenon DEF Removal

(* v_list_rem_item takes the item at place k out, wherever that is.        *)
LEMMA RemItemRemoves ==
    ASSUME LinkType, NEW s, IsList(s), NEW k \in 1 .. Len(s), L!RemItem(s[k])
    PROVE  Removal(s, k)
<1> DEFINE x == s[k]
<1>1. x \in ListItem
  BY EndsOf
<1>2. /\ prev' = L!Store(prev, next[x], prev[x])
      /\ next' = L!Store(next, prev[x], next[x])
      /\ last' = IF last = x THEN prev[x] ELSE last
      /\ first' = IF first = x THEN next[x] ELSE first
  BY DEF L!RemItem, L!Unlinked
<1> HIDE DEF x
<1>3. /\ next \in [ListItem -> ListItem \cup {Null}]
      /\ prev \in [ListItem -> ListItem \cup {Null}]
      /\ next[x] \in ListItem \cup {Null} /\ prev[x] \in ListItem \cup {Null}
  BY <1>1 DEF LinkType
<1> DEFINE p == L!Store(prev, next[x], prev[x])
           n == L!Store(next, prev[x], next[x])
<1>4. /\ n \in [ListItem -> ListItem \cup {Null}]
      /\ \A y \in ListItem : n[y] = IF y = prev[x] THEN next[x] ELSE next[y]
  <2>1. IsStored(n, next, prev[x], next[x])
    BY <1>3, Stored
  <2> QED
    BY <2>1 DEF IsStored
<1>5. /\ p \in [ListItem -> ListItem \cup {Null}]
      /\ \A y \in ListItem : p[y] = IF y = next[x] THEN prev[x] ELSE prev[y]
  <2>1. IsStored(p, prev, next[x], prev[x])
    BY <1>3, Stored
  <2> QED
    BY <2>1 DEF IsStored
<1>6. next' = n /\ prev' = p
  BY <1>2
<1> HIDE DEF p, n
<1>7. LinkType'
  BY <1>4, <1>5, <1>6 DEF LinkType
<1>8. /\ last' = IF last = x THEN prev[x] ELSE last
      /\ first' = IF first = x THEN next[x] ELSE first
  BY <1>2
<1> QED
  BY <1>4, <1>5, <1>6, <1>7, <1>8, Unlinks DEF x

(* v_list_free_item does the same.                                         *)
LEMMA FreeItemRemoves ==
    ASSUME LinkType, NEW s, IsList(s), NEW k \in 1 .. Len(s), L!FreeItem(s[k])
    PROVE  Removal(s, k)
<1> DEFINE x == s[k]
<1>1. x \in ListItem
  BY EndsOf
<1>2. /\ prev' = [L!Store(prev, next[x], prev[x]) EXCEPT ![x] = Null]
      /\ next' = [L!Store(next, prev[x], next[x]) EXCEPT ![x] = Null]
      /\ last' = IF last = x THEN prev[x] ELSE last
      /\ first' = IF first = x THEN next[x] ELSE first
  BY DEF L!FreeItem
<1> HIDE DEF x
<1>3. /\ next \in [ListItem -> ListItem \cup {Null}]
      /\ prev \in [ListItem -> ListItem \cup {Null}]
      /\ next[x] \in ListItem \cup {Null} /\ prev[x] \in ListItem \cup {Null}
  BY <1>1 DEF LinkType
<1> DEFINE p == L!Store(prev, next[x], prev[x])
           n == L!Store(next, prev[x], next[x])
<1>4. /\ n \in [ListItem -> ListItem \cup {Null}]
      /\ \A y \in ListItem : n[y] = IF y = prev[x] THEN next[x] ELSE next[y]
  <2>1. IsStored(n, next, prev[x], next[x])
    BY <1>3, Stored
  <2> QED
    BY <2>1 DEF IsStored
<1>5. /\ p \in [ListItem -> ListItem \cup {Null}]
      /\ \A y \in ListItem : p[y] = IF y = next[x] THEN prev[x] ELSE prev[y]
  <2>1. IsStored(p, prev, next[x], prev[x])
    BY <1>3, Stored
  <2> QED
    BY <2>1 DEF IsStored
<1>6. next' = [n EXCEPT ![x] = Null] /\ prev' = [p EXCEPT ![x] = Null]
  BY <1>2
<1> HIDE DEF p, n
<1>7. LinkType'
  BY <1>4, <1>5, <1>6 DEF LinkType
<1>8. \A y \in ListItem : y # x => next'[y] = n[y] /\ prev'[y] = p[y]
  BY <1>4, <1>5, <1>6
<1>9. /\ last' = IF last = x THEN prev[x] ELSE last
      /\ first' = IF first = x THEN next[x] ELSE first
  BY <1>2
<1> QED
  BY <1>4, <1>5, <1>7, <1>8, <1>9, Unlinks DEF x

(* After a step too, the walk of a list is its sequence.                   *)
LEMMA ContentsThen == (\A s : IsList(s) => L!Contents = s)'
<1>1. \A s : IsList(s) => L!Contents = s
  BY ContentsAre
<1> QED
  BY <1>1, PTL

(* Having an item, and its position, mean the same in ItemList.            *)
LEMMA AbstractIs ==
    ASSUME NEW s, IsList(s)
    PROVE  /\ \A x : L!Abs!Has(x) <=> IsIn(x, s)
           /\ \A k \in 1 .. Len(s) : L!Abs!Position(s[k]) = k
<1>1. L!Contents = s /\ DOMAIN s = 1 .. Len(s) /\ Once(s)
  BY ContentsAre, EndsOf
<1>2. \A x : L!Abs!Has(x) <=> IsIn(x, s)
  BY <1>1 DEF L!Abs!Has, L!Abs!ToSet, IsIn
<1>3. ASSUME NEW k \in 1 .. Len(s) PROVE L!Abs!Position(s[k]) = k
  BY <1>1 DEF L!Abs!Position, Once
<1> QED
  BY <1>2, <1>3

(* After an insertion the invariant holds and the contents have x at k.    *)
LEMMA GrowsTo ==
    ASSUME NEW s, IsList(s), NEW x \in ListItem, ~IsIn(x, s),
           NEW k \in 1 .. Len(s) + 1, Insertion(s, k, x),
           NEW t, t \in Seq(ListItem) /\ IsInserted(t, s, k, x)
    PROVE  ListInv' /\ L!Contents' = t
<1>1. IsList(t)'
  BY Inserted
<1>2. LinkType'
  BY DEF Insertion
<1> QED
  BY <1>1, <1>2, ContentsThen DEF ListInv

(* After a removal the invariant holds and the contents lack place k.      *)
LEMMA ShrinksTo ==
    ASSUME NEW s, IsList(s), NEW k \in 1 .. Len(s), Removal(s, k),
           NEW t, t \in Seq(ListItem) /\ IsRemoved(t, s, k)
    PROVE  ListInv' /\ L!Contents' = t
<1>1. IsList(t)'
  BY TakenOut
<1>2. LinkType'
  BY DEF Removal
<1> QED
  BY <1>1, <1>2, ContentsThen DEF ListInv

(* v_list_add_head implements PutFirst.                                    *)
LEMMA AddHeadPuts ==
    ASSUME ListInv, NEW x \in ListItem, L!AddHead(x)
    PROVE  ListInv' /\ L!Abs!PutFirst(x)
<1>1. PICK s : IsList(s)
  BY DEF ListInv
<1>2. /\ s \in Seq(ListItem) /\ Len(s) \in Nat /\ 1 \in 1 .. Len(s) + 1
      /\ L!Contents = s
  BY <1>1, EndsOf, ContentsAre
<1>3. ~IsIn(x, s) /\ Insertion(s, 1, x)
  BY <1>1, AddHeadInserts DEF ListInv
<1> DEFINE t == <<x>> \o s
<1>4. t \in Seq(ListItem) /\ IsInserted(t, s, 1, x)
  BY <1>2, PutsInFirst
<1> HIDE DEF t
<1>5. ListInv' /\ L!Contents' = t
  BY <1>1, <1>2, <1>3, <1>4, GrowsTo
<1>6. call' = L!Abs!Call("addHead", x, Null)
  BY DEF L!AddHead, L!Call, L!Abs!Call
<1>7. ~L!Abs!Has(x)
  BY <1>1, <1>3, AbstractIs
<1> QED
  BY <1>2, <1>5, <1>6, <1>7 DEF L!Abs!PutFirst, t

(* v_list_add_tail implements PutLast.                                     *)
LEMMA AddTailPuts ==
    ASSUME ListInv, NEW x \in ListItem, L!AddTail(x)
    PROVE  ListInv' /\ L!Abs!PutLast(x)
<1>1. PICK s : IsList(s)
  BY DEF ListInv
<1>2. /\ s \in Seq(ListItem) /\ Len(s) \in Nat
      /\ Len(s) + 1 \in 1 .. Len(s) + 1 /\ L!Contents = s
  BY <1>1, EndsOf, ContentsAre
<1>3. ~IsIn(x, s) /\ Insertion(s, Len(s) + 1, x)
  BY <1>1, AddTailInserts DEF ListInv
<1> DEFINE t == Append(s, x)
<1>4. t \in Seq(ListItem) /\ IsInserted(t, s, Len(s) + 1, x)
  BY <1>2, PutsInLast
<1> HIDE DEF t
<1>5. ListInv' /\ L!Contents' = t
  BY <1>1, <1>2, <1>3, <1>4, GrowsTo
<1>6. call' = L!Abs!Call("addTail", x, Null)
  BY DEF L!AddTail, L!Call, L!Abs!Call
<1>7. ~L!Abs!Has(x)
  BY <1>1, <1>3, AbstractIs
<1> QED
  BY <1>2, <1>5, <1>6, <1>7 DEF L!Abs!PutLast, t

(* v_list_insert_item, with and without a known predecessor, implements    *)
(* PutAfter.                                                               *)
LEMMA InsertAfterPuts ==
    ASSUME ListInv, NEW x \in ListItem, NEW p \in ListItem \cup {Null},
           L!InsertItem(p, x)
    PROVE  ListInv' /\ L!Abs!PutAfter(p, x)
<1>1. PICK s : IsList(s)
  BY DEF ListInv
<1>2. /\ s \in Seq(ListItem) /\ Len(s) \in Nat /\ 1 \in 1 .. Len(s) + 1
      /\ L!Contents = s
  BY <1>1, EndsOf, ContentsAre
<1>3. /\ ~IsIn(x, s)
      /\ ~IsIn(p, s) => Insertion(s, 1, x)
      /\ \A j \in 1 .. Len(s) : s[j] = p => Insertion(s, j + 1, x)
  BY <1>1, InsertAfterInserts DEF ListInv
<1>4. call' = L!Abs!Call("after", x, p)
  BY DEF L!InsertItem, L!Call, L!Abs!Call
<1>5. ~L!Abs!Has(x) /\ (L!Abs!Has(p) <=> IsIn(p, s))
  BY <1>1, <1>3, AbstractIs
<1>6. CASE ~IsIn(p, s)
  <2> DEFINE t == <<x>> \o s
  <2>1. t \in Seq(ListItem) /\ IsInserted(t, s, 1, x)
    BY <1>2, PutsInFirst
  <2> HIDE DEF t
  <2>2. ListInv' /\ L!Contents' = t
    BY <1>1, <1>2, <1>3, <1>6, <2>1, GrowsTo
  <2> QED
    BY <1>2, <1>4, <1>5, <1>6, <2>2 DEF L!Abs!PutAfter, t
<1>7. CASE IsIn(p, s)
  <2>1. PICK j \in 1 .. Len(s) : s[j] = p
    BY <1>7 DEF IsIn
  <2>2. L!Abs!Position(p) = j
    BY <1>1, <2>1, AbstractIs
  <2> DEFINE k == j + 1
             t == SubSeq(s, 1, k - 1) \o <<x>> \o SubSeq(s, k, Len(s))
  <2>3. k \in 1 .. Len(s) + 1 /\ Insertion(s, k, x)
    BY <1>2, <1>3, <2>1
  <2> HIDE DEF k
  <2>4. t \in Seq(ListItem) /\ IsInserted(t, s, k, x)
    BY <1>2, <2>3, PutsIn
  <2>5. t = L!Abs!InsertAt(s, k, x)
    BY DEF L!Abs!InsertAt
  <2> HIDE DEF t
  <2>6. ListInv' /\ L!Contents' = t
    BY <1>1, <1>2, <1>3, <2>3, <2>4, GrowsTo
  <2>7. L!Contents' = L!Abs!InsertAt(L!Contents, L!Abs!Position(p) + 1, x)
    BY <1>2, <2>2, <2>5, <2>6 DEF k
  <2> QED
    BY <1>4, <1>5, <1>7, <2>6, <2>7 DEF L!Abs!PutAfter
<1> QED
  BY <1>6, <1>7

(* v_list_insert_item_before, with and without a known successor,          *)
(* implements PutBefore.                                                   *)
LEMMA InsertBeforePuts ==
    ASSUME ListInv, NEW x \in ListItem, NEW n \in ListItem \cup {Null},
           L!InsertItemBefore(n, x)
    PROVE  ListInv' /\ L!Abs!PutBefore(n, x)
<1>1. PICK s : IsList(s)
  BY DEF ListInv
<1>2. /\ s \in Seq(ListItem) /\ Len(s) \in Nat
      /\ Len(s) + 1 \in 1 .. Len(s) + 1 /\ L!Contents = s
  BY <1>1, EndsOf, ContentsAre
<1>3. /\ ~IsIn(x, s)
      /\ ~IsIn(n, s) => Insertion(s, Len(s) + 1, x)
      /\ \A j \in 1 .. Len(s) : s[j] = n => Insertion(s, j, x)
  BY <1>1, InsertBeforeInserts DEF ListInv
<1>4. call' = L!Abs!Call("before", x, n)
  BY DEF L!InsertItemBefore, L!Call, L!Abs!Call
<1>5. ~L!Abs!Has(x) /\ (L!Abs!Has(n) <=> IsIn(n, s))
  BY <1>1, <1>3, AbstractIs
<1>6. CASE ~IsIn(n, s)
  <2> DEFINE t == Append(s, x)
  <2>1. t \in Seq(ListItem) /\ IsInserted(t, s, Len(s) + 1, x)
    BY <1>2, PutsInLast
  <2> HIDE DEF t
  <2>2. ListInv' /\ L!Contents' = t
    BY <1>1, <1>2, <1>3, <1>6, <2>1, GrowsTo
  <2> QED
    BY <1>2, <1>4, <1>5, <1>6, <2>2 DEF L!Abs!PutBefore, t
<1>7. CASE IsIn(n, s)
  <2>1. PICK k \in 1 .. Len(s) : s[k] = n
    BY <1>7 DEF IsIn
  <2>2. L!Abs!Position(n) = k
    BY <1>1, <2>1, AbstractIs
  <2> DEFINE t == SubSeq(s, 1, k - 1) \o <<x>> \o SubSeq(s, k, Len(s))
  <2>3. k \in 1 .. Len(s) + 1 /\ Insertion(s, k, x)
    BY <1>2, <1>3, <2>1
  <2>4. t \in Seq(ListItem) /\ IsInserted(t, s, k, x)
    BY <1>2, <2>3, PutsIn
  <2>5. t = L!Abs!InsertAt(s, k, x)
    BY DEF L!Abs!InsertAt
  <2> HIDE DEF t
  <2>6. ListInv' /\ L!Contents' = t
    BY <1>1, <1>2, <1>3, <2>3, <2>4, GrowsTo
  <2>7. L!Contents' = L!Abs!InsertAt(L!Contents, L!Abs!Position(n), x)
    BY <1>2, <2>2, <2>5, <2>6
  <2> QED
    BY <1>4, <1>5, <1>7, <2>6, <2>7 DEF L!Abs!PutBefore
<1> QED
  BY <1>6, <1>7

(* v_list_rem_item and v_list_free_item implement Take.                    *)
LEMMA RemovesTake ==
    ASSUME ListInv, NEW x \in ListItem, L!RemItem(x) \/ L!FreeItem(x)
    PROVE  ListInv' /\ L!Abs!Take(x)
<1>1. PICK s : IsList(s)
  BY DEF ListInv
<1>2. s \in Seq(ListItem) /\ L!Contents = s
  BY <1>1, EndsOf, ContentsAre
<1>3. IsIn(x, s) /\ call' = L!Abs!Call("remove", x, Null)
  BY <1>1, InListIs DEF L!RemItem, L!FreeItem, L!Call, L!Abs!Call
<1>4. PICK k \in 1 .. Len(s) : s[k] = x
  BY <1>3 DEF IsIn
<1>5. L!Abs!Has(x) /\ L!Abs!Position(x) = k
  BY <1>1, <1>3, <1>4, AbstractIs
<1>6. Removal(s, k)
  BY <1>1, <1>4, RemItemRemoves, FreeItemRemoves DEF ListInv
<1> DEFINE t == SubSeq(s, 1, k - 1) \o SubSeq(s, k + 1, Len(s))
<1>7. t \in Seq(ListItem) /\ IsRemoved(t, s, k)
  BY <1>2, CutsOut
<1>8. t = L!Abs!RemoveAt(s, k)
  BY DEF L!Abs!RemoveAt
<1> HIDE DEF t
<1>9. ListInv' /\ L!Contents' = t
  BY <1>1, <1>6, <1>7, ShrinksTo
<1> QED
  BY <1>2, <1>3, <1>5, <1>8, <1>9 DEF L!Abs!Take

(* v_list_free.                                                            *)
LEMMA FreeClears ==
    ASSUME ListInv, L!Free
    PROVE  ListInv' /\ L!Abs!Clear
<1>1. LinkType'
  BY DEF ListInv, LinkType, L!Free
<1>2. IsList(<<>>)'
  BY EmptySeq DEF L!Free, IsList, Once, Links, At
<1>3. ListInv' /\ L!Contents' = <<>>
  BY <1>1, <1>2, ContentsThen DEF ListInv
<1> QED
  BY <1>3 DEF L!Free, L!Call, L!Abs!Clear, L!Abs!Call

(* v_list_init establishes the invariant.                                  *)
LEMMA InitList == L!Init => ListInv /\ L!Abs!Init
<1> SUFFICES ASSUME L!Init PROVE ListInv /\ L!Abs!Init
  OBVIOUS
<1>1. LinkType
  BY DEF L!Init, LinkType
<1>2. IsList(<<>>)
  BY EmptySeq DEF L!Init, IsList, Once, Links, At
<1>3. L!Contents = <<>>
  BY <1>2, ContentsAre
<1> QED
  BY <1>1, <1>2, <1>3 DEF ListInv, L!Init, L!Call, L!Abs!Init, L!Abs!NoCall, L!Abs!Call

(* Every step of the list keeps the invariant and is a step of ItemList.   *)
LEMMA ListStep ==
    ASSUME ListInv, [L!Next]_(L!vars)
    PROVE  ListInv' /\ [L!Abs!Next]_(L!Abs!vars)
<1>1. CASE UNCHANGED L!vars
  <2>1. /\ first' = first /\ last' = last /\ next' = next /\ prev' = prev
        /\ call' = call
    BY <1>1 DEF L!vars, L!base, L!links
  <2>2. PICK s : IsList(s)
    BY DEF ListInv
  <2>3. IsList(s)' /\ LinkType'
    BY <2>1, <2>2 DEF IsList, Links, ListInv, LinkType
  <2>4. L!Contents' = s /\ L!Contents = s
    BY <2>2, <2>3, ContentsThen, ContentsAre
  <2> QED
    BY <2>1, <2>3, <2>4 DEF ListInv, L!Abs!vars
<1>2. ASSUME NEW x \in ListItem,
             L!AddHead(x) \/ L!AddTail(x) \/ L!RemItem(x) \/ L!FreeItem(x)
      PROVE  ListInv' /\ L!Abs!Next
  BY <1>2, AddHeadPuts, AddTailPuts, RemovesTake DEF L!Abs!Next
<1>3. ASSUME NEW x \in ListItem, NEW at \in ListItem \cup {Null},
             L!InsertItem(at, x) \/ L!InsertItemAfter(at, x)
      PROVE  ListInv' /\ L!Abs!Next
  <2>1. L!InsertItem(at, x)
    BY <1>3 DEF L!InsertItemAfter
  <2> QED
    BY <2>1, InsertAfterPuts DEF L!Abs!Next
<1>4. ASSUME NEW x \in ListItem, NEW at \in ListItem \cup {Null},
             L!InsertItemBefore(at, x)
      PROVE  ListInv' /\ L!Abs!Next
  BY <1>4, InsertBeforePuts DEF L!Abs!Next
<1>5. ASSUME L!Free PROVE ListInv' /\ L!Abs!Next
  BY <1>5, FreeClears DEF L!Abs!Next
<1> QED
  BY <1>1, <1>2, <1>3, <1>4, <1>5 DEF L!Next, L!Pointer

(* Of v_list_...: after any sequence of calls the base and the links are   *)
(* those of a list without repetitions, for any finite set of items.       *)
THEOREM ListInvariant == L!Spec => []ListInv
  BY InitList, ListStep, PTL DEF L!Spec

(* Of the links of v_list_...: the walk from the last item along prev      *)
(* meets what the walk from the first along next meets, backwards, after   *)
(* any sequence of calls, for any finite set of items.                     *)
THEOREM WalksAgreeHolds == L!Spec => []WalksAgree
  BY ListInvariant, ListWalks, PTL

(* Of v_list_...: after any sequence of calls the list holds the items in  *)
(* the order that the calls ask for, wherever the items are and go, for    *)
(* any finite set of items.                                                *)
THEOREM ListImplements == L!Spec => ImplementsItemList
<1>1. ListInv /\ [L!Next]_(L!vars) => [L!Abs!Next]_(L!Abs!vars)
  BY ListStep
<1> QED
  BY <1>1, InitList, ListInvariant, PTL
     DEF L!Spec, ImplementsItemList, L!ImplementsItemList, L!Abs!Spec

-----------------------------------------------------------------------------
(* The hash array.                                                         *)

(* g sums up f over the subsets of D with at most n elements.              *)
IsSum(g, f, D, n) ==
    g = [s \in {t \in SUBSET D : Cardinality(t) =< n} |->
           IF s = {} THEN 0
           ELSE f[CHOOSE x \in s : TRUE] + g[s \ {CHOOSE x \in s : TRUE}]]

(* There is such a function, for a function to the natural numbers.        *)
LEMMA SumExists ==
    ASSUME NEW D, IsFiniteSet(D), NEW f, NEW m \in Nat
    PROVE  \E g : IsSum(g, f, D, m)
<1> DEFINE T == {k \in Nat : \E g : IsSum(g, f, D, k)}
           Sub(k) == {t \in SUBSET D : Cardinality(t) =< k}
           Arb(s) == CHOOSE x \in s : TRUE
<1>1. 0 \in T
  <2>1. \A s \in Sub(0) : s = {}
    BY FS_Subset, FS_CardinalityType, FS_EmptySet
  <2>2. IsSum([s \in Sub(0) |-> 0], f, D, 0)
    BY <2>1 DEF IsSum
  <2> QED
    BY <2>2
<1>2. ASSUME NEW n \in Nat, n \in T PROVE n + 1 \in T
  <2>1. PICK g : IsSum(g, f, D, n)
    BY <1>2
  <2> DEFINE h == [s \in Sub(n + 1) |->
                      IF s \in Sub(n) THEN g[s]
                      ELSE f[Arb(s)] + g[s \ {Arb(s)}]]
  <2>2. ASSUME NEW s \in Sub(n + 1)
        PROVE  h[s] = IF s = {} THEN 0 ELSE f[Arb(s)] + h[s \ {Arb(s)}]
    <3>1. IsFiniteSet(s) /\ Cardinality(s) \in Nat
      BY FS_Subset, FS_CardinalityType
    <3>2. CASE s = {}
      <4>1. s \in Sub(n)
        BY <3>2, FS_EmptySet
      <4> QED
        BY <2>1, <3>2, <4>1 DEF IsSum
    <3>3. CASE s # {}
      <4>1. Arb(s) \in s
        BY <3>3
      <4>2. s \ {Arb(s)} \in Sub(n)
        <5>1. Cardinality(s \ {Arb(s)}) = Cardinality(s) - 1
          BY <3>1, <4>1, FS_RemoveElement
        <5> QED
          BY <3>1, <5>1
      <4>3. Sub(n) \subseteq Sub(n + 1)
        BY FS_Subset, FS_CardinalityType
      <4>4. h[s \ {Arb(s)}] = g[s \ {Arb(s)}]
        BY <4>2, <4>3
      <4>5. CASE s \in Sub(n)
        <5>1. g[s] = f[Arb(s)] + g[s \ {Arb(s)}]
          BY <2>1, <3>3, <4>5 DEF IsSum
        <5> QED
          BY <3>3, <4>4, <4>5, <5>1
      <4>6. CASE s \notin Sub(n)
        BY <3>3, <4>4, <4>6
      <4> QED
        BY <4>5, <4>6
    <3> QED
      BY <3>2, <3>3
  <2>3. IsSum(h, f, D, n + 1)
    <3>1. h = [s \in Sub(n + 1) |-> h[s]]
      OBVIOUS
    <3> HIDE DEF h
    <3> QED
      BY <2>2, <3>1 DEF IsSum
  <2> HIDE DEF h
  <2> QED
    BY <2>3
<1> HIDE DEF T
<1>3. m \in T
  BY <1>1, <1>2, Induction
<1> QED
  BY <1>3 DEF T

(* What the fold of VHashArray adds up is a natural number.                *)
LEMMA SumIsNat ==
    ASSUME NEW n \in Nat, NEW f \in [0 .. n - 1 -> Nat]
    PROVE  H!SumFunction(f) \in Nat
<1> DEFINE D == 0 .. n - 1
           Arb(s) == CHOOSE x \in s : TRUE
           Sum(g) == g = [s \in SUBSET D |->
                             IF s = {} THEN 0 ELSE f[Arb(s)] + g[s \ {Arb(s)}]]
<1>1. DOMAIN f = D
  OBVIOUS
<1>2. H!SumFunction(f) = (CHOOSE g : Sum(g))[D]
  BY <1>1, Zenon DEF H!SumFunction, H!SumFunctionOnSet, H!FoldFunctionOnSet, H!MapThenFoldSet
<1>3. IsFiniteSet(D) /\ \A s \in SUBSET D : Cardinality(s) =< n
  <2>1. IsFiniteSet(D) /\ Cardinality(D) = n
    <3>1. 0 \in Int /\ n - 1 \in Int
      OBVIOUS
    <3>2. IsFiniteSet(D) /\ Cardinality(D) = IF 0 > n - 1 THEN 0 ELSE (n - 1) - 0 + 1
      BY <3>1, FS_Interval
    <3> QED
      BY <3>2
  <2>2. \A s \in SUBSET D : Cardinality(s) \in Nat /\ Cardinality(s) =< Cardinality(D)
    BY <2>1, FS_Subset, FS_CardinalityType
  <2> QED
    BY <2>1, <2>2
<1>4. \E g : Sum(g)
  <2>1. PICK g : IsSum(g, f, D, n)
    BY <1>3, SumExists
  <2>2. {t \in SUBSET D : Cardinality(t) =< n} = SUBSET D
    BY <1>3
  <2>3. Sum(g)
    BY <2>1, <2>2, Zenon DEF IsSum
  <2> QED
    BY <2>3
<1>5. PICK g : Sum(g) /\ H!SumFunction(f) = g[D]
  <2> HIDE DEF Sum
  <2> QED
    BY <1>2, <1>4
<1> DEFINE T == {k \in Nat : \A s \in SUBSET D : Cardinality(s) =< k => g[s] \in Nat}
<1>6. \A s \in SUBSET D : IsFiniteSet(s) /\ Cardinality(s) \in Nat
  BY <1>3, FS_Subset, FS_CardinalityType
<1>7. g[{}] = 0
  BY <1>5
<1>8. 0 \in T
  <2>1. \A s \in SUBSET D : Cardinality(s) =< 0 => s = {}
    BY <1>6, FS_EmptySet
  <2>2. \A s \in SUBSET D : Cardinality(s) =< 0 => g[s] \in Nat
    <3>1. 0 \in Nat
      OBVIOUS
    <3> QED
      BY <1>7, <2>1, <3>1, Zenon
  <2> QED
    BY <2>2
<1>9. ASSUME NEW k \in Nat, k \in T PROVE k + 1 \in T
  <2> SUFFICES ASSUME NEW s \in SUBSET D, Cardinality(s) =< k + 1
               PROVE  g[s] \in Nat
    OBVIOUS
  <2>0. CASE s = {}
    BY <1>7, <2>0
  <2> SUFFICES ASSUME s # {} PROVE g[s] \in Nat
    BY <2>0
  <2>1. Arb(s) \in s
    OBVIOUS
  <2>2. Cardinality(s \ {Arb(s)}) = Cardinality(s) - 1
    BY <1>6, <2>1, FS_RemoveElement
  <2>3. Cardinality(s \ {Arb(s)}) =< k /\ s \ {Arb(s)} \in SUBSET D
    BY <1>6, <2>2
  <2>4. g[s \ {Arb(s)}] \in Nat
    BY <1>9, <2>3
  <2>5. f[Arb(s)] \in Nat
    BY <2>1
  <2>6. g[s] = f[Arb(s)] + g[s \ {Arb(s)}]
    BY <1>5
  <2> QED
    BY <2>4, <2>5, <2>6
<1> HIDE DEF T
<1>10. n \in T
  BY <1>8, <1>9, Induction
<1>11. D \in SUBSET D /\ Cardinality(D) =< n
  BY <1>3
<1>12. g[D] \in Nat
  BY <1>10, <1>11 DEF T
<1> QED
  BY <1>5, <1>12

-----------------------------------------------------------------------------

(* There is an array: with a hash function, and a key size that is tried.  *)
Hashing == mode \in {H!Mod256, H!Mod65536} /\ keySize \in KeySize

(* Bytes and words of an item are natural numbers.                         *)
LEMMA BytesAreNat ==
    ASSUME NEW x \in HashItem, NEW size \in KeySize
    PROVE  /\ \A j \in 1 .. size + 4 : x[j] \in Nat
           /\ \A j \in 1 .. size + 3 : H!Word16(x, j) \in Nat
           /\ \A j \in 1 .. size + 1 : H!Word32(x, j) \in Nat
<1>1. /\ x \in Seq(0 .. Radix - 1) /\ size + 4 =< Len(x) /\ Radix \in Nat
      /\ size \in Nat
  BY ContainersAssumption
<1>2. /\ Len(x) \in Nat
      /\ \A j \in 1 .. Len(x) : x[j] \in 0 .. Radix - 1
  BY <1>1, LenProperties, ElementOfSeq
<1>3. \A j \in 1 .. size + 4 : x[j] \in Nat
  <2> SUFFICES ASSUME NEW j \in 1 .. size + 4 PROVE x[j] \in Nat
    OBVIOUS
  <2>1. j \in 1 .. Len(x)
    BY <1>1, <1>2
  <2> QED
    BY <1>1, <1>2, <2>1
<1>4. \A a, b \in Nat : a * b \in Nat
  OBVIOUS
<1>5. \A j \in 1 .. size + 3 : H!Word16(x, j) \in Nat
  <2> SUFFICES ASSUME NEW j \in 1 .. size + 3 PROVE H!Word16(x, j) \in Nat
    OBVIOUS
  <2>1. x[j] \in Nat /\ x[j + 1] \in Nat
    BY <1>1, <1>3
  <2>2. Radix * x[j + 1] \in Nat
    BY <1>1, <1>4, <2>1
  <2> QED
    BY <2>1, <2>2 DEF H!Word16
<1>6. \A j \in 1 .. size + 1 : H!Word32(x, j) \in Nat
  <2> SUFFICES ASSUME NEW j \in 1 .. size + 1 PROVE H!Word32(x, j) \in Nat
    OBVIOUS
  <2>1. H!Word16(x, j) \in Nat /\ H!Word16(x, j + 2) \in Nat
    <3>1. j \in 1 .. size + 3 /\ j + 2 \in 1 .. size + 3
      BY <1>1
    <3> QED
      BY <1>5, <3>1
  <2>2. Radix * Radix * H!Word16(x, j + 2) \in Nat
    BY <1>1, <1>4, <2>1
  <2> QED
    BY <2>1, <2>2 DEF H!Word32
<1> QED
  BY <1>3, <1>5, <1>6

(* The hash of an item is an index of the array.                           *)
LEMMA HashFits ==
    ASSUME Hashing, NEW x \in HashItem
    PROVE  H!Length \in Nat \ {0} /\ H!Hash(x) \in 0 .. H!Length - 1
<1>1. keySize \in Nat \ {0} /\ Radix \in Nat \ {0}
  BY ContainersAssumption DEF Hashing
<1>2. H!Length \in Nat \ {0}
  <2>1. \A a \in Nat \ {0} : a * a \in Nat \ {0}
    OBVIOUS
  <2>2. Radix * Radix \in Nat \ {0}
    BY <1>1, <2>1
  <2> QED
    BY <1>1, <2>2 DEF Hashing, H!Length, H!Mod256, H!Mod65536
<1>3. H!HashUint16(x) \in Nat
  <2> DEFINE w == H!Words(2)
             f == [n \in 0 .. w - 1 |-> H!Word16(x, 2 * n + 1)]
  <2>1. w \in Nat /\ 2 * w =< keySize
    <3>1. w = keySize \div 2
      BY <1>1 DEF H!Words
    <3> QED
      BY <1>1, <3>1
  <2>2. H!HashUint16(x) = H!SumFunction(f) + (IF keySize % 2 = 1 THEN x[keySize] ELSE 0)
    BY DEF H!HashUint16
  <2> HIDE DEF w
  <2>3. f \in [0 .. w - 1 -> Nat]
    <3> SUFFICES ASSUME NEW n \in 0 .. w - 1 PROVE H!Word16(x, 2 * n + 1) \in Nat
      OBVIOUS
    <3>1. 2 * n + 1 \in 1 .. keySize + 3
      BY <1>1, <2>1
    <3> QED
      BY <3>1, BytesAreNat DEF Hashing
  <2> HIDE DEF f
  <2>4. H!SumFunction(f) \in Nat
    BY <2>1, <2>3, SumIsNat
  <2>5. x[keySize] \in Nat
    BY <1>1, BytesAreNat DEF Hashing
  <2> QED
    BY <2>2, <2>4, <2>5
<1>4. H!HashUint32(x) \in Nat
  <2> DEFINE w == H!Words(4)
             end == 4 * w + 1
             f == [n \in 0 .. w - 1 |-> H!Word32(x, 4 * n + 1)]
             rest == CASE keySize % 4 = 0 -> 0
                       [] keySize % 4 = 1 -> H!Word16(x, end) + x[end + 2]
                       [] keySize % 4 = 2 -> H!Word16(x, end)
                       [] keySize % 4 = 3 -> x[end]
  <2>1. w \in Nat /\ 4 * w =< keySize + 2
    <3>1. w = (keySize + 2) \div 4
      BY <1>1 DEF H!Words
    <3> QED
      BY <1>1, <3>1
  <2>2. H!HashUint32(x) = H!SumFunction(f) + rest
    BY DEF H!HashUint32
  <2>3. keySize % 4 = 1 => 4 * w =< keySize
    <3>1. w = (keySize + 2) \div 4
      BY <1>1 DEF H!Words
    <3> QED
      BY <1>1, <3>1
  <2> HIDE DEF w
  <2>4. f \in [0 .. w - 1 -> Nat]
    <3> SUFFICES ASSUME NEW n \in 0 .. w - 1 PROVE H!Word32(x, 4 * n + 1) \in Nat
      OBVIOUS
    <3>1. 4 * n + 1 \in 1 .. keySize + 1
      BY <1>1, <2>1
    <3> QED
      BY <3>1, BytesAreNat DEF Hashing
  <2> HIDE DEF f
  <2>5. H!SumFunction(f) \in Nat
    BY <2>1, <2>4, SumIsNat
  <2>6. rest \in Nat
    <3>1. keySize % 4 \in 0 .. 3
      BY <1>1
    <3>2. end \in 1 .. keySize + 3 /\ end \in 1 .. keySize + 4
      BY <1>1, <2>1
    <3>3. H!Word16(x, end) \in Nat /\ x[end] \in Nat
      BY <3>2, BytesAreNat DEF Hashing
    <3>4. keySize % 4 = 1 => x[end + 2] \in Nat
      <4>1. keySize % 4 = 1 => end + 2 \in 1 .. keySize + 4
        BY <1>1, <2>1, <2>3
      <4> QED
        BY <4>1, BytesAreNat DEF Hashing
    <3> HIDE DEF end
    <3> QED
      BY <3>1, <3>3, <3>4
  <2> HIDE DEF rest
  <2> QED
    BY <2>2, <2>5, <2>6
<1>5. \A a \in Nat, b \in Nat \ {0} : a % b \in 0 .. b - 1
  OBVIOUS
<1> QED
  BY <1>2, <1>3, <1>4, <1>5 DEF H!Hash

(* Items with one key have one hash, if no byte behind the key is hashed.  *)
LEMMA HashOfKey ==
    ASSUME Hashing, H!WholeKey, NEW x \in HashItem, NEW y \in HashItem,
           H!SameKey(x, y)
    PROVE  H!Hash(x) = H!Hash(y)
<1>1. /\ keySize \in Nat \ {0}
      /\ x \in Seq(0 .. Radix - 1) /\ y \in Seq(0 .. Radix - 1)
      /\ keySize =< Len(x) /\ keySize =< Len(y)
      /\ Len(x) \in Nat /\ Len(y) \in Nat
  <2>1. /\ keySize \in Nat \ {0}
        /\ x \in Seq(0 .. Radix - 1) /\ y \in Seq(0 .. Radix - 1)
        /\ keySize + 4 =< Len(x) /\ keySize + 4 =< Len(y)
    BY ContainersAssumption DEF Hashing
  <2> QED
    BY <2>1, LenProperties
<1>2. \A j \in 1 .. keySize : x[j] = y[j]
  <2>1. ASSUME NEW z \in {x, y} PROVE \A j \in 1 .. keySize : SubSeq(z, 1, keySize)[j] = z[j]
    <3>1. /\ z \in Seq(0 .. Radix - 1) /\ keySize =< Len(z) /\ Len(z) \in Nat
      BY <1>1
    <3>2. SubSeq(z, 1, keySize) = [j \in 1 .. keySize |-> z[j]]
      BY <1>1, <3>1
    <3> QED
      BY <3>2
  <2> QED
    BY <2>1 DEF H!SameKey
<1>3. CASE mode = H!Mod256
  <2> DEFINE w == H!Words(2)
             f(z) == [n \in 0 .. w - 1 |-> H!Word16(z, 2 * n + 1)]
  <2>1. w \in Nat /\ 2 * w =< keySize
    <3>1. w = keySize \div 2
      BY <1>1 DEF H!Words
    <3> QED
      BY <1>1, <3>1
  <2>2. \A n \in 0 .. w - 1 : H!Word16(x, 2 * n + 1) = H!Word16(y, 2 * n + 1)
    <3> HIDE DEF w
    <3> SUFFICES ASSUME NEW n \in 0 .. w - 1
                 PROVE  H!Word16(x, 2 * n + 1) = H!Word16(y, 2 * n + 1)
      OBVIOUS
    <3>1. 2 * n + 1 \in 1 .. keySize /\ 2 * n + 1 + 1 \in 1 .. keySize
      BY <1>1, <2>1
    <3> QED
      BY <1>2, <3>1 DEF H!Word16
  <2>3. f(x) = f(y)
    BY <2>2
  <2>4. H!SumFunction(f(x)) = H!SumFunction(f(y))
    BY <2>3, Zenon
  <2>5. x[keySize] = y[keySize]
    BY <1>1, <1>2
  <2>6. H!HashUint16(x) = H!HashUint16(y)
    BY <2>4, <2>5, Zenon DEF H!HashUint16
  <2> QED
    BY <1>3, <2>6, Zenon DEF H!Hash
<1>4. CASE mode # H!Mod256
  <2> DEFINE w == H!Words(4)
             f(z) == [n \in 0 .. w - 1 |-> H!Word32(z, 4 * n + 1)]
  <2>1. keySize % 4 = 0
    BY <1>4 DEF Hashing, H!WholeKey
  <2>2. w \in Nat /\ 4 * w =< keySize
    <3>1. w = (keySize + 2) \div 4
      BY <1>1 DEF H!Words
    <3> QED
      BY <1>1, <2>1, <3>1
  <2>3. \A n \in 0 .. w - 1 : H!Word32(x, 4 * n + 1) = H!Word32(y, 4 * n + 1)
    <3> HIDE DEF w
    <3> SUFFICES ASSUME NEW n \in 0 .. w - 1
                 PROVE  H!Word32(x, 4 * n + 1) = H!Word32(y, 4 * n + 1)
      OBVIOUS
    <3>1. /\ 4 * n + 1 \in 1 .. keySize /\ 4 * n + 1 + 1 \in 1 .. keySize
          /\ 4 * n + 1 + 2 \in 1 .. keySize /\ 4 * n + 1 + 2 + 1 \in 1 .. keySize
      BY <1>1, <2>2
    <3> QED
      BY <1>2, <3>1 DEF H!Word16, H!Word32
  <2>4. f(x) = f(y)
    BY <2>3
  <2>5. H!SumFunction(f(x)) = H!SumFunction(f(y))
    BY <2>4, Zenon
  <2>6. ASSUME NEW z PROVE H!HashUint32(z) = H!SumFunction(f(z)) + 0
    <3> DEFINE rest == CASE keySize % 4 = 0 -> 0
                         [] keySize % 4 = 1 -> H!Word16(z, 4 * w + 1) + z[4 * w + 1 + 2]
                         [] keySize % 4 = 2 -> H!Word16(z, 4 * w + 1)
                         [] keySize % 4 = 3 -> z[4 * w + 1]
    <3>1. rest = 0
      <4> HIDE DEF w
      <4> QED
        BY <2>1
    <3>2. H!HashUint32(z) = H!SumFunction(f(z)) + rest
      BY DEF H!HashUint32
    <3> HIDE DEF rest
    <3> QED
      BY <3>1, <3>2
  <2>7. H!HashUint32(x) = H!HashUint32(y)
    BY <2>5, <2>6, Zenon
  <2> QED
    BY <1>4, <2>7, Zenon DEF H!Hash
<1> QED
  BY <1>3, <1>4

(* The hash is one of what was set up, and of nothing else.                *)
LEMMA HashKept ==
    ASSUME mode' = mode, keySize' = keySize, NEW x
    PROVE  H!Hash(x)' = H!Hash(x) /\ H!Length' = H!Length
<1>1. H!Length' = H!Length
  BY DEF H!Length
<1>2. H!HashUint16(x)' = H!HashUint16(x)
  BY Zenon DEF H!HashUint16, H!Words
<1>3. H!HashUint32(x)' = H!HashUint32(x)
  BY Zenon DEF H!HashUint32, H!Words
<1> QED
  BY <1>1, <1>2, <1>3, Zenon DEF H!Hash

(* The indices of the array.                                               *)
Indices == 0 .. H!Length - 1

(* The places in the list of the buckets with hash i.                      *)
Hashed(i) == {n \in DOMAIN hashList : H!Hash(data[hashList[n]]) = i}

(* c is the chain at index i: the entry of the array, then cells.          *)
IsChain(i, c) ==
    /\ c \in Seq(DOMAIN buckets) /\ Len(c) >= 1 /\ c[1] = i
    /\ \A k \in 2 .. Len(c) : c[k] \in Cell
    /\ \A k \in 1 .. Len(c) :
          buckets[c[k]].next = IF k < Len(c) THEN c[k + 1] ELSE Null

(* And p are the places in the list of its buckets, the older ones first.  *)
HasPlaces(i, c, p) ==
    /\ p \in Seq(Nat) /\ {p[k] : k \in 1 .. Len(p)} = Hashed(i)
    /\ Len(p) = 0 => Len(c) = 1 /\ buckets[i] = H!Unused
    /\ Len(p) # 0 => Len(p) = Len(c)
    /\ \A k \in 1 .. Len(p) : buckets[c[k]].vbucket = hashList[p[k]]
    /\ \A j, k \in 1 .. Len(p) : j < k => p[j] < p[k]

(* The list has no bucket twice, and every bucket of it has its item.      *)
ListedType ==
    /\ hashList \in Seq(Bucket) /\ Once(hashList) /\ hashCount = Len(hashList)
    /\ data \in [Bucket -> HashItem \cup {Null}]
    /\ \A n \in DOMAIN hashList : data[hashList[n]] \in HashItem

(* The array has its entry at every index, and further ones in cells.      *)
EntriesType ==
    /\ \A a \in DOMAIN buckets :
          buckets[a] = [vbucket |-> buckets[a].vbucket, next |-> buckets[a].next]
    /\ mode = Null => hashList = <<>> /\ DOMAIN buckets = {}
    /\ mode # Null => /\ Hashing /\ Indices \subseteq DOMAIN buckets
                      /\ DOMAIN buckets \subseteq Indices \cup Cell

(* The types of both.                                                      *)
HashType == ListedType /\ EntriesType

(* There is a chain at every index, and every cell is in one.              *)
ChainsHold ==
    mode # Null => \A i \in Indices : \E c, p : IsChain(i, c) /\ HasPlaces(i, c, p)

(* The entry at a is in the chain at index i.                              *)
InChain(a, i) ==
    \E c, p : /\ IsChain(i, c) /\ HasPlaces(i, c, p)
              /\ \E k \in 1 .. Len(c) : c[k] = a

(* Every cell that is allocated is in a chain.                             *)
CellsCovered ==
    mode # Null => \A a \in Cell \cap DOMAIN buckets : \E i \in Indices : InChain(a, i)

(* The inductive invariant of the hash array.                              *)
HashInv == HashType /\ ChainsHold /\ CellsCovered

-----------------------------------------------------------------------------

(* A function from the first numbers is a sequence.                        *)
LEMMA SequenceOf ==
    ASSUME NEW S, NEW n \in Nat, NEW f \in [1 .. n -> S]
    PROVE  f \in Seq(S) /\ Len(f) = n /\ DOMAIN f = 1 .. n
<1>1. f \in Seq(S)
  BY SeqDef
<1>2. Len(f) \in Nat /\ DOMAIN f = 1 .. Len(f) /\ DOMAIN f = 1 .. n
  BY <1>1, LenProperties
<1> QED
  BY <1>1, <1>2

(* The list, place by place.                                               *)
LEMMA ListOfBuckets ==
    ASSUME HashType
    PROVE  /\ Len(hashList) \in Nat /\ DOMAIN hashList = 1 .. Len(hashList)
           /\ \A n \in DOMAIN hashList : /\ hashList[n] \in Bucket
                                          /\ hashList[n] # Null
                                          /\ data[hashList[n]] \in HashItem
           /\ \A m, n \in DOMAIN hashList : hashList[m] = hashList[n] => m = n
<1>1. hashList \in Seq(Bucket)
  BY DEF HashType, ListedType
<1> QED
  BY <1>1, LenProperties, ElementOfSeq, ContainersAssumption
     DEF HashType, ListedType, Once

(* A chain, place by place.                                                *)
LEMMA ChainFacts ==
    ASSUME HashType, mode # Null, NEW i \in Indices, NEW c, NEW p,
           IsChain(i, c), HasPlaces(i, c, p)
    PROVE  /\ Len(c) \in Nat /\ Len(c) >= 1 /\ DOMAIN c = 1 .. Len(c) /\ c[1] = i
           /\ Len(p) \in Nat /\ Len(p) =< Len(c) /\ DOMAIN p = 1 .. Len(p)
           /\ \A k \in 1 .. Len(c) : c[k] \in DOMAIN buckets /\ c[k] # Null
           /\ \A k \in 1 .. Len(p) :
                 /\ p[k] \in DOMAIN hashList
                 /\ buckets[c[k]].vbucket = hashList[p[k]]
                 /\ hashList[p[k]] # Null
                 /\ H!Hash(data[hashList[p[k]]]) = i
           /\ \A j, k \in 1 .. Len(p) : p[j] = p[k] => j = k
           /\ \A k \in 1 .. Len(c) : /\ buckets[c[k]].vbucket = Null => Len(p) = 0
                                     /\ Len(p) = 0 => c[k] = i
           /\ Null \notin DOMAIN buckets
<1>1. /\ c \in Seq(DOMAIN buckets) /\ p \in Seq(Nat)
      /\ Len(c) \in Nat /\ DOMAIN c = 1 .. Len(c)
      /\ Len(p) \in Nat /\ DOMAIN p = 1 .. Len(p)
  BY LenProperties DEF IsChain, HasPlaces
<1>2. Null \notin DOMAIN buckets
  BY ContainersAssumption DEF HashType, EntriesType, Indices
<1>3. \A k \in 1 .. Len(c) : c[k] \in DOMAIN buckets
  BY <1>1, ElementOfSeq
<1>4. \A k \in 1 .. Len(p) : p[k] \in Hashed(i) /\ p[k] \in Nat
  BY <1>1, ElementOfSeq, Zenon DEF HasPlaces
<1>5. \A k \in 1 .. Len(p) : /\ p[k] \in DOMAIN hashList
                             /\ buckets[c[k]].vbucket = hashList[p[k]]
                             /\ hashList[p[k]] # Null
                             /\ H!Hash(data[hashList[p[k]]]) = i
  BY <1>4, ListOfBuckets DEF HasPlaces, Hashed
<1>6. \A j, k \in 1 .. Len(p) : p[j] = p[k] => j = k
  <2> SUFFICES ASSUME NEW j \in 1 .. Len(p), NEW k \in 1 .. Len(p), p[j] = p[k]
               PROVE  j = k
    OBVIOUS
  <2>1. ~(j < k) /\ ~(k < j)
    BY <1>4 DEF HasPlaces
  <2> QED
    BY <1>1, <2>1
<1>7. Len(p) =< Len(c) /\ Len(c) >= 1 /\ c[1] = i
  <2>1. Len(c) >= 1 /\ c[1] = i
    BY DEF IsChain
  <2>2. Len(p) = 0 \/ Len(p) = Len(c)
    BY DEF HasPlaces
  <2>3. CASE Len(p) = 0
    BY <2>1, <2>3
  <2>4. CASE Len(p) = Len(c)
    BY <1>1, <2>1, <2>4
  <2> QED
    BY <2>2, <2>3, <2>4
<1>8. \A k \in 1 .. Len(c) : /\ buckets[c[k]].vbucket = Null => Len(p) = 0
                             /\ Len(p) = 0 => c[k] = i
  <2> SUFFICES ASSUME NEW k \in 1 .. Len(c)
               PROVE  /\ buckets[c[k]].vbucket = Null => Len(p) = 0
                      /\ Len(p) = 0 => c[k] = i
    OBVIOUS
  <2>1. CASE Len(p) = 0
    <3>1. k = 1
      BY <1>1, <2>1 DEF HasPlaces
    <3> QED
      BY <1>7, <2>1, <3>1
  <2>2. CASE Len(p) # 0
    <3>1. Len(p) = Len(c)
      BY <2>2 DEF HasPlaces
    <3> QED
      BY <1>5, <2>2, <3>1
  <2> QED
    BY <2>1, <2>2
<1> QED
  BY <1>1, <1>2, <1>3, <1>5, <1>6, <1>7, <1>8

(* A bucket at a node of a chain has its hash.                             *)
LEMMA NodeHash ==
    ASSUME HashType, mode # Null, NEW i \in Indices, NEW c, NEW p,
           IsChain(i, c), HasPlaces(i, c, p), NEW k \in 1 .. Len(c),
           buckets[c[k]].vbucket # Null
    PROVE  Len(p) = Len(c) /\ H!Hash(data[buckets[c[k]].vbucket]) = i
<1>1. Len(p) # 0
  <2> SUFFICES ASSUME Len(p) = 0 PROVE FALSE
    OBVIOUS
  <2>1. c[k] = i
    BY ChainFacts
  <2>2. buckets[i] = H!Unused
    BY DEF HasPlaces
  <2> QED
    BY <2>1, <2>2 DEF H!Unused
<1>2. Len(p) = Len(c)
  BY <1>1 DEF HasPlaces
<1> QED
  BY <1>2, ChainFacts

(* Chains at two indices have nothing in common, and none meets itself.    *)
LEMMA ChainsApart ==
    ASSUME HashType, mode # Null, NEW i \in Indices, NEW c, NEW p,
           IsChain(i, c), HasPlaces(i, c, p),
           NEW j \in Indices, NEW d, NEW q, IsChain(j, d), HasPlaces(j, d, q),
           NEW k \in 1 .. Len(c), NEW l \in 1 .. Len(d), c[k] = d[l]
    PROVE  i = j
<1> DEFINE b == buckets[c[k]].vbucket
<1>1. CASE b = Null
  <2>1. c[k] = i
    BY <1>1, ChainFacts
  <2>2. d[l] = j
    BY <1>1, ChainFacts
  <2> QED
    BY <2>1, <2>2
<1>2. CASE b # Null
  <2>1. H!Hash(data[b]) = i
    BY <1>2, NodeHash
  <2>2. H!Hash(data[b]) = j
    <3>1. buckets[d[l]].vbucket # Null
      BY <1>2
    <3>2. H!Hash(data[buckets[d[l]].vbucket]) = j
      BY <3>1, NodeHash
    <3> QED
      BY <3>2
  <2> QED
    BY <2>1, <2>2
<1> QED
  BY <1>1, <1>2

(* No entry is twice in a chain: its bucket would be twice in the list.    *)
LEMMA ChainOnce ==
    ASSUME HashType, mode # Null, NEW i \in Indices, NEW c, NEW p,
           IsChain(i, c), HasPlaces(i, c, p),
           NEW j \in 1 .. Len(c), NEW k \in 1 .. Len(c), c[j] = c[k]
    PROVE  j = k
<1>1. /\ Len(c) \in Nat /\ Len(p) \in Nat
      /\ \A l \in 1 .. Len(p) : /\ p[l] \in DOMAIN hashList
                                /\ buckets[c[l]].vbucket = hashList[p[l]]
      /\ \A l, m \in 1 .. Len(p) : p[l] = p[m] => l = m
  BY ChainFacts
<1>2. CASE Len(p) = 0
  <2>1. Len(c) = 1
    BY <1>2 DEF HasPlaces
  <2> QED
    BY <2>1
<1>3. CASE Len(p) # 0
  <2>1. Len(p) = Len(c)
    BY <1>3 DEF HasPlaces
  <2>2. hashList[p[j]] = hashList[p[k]]
    BY <1>1, <2>1
  <2>3. p[j] = p[k]
    BY <1>1, <2>1, <2>2, ListOfBuckets
  <2> QED
    BY <1>1, <2>1, <2>3
<1> QED
  BY <1>2, <1>3

(* No chain has more cells than there are.                                 *)
LEMMA ChainNotTooLong ==
    ASSUME HashType, mode # Null, NEW i \in Indices, NEW c, NEW p,
           IsChain(i, c), HasPlaces(i, c, p)
    PROVE  Cardinality(Cell) \in Nat /\ Len(c) - 1 =< Cardinality(Cell)
<1>1. IsFiniteSet(Cell) /\ Cardinality(Cell) \in Nat
  BY ContainersAssumption, FS_CardinalityType
<1>2. Len(c) \in Nat /\ Len(c) >= 1
  BY ChainFacts
<1> DEFINE f == [k \in 2 .. Len(c) |-> c[k]]
<1>3. f \in Injection(2 .. Len(c), Cell)
  <2>1. f \in [2 .. Len(c) -> Cell]
    BY DEF IsChain
  <2>2. ASSUME NEW j \in 2 .. Len(c), NEW k \in 2 .. Len(c), f[j] = f[k] PROVE j = k
    <3>1. j \in 1 .. Len(c) /\ k \in 1 .. Len(c) /\ c[j] = c[k]
      BY <1>2, <2>2
    <3> QED
      BY <3>1, ChainOnce
  <2> HIDE DEF f
  <2> QED
    BY <2>1, <2>2 DEF Injection, IsInjective
<1>4. Cardinality(2 .. Len(c)) =< Cardinality(Cell)
  BY <1>1, <1>3, FS_Injection
<1>5. Cardinality(2 .. Len(c)) = IF 2 > Len(c) THEN 0 ELSE Len(c) - 2 + 1
  BY <1>2, FS_Interval
<1> QED
  BY <1>1, <1>2, <1>4, <1>5

(* What the walk of VHashArray meets is the chain.                         *)
LEMMA ChainIs ==
    ASSUME HashType, mode # Null, NEW i \in Indices, NEW c, NEW p,
           IsChain(i, c), HasPlaces(i, c, p)
    PROVE  H!Chain(i) = c
<1> DEFINE N == Cardinality(Cell)
           link == [a \in DOMAIN buckets |-> buckets[a].next]
           at == CHOOSE f : IsWalk(f, i, link, H!Cardinality(Cell))
           used == {n \in DOMAIN at : at[n] # Null}
<1>1. H!Cardinality(Cell) = N /\ \A S : H!Cardinality(S) = Cardinality(S)
  BY Zenon DEF H!Cardinality, Cardinality
<1>2. H!Chain(i) = [k \in 1 .. Cardinality(used) |-> at[k - 1]]
  <2>1. H!Chain(i) = [k \in 1 .. H!Cardinality(used) |-> at[k - 1]]
    BY Zenon DEF H!Chain, IsWalk
  <2>2. H!Cardinality(used) = Cardinality(used)
    BY <1>1
  <2> HIDE DEF used, at
  <2> QED
    BY <2>1, <2>2, Zenon
<1>3. N \in Nat /\ Len(c) \in Nat /\ Len(c) - 1 =< N /\ Len(c) >= 1
  BY ChainNotTooLong, ChainFacts
<1> HIDE DEF N
<1>4. IsWalk(at, i, link, N)
  <2>1. \E f : IsWalk(f, i, link, N)
    BY <1>3, WalkExists
  <2>2. H!Cardinality(Cell) = N
    BY <1>1 DEF N
  <2>3. at = CHOOSE f : IsWalk(f, i, link, N)
    BY <2>2, Zenon
  <2> HIDE DEF at
  <2> QED
    BY <2>1, <2>3, Zenon
<1> HIDE DEF at
<1>5. /\ DOMAIN at = 0 .. N /\ at[0] = i
      /\ \A n \in 1 .. N : at[n] = IF at[n - 1] = Null THEN Null ELSE link[at[n - 1]]
  BY <1>3, <1>4 DEF IsWalk
<1>6. /\ c[1] = i
      /\ \A k \in 1 .. Len(c) : c[k] # Null /\ link[c[k]] = At(c, k + 1)
  <2>1. \A k \in 1 .. Len(c) : c[k] # Null /\ link[c[k]] = buckets[c[k]].next
    BY ChainFacts
  <2>2. \A k \in 1 .. Len(c) : buckets[c[k]].next = At(c, k + 1)
    BY <1>3 DEF IsChain, At
  <2>3. c[1] = i
    BY DEF IsChain
  <2> HIDE DEF link
  <2> QED
    BY <2>1, <2>2, <2>3
<1> HIDE DEF link
<1> DEFINE T == {n \in Nat : n =< N => at[n] = At(c, n + 1)}
<1>7. 0 \in T
  BY <1>3, <1>5, <1>6 DEF At
<1>8. ASSUME NEW n \in Nat, n \in T PROVE n + 1 \in T
  <2> SUFFICES ASSUME n + 1 =< N PROVE at[n + 1] = At(c, n + 2)
    OBVIOUS
  <2>1. at[n] = At(c, n + 1)
    BY <1>3, <1>8
  <2>2. at[n + 1] = IF at[n] = Null THEN Null ELSE link[at[n]]
    BY <1>3, <1>5
  <2>3. CASE n + 1 \in 1 .. Len(c)
    <3>1. at[n] = c[n + 1] /\ at[n] # Null
      BY <1>6, <2>1, <2>3 DEF At
    <3>2. link[c[n + 1]] = At(c, n + 2)
      BY <1>6, <2>3
    <3> QED
      BY <2>2, <3>1, <3>2
  <2>4. CASE n + 1 \notin 1 .. Len(c)
    <3>1. n + 2 \notin 1 .. Len(c)
      BY <1>3, <2>4
    <3> QED
      BY <2>1, <2>2, <2>4, <3>1 DEF At
  <2> QED
    BY <2>3, <2>4
<1> HIDE DEF T
<1>9. \A n \in 0 .. N : at[n] = At(c, n + 1)
  <2>1. Nat \subseteq T
    BY <1>7, <1>8, Induction
  <2>2. \A n \in 0 .. N : n \in T
    BY <1>3, <2>1
  <2> QED
    BY <1>3, <2>2 DEF T
<1>10. used = 0 .. Len(c) - 1
  <2>1. ASSUME NEW n \in 0 .. N PROVE at[n] # Null <=> n \in 0 .. Len(c) - 1
    <3>1. CASE n \in 0 .. Len(c) - 1
      <4>1. n + 1 \in 1 .. Len(c)
        BY <1>3, <3>1
      <4> QED
        BY <1>6, <1>9, <3>1, <4>1 DEF At
    <3>2. CASE n \notin 0 .. Len(c) - 1
      <4>1. n + 1 \notin 1 .. Len(c)
        BY <1>3, <3>2
      <4> QED
        BY <1>9, <3>2, <4>1 DEF At
    <3> QED
      BY <3>1, <3>2
  <2>2. 0 .. Len(c) - 1 \subseteq 0 .. N
    BY <1>3
  <2> QED
    BY <1>5, <2>1, <2>2
<1> HIDE DEF used
<1>11. Cardinality(used) = Len(c)
  <2>1. 0 \in Int /\ Len(c) - 1 \in Int
    BY <1>3
  <2>2. Cardinality(0 .. Len(c) - 1) = IF 0 > Len(c) - 1 THEN 0 ELSE Len(c) - 1 - 0 + 1
    BY <2>1, FS_Interval
  <2> QED
    BY <1>3, <1>10, <2>2
<1>12. ASSUME NEW k \in 1 .. Len(c) PROVE at[k - 1] = c[k]
  <2>1. k - 1 \in 0 .. N /\ (k - 1) + 1 = k
    BY <1>3
  <2> QED
    BY <1>9, <2>1 DEF At
<1>13. c = [k \in 1 .. Len(c) |-> c[k]]
  <2>1. c \in Seq(DOMAIN buckets)
    BY DEF IsChain
  <2> QED
    BY <2>1, LenProperties
<1>14. H!Chain(i) = [k \in 1 .. Len(c) |-> c[k]]
  BY <1>2, <1>11, <1>12
<1> QED
  BY <1>13, <1>14

(* The places of the chain with the key of x, as FindItem and RemoveItem   *)
(* see them.                                                               *)
LEMMA PlacesAre ==
    ASSUME HashType, mode # Null, NEW x \in HashItem, NEW c, NEW p,
           IsChain(H!Hash(x), c), HasPlaces(H!Hash(x), c, p)
    PROVE  /\ H!Chain(H!Hash(x)) = c /\ H!Hash(x) \in Indices
           /\ H!Places(x) = {k \in 1 .. Len(p) : H!SameKey(data[hashList[p[k]]], x)}
<1> DEFINE i == H!Hash(x)
<1>1. i \in Indices
  BY HashFits DEF HashType, EntriesType, Indices
<1> HIDE DEF i
<1>2. IsChain(i, c) /\ HasPlaces(i, c, p)
  BY DEF i
<1>3. H!Chain(i) = c
  BY <1>1, <1>2, ChainIs
<1>4. /\ DOMAIN c = 1 .. Len(c) /\ Len(c) \in Nat /\ Len(p) \in Nat /\ Len(p) =< Len(c)
      /\ \A k \in 1 .. Len(p) : /\ buckets[c[k]].vbucket = hashList[p[k]]
                                /\ hashList[p[k]] # Null
  BY <1>1, <1>2, ChainFacts
<1>5. ASSUME NEW k \in 1 .. Len(c), buckets[c[k]].vbucket # Null PROVE k \in 1 .. Len(p)
  <2>1. Len(p) = Len(c)
    BY <1>1, <1>2, <1>5, NodeHash
  <2> QED
    BY <2>1
<1>6. H!Places(x) = {k \in 1 .. Len(c) : /\ buckets[c[k]].vbucket # Null
                                        /\ H!SameKey(data[buckets[c[k]].vbucket], x)}
  BY <1>3, <1>4 DEF H!Places, i
<1>7. \A k \in 1 .. Len(p) : k \in 1 .. Len(c)
  BY <1>4
<1>8. H!Places(x) = {k \in 1 .. Len(p) : H!SameKey(data[hashList[p[k]]], x)}
  BY <1>4, <1>5, <1>6, <1>7
<1> QED
  BY <1>1, <1>3, <1>8 DEF i

(* As long as the hash is one of the key, they are the places in the list  *)
(* with that key.                                                          *)
LEMMA MatchesAre ==
    ASSUME HashType, mode # Null, H!WholeKey, NEW x \in HashItem, NEW c, NEW p,
           IsChain(H!Hash(x), c), HasPlaces(H!Hash(x), c, p)
    PROVE  H!Abs!Matches(x) = {p[k] : k \in H!Places(x)}
<1>1. H!Abs!Matches(x) = {n \in DOMAIN hashList : H!SameKey(data[hashList[n]], x)}
  BY DEF H!Abs!Matches, H!Abs!SameKey, H!SameKey
<1>2. H!Places(x) = {k \in 1 .. Len(p) : H!SameKey(data[hashList[p[k]]], x)}
  BY PlacesAre
<1>3. \A k \in 1 .. Len(p) : p[k] \in DOMAIN hashList
  BY PlacesAre, ChainFacts
<1>4. ASSUME NEW n \in DOMAIN hashList, H!SameKey(data[hashList[n]], x)
      PROVE  \E k \in 1 .. Len(p) : p[k] = n
  <2>1. data[hashList[n]] \in HashItem
    BY ListOfBuckets
  <2>2. H!Hash(data[hashList[n]]) = H!Hash(x)
    BY <1>4, <2>1, HashOfKey DEF HashType, EntriesType
  <2> QED
    BY <2>2 DEF HasPlaces, Hashed
<1> QED
  BY <1>1, <1>2, <1>3, <1>4

(* So the first of the chain is the oldest of the list.                    *)
LEMMA LeastMatch ==
    ASSUME HashType, mode # Null, NEW x \in HashItem, NEW c, NEW p,
           IsChain(H!Hash(x), c), HasPlaces(H!Hash(x), c, p), H!Places(x) # {}
    PROVE  /\ H!Min(H!Places(x)) \in H!Places(x)
           /\ H!Places(x) \subseteq 1 .. Len(p)
           /\ H!WholeKey => /\ H!Abs!Matches(x) # {}
                            /\ H!Abs!Min(H!Abs!Matches(x)) = p[H!Min(H!Places(x))]
<1> DEFINE P == H!Places(x)
           k == H!Min(P)
<1>1. P \subseteq 1 .. Len(p)
  BY PlacesAre
<1>2. k \in P /\ \A l \in P : k =< l
  <2>1. \E m \in P : \A l \in P : m =< l
    <3>1. P \subseteq Nat
      BY <1>1
    <3> HIDE DEF P
    <3> QED
      BY <3>1, LeastNumber DEF P
  <2> QED
    BY <2>1 DEF H!Min
<1> HIDE DEF k
<1>3. ASSUME H!WholeKey PROVE H!Abs!Matches(x) # {} /\ H!Abs!Min(H!Abs!Matches(x)) = p[k]
  <2> DEFINE M == H!Abs!Matches(x)
  <2>1. M = {p[l] : l \in P}
    BY <1>3, MatchesAre
  <2>2. \A l \in P : p[l] \in Nat /\ l \in Nat
    <3>1. p \in Seq(Nat)
      BY DEF HasPlaces
    <3>2. \A l \in 1 .. Len(p) : p[l] \in Nat
      BY <3>1, LenProperties, ElementOfSeq
    <3> QED
      BY <1>1, <3>2
  <2>3. \A l \in P : p[k] =< p[l]
    <3> SUFFICES ASSUME NEW l \in P PROVE p[k] =< p[l]
      OBVIOUS
    <3>1. CASE k = l
      BY <2>2, <3>1
    <3>2. CASE k # l
      <4>1. k < l
        BY <1>2, <2>2, <3>2
      <4>2. p[k] < p[l]
        BY <1>1, <1>2, <4>1 DEF HasPlaces
      <4> QED
        BY <1>2, <2>2, <4>2
    <3> QED
      BY <3>1, <3>2
  <2>4. p[k] \in M /\ M \subseteq Nat /\ \A n \in M : p[k] =< n
    BY <1>2, <2>1, <2>2, <2>3
  <2> HIDE DEF M
  <2>5. ASSUME NEW m \in M, \A n \in M : m =< n PROVE m = p[k]
    <3>1. m =< p[k] /\ p[k] =< m /\ m \in Nat /\ p[k] \in Nat
      BY <2>4, <2>5
    <3> QED
      BY <3>1
  <2>6. H!Abs!Min(M) = p[k]
    BY <2>4, <2>5 DEF H!Abs!Min
  <2> QED
    BY <2>4, <2>6 DEF M
<1> QED
  BY <1>1, <1>2, <1>3 DEF k

-----------------------------------------------------------------------------

(* The chain at i is still there: all its nodes that are still allocated.  *)
Kept(i, c) ==
    \E d, q : /\ IsChain(i, d)' /\ HasPlaces(i, d, q)'
              /\ \A k \in 1 .. Len(c) :
                    c[k] \in DOMAIN buckets' => \E l \in 1 .. Len(d) : d[l] = c[k]

(* A step that keeps every chain, and puts its new cells into one, keeps   *)
(* the invariant.                                                          *)
LEMMA KeepsInv ==
    ASSUME HashInv, mode # Null, mode' = mode, keySize' = keySize, HashType',
           \A i \in Indices : \A c, p :
              IsChain(i, c) /\ HasPlaces(i, c, p) => Kept(i, c),
           \A a \in (DOMAIN buckets') \ DOMAIN buckets :
              \E i \in Indices : InChain(a, i)'
    PROVE  HashInv'
<1>1. Indices' = Indices
  BY HashKept DEF Indices
<1>2. ChainsHold'
  <2> SUFFICES ASSUME NEW i \in Indices PROVE (\E c, p : IsChain(i, c) /\ HasPlaces(i, c, p))'
    BY <1>1 DEF ChainsHold
  <2>1. PICK c, p : IsChain(i, c) /\ HasPlaces(i, c, p)
    BY DEF HashInv, ChainsHold
  <2>2. Kept(i, c)
    BY <2>1
  <2> QED
    BY <2>2 DEF Kept
<1>3. CellsCovered'
  <2> SUFFICES ASSUME NEW a \in Cell \cap DOMAIN buckets'
               PROVE  \E i \in Indices : InChain(a, i)'
    BY <1>1 DEF CellsCovered
  <2>1. CASE a \notin DOMAIN buckets
    BY <2>1
  <2>2. CASE a \in DOMAIN buckets
    <3>1. PICK i \in Indices : InChain(a, i)
      BY <2>2 DEF HashInv, CellsCovered
    <3>2. PICK c, p : /\ IsChain(i, c) /\ HasPlaces(i, c, p)
                      /\ \E k \in 1 .. Len(c) : c[k] = a
      BY <3>1 DEF InChain
    <3>3. Kept(i, c)
      BY <3>2
    <3>4. InChain(a, i)'
      BY <3>2, <3>3 DEF Kept, InChain
    <3> QED
      BY <3>4
  <2> QED
    BY <2>1, <2>2
<1> QED
  BY <1>2, <1>3 DEF HashInv

(* A chain whose nodes stay as they are, when its places in the list move  *)
(* as S says.                                                              *)
LEMMA Moves ==
    ASSUME HashType, mode # Null, NEW i \in Indices, NEW c, NEW p,
           IsChain(i, c), HasPlaces(i, c, p),
           \A k \in 1 .. Len(c) : /\ c[k] \in DOMAIN buckets'
                                 /\ buckets'[c[k]] = buckets[c[k]],
           NEW S, \A n \in Hashed(i) : S[n] \in Nat /\ hashList'[S[n]] = hashList[n],
           \A m, n \in Hashed(i) : m < n => S[m] < S[n],
           Hashed(i)' = {S[n] : n \in Hashed(i)}
    PROVE  Kept(i, c)
<1>1. /\ Len(c) \in Nat /\ Len(c) >= 1 /\ DOMAIN c = 1 .. Len(c) /\ c[1] = i
      /\ Len(p) \in Nat /\ Len(p) =< Len(c) /\ DOMAIN p = 1 .. Len(p)
  BY ChainFacts
<1>2. IsChain(i, c)'
  <2>1. c \in [1 .. Len(c) -> DOMAIN buckets']
    <3>1. c \in Seq(DOMAIN buckets)
      BY DEF IsChain
    <3>2. c = [k \in 1 .. Len(c) |-> c[k]]
      BY <3>1, LenProperties
    <3> QED
      BY <3>2
  <2>2. c \in Seq(DOMAIN buckets')
    BY <1>1, <2>1, SequenceOf
  <2> QED
    BY <2>2 DEF IsChain
<1> DEFINE q == [k \in 1 .. Len(p) |-> S[p[k]]]
<1>3. \A k \in 1 .. Len(p) : p[k] \in Hashed(i)
  BY DEF HasPlaces
<1>4. q \in Seq(Nat) /\ Len(q) = Len(p)
  <2>1. q \in [1 .. Len(p) -> Nat]
    BY <1>3
  <2> HIDE DEF q
  <2> QED
    BY <1>1, <2>1, SequenceOf
<1>5. \A k \in 1 .. Len(p) : q[k] = S[p[k]]
  OBVIOUS
<1> HIDE DEF q
<1>6. {q[k] : k \in 1 .. Len(q)} = Hashed(i)'
  <2>1. Hashed(i) = {p[k] : k \in 1 .. Len(p)}
    BY DEF HasPlaces
  <2> QED
    BY <1>4, <1>5, <2>1
<1>7. \A k \in 1 .. Len(q) : buckets'[c[k]].vbucket = hashList'[q[k]]
  <2> SUFFICES ASSUME NEW k \in 1 .. Len(p) PROVE buckets'[c[k]].vbucket = hashList'[q[k]]
    BY <1>4
  <2>1. k \in 1 .. Len(c)
    BY <1>1
  <2>2. buckets[c[k]].vbucket = hashList[p[k]]
    BY DEF HasPlaces
  <2> QED
    BY <1>3, <1>5, <2>1, <2>2
<1>8. \A j, k \in 1 .. Len(q) : j < k => q[j] < q[k]
  <2>1. \A j, k \in 1 .. Len(p) : j < k => p[j] < p[k]
    BY DEF HasPlaces
  <2> QED
    BY <1>3, <1>4, <1>5, <2>1
<1>9. Len(q) = 0 => Len(c) = 1 /\ buckets'[i] = H!Unused
  <2>1. 1 \in 1 .. Len(c)
    BY <1>1
  <2> QED
    BY <1>1, <1>4, <2>1 DEF HasPlaces
<1>10. Len(q) # 0 => Len(q) = Len(c)
  BY <1>4 DEF HasPlaces
<1>11. HasPlaces(i, c, q)'
  BY <1>4, <1>6, <1>7, <1>8, <1>9, <1>10 DEF HasPlaces, H!Unused
<1> QED
  BY <1>2, <1>11 DEF Kept

(* The list after an addition.                                             *)
LEMMA AddsToList ==
    ASSUME HashType, mode # Null, NEW x \in HashItem, H!AddItem(x)
    PROVE  /\ mode' = mode /\ keySize' = keySize /\ ListedType'
           /\ Len(hashList') = Len(hashList) + 1
           /\ hashList'[Len(hashList) + 1] = H!Fresh(Bucket \ H!ToSet(hashList))
           /\ H!Fresh(Bucket \ H!ToSet(hashList)) \in Bucket
           /\ \A n \in 1 .. Len(hashList) : hashList'[n] = hashList[n]
           /\ \A i : Hashed(i)' = Hashed(i) \cup
                        (IF H!Hash(x) = i THEN {Len(hashList) + 1} ELSE {})
           /\ [n \in DOMAIN hashList' |-> data'[hashList'[n]]]
                 = Append([n \in DOMAIN hashList |-> data[hashList[n]]], x)
<1> DEFINE b == H!Fresh(Bucket \ H!ToSet(hashList))
           N == Len(hashList)
<1>1. /\ mode' = mode /\ keySize' = keySize /\ hashCount' = hashCount + 1
      /\ hashList' = Append(hashList, b) /\ data' = [data EXCEPT ![b] = x]
      /\ Bucket \ H!ToSet(hashList) # {}
  BY DEF H!AddItem
<1>2. /\ N \in Nat /\ DOMAIN hashList = 1 .. N /\ hashList \in Seq(Bucket)
      /\ hashCount = N /\ Once(hashList) /\ data \in [Bucket -> HashItem \cup {Null}]
      /\ \A n \in 1 .. N : hashList[n] \in Bucket /\ data[hashList[n]] \in HashItem
  BY ListOfBuckets DEF HashType, ListedType
<1>3. b \in Bucket /\ \A n \in 1 .. N : hashList[n] # b
  <2>1. b \in Bucket \ H!ToSet(hashList)
    BY <1>1 DEF H!Fresh
  <2> QED
    BY <1>2, <2>1 DEF H!ToSet
<1> HIDE DEF b, N
<1>4. /\ hashList' \in Seq(Bucket) /\ Len(hashList') = N + 1
      /\ hashList'[N + 1] = b /\ \A n \in 1 .. N : hashList'[n] = hashList[n]
      /\ DOMAIN hashList' = 1 .. N + 1
  <2>1. /\ hashList' \in Seq(Bucket) /\ Len(hashList') = N + 1
        /\ hashList'[N + 1] = b /\ \A n \in 1 .. N : hashList'[n] = hashList[n]
    BY <1>1, <1>2, <1>3, AppendProperties DEF N
  <2> QED
    BY <2>1, LenProperties
<1>5. /\ \A n \in 1 .. N : data'[hashList'[n]] = data[hashList[n]]
      /\ data'[b] = x
  BY <1>1, <1>2, <1>3, <1>4
<1>6. Once(hashList')
  <2> SUFFICES ASSUME NEW m \in 1 .. N + 1, NEW n \in 1 .. N + 1,
                      hashList'[m] = hashList'[n]
               PROVE  m = n
    BY <1>4 DEF Once
  <2>1. CASE m \in 1 .. N /\ n \in 1 .. N
    BY <1>2, <1>4, <2>1 DEF Once
  <2>2. CASE m = N + 1 /\ n \in 1 .. N
    BY <1>3, <1>4, <2>2
  <2>3. CASE n = N + 1 /\ m \in 1 .. N
    BY <1>3, <1>4, <2>3
  <2>4. CASE m = N + 1 /\ n = N + 1
    BY <2>4
  <2> QED
    BY <1>2, <2>1, <2>2, <2>3, <2>4
<1>7. ASSUME NEW n \in DOMAIN hashList' PROVE data'[hashList'[n]] \in HashItem
  <2>1. n \in 1 .. N \/ n = N + 1
    BY <1>2, <1>4
  <2> QED
    BY <1>2, <1>4, <1>5, <2>1
<1>8. ListedType'
  <2>1. data' \in [Bucket -> HashItem \cup {Null}] /\ hashCount' = Len(hashList')
    BY <1>1, <1>2, <1>3, <1>4
  <2> QED
    BY <1>4, <1>6, <1>7, <2>1 DEF ListedType, Once
<1>9. ASSUME NEW i
      PROVE  Hashed(i)' = Hashed(i) \cup (IF H!Hash(x) = i THEN {N + 1} ELSE {})
  <2>2. \A y : H!Hash(y)' = H!Hash(y)
    BY <1>1, HashKept
  <2>3. Hashed(i)' = {n \in 1 .. N + 1 : H!Hash(data'[hashList'[n]]) = i}
    BY <1>4, <2>2 DEF Hashed
  <2>4. Hashed(i) = {n \in 1 .. N : H!Hash(data[hashList[n]]) = i}
    BY <1>2 DEF Hashed
  <2>5. \A n : n \in 1 .. N + 1 <=> n \in 1 .. N \/ n = N + 1
    BY <1>2
  <2> QED
    BY <1>4, <1>5, <2>3, <2>4, <2>5
<1>10. [n \in DOMAIN hashList' |-> data'[hashList'[n]]]
          = Append([n \in DOMAIN hashList |-> data[hashList[n]]], x)
  <2> DEFINE e == [n \in 1 .. N |-> data[hashList[n]]]
             f == [n \in 1 .. N + 1 |-> data'[hashList'[n]]]
  <2>1. e \in Seq(HashItem) /\ Len(e) = N /\ DOMAIN e = 1 .. N
    <3>1. e \in [1 .. N -> HashItem]
      BY <1>2
    <3> HIDE DEF e
    <3> QED
      BY <1>2, <3>1, SequenceOf
  <2>2. f \in Seq(HashItem) /\ Len(f) = N + 1 /\ DOMAIN f = 1 .. N + 1
    <3>1. f \in [1 .. N + 1 -> HashItem] /\ N + 1 \in Nat
      BY <1>2, <1>4, <1>7
    <3> HIDE DEF f
    <3> QED
      BY <3>1, SequenceOf
  <2>3. /\ \A n \in 1 .. N : f[n] = e[n]
        /\ f[N + 1] = x
    BY <1>2, <1>4, <1>5
  <2> HIDE DEF e, f
  <2>4. /\ Append(e, x) \in Seq(HashItem) /\ Len(Append(e, x)) = N + 1
        /\ \A n \in 1 .. N : Append(e, x)[n] = e[n]
        /\ Append(e, x)[N + 1] = x
    BY <2>1, AppendProperties
  <2>5. DOMAIN Append(e, x) = 1 .. N + 1
    BY <2>4, LenProperties
  <2>6. \A n \in 1 .. N + 1 : f[n] = Append(e, x)[n]
    <3>1. \A n \in 1 .. N + 1 : n \in 1 .. N \/ n = N + 1
      BY <1>2
    <3> QED
      BY <2>3, <2>4, <3>1
  <2>7. f = [n \in 1 .. N + 1 |-> f[n]] /\ Append(e, x) = [n \in 1 .. N + 1 |-> Append(e, x)[n]]
    BY <2>2, <2>4, <2>5, LenProperties
  <2>8. f = Append(e, x)
    BY <2>6, <2>7
  <2>9. /\ f = [n \in DOMAIN hashList' |-> data'[hashList'[n]]]
        /\ e = [n \in DOMAIN hashList |-> data[hashList[n]]]
    BY <1>2, <1>4 DEF e, f
  <2> QED
    BY <2>8, <2>9
<1> QED
  BY <1>1, <1>3, <1>4, <1>8, <1>9, <1>10 DEF b, N

(* Chains at other indices than that of x.                                 *)
LEMMA AddKeepsOthers ==
    ASSUME HashType, mode # Null, NEW x \in HashItem, H!AddItem(x),
           NEW i \in Indices, NEW c, NEW p, IsChain(i, c), HasPlaces(i, c, p),
           i # H!Hash(x),
           \A k \in 1 .. Len(c) : /\ c[k] \in DOMAIN buckets'
                                 /\ buckets'[c[k]] = buckets[c[k]]
    PROVE  Kept(i, c)
<1> DEFINE S == [n \in 1 .. Len(hashList) |-> n]
<1>1. \A n \in Hashed(i) : n \in 1 .. Len(hashList) /\ S[n] = n
  BY ListOfBuckets DEF Hashed
<1>2. Hashed(i)' = Hashed(i)
  BY AddsToList
<1>3. \A n \in Hashed(i) : S[n] \in Nat /\ hashList'[S[n]] = hashList[n]
  <2>1. Len(hashList) \in Nat /\ \A n \in 1 .. Len(hashList) : hashList'[n] = hashList[n]
    BY AddsToList, ListOfBuckets
  <2> HIDE DEF S
  <2> QED
    BY <1>1, <2>1
<1>4. \A m, n \in Hashed(i) : m < n => S[m] < S[n]
  BY <1>1
<1>5. Hashed(i)' = {S[n] : n \in Hashed(i)}
  BY <1>1, <1>2
<1> HIDE DEF S
<1> QED
  BY <1>3, <1>4, <1>5, Moves

(* The first bucket at an index goes into the array.                       *)
LEMMA AddsFirst ==
    ASSUME HashInv, mode # Null, NEW x \in HashItem, H!AddItem(x),
           buckets[H!Hash(x)].vbucket = Null
    PROVE  HashInv'
<1> DEFINE h == H!Hash(x)
           b == H!Fresh(Bucket \ H!ToSet(hashList))
           N == Len(hashList)
<1>1. HashType /\ N \in Nat /\ DOMAIN hashList = 1 .. N
  BY ListOfBuckets DEF HashInv
<1>2. h \in Indices /\ h \in DOMAIN buckets
  BY <1>1, HashFits DEF HashType, EntriesType, Indices
<1>3. /\ mode' = mode /\ keySize' = keySize /\ ListedType' /\ Len(hashList') = N + 1
      /\ hashList'[N + 1] = b /\ b \in Bucket
      /\ \A n \in 1 .. N : hashList'[n] = hashList[n]
      /\ \A i : Hashed(i)' = Hashed(i) \cup (IF h = i THEN {N + 1} ELSE {})
  BY <1>1, AddsToList
<1>4. buckets' = [buckets EXCEPT ![h].vbucket = b]
  BY DEF H!AddItem
<1>5. Indices' = Indices
  BY <1>3, HashKept DEF Indices
<1> HIDE DEF h, b, N
<1>6. /\ DOMAIN buckets' = DOMAIN buckets
      /\ \A a \in DOMAIN buckets : a # h => buckets'[a] = buckets[a]
      /\ buckets'[h] = [vbucket |-> b, next |-> buckets[h].next]
  BY <1>1, <1>2, <1>4 DEF HashType, EntriesType
<1>7. HashType'
  <2>1. \A a \in DOMAIN buckets' :
           buckets'[a] = [vbucket |-> buckets'[a].vbucket, next |-> buckets'[a].next]
    <3> SUFFICES ASSUME NEW a \in DOMAIN buckets
                 PROVE  buckets'[a] = [vbucket |-> buckets'[a].vbucket, next |-> buckets'[a].next]
      BY <1>6
    <3>1. CASE a = h
      BY <1>6, <3>1
    <3>2. CASE a # h
      BY <1>1, <1>6, <3>2 DEF HashType, EntriesType
    <3> QED
      BY <3>1, <3>2
  <2>2. /\ Hashing' /\ Indices' \subseteq DOMAIN buckets'
        /\ DOMAIN buckets' \subseteq Indices' \cup Cell
    BY <1>1, <1>3, <1>5, <1>6 DEF HashType, EntriesType, Hashing
  <2>3. EntriesType'
    BY <1>3, <2>1, <2>2 DEF EntriesType
  <2> QED
    BY <1>3, <2>3 DEF HashType
<1>8. ASSUME NEW i \in Indices, NEW c, NEW p, IsChain(i, c), HasPlaces(i, c, p)
      PROVE  Kept(i, c)
  <2>1. /\ Len(c) \in Nat /\ Len(c) >= 1 /\ c[1] = i /\ c \in Seq(DOMAIN buckets)
        /\ DOMAIN c = 1 .. Len(c)
        /\ \A k \in 1 .. Len(c) : c[k] \in DOMAIN buckets
    BY <1>1, <1>8, ChainFacts DEF IsChain
  <2>2. CASE i # h
    <3>1. ASSUME NEW k \in 1 .. Len(c) PROVE c[k] # h
      <4> SUFFICES ASSUME c[k] = h PROVE FALSE
        OBVIOUS
      <4>1. PICK d, q : IsChain(h, d) /\ HasPlaces(h, d, q)
        BY <1>2 DEF HashInv, ChainsHold
      <4>2. d[1] = h /\ 1 \in 1 .. Len(d)
        BY <1>1, <1>2, <4>1, ChainFacts
      <4> QED
        BY <1>1, <1>2, <1>8, <2>2, <4>1, <4>2, ChainsApart
    <3>2. \A k \in 1 .. Len(c) : c[k] \in DOMAIN buckets' /\ buckets'[c[k]] = buckets[c[k]]
      BY <1>6, <2>1, <3>1
    <3> QED
      BY <1>1, <1>8, <2>2, <3>2, AddKeepsOthers DEF h
  <2>3. CASE i = h
    <3>1. Len(p) = 0 /\ Len(c) = 1 /\ buckets[h] = H!Unused /\ Hashed(h) = {}
      <4>1. 1 \in 1 .. Len(c) /\ buckets[c[1]].vbucket = Null
        BY <2>1, <2>3 DEF h
      <4>2. Len(p) = 0
        BY <1>1, <1>8, <4>1, ChainFacts
      <4> QED
        BY <1>8, <2>3, <4>2 DEF HasPlaces
    <3>2. PICK q : q \in Seq(Nat) /\ Len(q) = 1 /\ q[1] = N + 1
      <4>1. <<N + 1>> \in Seq(Nat) /\ Len(<<N + 1>>) = 1 /\ <<N + 1>>[1] = N + 1
        BY <1>1
      <4> QED
        BY <4>1
    <3>3. buckets'[h] = [vbucket |-> b, next |-> Null]
      BY <1>6, <3>1 DEF H!Unused
    <3>4. IsChain(i, c)'
      BY <1>6, <2>1, <2>3, <3>1, <3>3 DEF IsChain
    <3>5. Hashed(i)' = {N + 1}
      BY <1>3, <2>3, <3>1
    <3>6. HasPlaces(i, c, q)'
      BY <1>3, <2>1, <2>3, <3>1, <3>2, <3>3, <3>5 DEF HasPlaces
    <3> QED
      BY <3>4, <3>6 DEF Kept
  <2> QED
    BY <2>2, <2>3
<1> QED
  BY <1>3, <1>6, <1>7, <1>8, KeepsInv

(* The next one goes into a new cell behind the last of the chain.         *)
LEMMA AddsCell ==
    ASSUME HashInv, mode # Null, NEW x \in HashItem, H!AddItem(x),
           buckets[H!Hash(x)].vbucket # Null
    PROVE  HashInv'
<1>0. PICK h : h = H!Hash(x)
  OBVIOUS
<1> DEFINE b == H!Fresh(Bucket \ H!ToSet(hashList))
           N == Len(hashList)
           e == H!Fresh(Cell \ H!UsedCells)
<1>1. HashType /\ N \in Nat /\ DOMAIN hashList = 1 .. N
  BY ListOfBuckets DEF HashInv
<1>2. h \in Indices /\ h \in DOMAIN buckets
  BY <1>0, <1>1, HashFits DEF HashType, EntriesType, Indices
<1>3. /\ mode' = mode /\ keySize' = keySize /\ ListedType' /\ Len(hashList') = N + 1
      /\ hashList'[N + 1] = b /\ b \in Bucket
      /\ \A n \in 1 .. N : hashList'[n] = hashList[n]
      /\ \A i : Hashed(i)' = Hashed(i) \cup (IF h = i THEN {N + 1} ELSE {})
  BY <1>0, <1>1, AddsToList
<1>4. PICK c, p : IsChain(h, c) /\ HasPlaces(h, c, p)
  BY <1>2 DEF HashInv, ChainsHold
<1>5. H!Chain(h) = c
  BY <1>1, <1>2, <1>4, ChainIs
<1>6. /\ Len(c) \in Nat /\ Len(c) >= 1 /\ DOMAIN c = 1 .. Len(c) /\ c[1] = h
      /\ c \in Seq(DOMAIN buckets) /\ \A k \in 1 .. Len(c) : c[k] \in DOMAIN buckets
  BY <1>1, <1>2, <1>4, ChainFacts DEF IsChain
<1>7. Len(p) = Len(c)
  <2>1. 1 \in 1 .. Len(c) /\ buckets[c[1]].vbucket # Null
    BY <1>0, <1>6
  <2> QED
    BY <1>1, <1>2, <1>4, <2>1, NodeHash
<1> DEFINE last0 == c[Len(c)]
<1>8. e \in Cell /\ e \notin DOMAIN buckets
  <2>1. e \in Cell \ H!UsedCells
    BY DEF H!AddItem, H!Fresh
  <2> QED
    BY <2>1 DEF H!UsedCells
<1>9. buckets' = H!With([buckets EXCEPT ![last0].next = e], e, [vbucket |-> b, next |-> Null])
  <2>1. H!Last(H!Chain(h)) = last0
    BY <1>5 DEF H!Last
  <2> QED
    BY <1>0, <2>1 DEF H!AddItem
<1>10. Indices' = Indices
  BY <1>3, HashKept DEF Indices
<1>11. last0 \in DOMAIN buckets
  BY <1>6
<1> HIDE DEF b, N, e, last0
<1>12. /\ DOMAIN buckets' = DOMAIN buckets \cup {e}
       /\ \A a \in DOMAIN buckets : a # last0 => buckets'[a] = buckets[a]
       /\ buckets'[last0] = [vbucket |-> buckets[last0].vbucket, next |-> e]
       /\ buckets'[e] = [vbucket |-> b, next |-> Null]
  BY <1>1, <1>8, <1>9, <1>11 DEF HashType, EntriesType, H!With
<1>13. HashType'
  <2>1. \A a \in DOMAIN buckets' :
           buckets'[a] = [vbucket |-> buckets'[a].vbucket, next |-> buckets'[a].next]
    <3> SUFFICES ASSUME NEW a \in DOMAIN buckets \cup {e}
                 PROVE  buckets'[a] = [vbucket |-> buckets'[a].vbucket, next |-> buckets'[a].next]
      BY <1>12
    <3>1. CASE a = last0 \/ a = e
      BY <1>12, <3>1
    <3>2. CASE a # last0 /\ a # e
      BY <1>1, <1>12, <3>2 DEF HashType, EntriesType
    <3> QED
      BY <3>1, <3>2
  <2>2. /\ Hashing' /\ Indices' \subseteq DOMAIN buckets'
        /\ DOMAIN buckets' \subseteq Indices' \cup Cell
    BY <1>1, <1>3, <1>8, <1>10, <1>12 DEF HashType, EntriesType, Hashing
  <2>3. EntriesType'
    BY <1>3, <2>1, <2>2 DEF EntriesType
  <2> QED
    BY <1>3, <2>3 DEF HashType
<1>14. PICK d :
       /\ d \in Seq(DOMAIN buckets') /\ Len(d) = Len(c) + 1 /\ d[Len(c) + 1] = e
       /\ \A k \in 1 .. Len(c) : d[k] = c[k]
  <2>1. c \in Seq(DOMAIN buckets \cup {e})
    <3>1. c \in [1 .. Len(c) -> DOMAIN buckets \cup {e}]
      <4>1. c = [k \in 1 .. Len(c) |-> c[k]]
        BY <1>6, LenProperties
      <4> QED
        BY <1>6, <4>1
    <3> QED
      BY <1>6, <3>1, SequenceOf
  <2>2. LET s == Append(c, e) IN
        /\ s \in Seq(DOMAIN buckets') /\ Len(s) = Len(c) + 1 /\ s[Len(c) + 1] = e
        /\ \A k \in 1 .. Len(c) : s[k] = c[k]
    BY <1>12, <2>1, AppendProperties
  <2> QED
    BY <2>2
<1>15. PICK q :
       /\ q \in Seq(Nat) /\ Len(q) = Len(p) + 1 /\ q[Len(p) + 1] = N + 1
       /\ \A k \in 1 .. Len(p) : q[k] = p[k]
  <2>1. p \in Seq(Nat)
    BY <1>4 DEF HasPlaces
  <2>2. LET s == Append(p, N + 1) IN
        /\ s \in Seq(Nat) /\ Len(s) = Len(p) + 1 /\ s[Len(p) + 1] = N + 1
        /\ \A k \in 1 .. Len(p) : s[k] = p[k]
    BY <1>1, <2>1, AppendProperties
  <2> QED
    BY <2>2
<1>16. \A k \in 1 .. Len(c) + 1 : k \in 1 .. Len(c) \/ k = Len(c) + 1
  BY <1>6
<1>17. \A j, k \in 1 .. Len(c) : c[j] = c[k] => j = k
  BY <1>1, <1>2, <1>4, ChainOnce
<1>18. IsChain(h, d)'
  <2>1. \A k \in 2 .. Len(d) : d[k] \in Cell
    <3> SUFFICES ASSUME NEW k \in 2 .. Len(c) + 1 PROVE d[k] \in Cell
      BY <1>14
    <3>1. CASE k = Len(c) + 1
      BY <1>8, <1>14, <3>1
    <3>2. CASE k # Len(c) + 1
      <4>1. k \in 2 .. Len(c) /\ k \in 1 .. Len(c)
        BY <1>6, <3>2
      <4> QED
        BY <1>4, <1>14, <4>1 DEF IsChain
    <3> QED
      BY <3>1, <3>2
  <2>2. \A k \in 1 .. Len(d) :
           buckets'[d[k]].next = IF k < Len(d) THEN d[k + 1] ELSE Null
    <3> SUFFICES ASSUME NEW k \in 1 .. Len(c) + 1
                 PROVE  buckets'[d[k]].next = IF k < Len(c) + 1 THEN d[k + 1] ELSE Null
      BY <1>14
    <3>1. CASE k = Len(c) + 1
      BY <1>6, <1>12, <1>14, <3>1
    <3>2. CASE k = Len(c)
      <4>1. k \in 1 .. Len(c) /\ d[k] = last0 /\ d[k + 1] = e /\ k < Len(c) + 1
        BY <1>6, <1>14, <3>2 DEF last0
      <4> QED
        BY <1>12, <4>1
    <3>3. CASE k \in 1 .. Len(c) /\ k # Len(c)
      <4>1. k < Len(c) /\ k + 1 \in 1 .. Len(c) /\ k < Len(c) + 1 /\ Len(c) \in 1 .. Len(c)
        <5>1. \A n \in Nat : \A j \in 1 .. n : j # n =>
                 j < n /\ j + 1 \in 1 .. n /\ j < n + 1 /\ n \in 1 .. n
          OBVIOUS
        <5> QED
          BY <1>6, <3>3, <5>1, Zenon
      <4>2. d[k] = c[k] /\ d[k + 1] = c[k + 1] /\ c[k] # last0
        BY <1>14, <1>17, <3>3, <4>1 DEF last0
      <4>3. buckets[c[k]].next = c[k + 1]
        BY <1>4, <3>3, <4>1 DEF IsChain
      <4> QED
        BY <1>6, <1>12, <3>3, <4>1, <4>2, <4>3, Zenon
    <3> QED
      BY <1>16, <3>1, <3>2, <3>3
  <2>3. Len(d) >= 1 /\ d[1] = h
    <3>1. 1 \in 1 .. Len(c)
      BY <1>6
    <3> QED
      BY <1>6, <1>14, <3>1
  <2> QED
    BY <1>14, <2>1, <2>2, <2>3 DEF IsChain
<1>19. HasPlaces(h, d, q)'
  <2>1. {q[k] : k \in 1 .. Len(q)} = Hashed(h)'
    <3>1. Hashed(h)' = {p[k] : k \in 1 .. Len(p)} \cup {N + 1}
      BY <1>3, <1>4 DEF HasPlaces
    <3>2. /\ \A k \in 1 .. Len(p) : k \in 1 .. Len(q) /\ q[k] = p[k]
          /\ Len(p) + 1 \in 1 .. Len(q) /\ q[Len(p) + 1] = N + 1
      BY <1>6, <1>7, <1>15
    <3>3. \A k \in 1 .. Len(q) : k \in 1 .. Len(p) \/ k = Len(p) + 1
      BY <1>7, <1>15, <1>16
    <3> QED
      BY <3>1, <3>2, <3>3
  <2>2. \A k \in 1 .. Len(q) : buckets'[d[k]].vbucket = hashList'[q[k]]
    <3> SUFFICES ASSUME NEW k \in 1 .. Len(c) + 1
                 PROVE  buckets'[d[k]].vbucket = hashList'[q[k]]
      BY <1>7, <1>15
    <3>1. CASE k = Len(c) + 1
      BY <1>3, <1>7, <1>12, <1>14, <1>15, <3>1
    <3>2. CASE k \in 1 .. Len(c)
      <4>1. d[k] = c[k] /\ q[k] = p[k] /\ c[k] \in DOMAIN buckets
        BY <1>6, <1>7, <1>14, <1>15, <3>2
      <4>2. p[k] \in 1 .. N /\ buckets[c[k]].vbucket = hashList[p[k]]
        BY <1>1, <1>2, <1>4, <1>7, <3>2, ChainFacts
      <4>3. buckets'[c[k]].vbucket = buckets[c[k]].vbucket
        BY <1>12, <4>1
      <4> QED
        BY <1>3, <4>1, <4>2, <4>3
    <3> QED
      BY <1>16, <3>1, <3>2
  <2>3. \A j, k \in 1 .. Len(q) : j < k => q[j] < q[k]
    <3> SUFFICES ASSUME NEW j \in 1 .. Len(c) + 1, NEW k \in 1 .. Len(c) + 1, j < k
                 PROVE  q[j] < q[k]
      BY <1>7, <1>15
    <3>1. j \in 1 .. Len(c) /\ q[j] = p[j]
      BY <1>6, <1>7, <1>15
    <3>2. p[j] \in 1 .. N
      BY <1>1, <1>2, <1>4, <1>7, <3>1, ChainFacts
    <3>3. CASE k = Len(c) + 1
      BY <1>1, <1>7, <1>15, <3>1, <3>2, <3>3
    <3>4. CASE k \in 1 .. Len(c)
      <4>1. q[k] = p[k] /\ p[j] < p[k]
        BY <1>4, <1>7, <1>15, <3>1, <3>4 DEF HasPlaces
      <4> QED
        BY <3>1, <4>1
    <3> QED
      BY <1>16, <3>3, <3>4
  <2>4. Len(q) = Len(d) /\ Len(q) # 0
    BY <1>6, <1>7, <1>14, <1>15
  <2> QED
    BY <1>15, <2>1, <2>2, <2>3, <2>4 DEF HasPlaces
<1>20. ASSUME NEW i \in Indices, NEW c1, NEW p1, IsChain(i, c1), HasPlaces(i, c1, p1)
       PROVE  Kept(i, c1)
  <2>1. CASE i # h
    <3>1. \A k \in 1 .. Len(c1) : c1[k] \in DOMAIN buckets
      BY <1>1, <1>20, ChainFacts
    <3>2. ASSUME NEW k \in 1 .. Len(c1) PROVE c1[k] # last0
      <4>1. Len(c) \in 1 .. Len(c)
        BY <1>6
      <4> QED
        BY <1>1, <1>2, <1>4, <1>20, <2>1, <4>1, ChainsApart DEF last0
    <3>3. \A k \in 1 .. Len(c1) : c1[k] \in DOMAIN buckets' /\ buckets'[c1[k]] = buckets[c1[k]]
      BY <1>12, <3>1, <3>2
    <3> QED
      BY <1>0, <1>1, <1>20, <2>1, <3>3, AddKeepsOthers
  <2>2. CASE i = h
    <3>1. c1 = c
      BY <1>1, <1>2, <1>5, <1>20, <2>2, ChainIs
    <3>2. \A k \in 1 .. Len(c) : k \in 1 .. Len(d) /\ d[k] = c[k]
      BY <1>6, <1>14
    <3> QED
      BY <1>18, <1>19, <2>2, <3>1, <3>2 DEF Kept
  <2> QED
    BY <2>1, <2>2
<1>21. ASSUME NEW a \in (DOMAIN buckets') \ DOMAIN buckets
       PROVE  \E i \in Indices : InChain(a, i)'
  <2>1. a = e
    BY <1>12
  <2>2. Len(c) + 1 \in 1 .. Len(d) /\ d[Len(c) + 1] = a
    BY <1>6, <1>14, <2>1
  <2>3. InChain(a, h)'
    BY <1>18, <1>19, <2>2 DEF InChain
  <2> QED
    BY <1>2, <2>3
<1> QED
  BY <1>3, <1>13, <1>20, <1>21, KeepsInv

(* Where the places of the list are when place n has been removed.         *)
Shift(n) == [m \in Nat |-> IF m < n THEN m ELSE m - 1]

(* The list after a removal.                                               *)
LEMMA RemovesFromList ==
    ASSUME HashType, mode # Null, NEW n \in 1 .. Len(hashList),
           mode' = mode, keySize' = keySize, hashCount' = hashCount - 1,
           hashList' = H!RemoveAt(hashList, n),
           data' = [data EXCEPT ![hashList[n]] = Null]
    PROVE  /\ ListedType'
           /\ \A i : Hashed(i)' = {Shift(n)[m] : m \in Hashed(i) \ {n}}
           /\ \A m \in DOMAIN hashList \ {n} :
                 Shift(n)[m] \in Nat /\ hashList'[Shift(n)[m]] = hashList[m]
           /\ \A l, m \in DOMAIN hashList \ {n} : l < m => Shift(n)[l] < Shift(n)[m]
           /\ [m \in DOMAIN hashList' |-> data'[hashList'[m]]]
                 = H!Abs!RemoveAt([m \in DOMAIN hashList |-> data[hashList[m]]], n)
<1> DEFINE N == Len(hashList)
           b == hashList[n]
           S == Shift(n)
<1>1. /\ N \in Nat /\ DOMAIN hashList = 1 .. N /\ hashList \in Seq(Bucket)
      /\ hashCount = N /\ data \in [Bucket -> HashItem \cup {Null}]
      /\ \A m \in 1 .. N : hashList[m] \in Bucket /\ data[hashList[m]] \in HashItem
      /\ \A l, m \in 1 .. N : hashList[l] = hashList[m] => l = m
  BY ListOfBuckets DEF HashType, ListedType
<1>2. /\ hashList' \in Seq(Bucket) /\ IsRemoved(hashList', hashList, n)
  BY <1>1, CutsOut DEF H!RemoveAt
<1> HIDE DEF N, b
<1>3. /\ hashList' \in Seq(Bucket) /\ Len(hashList') = N - 1
      /\ DOMAIN hashList' = 1 .. N - 1
      /\ \A m \in 1 .. N - 1 :
            hashList'[m] = IF m < n THEN hashList[m] ELSE hashList[m + 1]
  BY <1>2, LenProperties DEF IsRemoved, N
<1>4. n \in 1 .. N /\ b \in Bucket /\ hashList[n] = b
  BY <1>1 DEF b, N
<1>5. \A m \in 1 .. N : m # n => hashList[m] # b
  BY <1>1, <1>4
<1>6. ASSUME NEW m \in 1 .. N, m # n
      PROVE  /\ S[m] \in 1 .. N - 1 /\ S[m] \in Nat /\ hashList'[S[m]] = hashList[m]
  <2>1. CASE m < n
    <3>1. S[m] = m /\ m \in 1 .. N - 1
      BY <1>1, <1>4, <2>1 DEF Shift
    <3> HIDE DEF S
    <3> QED
      BY <1>1, <1>3, <2>1, <3>1
  <2>2. CASE ~(m < n)
    <3>1. S[m] = m - 1 /\ m - 1 \in 1 .. N - 1 /\ ~(m - 1 < n) /\ (m - 1) + 1 = m
      BY <1>1, <1>4, <1>6, <2>2 DEF Shift
    <3> HIDE DEF S
    <3> QED
      BY <1>1, <1>3, <3>1
  <2> QED
    BY <2>1, <2>2
<1>7. ASSUME NEW l \in 1 .. N, NEW m \in 1 .. N, l # n, m # n, l < m
      PROVE  S[l] < S[m]
  BY <1>1, <1>4, <1>7 DEF Shift
<1>8. ASSUME NEW k \in 1 .. N - 1
      PROVE  \E m \in 1 .. N : m # n /\ S[m] = k
  <2>1. CASE k < n
    <3>1. k \in 1 .. N /\ k # n /\ S[k] = k
      BY <1>1, <1>4, <2>1 DEF Shift
    <3> HIDE DEF S
    <3> QED
      BY <3>1
  <2>2. CASE ~(k < n)
    <3>1. k + 1 \in 1 .. N /\ k + 1 # n /\ S[k + 1] = k
      BY <1>1, <1>4, <2>2 DEF Shift
    <3> HIDE DEF S
    <3> QED
      BY <3>1
  <2> QED
    BY <2>1, <2>2
<1> HIDE DEF S
<1>9. \A m \in 1 .. N : m # n => data'[hashList'[S[m]]] = data[hashList[m]]
  <2>1. data' = [data EXCEPT ![b] = Null]
    BY DEF b
  <2> QED
    BY <1>1, <1>5, <1>6, <2>1
<1>10. \A k \in 1 .. N - 1 : data'[hashList'[k]] \in HashItem
  BY <1>1, <1>8, <1>9
<1>11. Once(hashList')
  <2> SUFFICES ASSUME NEW j \in 1 .. N - 1, NEW k \in 1 .. N - 1,
                      hashList'[j] = hashList'[k]
               PROVE  j = k
    BY <1>3 DEF Once
  <2>1. PICK l \in 1 .. N : l # n /\ S[l] = j
    BY <1>8
  <2>2. PICK m \in 1 .. N : m # n /\ S[m] = k
    BY <1>8
  <2>3. hashList[l] = hashList[m]
    BY <1>6, <2>1, <2>2
  <2> QED
    BY <1>1, <2>1, <2>2, <2>3
<1>12. ListedType'
  <2>1. data' \in [Bucket -> HashItem \cup {Null}] /\ hashCount' = Len(hashList')
    BY <1>1, <1>3, <1>4
  <2> QED
    BY <1>3, <1>10, <1>11, <2>1 DEF ListedType, Once
<1>13. ASSUME NEW i PROVE Hashed(i)' = {S[m] : m \in Hashed(i) \ {n}}
  <2>1. \A y : H!Hash(y)' = H!Hash(y)
    BY HashKept
  <2>2. Hashed(i)' = {k \in 1 .. N - 1 : H!Hash(data'[hashList'[k]]) = i}
    BY <1>3, <2>1 DEF Hashed
  <2>3. Hashed(i) = {m \in 1 .. N : H!Hash(data[hashList[m]]) = i}
    BY <1>1 DEF Hashed
  <2>4. ASSUME NEW k \in 1 .. N - 1, H!Hash(data'[hashList'[k]]) = i
        PROVE  \E m \in Hashed(i) \ {n} : S[m] = k
    <3>1. PICK m \in 1 .. N : m # n /\ S[m] = k
      BY <1>8
    <3>2. data'[hashList'[k]] = data[hashList[m]]
      BY <1>9, <3>1
    <3> QED
      BY <2>3, <2>4, <3>1, <3>2
  <2>5. ASSUME NEW m \in Hashed(i) \ {n}
        PROVE  S[m] \in 1 .. N - 1 /\ H!Hash(data'[hashList'[S[m]]]) = i
    BY <1>6, <1>9, <2>3
  <2> QED
    BY <2>2, <2>4, <2>5
<1>14. [m \in DOMAIN hashList' |-> data'[hashList'[m]]]
          = H!Abs!RemoveAt([m \in DOMAIN hashList |-> data[hashList[m]]], n)
  <2> DEFINE e == [m \in 1 .. N |-> data[hashList[m]]]
             f == [m \in 1 .. N - 1 |-> data'[hashList'[m]]]
             t == H!Abs!RemoveAt(e, n)
  <2>1. e \in Seq(HashItem) /\ Len(e) = N /\ \A m \in 1 .. N : e[m] = data[hashList[m]]
    <3>1. e \in [1 .. N -> HashItem]
      BY <1>1
    <3>2. \A m \in 1 .. N : e[m] = data[hashList[m]]
      OBVIOUS
    <3> HIDE DEF e
    <3> QED
      BY <1>1, <3>1, <3>2, SequenceOf
  <2> HIDE DEF e
  <2>2. t \in Seq(HashItem) /\ IsRemoved(t, e, n)
    <3>1. n \in 1 .. Len(e)
      BY <1>4, <2>1
    <3> QED
      BY <2>1, <3>1, CutsOut DEF H!Abs!RemoveAt
  <2> HIDE DEF t
  <2>3. /\ DOMAIN t = 1 .. N - 1
        /\ \A m \in 1 .. N - 1 : t[m] = IF m < n THEN e[m] ELSE e[m + 1]
    BY <2>1, <2>2, LenProperties DEF IsRemoved
  <2>4. ASSUME NEW k \in 1 .. N - 1 PROVE t[k] = data'[hashList'[k]]
    <3>1. CASE k < n
      <4>1. k \in 1 .. N /\ k # n /\ S[k] = k
        BY <1>1, <1>4, <3>1 DEF S, Shift
      <4> QED
        BY <1>9, <2>1, <2>3, <3>1, <4>1
    <3>2. CASE ~(k < n)
      <4>1. k + 1 \in 1 .. N /\ k + 1 # n /\ S[k + 1] = k
        BY <1>1, <1>4, <3>2 DEF S, Shift
      <4> QED
        BY <1>9, <2>1, <2>3, <3>2, <4>1
    <3> QED
      BY <3>1, <3>2
  <2>5. t = [k \in 1 .. N - 1 |-> t[k]]
    BY <2>2, <2>3, LenProperties
  <2>6. t = f
    BY <2>4, <2>5
  <2>7. /\ f = [m \in DOMAIN hashList' |-> data'[hashList'[m]]]
        /\ e = [m \in DOMAIN hashList |-> data[hashList[m]]]
    BY <1>1, <1>3 DEF e
  <2> HIDE DEF f
  <2> QED
    BY <2>6, <2>7 DEF t
<1> QED
  BY <1>1, <1>6, <1>7, <1>12, <1>13, <1>14 DEF S, N

(* What v_hash_array_remove_item does when it has found a bucket.          *)
LEMMA RemovesFound ==
    ASSUME HashType, mode # Null, NEW x \in HashItem, H!RemoveItem(x),
           NEW c, NEW p, IsChain(H!Hash(x), c), HasPlaces(H!Hash(x), c, p),
           H!Places(x) # {}
    PROVE  LET k == H!Min(H!Places(x)) IN
           /\ k \in 1 .. Len(p) /\ p[k] \in 1 .. Len(hashList)
           /\ mode' = mode /\ keySize' = keySize /\ hashCount' = hashCount - 1
           /\ hashList' = H!RemoveAt(hashList, p[k])
           /\ data' = [data EXCEPT ![hashList[p[k]]] = Null]
           /\ buckets' = H!Unchained(c, k)
           /\ hashAnswer' = H!Removed(x, 1)
<1> DEFINE k == H!Min(H!Places(x))
           b == buckets[c[k]].vbucket
<1>1. H!Chain(H!Hash(x)) = c /\ H!Hash(x) \in Indices
  BY PlacesAre
<1>2. k \in 1 .. Len(p)
  BY LeastMatch
<1>3. p[k] \in DOMAIN hashList /\ b = hashList[p[k]]
  BY <1>1, <1>2, ChainFacts
<1>4. /\ mode' = mode /\ keySize' = keySize /\ hashCount' = hashCount - 1
      /\ \E n \in DOMAIN hashList : hashList[n] = b /\ hashList' = H!RemoveAt(hashList, n)
      /\ data' = [data EXCEPT ![b] = Null]
      /\ buckets' = H!Unchained(c, k)
      /\ hashAnswer' = H!Removed(x, 1)
  BY <1>1 DEF H!RemoveItem
<1> HIDE DEF k, b
<1>5. /\ DOMAIN hashList = 1 .. Len(hashList)
      /\ \A m, n \in DOMAIN hashList : hashList[m] = hashList[n] => m = n
  BY ListOfBuckets
<1>6. hashList' = H!RemoveAt(hashList, p[k])
  BY <1>3, <1>4, <1>5
<1> QED
  BY <1>2, <1>3, <1>4, <1>5, <1>6 DEF k

(* Chains at other indices than that of the bucket removed, and the one at *)
(* its index where only its bucket goes.                                   *)
LEMMA RemoveKeepsOthers ==
    ASSUME HashType, mode # Null, NEW n \in 1 .. Len(hashList),
           mode' = mode, keySize' = keySize, hashCount' = hashCount - 1,
           hashList' = H!RemoveAt(hashList, n),
           data' = [data EXCEPT ![hashList[n]] = Null],
           NEW i \in Indices, NEW c, NEW p, IsChain(i, c), HasPlaces(i, c, p),
           n \notin Hashed(i),
           \A k \in 1 .. Len(c) : /\ c[k] \in DOMAIN buckets'
                                 /\ buckets'[c[k]] = buckets[c[k]]
    PROVE  Kept(i, c)
<1>1. PICK S : S = Shift(n)
  OBVIOUS
<1>2. /\ Hashed(i)' = {S[m] : m \in Hashed(i) \ {n}}
      /\ \A m \in DOMAIN hashList \ {n} : S[m] \in Nat /\ hashList'[S[m]] = hashList[m]
      /\ \A l, m \in DOMAIN hashList \ {n} : l < m => S[l] < S[m]
  <2>1. /\ Hashed(i)' = {Shift(n)[m] : m \in Hashed(i) \ {n}}
        /\ \A m \in DOMAIN hashList \ {n} :
              Shift(n)[m] \in Nat /\ hashList'[Shift(n)[m]] = hashList[m]
        /\ \A l, m \in DOMAIN hashList \ {n} : l < m => Shift(n)[l] < Shift(n)[m]
    BY RemovesFromList
  <2> QED
    BY <1>1, <2>1, Zenon
<1>3. Hashed(i) \subseteq DOMAIN hashList \ {n}
  BY DEF Hashed
<1>4. Hashed(i) \ {n} = Hashed(i)
  OBVIOUS
<1>5. /\ Hashed(i)' = {S[m] : m \in Hashed(i)}
      /\ \A m \in Hashed(i) : S[m] \in Nat /\ hashList'[S[m]] = hashList[m]
      /\ \A l, m \in Hashed(i) : l < m => S[l] < S[m]
  BY <1>2, <1>3, <1>4
<1> QED
  BY <1>5, Moves

(* The only bucket of its index.                                           *)
LEMMA RemovesOnly ==
    ASSUME HashInv, mode # Null, NEW x \in HashItem, H!RemoveItem(x),
           NEW c, NEW p, IsChain(H!Hash(x), c), HasPlaces(H!Hash(x), c, p),
           H!Places(x) # {}, Len(c) = 1
    PROVE  HashInv'
<1>1. PICK h : h = H!Hash(x)
  OBVIOUS
<1>2. PICK k : k = H!Min(H!Places(x))
  OBVIOUS
<1>3. HashType /\ IsChain(h, c) /\ HasPlaces(h, c, p) /\ h \in Indices
  BY <1>1, PlacesAre DEF HashInv
<1>4. /\ k \in 1 .. Len(p) /\ p[k] \in 1 .. Len(hashList)
      /\ mode' = mode /\ keySize' = keySize /\ hashCount' = hashCount - 1
      /\ hashList' = H!RemoveAt(hashList, p[k])
      /\ data' = [data EXCEPT ![hashList[p[k]]] = Null]
      /\ buckets' = H!Unchained(c, k)
  BY <1>2, <1>3, RemovesFound
<1>5. /\ ListedType'
      /\ \A i : Hashed(i)' = {Shift(p[k])[m] : m \in Hashed(i) \ {p[k]}}
  BY <1>3, <1>4, RemovesFromList
<1>6. /\ c[1] = h /\ h \in DOMAIN buckets /\ Len(p) = 1 /\ k = 1
  <2>1. Len(p) \in Nat /\ Len(p) =< Len(c) /\ c[1] = h /\ 1 \in 1 .. Len(c)
    BY <1>3, ChainFacts
  <2>2. Len(p) = 1 /\ k = 1
    <3>1. \A n \in Nat : \A j \in 1 .. n : n =< 1 => n = 1 /\ j = 1
      OBVIOUS
    <3>2. Len(p) =< 1
      BY <2>1
    <3> QED
      BY <1>4, <2>1, <3>1, <3>2
  <2> QED
    BY <1>3, <2>1, <2>2, ChainFacts
<1>7. /\ DOMAIN buckets' = DOMAIN buckets
      /\ \A a \in DOMAIN buckets : a # h => buckets'[a] = buckets[a]
      /\ buckets'[h] = [vbucket |-> Null, next |-> Null]
  <2>1. buckets' = [buckets EXCEPT ![h].vbucket = Null]
    BY <1>4, <1>6 DEF H!Unchained
  <2>2. buckets[h] = [vbucket |-> buckets[h].vbucket, next |-> Null]
    <3>1. 1 \in 1 .. Len(c) /\ ~(1 < Len(c))
      OBVIOUS
    <3>2. buckets[c[1]].next = Null
      BY <1>3, <3>1 DEF IsChain
    <3> QED
      BY <1>3, <1>6, <3>2 DEF HashType, EntriesType
  <2> QED
    BY <1>6, <2>1, <2>2
<1>8. Indices' = Indices
  BY <1>4, HashKept DEF Indices
<1>9. HashType'
  <2>1. \A a \in DOMAIN buckets' :
           buckets'[a] = [vbucket |-> buckets'[a].vbucket, next |-> buckets'[a].next]
    <3> SUFFICES ASSUME NEW a \in DOMAIN buckets
                 PROVE  buckets'[a] = [vbucket |-> buckets'[a].vbucket, next |-> buckets'[a].next]
      BY <1>7
    <3>1. CASE a = h
      BY <1>7, <3>1
    <3>2. CASE a # h
      BY <1>3, <1>7, <3>2 DEF HashType, EntriesType
    <3> QED
      BY <3>1, <3>2
  <2>2. /\ Hashing' /\ Indices' \subseteq DOMAIN buckets'
        /\ DOMAIN buckets' \subseteq Indices' \cup Cell
    BY <1>3, <1>4, <1>7, <1>8 DEF HashType, EntriesType, Hashing
  <2>3. EntriesType'
    BY <1>4, <2>1, <2>2 DEF EntriesType
  <2> QED
    BY <1>5, <2>3 DEF HashType
<1>10. ASSUME NEW i \in Indices, NEW d, NEW q, IsChain(i, d), HasPlaces(i, d, q)
       PROVE  Kept(i, d)
  <2>1. CASE i = h
    <3>1. d = c
      BY <1>3, <1>10, <2>1, ChainIs
    <3>2. Hashed(i) = {p[k]}
      <4>1. Hashed(i) = {p[j] : j \in 1 .. 1}
        BY <1>3, <1>6, <2>1 DEF HasPlaces
      <4> QED
        BY <1>6, <4>1
    <3>3. Hashed(i)' = {}
      BY <1>5, <3>2
    <3>4. IsChain(i, c)'
      <4>1. \A j \in 1 .. Len(c) : j = 1 /\ ~(j < Len(c))
        OBVIOUS
      <4> QED
        BY <1>3, <1>6, <1>7, <2>1, <4>1 DEF IsChain
    <3>5. PICK r : r \in Seq(Nat) /\ Len(r) = 0
      <4>1. <<>> \in Seq(Nat) /\ Len(<<>>) = 0
        OBVIOUS
      <4> QED
        BY <4>1
    <3>6. HasPlaces(i, c, r)'
      <4>1. \A j \in 1 .. Len(r) : FALSE
        BY <3>5
      <4>2. {r[j] : j \in 1 .. Len(r)} = {}
        BY <4>1
      <4> QED
        BY <1>7, <2>1, <3>3, <3>5, <4>1, <4>2 DEF HasPlaces, H!Unused
    <3> QED
      BY <3>1, <3>4, <3>6 DEF Kept
  <2>2. CASE i # h
    <3>1. \A j \in 1 .. Len(d) : d[j] \in DOMAIN buckets
      BY <1>3, <1>10, ChainFacts
    <3>2. ASSUME NEW j \in 1 .. Len(d) PROVE d[j] # h
      <4>1. 1 \in 1 .. Len(c)
        OBVIOUS
      <4> QED
        BY <1>3, <1>6, <1>10, <2>2, <4>1, ChainsApart
    <3>3. \A j \in 1 .. Len(d) : d[j] \in DOMAIN buckets' /\ buckets'[d[j]] = buckets[d[j]]
      BY <1>7, <3>1, <3>2
    <3>4. p[k] \notin Hashed(i)
      <4>1. H!Hash(data[hashList[p[k]]]) = h
        BY <1>3, <1>4, ChainFacts
      <4> QED
        BY <2>2, <4>1 DEF Hashed
    <3> QED
      BY <1>3, <1>4, <1>10, <3>3, <3>4, RemoveKeepsOthers
  <2> QED
    BY <2>1, <2>2
<1> QED
  BY <1>4, <1>7, <1>9, <1>10, KeepsInv

(* One of several: a cell goes as well, that of the bucket, or for the     *)
(* first, whose entry is part of the array, that of the second.            *)
LEMMA RemovesCell ==
    ASSUME HashInv, mode # Null, NEW x \in HashItem, H!RemoveItem(x),
           NEW c, NEW p, IsChain(H!Hash(x), c), HasPlaces(H!Hash(x), c, p),
           H!Places(x) # {}, Len(c) # 1
    PROVE  HashInv'
<1>1. PICK h : h = H!Hash(x)
  OBVIOUS
<1>2. PICK k : k = H!Min(H!Places(x))
  OBVIOUS
<1>3. HashType /\ IsChain(h, c) /\ HasPlaces(h, c, p) /\ h \in Indices
  BY <1>1, PlacesAre DEF HashInv
<1>4. /\ k \in 1 .. Len(p) /\ p[k] \in 1 .. Len(hashList)
      /\ mode' = mode /\ keySize' = keySize /\ hashCount' = hashCount - 1
      /\ hashList' = H!RemoveAt(hashList, p[k])
      /\ data' = [data EXCEPT ![hashList[p[k]]] = Null]
      /\ buckets' = H!Unchained(c, k)
  BY <1>2, <1>3, RemovesFound
<1>5. PICK S : S = Shift(p[k])
  OBVIOUS
<1>6. /\ ListedType'
      /\ \A i : Hashed(i)' = {S[m] : m \in Hashed(i) \ {p[k]}}
      /\ \A m \in DOMAIN hashList \ {p[k]} : S[m] \in Nat /\ hashList'[S[m]] = hashList[m]
      /\ \A l, m \in DOMAIN hashList \ {p[k]} : l < m => S[l] < S[m]
  <2>1. p[k] \in 1 .. Len(hashList)
    BY <1>4
  <2>2. /\ ListedType'
        /\ \A i : Hashed(i)' = {Shift(p[k])[m] : m \in Hashed(i) \ {p[k]}}
        /\ \A m \in DOMAIN hashList \ {p[k]} :
              Shift(p[k])[m] \in Nat /\ hashList'[Shift(p[k])[m]] = hashList[m]
        /\ \A l, m \in DOMAIN hashList \ {p[k]} :
              l < m => Shift(p[k])[l] < Shift(p[k])[m]
    BY <1>3, <1>4, <2>1, RemovesFromList
  <2> QED
    BY <1>5, <2>2, Zenon
<1>7. PICK m : m = Len(c)
  OBVIOUS
<1>8. /\ m \in Nat /\ m > 1 /\ DOMAIN c = 1 .. m /\ c[1] = h
      /\ \A j \in 1 .. m : c[j] \in DOMAIN buckets
      /\ \A j, l \in 1 .. m : c[j] = c[l] => j = l
      /\ \A j \in 2 .. m : c[j] \in Cell
      /\ \A j \in 1 .. m : buckets[c[j]].next = IF j < m THEN c[j + 1] ELSE Null
  <2>1. Len(c) \in Nat /\ Len(c) >= 1
    BY <1>3, ChainFacts
  <2>2. m \in Nat /\ m > 1
    BY <1>7, <2>1
  <2>3. /\ DOMAIN c = 1 .. m /\ c[1] = h /\ \A j \in 1 .. m : c[j] \in DOMAIN buckets
    BY <1>3, <1>7, ChainFacts
  <2>4. \A j, l \in 1 .. m : c[j] = c[l] => j = l
    BY <1>3, <1>7, ChainOnce
  <2> QED
    BY <1>3, <1>7, <2>2, <2>3, <2>4 DEF IsChain
<1>9. /\ Len(p) = m /\ k \in 1 .. m
      /\ \A j \in 1 .. m : /\ p[j] \in DOMAIN hashList
                          /\ buckets[c[j]].vbucket = hashList[p[j]]
      /\ \A j, l \in 1 .. m : j < l => p[j] < p[l]
      /\ \A j, l \in 1 .. m : p[j] = p[l] => j = l
      /\ Hashed(h) = {p[j] : j \in 1 .. m}
  <2>1. Len(p) \in Nat /\ Len(p) # 0
    BY <1>3, <1>4, ChainFacts
  <2>2. Len(p) = m
    BY <1>3, <1>7, <2>1 DEF HasPlaces
  <2>3. /\ \A j \in 1 .. m : /\ p[j] \in DOMAIN hashList
                            /\ buckets[c[j]].vbucket = hashList[p[j]]
        /\ \A j, l \in 1 .. m : p[j] = p[l] => j = l
    <3>1. /\ \A j \in 1 .. Len(p) : /\ p[j] \in DOMAIN hashList
                                     /\ buckets[c[j]].vbucket = hashList[p[j]]
          /\ \A j, l \in 1 .. Len(p) : p[j] = p[l] => j = l
      BY <1>3, ChainFacts
    <3> QED
      BY <2>2, <3>1
  <2> QED
    BY <1>3, <1>4, <2>2, <2>3 DEF HasPlaces
<1>10. PICK r : r = IF k = 1 THEN 2 ELSE k
  OBVIOUS
<1>11. r \in 2 .. m /\ r \in 1 .. m /\ r - 1 \in 1 .. m /\ r - 1 # r
  BY <1>8, <1>9, <1>10
<1>12. /\ DOMAIN buckets' = DOMAIN buckets \ {c[r]}
       /\ \A a \in DOMAIN buckets : a # c[r] /\ a # c[r - 1] => buckets'[a] = buckets[a]
       /\ buckets'[c[r - 1]] =
             [vbucket |-> IF k = 1 THEN buckets[c[2]].vbucket ELSE buckets[c[r - 1]].vbucket,
              next |-> buckets[c[r]].next]
  <2>1. c[r] \in DOMAIN buckets /\ c[r - 1] \in DOMAIN buckets /\ c[r] # c[r - 1]
    BY <1>8, <1>11
  <2>2. /\ buckets[c[r]] = [vbucket |-> buckets[c[r]].vbucket, next |-> buckets[c[r]].next]
        /\ buckets[c[r - 1]] = [vbucket |-> buckets[c[r - 1]].vbucket,
                                next |-> buckets[c[r - 1]].next]
    BY <1>3, <2>1 DEF HashType, EntriesType
  <2>3. CASE k = 1
    <3>1. buckets' = H!Without([buckets EXCEPT ![c[r - 1]] = buckets[c[r]]], c[r])
      BY <1>4, <1>10, <2>3 DEF H!Unchained
    <3>2. r = 2
      BY <1>10, <2>3
    <3> QED
      BY <2>1, <2>2, <2>3, <3>1, <3>2 DEF H!Without
  <2>4. CASE k # 1
    <3>1. buckets' = H!Without([buckets EXCEPT ![c[r - 1]].next = buckets[c[r]].next], c[r])
      BY <1>4, <1>10, <2>4 DEF H!Unchained
    <3> QED
      BY <2>1, <2>2, <2>4, <3>1 DEF H!Without
  <2> QED
    BY <2>3, <2>4
<1>13. Indices' = Indices
  BY <1>4, HashKept DEF Indices
<1>14. HashType'
  <2>1. \A a \in DOMAIN buckets' :
           buckets'[a] = [vbucket |-> buckets'[a].vbucket, next |-> buckets'[a].next]
    <3> SUFFICES ASSUME NEW a \in DOMAIN buckets, a # c[r]
                 PROVE  buckets'[a] = [vbucket |-> buckets'[a].vbucket, next |-> buckets'[a].next]
      BY <1>12
    <3>1. CASE a = c[r - 1]
      BY <1>12, <3>1
    <3>2. CASE a # c[r - 1]
      BY <1>3, <1>12, <3>2 DEF HashType, EntriesType
    <3> QED
      BY <3>1, <3>2
  <2>2. Indices \subseteq DOMAIN buckets'
    <3>1. c[r] \in Cell /\ Cell \cap Nat = {}
      BY <1>8, <1>11, ContainersAssumption
    <3>2. Indices \subseteq DOMAIN buckets /\ Indices \subseteq Nat
      BY <1>3 DEF HashType, EntriesType, Indices
    <3> QED
      BY <1>12, <3>1, <3>2
  <2>3. Hashing' /\ DOMAIN buckets' \subseteq Indices' \cup Cell
    BY <1>3, <1>4, <1>12, <1>13 DEF HashType, EntriesType, Hashing
  <2>4. EntriesType'
    BY <1>4, <1>13, <2>1, <2>2, <2>3 DEF EntriesType
  <2> QED
    BY <1>6, <2>4 DEF HashType
<1>15. PICK d : /\ d \in Seq(DOMAIN buckets') /\ Len(d) = m - 1
                /\ \A j \in 1 .. m - 1 : d[j] = IF j < r THEN c[j] ELSE c[j + 1]
  <2> DEFINE s == [j \in 1 .. m - 1 |-> IF j < r THEN c[j] ELSE c[j + 1]]
  <2>1. ASSUME NEW j \in 1 .. m - 1 PROVE s[j] \in DOMAIN buckets'
    <3>1. CASE j < r
      <4>1. j \in 1 .. m /\ j # r
        BY <1>8, <1>11, <3>1
      <4> QED
        BY <1>8, <1>11, <1>12, <3>1, <4>1
    <3>2. CASE ~(j < r)
      <4>1. j + 1 \in 1 .. m /\ j + 1 # r
        BY <1>8, <1>11, <3>2
      <4> QED
        BY <1>8, <1>11, <1>12, <3>2, <4>1
    <3> QED
      BY <3>1, <3>2
  <2>2. s \in [1 .. m - 1 -> DOMAIN buckets'] /\ m - 1 \in Nat
    BY <1>8, <2>1
  <2>3. \A j \in 1 .. m - 1 : s[j] = IF j < r THEN c[j] ELSE c[j + 1]
    OBVIOUS
  <2> HIDE DEF s
  <2> QED
    BY <2>2, <2>3, SequenceOf
<1>16. ASSUME NEW j \in 1 .. m - 1
       PROVE  /\ (IF j < k THEN p[j] ELSE p[j + 1]) \in DOMAIN hashList \ {p[k]}
  <2>1. CASE j < k
    <3>1. j \in 1 .. m /\ j # k
      BY <1>8, <1>9, <2>1
    <3> QED
      BY <1>9, <2>1, <3>1
  <2>2. CASE ~(j < k)
    <3>1. j + 1 \in 1 .. m /\ j + 1 # k
      BY <1>8, <1>9, <2>2
    <3> QED
      BY <1>9, <2>2, <3>1
  <2> QED
    BY <2>1, <2>2
<1>17. PICK q : /\ q \in Seq(Nat) /\ Len(q) = m - 1
                /\ \A j \in 1 .. m - 1 : q[j] = S[IF j < k THEN p[j] ELSE p[j + 1]]
  <2> DEFINE s == [j \in 1 .. m - 1 |-> S[IF j < k THEN p[j] ELSE p[j + 1]]]
  <2>1. s \in [1 .. m - 1 -> Nat] /\ m - 1 \in Nat
    BY <1>6, <1>8, <1>16
  <2>2. \A j \in 1 .. m - 1 : s[j] = S[IF j < k THEN p[j] ELSE p[j + 1]]
    OBVIOUS
  <2> HIDE DEF s
  <2> QED
    BY <2>1, <2>2, SequenceOf
<1>18. IsChain(h, d)'
  <2>1. d[1] = h /\ Len(d) >= 1
    <3>1. 1 \in 1 .. m - 1 /\ 1 < r
      BY <1>8, <1>11
    <3> QED
      BY <1>8, <1>15, <3>1
  <2>2. ASSUME NEW j \in 2 .. m - 1 PROVE d[j] \in Cell
    <3>1. j \in 2 .. m /\ j + 1 \in 2 .. m /\ j \in 1 .. m - 1
      BY <1>8
    <3> QED
      BY <1>8, <1>15, <3>1
  <2>3. ASSUME NEW j \in 1 .. m - 1
        PROVE  buckets'[d[j]].next = IF j < m - 1 THEN d[j + 1] ELSE Null
    <3>1. CASE j = r - 1
      <4>1. j < r /\ j \in 1 .. m /\ d[j] = c[r - 1]
        BY <1>8, <1>11, <1>15, <3>1
      <4>2. buckets'[d[j]].next = IF r < m THEN c[r + 1] ELSE Null
        BY <1>8, <1>11, <1>12, <4>1
      <4>3. CASE r < m
        <5>1. j + 1 \in 1 .. m - 1 /\ ~(j + 1 < r) /\ j < m - 1 /\ (j + 1) + 1 = r + 1
          BY <1>8, <1>11, <3>1, <4>3
        <5>2. d[j + 1] = c[r + 1]
          BY <1>15, <5>1
        <5> QED
          BY <4>2, <4>3, <5>1, <5>2
      <4>4. CASE ~(r < m)
        <5>1. ~(j < m - 1)
          BY <1>8, <1>11, <3>1, <4>4
        <5> QED
          BY <4>2, <4>4, <5>1
      <4> QED
        BY <4>3, <4>4
    <3>2. CASE j < r - 1
      <4>1. j < r /\ j \in 1 .. m /\ j # r /\ j # r - 1 /\ j + 1 < r /\ j + 1 \in 1 .. m - 1
            /\ j < m /\ j < m - 1
        BY <1>8, <1>11, <3>2
      <4>2. d[j] = c[j] /\ d[j + 1] = c[j + 1]
        BY <1>15, <4>1
      <4>3. buckets'[c[j]] = buckets[c[j]]
        BY <1>8, <1>11, <1>12, <4>1
      <4> QED
        BY <1>8, <4>1, <4>2, <4>3
    <3>3. CASE j > r - 1
      <4>1. ~(j < r) /\ j + 1 \in 1 .. m /\ j + 1 # r /\ j + 1 # r - 1
        BY <1>8, <1>11, <3>3
      <4>2. d[j] = c[j + 1]
        BY <1>15, <4>1
      <4>3. buckets'[c[j + 1]] = buckets[c[j + 1]]
        BY <1>8, <1>11, <1>12, <4>1
      <4>4. buckets'[d[j]].next = IF j + 1 < m THEN c[(j + 1) + 1] ELSE Null
        BY <1>8, <4>1, <4>2, <4>3
      <4>5. CASE j < m - 1
        <5>1. j + 1 < m /\ j + 1 \in 1 .. m - 1 /\ ~(j + 1 < r)
          BY <1>8, <1>11, <4>1, <4>5
        <5> QED
          BY <1>15, <4>4, <4>5, <5>1
      <4>6. CASE ~(j < m - 1)
        <5>1. ~(j + 1 < m)
          BY <1>8, <4>6
        <5> QED
          BY <4>4, <4>6, <5>1
      <4> QED
        BY <4>5, <4>6
    <3>4. j = r - 1 \/ j < r - 1 \/ j > r - 1
      BY <1>8, <1>11
    <3> QED
      BY <3>1, <3>2, <3>3, <3>4
  <2> QED
    BY <1>15, <2>1, <2>2, <2>3 DEF IsChain
<1>19. HasPlaces(h, d, q)'
  <2>1. {q[j] : j \in 1 .. m - 1} = Hashed(h)'
    <3>1. ASSUME NEW j \in 1 .. m - 1 PROVE q[j] \in Hashed(h)'
      <4>1. j \in 1 .. m /\ j + 1 \in 1 .. m
        BY <1>8
      <4>2. (IF j < k THEN p[j] ELSE p[j + 1]) \in Hashed(h) \ {p[k]}
        BY <1>9, <1>16, <4>1
      <4> QED
        BY <1>6, <1>17, <4>2
    <3>2. ASSUME NEW y \in Hashed(h) \ {p[k]} PROVE \E j \in 1 .. m - 1 : q[j] = S[y]
      <4>1. PICK l \in 1 .. m : p[l] = y
        BY <1>9
      <4>2. l # k
        BY <3>2, <4>1
      <4>3. CASE l < k
        <5>1. l \in 1 .. m - 1
          BY <1>8, <1>9, <4>3
        <5> QED
          BY <1>17, <4>1, <4>3, <5>1
      <4>4. CASE ~(l < k)
        <5>1. l - 1 \in 1 .. m - 1 /\ ~(l - 1 < k) /\ (l - 1) + 1 = l
          BY <1>8, <1>9, <4>2, <4>4
        <5> QED
          BY <1>17, <4>1, <5>1
      <4> QED
        BY <4>3, <4>4
    <3> QED
      BY <1>6, <3>1, <3>2
  <2>2. ASSUME NEW j \in 1 .. m - 1 PROVE buckets'[d[j]].vbucket = hashList'[q[j]]
    <3>1. hashList'[q[j]] = hashList[IF j < k THEN p[j] ELSE p[j + 1]]
      BY <1>6, <1>16, <1>17
    <3>2. j \in 1 .. m /\ j + 1 \in 1 .. m
      BY <1>8
    <3>3. CASE k = 1
      <4>1. ~(j < k) /\ r = 2 /\ 2 \in 1 .. m
        BY <1>8, <1>10, <3>3
      <4>2. CASE j = 1
        <5>1. d[j] = c[r - 1]
          BY <1>15, <4>1, <4>2
        <5> QED
          BY <1>9, <1>12, <3>1, <3>3, <4>1, <4>2, <5>1
      <4>3. CASE j # 1
        <5>1. ~(j < r) /\ j + 1 # r /\ j + 1 # r - 1
          BY <4>1, <4>3
        <5>2. d[j] = c[j + 1] /\ buckets'[c[j + 1]] = buckets[c[j + 1]]
          BY <1>8, <1>11, <1>12, <1>15, <3>2, <5>1
        <5> QED
          BY <1>9, <3>1, <3>2, <4>1, <5>2
      <4> QED
        BY <4>2, <4>3
    <3>4. CASE k # 1
      <4>1. r = k
        BY <1>10, <3>4
      <4>2. CASE j < k
        <5>1. d[j] = c[j] /\ j # r
          BY <1>11, <1>15, <4>1, <4>2
        <5>2. buckets'[c[j]].vbucket = buckets[c[j]].vbucket
          <6>1. CASE j = r - 1
            BY <1>12, <3>4, <6>1
          <6>2. CASE j # r - 1
            BY <1>8, <1>11, <1>12, <3>2, <5>1, <6>2
          <6> QED
            BY <6>1, <6>2
        <5> QED
          BY <1>9, <3>1, <3>2, <4>2, <5>1, <5>2
      <4>3. CASE ~(j < k)
        <5>1. j + 1 # r /\ j + 1 # r - 1
          BY <1>8, <1>9, <4>1, <4>3
        <5>2. d[j] = c[j + 1] /\ buckets'[c[j + 1]] = buckets[c[j + 1]]
          BY <1>8, <1>11, <1>12, <1>15, <3>2, <4>1, <4>3, <5>1
        <5> QED
          BY <1>9, <3>1, <3>2, <4>3, <5>2
      <4> QED
        BY <4>2, <4>3
    <3> QED
      BY <3>3, <3>4
  <2>3. ASSUME NEW j \in 1 .. m - 1, NEW l \in 1 .. m - 1, j < l PROVE q[j] < q[l]
    <3> DEFINE at(n) == IF n < k THEN n ELSE n + 1
    <3>1. at(j) \in 1 .. m /\ at(l) \in 1 .. m /\ at(j) < at(l)
      BY <1>8, <1>9, <2>3
    <3>2. p[at(j)] < p[at(l)]
      BY <1>9, <3>1
    <3>3. /\ p[at(j)] = (IF j < k THEN p[j] ELSE p[j + 1])
          /\ p[at(l)] = (IF l < k THEN p[l] ELSE p[l + 1])
      OBVIOUS
    <3> HIDE DEF at
    <3>4. p[at(j)] \in DOMAIN hashList \ {p[k]} /\ p[at(l)] \in DOMAIN hashList \ {p[k]}
      BY <1>16, <3>3
    <3>5. q[j] = S[p[at(j)]] /\ q[l] = S[p[at(l)]]
      BY <1>17, <3>3
    <3> QED
      BY <1>6, <3>2, <3>4, <3>5
  <2>4. Len(q) # 0 /\ Len(q) = Len(d) /\ Len(q) = m - 1
    BY <1>8, <1>15, <1>17
  <2> QED
    BY <1>17, <2>1, <2>2, <2>3, <2>4 DEF HasPlaces
<1>20. ASSUME NEW i \in Indices, NEW c1, NEW p1, IsChain(i, c1), HasPlaces(i, c1, p1)
       PROVE  Kept(i, c1)
  <2>1. CASE i = h
    <3>1. c1 = c
      BY <1>3, <1>20, <2>1, ChainIs
    <3>2. ASSUME NEW j \in 1 .. m, c[j] \in DOMAIN buckets'
          PROVE  \E l \in 1 .. m - 1 : d[l] = c[j]
      <4>1. j # r
        BY <1>12, <3>2
      <4>2. CASE j < r
        <5>1. j \in 1 .. m - 1
          BY <1>8, <1>11, <4>2
        <5> QED
          BY <1>15, <4>2, <5>1
      <4>3. CASE ~(j < r)
        <5>1. j - 1 \in 1 .. m - 1 /\ ~(j - 1 < r) /\ (j - 1) + 1 = j
          BY <1>8, <1>11, <4>1, <4>3
        <5> QED
          BY <1>15, <5>1
      <4> QED
        BY <4>2, <4>3
    <3> QED
      BY <1>7, <1>15, <1>18, <1>19, <2>1, <3>1, <3>2 DEF Kept
  <2>2. CASE i # h
    <3>1. \A j \in 1 .. Len(c1) : c1[j] \in DOMAIN buckets
      BY <1>3, <1>20, ChainFacts
    <3>2. ASSUME NEW j \in 1 .. Len(c1) PROVE c1[j] # c[r] /\ c1[j] # c[r - 1]
      BY <1>3, <1>7, <1>11, <1>20, <2>2, ChainsApart
    <3>3. \A j \in 1 .. Len(c1) : c1[j] \in DOMAIN buckets' /\ buckets'[c1[j]] = buckets[c1[j]]
      BY <1>12, <3>1, <3>2
    <3>4. p[k] \notin Hashed(i)
      <4>1. H!Hash(data[hashList[p[k]]]) = h
        BY <1>3, <1>4, ChainFacts
      <4> QED
        BY <2>2, <4>1 DEF Hashed
    <3> QED
      BY <1>3, <1>4, <1>20, <3>3, <3>4, RemoveKeepsOthers
  <2> QED
    BY <2>1, <2>2
<1> QED
  BY <1>4, <1>12, <1>14, <1>20, KeepsInv

(* At every index there is the chain of VHashArray.                        *)
LEMMA SomeChain ==
    ASSUME HashInv, mode # Null, NEW i \in Indices
    PROVE  \E c, p : IsChain(i, c) /\ HasPlaces(i, c, p)
  BY DEF HashInv, ChainsHold

(* Where the buckets and the list stay as they are the invariant does.     *)
LEMMA HashStays ==
    ASSUME HashInv, mode' = mode, keySize' = keySize, hashList' = hashList,
           data' = data, buckets' = buckets, hashCount' = hashCount
    PROVE  HashInv'
<1>1. Indices' = Indices /\ \A x : H!Hash(x)' = H!Hash(x)
  BY HashKept DEF Indices
<1>2. \A i : Hashed(i)' = Hashed(i)
  BY <1>1 DEF Hashed
<1>3. \A i, c : IsChain(i, c)' <=> IsChain(i, c)
  BY DEF IsChain
<1>4. \A i, c, p : HasPlaces(i, c, p)' <=> HasPlaces(i, c, p)
  BY <1>2 DEF HasPlaces, H!Unused
<1>5. HashType'
  BY <1>1 DEF HashInv, HashType, ListedType, EntriesType, Hashing
<1>6. ChainsHold'
  BY <1>1, <1>3, <1>4 DEF HashInv, ChainsHold
<1>7. CellsCovered'
  BY <1>1, <1>3, <1>4 DEF HashInv, CellsCovered, InChain
<1> QED
  BY <1>5, <1>6, <1>7 DEF HashInv

(* There is no array: initially, and after v_hash_array_destroy.           *)
LEMMA NoArray ==
    ASSUME mode = Null, hashList = <<>>, hashCount = 0,
           data = [b \in Bucket |-> Null], DOMAIN buckets = {}
    PROVE  HashInv
<1>1. ListedType
  <2>1. hashList \in Seq(Bucket) /\ Len(hashList) = 0 /\ DOMAIN hashList = {}
    BY EmptySeq
  <2> QED
    BY <2>1 DEF ListedType, Once
<1>2. EntriesType
  BY DEF EntriesType
<1> QED
  BY <1>1, <1>2 DEF HashInv, HashType, ChainsHold, CellsCovered

(* The same for the state after a step.                                    *)
LEMMA NoArrayThen ==
    (/\ mode = Null /\ hashList = <<>> /\ hashCount = 0
     /\ data = [b \in Bucket |-> Null] /\ DOMAIN buckets = {}
     => HashInv)'
<1>1. /\ mode = Null /\ hashList = <<>> /\ hashCount = 0
      /\ data = [b \in Bucket |-> Null] /\ DOMAIN buckets = {}
      => HashInv
  BY NoArray
<1> QED
  BY <1>1, PTL

(* v_hash_array_init: every index has its entry, and no bucket.            *)
LEMMA InitSetsUp ==
    ASSUME HashInv, NEW m \in {H!Mod256, H!Mod65536}, NEW size \in KeySize,
           H!InitArray(m, size)
    PROVE  HashInv' /\ H!Abs!Setup
<1>1. /\ mode = Null /\ mode' = m /\ keySize' = size
      /\ buckets' = [i \in Indices' |-> H!Unused]
      /\ hashList' = hashList /\ data' = data /\ hashCount' = hashCount
      /\ hashAnswer' = hashAnswer
  BY DEF H!InitArray, Indices
<1>2. hashList = <<>> /\ DOMAIN hashList = {} /\ HashType
  <2>1. hashList = <<>>
    BY <1>1 DEF HashInv, HashType, EntriesType
  <2> QED
    BY <2>1, EmptySeq DEF HashInv
<1>3. HashType'
  <2>1. ListedType'
    BY <1>1, <1>2 DEF HashType, ListedType, Once
  <2>2. Hashing' /\ m # Null
    BY <1>1, ContainersAssumption DEF Hashing
  <2>3. EntriesType'
    BY <1>1, <2>2 DEF EntriesType, H!Unused
  <2> QED
    BY <2>1, <2>3 DEF HashType
<1>4. ASSUME NEW i \in Indices' PROVE \E c, p : IsChain(i, c)' /\ HasPlaces(i, c, p)'
  <2>1. PICK c : /\ c \in Seq(DOMAIN buckets') /\ Len(c) = 1 /\ c[1] = i
    <3>1. <<i>> \in Seq(DOMAIN buckets') /\ Len(<<i>>) = 1 /\ <<i>>[1] = i
      BY <1>1
    <3> QED
      BY <3>1
  <2>2. PICK p : p \in Seq(Nat) /\ Len(p) = 0
    <3>1. <<>> \in Seq(Nat) /\ Len(<<>>) = 0
      OBVIOUS
    <3> QED
      BY <3>1
  <2>3. IsChain(i, c)'
    <3>1. \A k \in 1 .. Len(c) : k = 1 /\ ~(k < Len(c))
      BY <2>1
    <3>2. buckets'[i].next = Null /\ \A k \in 2 .. Len(c) : FALSE
      BY <1>1, <2>1 DEF H!Unused
    <3> QED
      BY <2>1, <3>1, <3>2 DEF IsChain
  <2>4. HasPlaces(i, c, p)'
    <3>1. Hashed(i)' = {} /\ \A k \in 1 .. Len(p) : FALSE
      BY <1>1, <1>2, <2>2 DEF Hashed
    <3>2. {p[k] : k \in 1 .. Len(p)} = {}
      BY <3>1
    <3>3. buckets'[i] = H!Unused
      BY <1>1
    <3> QED
      BY <2>1, <2>2, <3>1, <3>2, <3>3 DEF HasPlaces, H!Unused
  <2> QED
    BY <2>3, <2>4
<1>5. CellsCovered'
  <2>1. Cell \cap DOMAIN buckets' = {}
    <3>1. Indices' \subseteq Nat
      BY DEF Indices
    <3> QED
      BY <1>1, <3>1, ContainersAssumption
  <2> QED
    BY <2>1 DEF CellsCovered
<1>6. ChainsHold'
  BY <1>4 DEF ChainsHold
<1>7. H!Abs!Setup
  <2>1. [i \in DOMAIN hashList |-> data[hashList[i]]] = <<>>
    BY <1>2, EmptySeq
  <2>2. size \in Nat \ {0}
    BY ContainersAssumption
  <2> QED
    BY <1>1, <2>1, <2>2 DEF H!Abs!Setup
<1> QED
  BY <1>3, <1>5, <1>6, <1>7 DEF HashInv

(* v_hash_array_find_item finds what a search of the list would.           *)
LEMMA FindsItem ==
    ASSUME HashInv, NEW x \in HashItem, H!FindItem(x)
    PROVE  HashInv' /\ (H!WholeKey => H!Abs!Find(x))
<1>1. /\ mode # Null /\ mode' = mode /\ keySize' = keySize /\ hashList' = hashList
      /\ data' = data /\ buckets' = buckets /\ hashCount' = hashCount
      /\ hashAnswer' = H!Found(x, IF H!Places(x) = {} THEN Null
             ELSE data[buckets[H!Chain(H!Hash(x))[H!Min(H!Places(x))]].vbucket])
  BY DEF H!FindItem, H!Ready
<1>2. HashType /\ H!Hash(x) \in Indices
  BY <1>1, HashFits DEF HashInv, HashType, EntriesType, Indices
<1>3. PICK c, p : IsChain(H!Hash(x), c) /\ HasPlaces(H!Hash(x), c, p)
  BY <1>1, <1>2, SomeChain
<1> DEFINE entries == [n \in DOMAIN hashList |-> data[hashList[n]]]
           M == H!Abs!Matches(x)
<1>4. ASSUME H!WholeKey PROVE H!Abs!Find(x)
  <2>1. hashAnswer' = H!Found(x, IF M = {} THEN Null ELSE entries[H!Abs!Min(M)])
    <3>1. M = {p[k] : k \in H!Places(x)}
      BY <1>1, <1>2, <1>3, <1>4, MatchesAre
    <3>2. CASE H!Places(x) = {}
      BY <1>1, <3>1, <3>2
    <3>3. CASE H!Places(x) # {}
      <4>1. PICK k : k = H!Min(H!Places(x))
        OBVIOUS
      <4>2. k \in 1 .. Len(p) /\ M # {} /\ H!Abs!Min(M) = p[k]
        BY <1>1, <1>2, <1>3, <1>4, <3>3, <4>1, LeastMatch
      <4>3. H!Chain(H!Hash(x)) = c
        BY <1>1, <1>2, <1>3, PlacesAre
      <4>4. buckets[c[k]].vbucket = hashList[p[k]] /\ p[k] \in DOMAIN hashList
        BY <1>1, <1>2, <1>3, <4>2, ChainFacts
      <4>5. entries[p[k]] = data[hashList[p[k]]]
        BY <4>4
      <4> HIDE DEF M, entries
      <4> QED
        BY <1>1, <3>3, <4>1, <4>2, <4>3, <4>4, <4>5
    <3> QED
      BY <3>2, <3>3
  <2> QED
    BY <1>1, <2>1 DEF H!Abs!Find, H!Abs!Found, H!Found
<1> QED
  BY <1>1, <1>4, HashStays

(* v_hash_array_add_item appends to the list.                              *)
LEMMA AddsItem ==
    ASSUME HashInv, NEW x \in HashItem, H!AddItem(x)
    PROVE  HashInv' /\ H!Abs!Add(x)
<1>1. /\ mode # Null /\ keySize' = keySize /\ hashCount' = hashCount + 1
      /\ hashAnswer' = H!Found(x, x)
  BY DEF H!AddItem, H!Ready
<1>2. HashInv'
  BY <1>1, AddsFirst, AddsCell
<1>3. [n \in DOMAIN hashList' |-> data'[hashList'[n]]]
         = Append([n \in DOMAIN hashList |-> data[hashList[n]]], x)
  BY <1>1, AddsToList DEF HashInv
<1> QED
  BY <1>1, <1>2, <1>3 DEF H!Abs!Add, H!Abs!Found, H!Found

(* v_hash_array_remove_item removes what a search of the list would.       *)
LEMMA RemovesItem ==
    ASSUME HashInv, NEW x \in HashItem, H!RemoveItem(x)
    PROVE  HashInv' /\ (H!WholeKey => H!Abs!Take(x))
<1>1. mode # Null /\ mode' = mode /\ keySize' = keySize
  BY DEF H!RemoveItem, H!Ready
<1>2. HashType /\ H!Hash(x) \in Indices
  BY <1>1, HashFits DEF HashInv, HashType, EntriesType, Indices
<1>3. PICK c, p : IsChain(H!Hash(x), c) /\ HasPlaces(H!Hash(x), c, p)
  BY <1>1, <1>2, SomeChain
<1> DEFINE M == H!Abs!Matches(x)
<1>4. H!WholeKey => M = {p[k] : k \in H!Places(x)}
  BY <1>1, <1>2, <1>3, MatchesAre
<1>5. CASE H!Places(x) = {}
  <2>1. /\ hashList' = hashList /\ data' = data /\ buckets' = buckets
        /\ hashCount' = hashCount /\ hashAnswer' = H!Removed(x, 0)
    BY <1>5 DEF H!RemoveItem
  <2>2. H!WholeKey => M = {}
    BY <1>4, <1>5
  <2>3. H!WholeKey => H!Abs!Take(x)
    BY <1>1, <2>1, <2>2 DEF H!Abs!Take, H!Abs!Removed, H!Removed
  <2> QED
    BY <1>1, <2>1, <2>3, HashStays
<1>6. CASE H!Places(x) # {}
  <2>1. PICK k : k = H!Min(H!Places(x))
    OBVIOUS
  <2>2. /\ k \in 1 .. Len(p) /\ p[k] \in 1 .. Len(hashList)
        /\ hashCount' = hashCount - 1
        /\ hashList' = H!RemoveAt(hashList, p[k])
        /\ data' = [data EXCEPT ![hashList[p[k]]] = Null]
        /\ hashAnswer' = H!Removed(x, 1)
    BY <1>1, <1>2, <1>3, <1>6, <2>1, RemovesFound
  <2>3. [m \in DOMAIN hashList' |-> data'[hashList'[m]]]
           = H!Abs!RemoveAt([m \in DOMAIN hashList |-> data[hashList[m]]], p[k])
    BY <1>1, <1>2, <2>2, RemovesFromList
  <2>4. H!WholeKey => M # {} /\ H!Abs!Min(M) = p[k]
    BY <1>1, <1>2, <1>3, <1>6, <2>1, LeastMatch
  <2>5. H!WholeKey => H!Abs!Take(x)
    <3> HIDE DEF M
    <3>1. ASSUME H!WholeKey
          PROVE  [m \in DOMAIN hashList' |-> data'[hashList'[m]]]
                    = H!Abs!RemoveAt([m \in DOMAIN hashList |-> data[hashList[m]]],
                                     H!Abs!Min(M))
      BY <2>3, <2>4, <3>1
    <3> QED
      BY <1>1, <2>2, <2>4, <3>1 DEF H!Abs!Take, H!Abs!Removed, H!Removed, M
  <2>6. HashInv'
    BY <1>1, <1>2, <1>3, <1>6, RemovesOnly, RemovesCell
  <2> QED
    BY <2>5, <2>6
<1> QED
  BY <1>5, <1>6

(* Every step of the array keeps the invariant, and is one of KeyedList as *)
(* long as the hash is one of the key.                                     *)
LEMMA HashStep ==
    ASSUME HashInv, [H!Next]_(H!vars)
    PROVE  HashInv' /\ (H!WholeKey => [H!Abs!Next]_(H!Abs!vars))
<1>1. CASE UNCHANGED H!vars
  <2>1. /\ mode' = mode /\ keySize' = keySize /\ hashList' = hashList /\ data' = data
        /\ buckets' = buckets /\ hashCount' = hashCount /\ hashAnswer' = hashAnswer
    BY <1>1 DEF H!vars
  <2>2. HashInv'
    BY <2>1, HashStays
  <2>3. UNCHANGED H!Abs!vars
    BY <2>1 DEF H!Abs!vars
  <2> QED
    BY <2>2, <2>3
<1>2. ASSUME NEW m \in {H!Mod256, H!Mod65536}, NEW size \in KeySize,
             H!InitArray(m, size)
      PROVE  HashInv' /\ H!Abs!Next
  BY <1>2, InitSetsUp DEF H!Abs!Next
<1>3. ASSUME NEW x \in HashItem,
             H!FindItem(x) \/ H!AddItem(x) \/ H!RemoveItem(x)
      PROVE  HashInv' /\ (H!WholeKey => H!Abs!Next)
  BY <1>3, FindsItem, AddsItem, RemovesItem DEF H!Abs!Next
<1>4. ASSUME NEW x \in HashItem, H!AddItemFails(x)
      PROVE  HashInv' /\ H!Abs!Next
  <2>1. /\ mode' = mode /\ keySize' = keySize /\ hashList' = hashList /\ data' = data
        /\ buckets' = buckets /\ hashCount' = hashCount
        /\ hashAnswer' = H!Found(x, Null)
    BY <1>4 DEF H!AddItemFails
  <2>2. H!Abs!AddFails(x)
    BY <2>1 DEF H!Abs!AddFails, H!Abs!Found, H!Found
  <2> QED
    BY <2>1, <2>2, HashStays DEF H!Abs!Next
<1>5. ASSUME H!Destroy PROVE HashInv' /\ H!Abs!Next
  <2>1. /\ mode' = Null /\ hashList' = <<>> /\ hashCount' = 0 /\ keySize' = 0
        /\ data' = [b \in Bucket |-> Null] /\ DOMAIN buckets' = {}
        /\ hashAnswer' = hashAnswer
    BY <1>5 DEF H!Destroy
  <2>2. [n \in DOMAIN hashList' |-> data'[hashList'[n]]] = <<>>
    BY <2>1, EmptySeq
  <2>3. H!Abs!Destroy
    BY <2>1, <2>2 DEF H!Abs!Destroy
  <2>4. HashInv'
    BY <2>1, NoArrayThen
  <2> QED
    BY <2>3, <2>4 DEF H!Abs!Next
<1> QED
  BY <1>1, <1>2, <1>3, <1>4, <1>5 DEF H!Next

(* Before v_hash_array_init the invariant holds.                           *)
LEMMA HashStarts == H!Init => HashInv /\ H!Abs!Init
<1> SUFFICES ASSUME H!Init PROVE HashInv /\ H!Abs!Init
  OBVIOUS
<1>1. /\ mode = Null /\ hashList = <<>> /\ hashCount = 0 /\ keySize = 0
      /\ data = [b \in Bucket |-> Null] /\ DOMAIN buckets = {}
      /\ hashAnswer = H!Found(Null, Null)
  BY DEF H!Init
<1>2. [n \in DOMAIN hashList |-> data[hashList[n]]] = <<>>
  BY <1>1, EmptySeq
<1> QED
  BY <1>1, <1>2, NoArray DEF H!Abs!Init, H!Abs!Found, H!Found

(* Of v_hash_array_...: after any sequence of calls there is at every      *)
(* index a chain that holds the buckets with that hash, in the order of    *)
(* the list, and every cell is in a chain, for any number of indices, any  *)
(* keys and any collisions.                                                *)
THEOREM HashInvariant == H!Spec => []HashInv
  BY HashStarts, HashStep, PTL DEF H!Spec

(* Of v_hash_array_...: as long as the hash is one of the key alone, the   *)
(* item that is found or removed is the oldest of the whole list with the  *)
(* key, the answers are those of a search through the list, and the order  *)
(* of the others is kept, whatever collides and wherever in its chain the  *)
(* bucket is.                                                              *)
THEOREM HashArrayImplements == H!Spec => ImplementsKeyedList
<1>1. HashInv /\ [H!Next]_(H!vars)
         => (H!WholeKey => (H!Abs!Next \/ UNCHANGED H!Abs!vars))
  BY HashStep
<1> QED
  BY <1>1, HashStarts, HashInvariant, PTL
     DEF H!Spec, ImplementsKeyedList, H!ImplementsKeyedList

(* The order of a chain is that of its places, and its buckets are those   *)
(* with its hash.                                                          *)
LEMMA ChainHolds ==
    ASSUME HashInv, mode # Null, NEW i \in Indices
    PROVE  IF Hashed(i) = {} THEN Len(H!Chain(i)) = 1 /\ buckets[i] = H!Unused
           ELSE /\ {buckets[H!Chain(i)[k]].vbucket : k \in DOMAIN H!Chain(i)}
                     = {hashList[n] : n \in Hashed(i)}
                /\ \A j, k \in DOMAIN H!Chain(i) : \A m, n \in Hashed(i) :
                      buckets[H!Chain(i)[j]].vbucket = hashList[m]
                      /\ buckets[H!Chain(i)[k]].vbucket = hashList[n]
                      => (j < k <=> m < n)
<1>1. PICK c, p : IsChain(i, c) /\ HasPlaces(i, c, p)
  BY SomeChain
<1>2. HashType
  BY DEF HashInv
<1>3. H!Chain(i) = c
  BY <1>1, <1>2, ChainIs
<1>4. /\ Len(c) \in Nat /\ DOMAIN c = 1 .. Len(c) /\ Len(p) \in Nat
      /\ \A k \in 1 .. Len(p) : /\ p[k] \in DOMAIN hashList
                                /\ buckets[c[k]].vbucket = hashList[p[k]]
  BY <1>1, <1>2, ChainFacts
<1>5. Hashed(i) = {p[k] : k \in 1 .. Len(p)}
  BY <1>1 DEF HasPlaces
<1>6. CASE Hashed(i) = {}
  <2>1. Len(p) = 0
    <3> SUFFICES ASSUME Len(p) # 0 PROVE FALSE
      OBVIOUS
    <3>1. 1 \in 1 .. Len(p)
      BY <1>4
    <3>2. p[1] \in Hashed(i)
      BY <1>5, <3>1
    <3> QED
      BY <1>6, <3>2
  <2> QED
    BY <1>1, <1>3, <1>6, <2>1 DEF HasPlaces
<1>7. CASE Hashed(i) # {}
  <2>1. Len(p) = Len(c)
    <3>1. Len(p) # 0
      BY <1>5, <1>7
    <3> QED
      BY <1>1, <3>1 DEF HasPlaces
  <2>2. {buckets[c[k]].vbucket : k \in DOMAIN c} = {hashList[n] : n \in Hashed(i)}
    BY <1>4, <1>5, <2>1
  <2>3. ASSUME NEW j \in DOMAIN c, NEW k \in DOMAIN c,
               NEW m \in Hashed(i), NEW n \in Hashed(i),
               buckets[c[j]].vbucket = hashList[m], buckets[c[k]].vbucket = hashList[n]
        PROVE  j < k <=> m < n
    <3>1. j \in 1 .. Len(p) /\ k \in 1 .. Len(p) /\ j \in Nat /\ k \in Nat
      BY <1>4, <2>1
    <3>2. m \in DOMAIN hashList /\ n \in DOMAIN hashList
      BY DEF Hashed
    <3>3. p[j] = m /\ p[k] = n
      <4>1. hashList[p[j]] = hashList[m] /\ hashList[p[k]] = hashList[n]
        BY <1>4, <2>3, <3>1
      <4> QED
        BY <1>2, <1>4, <3>1, <3>2, <4>1, ListOfBuckets
    <3>4. m \in Nat /\ n \in Nat
      BY <1>2, <3>2, ListOfBuckets
    <3>5. CASE j < k
      <4>1. m < n
        BY <1>1, <3>1, <3>3, <3>5 DEF HasPlaces
      <4> QED
        BY <3>5, <4>1
    <3>6. CASE k < j
      <4>1. n < m
        BY <1>1, <3>1, <3>3, <3>6 DEF HasPlaces
      <4> QED
        BY <3>1, <3>4, <3>6, <4>1
    <3>7. CASE j = k
      <4>1. m = n
        BY <3>3, <3>7
      <4> QED
        BY <3>1, <3>4, <3>7, <4>1
    <3> QED
      BY <3>1, <3>5, <3>6, <3>7
  <2> QED
    BY <1>3, <1>7, <2>2, <2>3
<1> QED
  BY <1>6, <1>7

(* The cells in use are those of the chains.                               *)
LEMMA CellsAre ==
    ASSUME HashInv
    PROVE  H!UsedCells = Cell \cap UNION {H!ToSet(H!Chain(i)) : i \in Indices}
<1>1. HashType
  BY DEF HashInv
<1>2. CASE mode = Null
  <2>1. DOMAIN buckets = {}
    BY <1>1, <1>2 DEF HashType, EntriesType
  <2>2. Indices = {}
    <3>1. H!Length = 0
      BY <1>2, ContainersAssumption DEF H!Length
    <3> QED
      BY <3>1 DEF Indices
  <2> QED
    BY <2>1, <2>2 DEF H!UsedCells
<1>3. CASE mode # Null
  <2> DEFINE t(i) == H!ToSet(H!Chain(i))
             U == UNION {t(i) : i \in Indices}
  <2>1. \A a : a \in U <=> \E i \in Indices : a \in t(i)
    <3> HIDE DEF t
    <3> QED
      BY Zenon
  <2>2. H!UsedCells \subseteq Cell /\ H!UsedCells \subseteq DOMAIN buckets
        /\ \A a \in Cell : a \in DOMAIN buckets => a \in H!UsedCells
    BY DEF H!UsedCells
  <2>3. ASSUME NEW i \in Indices, NEW c, NEW p, IsChain(i, c), HasPlaces(i, c, p)
        PROVE  t(i) = {c[k] : k \in 1 .. Len(c)} /\ t(i) \subseteq DOMAIN buckets
    <3>1. H!Chain(i) = c /\ DOMAIN c = 1 .. Len(c)
          /\ \A k \in 1 .. Len(c) : c[k] \in DOMAIN buckets
      BY <1>1, <1>3, <2>3, ChainIs, ChainFacts
    <3> QED
      BY <3>1 DEF H!ToSet
  <2> HIDE DEF t, U
  <2>4. ASSUME NEW a \in H!UsedCells PROVE a \in U
    <3>1. PICK i \in Indices : InChain(a, i)
      BY <1>3, <2>2 DEF HashInv, CellsCovered
    <3>2. PICK c, p : /\ IsChain(i, c) /\ HasPlaces(i, c, p)
                      /\ \E k \in 1 .. Len(c) : c[k] = a
      BY <3>1 DEF InChain
    <3>3. a \in t(i)
      BY <2>3, <3>2
    <3> QED
      BY <2>1, <3>3
  <2>5. ASSUME NEW a \in U PROVE a \in DOMAIN buckets
    <3>1. PICK i \in Indices : a \in t(i)
      BY <2>1
    <3>2. PICK c, p : IsChain(i, c) /\ HasPlaces(i, c, p)
      BY <1>3, SomeChain
    <3> QED
      BY <2>3, <3>1, <3>2
  <2>6. H!UsedCells = Cell \cap U
    BY <2>2, <2>4, <2>5
  <2> QED
    BY <2>6, Zenon DEF t, U
<1> QED
  BY <1>2, <1>3

(* The invariant says of the chains what ChainsExact does.                 *)
LEMMA ChainsAreExact == HashInv => ChainsExact
<1> SUFFICES ASSUME HashInv PROVE ChainsExact
  OBVIOUS
<1>1. ASSUME mode # Null, NEW i \in 0 .. H!Length - 1
      PROVE  LET hashed == {n \in DOMAIN hashList : H!Hash(data[hashList[n]]) = i}
                 chain == H!Chain(i)
                 at(k) == buckets[chain[k]].vbucket
             IN  IF hashed = {} THEN Len(chain) = 1 /\ buckets[i] = H!Unused
                 ELSE /\ {at(k) : k \in DOMAIN chain} = {hashList[n] : n \in hashed}
                      /\ \A j, k \in DOMAIN chain : \A m, n \in hashed :
                            at(j) = hashList[m] /\ at(k) = hashList[n]
                            => (j < k <=> m < n)
  BY <1>1, ChainHolds, Zenon DEF Indices, Hashed
<1>2. H!UsedCells = Cell \cap UNION {H!ToSet(H!Chain(i)) : i \in 0 .. H!Length - 1}
  BY CellsAre, Zenon DEF Indices
<1> QED
  BY <1>1, <1>2, Zenon DEF ChainsExact, H!ChainsExact

(* Of the chains of v_hash_array_...: no bucket gets lost from its chain   *)
(* or into another, each is behind the older ones, and no cell is          *)
(* allocated that is in no chain, after any sequence of additions and      *)
(* removals.                                                               *)
THEOREM ChainsExactHolds == H!Spec => []ChainsExact
  BY HashInvariant, ChainsAreExact, PTL
=============================================================================
