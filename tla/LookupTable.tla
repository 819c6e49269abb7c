---------------------------- MODULE LookupTable -----------------------------
(***************************************************************************)
(* The table of nodes (src/lu_table.c): an array of slots, a node id goes  *)
(* to slot id % size and nowhere else.                                     *)
(***************************************************************************)
EXTENDS Integers, FiniteSets

CONSTANTS Size,  \* argument of lu_table_create: 10000
          Id,    \* node ids
          Node,  \* the nodes the pointers point at
          Null   \* the NULL pointer

ASSUME LookupTableAssumption ==
    /\ Size \in Nat \ {0}
    /\ Id \subseteq Nat
    /\ Null \notin Node

VARIABLES slot,   \* lu_items: the id and the item of each slot
          count,
          answer  \* what the last operation returned

vars == <<slot, count, answer>>

Refused == 0
Added   == 1

Slot == 0 .. Size - 1
NoId == -1   \* the uint32 of that value, which is no node's id

Empty == [id |-> NoId, item |-> Null]
Hash(id) == id % Size

TypeOK ==
    /\ slot \in [Slot -> [id : Id \cup {NoId}, item : Node \cup {Null}]]
    /\ count \in 0 .. Size
    /\ answer \in {Refused, Added, Null} \cup Node

(* lu_table_create.                                                        *)
Init ==
    /\ slot = [s \in Slot |-> Empty]
    /\ count = 0
    /\ answer = Null

(* lu_add_item.  A slot's id is compared with (uint16)-1, not with the     *)
(* uint32 -1 that marks a free slot, so only a NULL item tells that it is  *)
(* free.                                                                   *)
Uint16Minus1 == 65535

(* Mutant: a slot in use is overwritten.                                   *)
AddOverwrites(id, node) ==
    IF count < Size
    THEN /\ slot' = [slot EXCEPT ![Hash(id)] = [id |-> id, item |-> node]]
         /\ count' = count + 1
         /\ answer' = Added
    ELSE answer' = Refused /\ UNCHANGED <<slot, count>>

Add(id, node) ==
    IF /\ count < Size
       /\ slot[Hash(id)].id # Uint16Minus1
       /\ slot[Hash(id)].item = Null
    THEN /\ slot' = [slot EXCEPT ![Hash(id)] = [id |-> id, item |-> node]]
         /\ count' = count + 1
         /\ answer' = Added
    ELSE answer' = Refused /\ UNCHANGED <<slot, count>>

(* lu_find.                                                                *)
Lookup(id) == IF slot[Hash(id)].id = id THEN slot[Hash(id)].item ELSE Null

Find(id) == answer' = Lookup(id) /\ UNCHANGED <<slot, count>>

(* lu_rem_item frees the slot whatever it holds, so the id must be in the  *)
(* table.  No callback calls it yet.                                       *)
Remove(id) ==
    /\ Lookup(id) # Null
    /\ slot' = [slot EXCEPT ![Hash(id)] = Empty]
    /\ count' = count - 1
    /\ UNCHANGED answer

Next == \E id \in Id : \/ \E node \in Node : Add(id, node)
                       \/ Remove(id)
                       \/ Find(id)

Spec == Init /\ [][Next]_vars

-----------------------------------------------------------------------------

Occupied == {s \in Slot : slot[s].item # Null}

(* count is the number of slots in use: it never reaches size while a slot *)
(* is free, and taking the last node out brings it back to zero.           *)
CountExact == count = Cardinality(Occupied)

(* The table implements the map of node ids: an id is refused exactly when *)
(* one that collides with it is stored, whatever was removed before, and   *)
(* colliding ids are never answered with each other's node.                *)
Map == INSTANCE NodeMap WITH map <- [id \in Id |-> Lookup(id)],
                             Place <- [id \in Id |-> Hash(id)]
ImplementsMap == Map!Spec
=============================================================================
