------------------------------- MODULE VArray -------------------------------
(***************************************************************************)
(* The list with an access array of src/list.c, v_array_...: the index of  *)
(* an item leads to it at once.  Unused entries of the array are chained   *)
(* by their field next.  Every function holds the base's mutex from its    *)
(* first to its last statement, so each is one action.  The list itself    *)
(* (see VList) is a sequence here.                                         *)
(***************************************************************************)
EXTENDS FiniteSets, SequenceParts

CONSTANTS Item,
          Null,      \* the NULL pointer
          MaxLength  \* bound: the array grows up to this

VARIABLES
    lb,          \* the list
    entry,       \* array: the item and the next unused index of each entry
    count,
    firstFree,   \* first_free_index
    lastFree,    \* last_free_index
    index,       \* the index that its addition has returned, of each item
    outside,     \* indices behind the array whose `next` was written
    reused,      \* an item has been removed, or the array freed
    undefined    \* an item was put behind the array: anything may happen

vars == <<lb, entry, count, firstFree, lastFree,
          index, outside, reused, undefined>>

NoIndex == -1   \* 0xFFFFFFFF
Unused(n) == [item |-> Null, next |-> n]
Length == Cardinality(DOMAIN entry)
Entries(n) == 0 .. n - 1

(* v_array_init, INIT_ARRAY_LEN is 1.                                      *)
Init ==
    /\ lb = <<>> /\ count = 0
    /\ entry = [i \in Entries(1) |-> Unused(i + 1)]
    /\ firstFree = 0 /\ lastFree = 0
    /\ index = [x \in Item |-> NoIndex]
    /\ outside = {} /\ reused = FALSE /\ undefined = FALSE

-----------------------------------------------------------------------------

(* "When access array is too small": the length is doubled, the new half   *)
(* is chained, and the end of the chain is written one entry too far.      *)
IsFull == count + 1 > Length

Grown ==
    IF IsFull
    THEN [i \in Entries(2 * Length) |->
             IF i < Length THEN entry[i] ELSE Unused(i + 1)]
    ELSE entry

FreeIndex == IF IsFull THEN Length ELSE firstFree

(* Mutant: the new item does not take its entry out of the chain.          *)
AddItemKeepsFree(x) ==
    LET i == FreeIndex IN
    /\ ~undefined /\ x \notin ToSet(lb)
    /\ Cardinality(DOMAIN Grown) =< MaxLength
    /\ lb' = Append(lb, x) /\ count' = count + 1
    /\ index' = [index EXCEPT ![x] = i]
    /\ lastFree' = IF IsFull THEN 2 * Length - 1 ELSE lastFree
    /\ outside' = IF IsFull THEN outside \cup {2 * Length} ELSE outside
    /\ IF i \in DOMAIN Grown
       THEN /\ entry' = [Grown EXCEPT ![i].item = x]
            /\ firstFree' = i /\ UNCHANGED undefined
       ELSE undefined' = TRUE /\ entry' = Grown /\ firstFree' = i
    /\ UNCHANGED reused

(* v_array_add_item.                                                       *)
AddItem(x) ==
    LET i == FreeIndex IN
    /\ ~undefined /\ x \notin ToSet(lb)
    /\ Cardinality(DOMAIN Grown) =< MaxLength
    /\ lb' = Append(lb, x) /\ count' = count + 1
    /\ index' = [index EXCEPT ![x] = i]
    /\ lastFree' = IF IsFull THEN 2 * Length - 1 ELSE lastFree
    /\ outside' = IF IsFull THEN outside \cup {2 * Length} ELSE outside
    /\ IF i \in DOMAIN Grown
       THEN /\ entry' = [Grown EXCEPT ![i].item = x]
            /\ firstFree' = Grown[i].next /\ UNCHANGED undefined
       ELSE undefined' = TRUE /\ entry' = Grown /\ firstFree' = i
    /\ UNCHANGED reused

(* There is no memory for a longer array: nothing changes.                 *)
AddItemFails(x) ==
    /\ ~undefined /\ x \notin ToSet(lb) /\ IsFull
    /\ UNCHANGED vars

(* v_array_remove_item: the entry is not chained to the unused ones.       *)
RemoveItem(i) ==
    /\ ~undefined /\ i \in DOMAIN entry /\ entry[i].item # Null
    /\ \E k \in DOMAIN lb : lb[k] = entry[i].item /\ lb' = RemoveAt(lb, k)
    /\ entry' = [entry EXCEPT ![i] = Unused(NoIndex)]
    /\ lastFree' = i /\ count' = count - 1 /\ reused' = TRUE
    /\ UNCHANGED <<firstFree, index, outside, undefined>>

(* v_array_free.                                                           *)
Free ==
    /\ ~undefined
    /\ lb' = <<>> /\ entry' = [i \in {} |-> Null] /\ count' = 0
    /\ firstFree' = 0 /\ lastFree' = 0 /\ reused' = TRUE
    /\ UNCHANGED <<index, outside, undefined>>

(* v_array_find_item.                                                      *)
FindItem(i) == IF i \in DOMAIN entry THEN entry[i].item ELSE Null

Next == \/ \E x \in Item : AddItem(x) \/ AddItemFails(x)
        \/ \E i \in Entries(MaxLength) : RemoveItem(i)
        \/ Free

Spec == Init /\ [][Next]_vars

-----------------------------------------------------------------------------

(* Until an item is put behind the array, every item is found at the index *)
(* that its addition returned, however often the array has grown since and *)
(* whatever was removed, and nothing is found that was removed.  That can  *)
(* only happen after a removal, or once the array was freed; in an array   *)
(* that only grows, the one thing written behind it is the chain's end.    *)
FoundAtIndex ==
    /\ undefined => reused
    /\ ~undefined =>
          /\ \A x \in ToSet(lb) : FindItem(index[x]) = x
          /\ \A i \in DOMAIN entry : FindItem(i) \in ToSet(lb) \cup {Null}
          /\ count = Len(lb) /\ count =< Length
    /\ ~reused => /\ outside \subseteq {2 * n : n \in 1 .. Length \div 2}
                  /\ ~IsFull => firstFree = count
=============================================================================
