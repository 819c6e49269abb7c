------------------------------- MODULE VList --------------------------------
(***************************************************************************)
(* The doubly linked list of src/list.c, v_list_...: items that begin with *)
(* the pointers prev and next, and a base with the pointers first and      *)
(* last.  The functions do not test what they are given, so a caller adds  *)
(* an item that is not in the list, and names one that is.                 *)
(***************************************************************************)
EXTENDS FiniteSets, FiniteSetsExt, SequenceParts

CONSTANTS Item,  \* the items that can be in the list
          Null   \* the NULL pointer

VARIABLES first, last, \* the base
          next, prev,  \* of every item
          call         \* the operation that was called last (see ItemList)

base == <<first, last>>
links == <<next, prev>>
vars == <<base, links, call>>

Pointer == Item \cup {Null}

Call(op, x, at) == [op |-> op, item |-> x, at |-> at]

(* if(p) p->field = v                                                      *)
Store(field, p, v) == IF p = Null THEN field ELSE [field EXCEPT ![p] = v]

(* An empty base; items come from calloc.                                  *)
Init ==
    /\ first = Null /\ last = Null
    /\ next = [x \in Item |-> Null] /\ prev = [x \in Item |-> Null]
    /\ call = Call("init", Null, Null)

-----------------------------------------------------------------------------
(* Following the links: the n-th item from one end, and the sequence.      *)

Nth(start, link) ==
    LET nth[n \in 0 .. Cardinality(Item)] ==
            IF n = 0 THEN start
            ELSE LET x == nth[n - 1] IN IF x = Null THEN Null ELSE link[x]
    IN  nth

(* v_list_count_items.                                                     *)
CountItems == Cardinality({n \in 0 .. Cardinality(Item) :
                              Nth(first, next)[n] # Null})

(* v_list_find_item.                                                       *)
FindItem(n) == IF n < 0 THEN Null ELSE Nth(first, next)[n]

(* v_list_find_index.                                                      *)
FindIndex(x) ==
    LET found == {n \in 0 .. Cardinality(Item) : FindItem(n) = x}
    IN  IF x = Null \/ found = {} THEN -1 ELSE Min(found)

Contents == [i \in 1 .. CountItems |-> FindItem(i - 1)]
InList(x) == x \in ToSet(Contents)

-----------------------------------------------------------------------------

(* v_list_add_head.                                                        *)
AddHead(x) ==
    /\ ~InList(x) /\ call' = Call("addHead", x, Null)
    /\ next' = [next EXCEPT ![x] = first]
    /\ prev' = Store([prev EXCEPT ![x] = Null], first, x)
    /\ last' = IF last = Null THEN x ELSE last
    /\ first' = x

(* v_list_add_tail.                                                        *)
AddTail(x) ==
    /\ ~InList(x) /\ call' = Call("addTail", x, Null)
    /\ prev' = [prev EXCEPT ![x] = last]
    /\ next' = Store([next EXCEPT ![x] = Null], last, x)
    /\ first' = IF first = Null THEN x ELSE first
    /\ last' = x

Unlinked(x) ==
    /\ prev' = Store(prev, next[x], prev[x])
    /\ next' = Store(next, prev[x], next[x])
    /\ last' = IF last = x THEN prev[x] ELSE last
    /\ first' = IF first = x THEN next[x] ELSE first

(* Mutant: the item before x keeps its link.                               *)
RemItemForwards(x) ==
    /\ InList(x) /\ call' = Call("remove", x, Null)
    /\ next' = Store(next, prev[x], next[x])
    /\ last' = IF last = x THEN prev[x] ELSE last
    /\ first' = IF first = x THEN next[x] ELSE first
    /\ UNCHANGED prev

(* v_list_rem_item: x keeps its own links.                                 *)
RemItem(x) ==
    /\ InList(x) /\ call' = Call("remove", x, Null)
    /\ Unlinked(x)

(* v_list_free_item; the next item at this address comes from calloc.      *)
FreeItem(x) ==
    /\ InList(x) /\ call' = Call("remove", x, Null)
    /\ prev' = [Store(prev, next[x], prev[x]) EXCEPT ![x] = Null]
    /\ next' = [Store(next, prev[x], next[x]) EXCEPT ![x] = Null]
    /\ last' = IF last = x THEN prev[x] ELSE last
    /\ first' = IF first = x THEN next[x] ELSE first

(* The three insertions leave the links of an item alone that they put     *)
(* into an empty list, so it must not have been in a list before.          *)
Fresh(x) == next[x] = Null /\ prev[x] = Null
Insertable(at, x) ==
    /\ ~InList(x)
    /\ at = Null \/ InList(at) \/ first = Null
    /\ first = Null => Fresh(x)

OnlyItem(x) == first' = x /\ last' = x /\ UNCHANGED links

(* v_insert_item.                                                          *)
InsertItem(p, x) ==
    /\ Insertable(p, x) /\ call' = Call("after", x, p)
    /\ IF first = Null THEN OnlyItem(x)
       ELSE IF p = Null
       THEN /\ next' = [next EXCEPT ![x] = first]
            /\ prev' = [prev EXCEPT ![x] = Null, ![first] = x]
            /\ first' = x /\ UNCHANGED last
       ELSE /\ next' = [next EXCEPT ![x] = next[p], ![p] = x]
            /\ prev' = Store([prev EXCEPT ![x] = p], next[p], x)
            /\ last' = IF last = p THEN x ELSE last
            /\ UNCHANGED first

(* v_list_insert_item_after makes the same assignments in another order.   *)
InsertItemAfter(p, x) == InsertItem(p, x)

(* Mutant: before no item means at the head, as after no item does.        *)
InsertItemBeforeHead(n, x) ==
    /\ Insertable(n, x) /\ call' = Call("before", x, n)
    /\ IF first = Null THEN OnlyItem(x)
       ELSE IF n = Null
       THEN /\ next' = [next EXCEPT ![x] = first]
            /\ prev' = [prev EXCEPT ![x] = Null, ![first] = x]
            /\ first' = x /\ UNCHANGED last
       ELSE /\ prev' = [prev EXCEPT ![x] = prev[n], ![n] = x]
            /\ next' = Store([next EXCEPT ![x] = n], prev[n], x)
            /\ first' = IF first = n THEN x ELSE first
            /\ UNCHANGED last

(* v_list_insert_item_before.                                              *)
InsertItemBefore(n, x) ==
    /\ Insertable(n, x) /\ call' = Call("before", x, n)
    /\ IF first = Null THEN OnlyItem(x)
       ELSE IF n = Null
       THEN /\ prev' = [prev EXCEPT ![x] = last]
            /\ next' = [next EXCEPT ![x] = Null, ![last] = x]
            /\ last' = x /\ UNCHANGED first
       ELSE /\ prev' = [prev EXCEPT ![x] = prev[n], ![n] = x]
            /\ next' = Store([next EXCEPT ![x] = n], prev[n], x)
            /\ first' = IF first = n THEN x ELSE first
            /\ UNCHANGED last

(* v_list_free follows the links and frees what it finds.                  *)
Free ==
    /\ call' = Call("free", Null, Null)
    /\ first' = Null /\ last' = Null
    /\ next' = [x \in Item |-> IF InList(x) THEN Null ELSE next[x]]
    /\ prev' = [x \in Item |-> IF InList(x) THEN Null ELSE prev[x]]

Next == \/ \E x \in Item :
              \/ AddHead(x) \/ AddTail(x) \/ RemItem(x) \/ FreeItem(x)
              \/ \E at \in Pointer : \/ InsertItem(at, x)
                                     \/ InsertItemAfter(at, x)
                                     \/ InsertItemBefore(at, x)
        \/ Free

Spec == Init /\ [][Next]_vars

-----------------------------------------------------------------------------

(* Every sequence of calls leaves the items in the order that ItemList     *)
(* gives them: no item is lost, moved or met twice from first on.          *)
Abs == INSTANCE ItemList WITH items <- Contents
ImplementsItemList == Abs!Spec

(* The links back are those forth: from last one comes to the same items   *)
(* in reverse order, and to no other; each is found at its own index.      *)
WalksAgree ==
    /\ \A n \in 0 .. Cardinality(Item) :
          Nth(last, prev)[n] = IF n < CountItems THEN FindItem(CountItems - 1 - n)
                               ELSE Null
    /\ \A n \in 0 .. CountItems - 1 : FindIndex(FindItem(n)) = n
=============================================================================
