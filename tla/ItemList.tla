------------------------------ MODULE ItemList ------------------------------
(***************************************************************************)
(* What a linked list promises to its users: a sequence of items, in which *)
(* an insertion or removal of one item moves no other.                     *)
(***************************************************************************)
EXTENDS SequenceParts

CONSTANTS Item,
          Null   \* no item

VARIABLES items, \* the list
          call   \* the operation that was called last, with its arguments

vars == <<items, call>>

Call(op, x, at) == [op |-> op, item |-> x, at |-> at]
NoCall == Call("init", Null, Null)

Init == items = <<>> /\ call = NoCall

Has(x) == x \in ToSet(items)
Position(x) == CHOOSE i \in DOMAIN items : items[i] = x

PutFirst(x) ==
    /\ ~Has(x) /\ call' = Call("addHead", x, Null)
    /\ items' = <<x>> \o items

PutLast(x) ==
    /\ ~Has(x) /\ call' = Call("addTail", x, Null)
    /\ items' = Append(items, x)

(* After no item means first, before no item means last.                   *)
PutAfter(p, x) ==
    /\ ~Has(x) /\ call' = Call("after", x, p)
    /\ items' = IF Has(p) THEN InsertAt(items, Position(p) + 1, x)
                ELSE <<x>> \o items

PutBefore(n, x) ==
    /\ ~Has(x) /\ call' = Call("before", x, n)
    /\ items' = IF Has(n) THEN InsertAt(items, Position(n), x)
                ELSE Append(items, x)

Take(x) ==
    /\ Has(x) /\ call' = Call("remove", x, Null)
    /\ items' = RemoveAt(items, Position(x))

Clear == items' = <<>> /\ call' = Call("free", Null, Null)

Next == \/ \E x \in Item : \/ PutFirst(x) \/ PutLast(x) \/ Take(x)
                           \/ \E at \in Item \cup {Null} :
                                 PutAfter(at, x) \/ PutBefore(at, x)
        \/ Clear

Spec == Init /\ [][Next]_vars
=============================================================================
