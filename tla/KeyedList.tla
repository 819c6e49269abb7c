----------------------------- MODULE KeyedList ------------------------------
(***************************************************************************)
(* What a hash array promises to its users: the items in the order of      *)
(* their addition, of which the oldest with a given key is found and       *)
(* removed.  Neither hashes nor collisions can be seen.                    *)
(***************************************************************************)
EXTENDS FiniteSetsExt, SequenceParts

CONSTANTS Item,  \* sequences of bytes
          Null   \* no item

VARIABLES keySize, \* the key is the first bytes of an item
          entries,
          size,    \* what counting the items returns
          answer   \* what the last operation returned, and for which item

vars == <<keySize, entries, size, answer>>

Found(x, b) == [found |-> b, by |-> x]  \* or added; b is an item or Null
Removed(x, n) == [removed |-> n, by |-> x]

SameKey(x, y) == SubSeq(x, 1, keySize) = SubSeq(y, 1, keySize)
Matches(x) == {i \in DOMAIN entries : SameKey(entries[i], x)}

Init == keySize = 0 /\ entries = <<>> /\ size = 0 /\ answer = Found(Null, Null)

Setup == /\ entries = <<>> /\ keySize' \in Nat \ {0}
         /\ UNCHANGED <<entries, size, answer>>

Find(x) == /\ answer' = Found(x, IF Matches(x) = {} THEN Null
                                  ELSE entries[Min(Matches(x))])
           /\ UNCHANGED <<keySize, entries, size>>

Add(x) == /\ entries' = Append(entries, x) /\ size' = size + 1
          /\ answer' = Found(x, x) /\ UNCHANGED keySize

AddFails(x) == answer' = Found(x, Null) /\ UNCHANGED <<keySize, entries, size>>

Take(x) == /\ IF Matches(x) = {}
              THEN answer' = Removed(x, 0) /\ UNCHANGED <<entries, size>>
              ELSE /\ entries' = RemoveAt(entries, Min(Matches(x)))
                   /\ size' = size - 1 /\ answer' = Removed(x, 1)
           /\ UNCHANGED keySize

Destroy == entries' = <<>> /\ size' = 0 /\ keySize' = 0 /\ UNCHANGED answer

Next == \/ Setup \/ Destroy
        \/ \E x \in Item : Find(x) \/ Add(x) \/ AddFails(x) \/ Take(x)
=============================================================================
