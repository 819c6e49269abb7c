---------------------------- MODULE MCContainers ----------------------------
(***************************************************************************)
(* The four containers in one instance for TLC.  They share nothing, so a  *)
(* behaviour drives one of them.                                           *)
(***************************************************************************)
EXTENDS LookupTable, Sequences

CONSTANTS ListItem, ArrayItem, MaxLength,
          HashItem, Radix, KeySize, Bucket, Cell

VARIABLES
    driven,
    first, last, next, prev, call,
    arrayList, entry, arrayCount, firstFree, lastFree,
        index, outside, reused, undefined,
    mode, keySize, hashList, data, buckets, hashCount, locked, hashAnswer

L == INSTANCE VList WITH Item <- ListItem
A == INSTANCE VArray WITH Item <- ArrayItem, lb <- arrayList,
                          count <- arrayCount
H == INSTANCE VHashArray WITH Item <- HashItem, lb <- hashList,
                              count <- hashCount, answer <- hashAnswer

(* NULL is no item, address or index, and the memory behind a key goes on  *)
(* as far as the hash functions read.                                      *)
ASSUME ContainersAssumption ==
    /\ IsFiniteSet(ListItem) /\ Null \notin ListItem
    /\ Null \notin ArrayItem
    /\ Null \notin HashItem \cup Bucket \cup Cell \cup {H!Mod256, H!Mod65536}
    /\ Null \notin Nat /\ Cell \cap Nat = {} /\ IsFiniteSet(Cell)
    /\ Radix \in Nat \ {0} /\ KeySize \subseteq Nat \ {0}
    /\ \A x \in HashItem : /\ x \in Seq(0 .. Radix - 1)
                            /\ \A size \in KeySize : size + 4 =< Len(x)

(* A byte has two values here.  Keys of three or four bytes collide in the *)
(* array of two buckets, and the first and the last item differ only       *)
(* behind such a key.                                                      *)
MCHashItem == {<<0, 0, 0, 0, 0, 0, 0, 0>>, <<1, 0, 1, 0, 0, 0, 0, 0>>,
               <<0, 0, 0, 0, 1, 0, 0, 0>>}

listVars == <<first, last, next, prev, call>>
arrayVars == <<arrayList, entry, arrayCount, firstFree, lastFree,
               index, outside, reused, undefined>>
hashVars == <<mode, keySize, hashList, data, buckets, hashCount, locked,
              hashAnswer>>

MCInit == /\ driven \in {"table", "list", "array", "hash array"}
          /\ Init /\ L!Init /\ A!Init /\ H!Init

MCNext ==
    /\ UNCHANGED driven
    /\ \/ /\ driven = "table" /\ Next
          /\ UNCHANGED <<listVars, arrayVars, hashVars>>
       \/ /\ driven = "list" /\ L!Next
          /\ UNCHANGED <<vars, arrayVars, hashVars>>
       \/ /\ driven = "array" /\ A!Next
          /\ UNCHANGED <<vars, listVars, hashVars>>
       \/ /\ driven = "hash array" /\ H!Next
          /\ UNCHANGED <<vars, listVars, arrayVars>>

MCSpec == MCInit /\ [][MCNext]_<<driven, vars, listVars, arrayVars, hashVars>>

(* The list implements ItemList.                                           *)
ImplementsItemList == L!ImplementsItemList

(* The two directions of the list agree.                                   *)
WalksAgree == L!WalksAgree

(* The array leads to each item at the index it was given.                 *)
FoundAtIndex == A!FoundAtIndex

(* The hash array implements KeyedList.                                    *)
ImplementsKeyedList == H!ImplementsKeyedList

(* The chains of the hash array hold its list's buckets.                   *)
ChainsExact == H!ChainsExact
=============================================================================
