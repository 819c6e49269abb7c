----------------------------- MODULE VHashArray -----------------------------
(***************************************************************************)
(* The hashed list of src/list.c, v_hash_array_...: a list of buckets, and *)
(* an array that leads from the hash of an item's key to the buckets with  *)
(* that hash, chained when there are several.  Every function holds the    *)
(* mutex from its first to its last statement, so each is one action, but  *)
(* an addition that fails returns without releasing it.                    *)
(*                                                                         *)
(* An item is the bytes from its key on.  The list itself (see VList) is a *)
(* sequence here.                                                          *)
(***************************************************************************)
EXTENDS FiniteSets, FiniteSetsExt, Functions, SequenceParts

CONSTANTS
    Item,
    Radix,    \* bound: values of a byte, 256 in the code
    KeySize,  \* bound: the sizes of keys that are tried
    Bucket,   \* the addresses that calloc returns for a bucket,
    Cell,     \*   and for a struct VBucketP
    Null      \* the NULL pointer

VARIABLES
    mode,     \* flags and hash_func: the hash function, Null without one
    keySize,  \* key_size
    lb,       \* the list of buckets
    data,     \* of every bucket
    buckets,  \* vbucket and next of the array's entries and of the cells
    count,
    locked,   \* the mutex was not released
    answer    \* what the last operation returned, and for which item

vars == <<mode, keySize, lb, data, buckets, count, locked, answer>>

Found(x, b) == [found |-> b, by |-> x]  \* the data of the bucket returned
Removed(x, n) == [removed |-> n, by |-> x]

Mod256 == "HASH_MOD_256"
Mod65536 == "HASH_MOD_65536"

-----------------------------------------------------------------------------
(* The hash functions add up words of the key, least byte first.           *)

Word16(x, at) == x[at] + Radix * x[at + 1]
Word32(x, at) == Word16(x, at) + Radix * Radix * Word16(x, at + 2)

(* How many words of so many bytes the loop over the key adds up.          *)
Words(bytes) == (keySize + bytes - 2) \div bytes

(* v_hash_func_uint16.                                                     *)
HashUint16(x) ==
    SumFunction([n \in 0 .. Words(2) - 1 |-> Word16(x, 2 * n + 1)])
    + (IF keySize % 2 = 1 THEN x[keySize] ELSE 0)

(* v_hash_func_uint32: unless the key consists of whole words, the loop    *)
(* and what is read after it go beyond the end of the key.                 *)
HashUint32(x) ==
    LET end == 4 * Words(4) + 1 IN
    SumFunction([n \in 0 .. Words(4) - 1 |-> Word32(x, 4 * n + 1)])
    + (CASE keySize % 4 = 0 -> 0
         [] keySize % 4 = 1 -> Word16(x, end) + x[end + 2]
         [] keySize % 4 = 2 -> Word16(x, end)
         [] keySize % 4 = 3 -> x[end])

Length == CASE mode = Mod256 -> Radix [] mode = Mod65536 -> Radix * Radix [] OTHER -> 0
Hash(x) == (IF mode = Mod256 THEN HashUint16(x) ELSE HashUint32(x)) % Length

(* The bytes that are hashed are those that are compared.                  *)
WholeKey == mode # Mod65536 \/ keySize % 4 = 0

-----------------------------------------------------------------------------

SameKey(x, y) == SubSeq(x, 1, keySize) = SubSeq(y, 1, keySize)

Unused == [vbucket |-> Null, next |-> Null]
UsedCells == Cell \cap DOMAIN buckets
Fresh(S) == CHOOSE a \in S : TRUE   \* any address will do

(* The entry at an index and the cells that follow it.                     *)
Chain(index) ==
    LET link == [a \in DOMAIN buckets |-> buckets[a].next]
        at[n \in 0 .. Cardinality(Cell)] ==
            IF n = 0 THEN index
            ELSE IF at[n - 1] = Null THEN Null ELSE link[at[n - 1]]
        used == {n \in DOMAIN at : at[n] # Null}
    IN  [i \in 1 .. Cardinality(used) |-> at[i - 1]]

(* Mutant: a bucket that is alone at its index is taken for the item's.    *)
PlacesUncompared(x) ==
    LET chain == Chain(Hash(x)) IN
    {i \in DOMAIN chain : LET b == buckets[chain[i]].vbucket IN
                          b # Null /\ (Len(chain) = 1 \/ SameKey(data[b], x))}

(* The place in its chain of the first bucket with the key of x.           *)
Places(x) ==
    LET chain == Chain(Hash(x)) IN
    {i \in DOMAIN chain : LET b == buckets[chain[i]].vbucket IN
                          b # Null /\ SameKey(data[b], x)}

(* Before v_hash_array_init.                                               *)
Init ==
    /\ mode = Null /\ keySize = 0 /\ lb = <<>> /\ count = 0
    /\ data = [b \in Bucket |-> Null]
    /\ buckets = [i \in {} |-> Unused]
    /\ locked = FALSE /\ answer = Found(Null, Null)

(* v_hash_array_init.  If it fails there is still no array.                *)
InitArray(m, size) ==
    /\ mode = Null
    /\ mode' = m /\ keySize' = size
    /\ buckets' = [i \in 0 .. Length' - 1 |-> Unused]
    /\ UNCHANGED <<lb, data, count, locked, answer>>

Ready == mode # Null /\ ~locked

(* v_hash_array_find_item.                                                 *)
FindItem(x) ==
    /\ Ready
    /\ answer' = Found(x, IF Places(x) = {} THEN Null
                          ELSE data[buckets[Chain(Hash(x))[Min(Places(x))]].vbucket])
    /\ UNCHANGED <<mode, keySize, lb, data, buckets, count, locked>>

With(f, a, v) == [x \in DOMAIN f \cup {a} |-> IF x = a THEN v ELSE f[x]]
Without(f, a) == [x \in DOMAIN f \ {a} |-> f[x]]

(* v_hash_array_add_item, which accepts any number of items with one key.  *)
AddItem(x) ==
    LET b == Fresh(Bucket \ ToSet(lb))
        c == Fresh(Cell \ UsedCells)
        head == Hash(x)
    IN  /\ Ready /\ Bucket \ ToSet(lb) # {} /\ Cell \ UsedCells # {}
        /\ lb' = Append(lb, b) /\ data' = [data EXCEPT ![b] = x]
        /\ buckets' = IF buckets[head].vbucket = Null
                      THEN [buckets EXCEPT ![head].vbucket = b]
                      ELSE With([buckets EXCEPT ![Last(Chain(head))].next = c],
                                c, [vbucket |-> b, next |-> Null])
        /\ count' = count + 1 /\ answer' = Found(x, x)
        /\ UNCHANGED <<mode, keySize, locked>>

(* One of its allocations fails: what was done is undone, but the mutex    *)
(* stays locked, and the next call waits for ever.                         *)
AddItemFails(x) ==
    /\ Ready /\ locked' = TRUE /\ answer' = Found(x, Null)
    /\ UNCHANGED <<mode, keySize, lb, data, buckets, count>>

(* Mutant: the last of several cells stays in the chain of the first.      *)
UnchainedKeepsNext(chain, i) ==
    IF Len(chain) = 1 THEN [buckets EXCEPT ![chain[1]].vbucket = Null]
    ELSE IF i = 1
    THEN Without([buckets EXCEPT ![chain[1]] =
                     [vbucket |-> buckets[chain[2]].vbucket, next |-> Null]],
                 chain[2])
    ELSE Without([buckets EXCEPT ![chain[i - 1]].next = buckets[chain[i]].next],
                 chain[i])

(* The array after the i-th of a chain's buckets was removed: for the      *)
(* first, which is in the array itself, the second takes its place.        *)
Unchained(chain, i) ==
    IF Len(chain) = 1 THEN [buckets EXCEPT ![chain[1]].vbucket = Null]
    ELSE IF i = 1
    THEN Without([buckets EXCEPT ![chain[1]] = buckets[chain[2]]], chain[2])
    ELSE Without([buckets EXCEPT ![chain[i - 1]].next = buckets[chain[i]].next],
                 chain[i])

(* v_hash_array_remove_item.                                               *)
RemoveItem(x) ==
    LET chain == Chain(Hash(x))
        i == Min(Places(x))
        b == buckets[chain[i]].vbucket
    IN  /\ Ready
        /\ IF Places(x) = {}
           THEN answer' = Removed(x, 0) /\ UNCHANGED <<lb, data, buckets, count>>
           ELSE /\ \E n \in DOMAIN lb : lb[n] = b /\ lb' = RemoveAt(lb, n)
                /\ data' = [data EXCEPT ![b] = Null]
                /\ buckets' = Unchained(chain, i)
                /\ count' = count - 1 /\ answer' = Removed(x, 1)
        /\ UNCHANGED <<mode, keySize, locked>>

(* v_hash_array_destroy.                                                   *)
Destroy ==
    /\ Ready
    /\ mode' = Null /\ keySize' = 0 /\ lb' = <<>> /\ count' = 0
    /\ data' = [b \in Bucket |-> Null]
    /\ buckets' = [i \in {} |-> Unused]
    /\ UNCHANGED <<locked, answer>>

Next == \/ \E size \in KeySize : InitArray(Mod256, size)
                                 \/ InitArray(Mod65536, size)
        \/ \E x \in Item : FindItem(x) \/ AddItem(x) \/ AddItemFails(x)
                           \/ RemoveItem(x)
        \/ Destroy

Spec == Init /\ [][Next]_vars

-----------------------------------------------------------------------------

(* As long as the hash is one of the key alone, the array finds, removes   *)
(* and counts what a search of the whole list would, whatever collides.    *)
Abs == INSTANCE KeyedList WITH entries <- [i \in DOMAIN lb |-> data[lb[i]]],
                               size <- count
ImplementsKeyedList ==
    Abs!Init /\ [][WholeKey => (Abs!Next \/ UNCHANGED Abs!vars)]_vars

(* No bucket is in two chains or in none, and each is in that of its hash, *)
(* behind the older ones; no cell is allocated that is in no chain.        *)
ChainsExact ==
    /\ mode # Null =>
          \A i \in 0 .. Length - 1 :
             LET hashed == {n \in DOMAIN lb : Hash(data[lb[n]]) = i}
                 chain == Chain(i)
                 at(k) == buckets[chain[k]].vbucket
             IN  IF hashed = {} THEN Len(chain) = 1 /\ buckets[i] = Unused
                 ELSE /\ {at(k) : k \in DOMAIN chain} = {lb[n] : n \in hashed}
                      /\ \A j, k \in DOMAIN chain : \A m, n \in hashed :
                            at(j) = lb[m] /\ at(k) = lb[n] => (j < k <=> m < n)
    /\ UsedCells = Cell \cap UNION {ToSet(Chain(i)) : i \in 0 .. Length - 1}
=============================================================================
