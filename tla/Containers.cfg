\* Table: three slots; six ids, two to each slot, one of them the uint16 -1.
\* List: 3 items.  Array: 4 items, grows twice.  Hash array: 3 buckets, keys of
\* 2 to 4 bytes with both hash functions.  The lists and the array never stop;
\* the hash array does, when an addition fails, and so does the array, once an
\* item was put behind it.
CONSTANTS
    Size = 3
    Id = {1, 2, 3, 4, 5, 65535}
    Node = {n1, n2}
    Null = Null
    ListItem = {x1, x2, x3}
    ArrayItem = {x1, x2, x3, x4}
    MaxLength = 4
    HashItem <- MCHashItem
    Radix = 2
    KeySize = {2, 3, 4}
    Bucket = {b1, b2, b3}
    Cell = {c1, c2}
SPECIFICATION MCSpec
INVARIANTS WalksAgree FoundAtIndex ChainsExact
PROPERTIES ImplementsMap ImplementsItemList ImplementsKeyedList
CHECK_DEADLOCK FALSE
