------------------------------ MODULE NodeMap -------------------------------
(***************************************************************************)
(* What the callbacks expect of the table of nodes: a partial map from     *)
(* node ids to nodes.  An id keeps the node it was first given until it is *)
(* removed, and no operation on one id touches another.  An addition is    *)
(* refused if the map has a node of the same place, and only then.         *)
(***************************************************************************)
CONSTANTS Id, Node,
          Place, \* of each id; ids of one place exclude each other
          Null   \* no node

VARIABLES map,    \* the node of each id, or Null
          answer  \* what the last operation returned

vars == <<map, answer>>

Refused == 0
Added   == 1

Init == map = [id \in Id |-> Null] /\ answer = Null

Taken(id) == \E other \in Id : Place[other] = Place[id] /\ map[other] # Null

Add(id, node) ==
    \/ /\ ~Taken(id)
       /\ map' = [map EXCEPT ![id] = node]
       /\ answer' = Added
    \/ Taken(id) /\ answer' = Refused /\ UNCHANGED map

Remove(id) ==
    /\ map[id] # Null
    /\ map' = [map EXCEPT ![id] = Null]
    /\ UNCHANGED answer

Find(id) == answer' = map[id] /\ UNCHANGED map

Next == \E id \in Id : \/ \E node \in Node : Add(id, node)
                       \/ Remove(id)
                       \/ Find(id)

Spec == Init /\ [][Next]_vars
=============================================================================
