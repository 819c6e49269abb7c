---------------------------- MODULE VerseServer -----------------------------
(***************************************************************************)
(* The Verse server and the connections to it, external to the repository: *)
(* what libverse does with the vrs_send_* calls of the two clients, and    *)
(* which callbacks it makes in return.  A connection delivers commands     *)
(* reliably and in order.  The server keeps a tree of nodes, with tag      *)
(* groups, tags and layers, and tells a change to the clients that have    *)
(* subscribed to the object it is a change of; a new subscriber is first   *)
(* told what there is, tag groups before layers.                           *)
(***************************************************************************)
EXTENDS Naturals, Sequences, SequencesExt

CONSTANT MaxLives   \* bound: how often the sender is started, at most twice

ASSUME VerseServerAssumption == MaxLives \in 1 .. 2

Sender   == "S"   \* the client that sends particles
Receiver == "R"   \* the client that draws them
Client == {Sender, Receiver}

(* The nodes the clients work with.  A client's avatar has its name.       *)
SceneParent == "sceneParent"   \* VRS_SCENE_PARENT_NODE_ID
Lives == 1 .. MaxLives
Scene(l)      == <<"scene1", "scene2">>[l]   \* of type PARTICLE_SCENE_NODE
SenderNode(l) == <<"sender1", "sender2">>[l] \* of type PARTICLE_SENDER_NODE
Scenes == {Scene(l) : l \in Lives}
SenderNodes == {SenderNode(l) : l \in Lives}
Node == Scenes \cup SenderNodes
Nowhere == "nowhere"           \* the parent of a node that does not exist

(* The tag with the frame; each node has one tag group and each tag one    *)
(* name, which is that of one node as long as there is one sender at once. *)
FrameTag == "frame"

VARIABLES
    up, down,     \* commands on their way to the server and to each client
    parent,       \* the tree of nodes
    tgs,          \* nodes with a tag group
    tags,         \* tags of each node, in order of creation ...
    tagSet,       \* ... and those with a value
    layers,       \* nodes with a layer ...
    layerSet,     \* ... and those whose layer has a value
    known,        \* nodes each client has been told of
    nodeSubs, tgSubs, layerSubs,  \* what each client has subscribed to
    open          \* clients whose session has not been terminated

channels == <<up, down>>
tree == <<parent, tgs, tags, tagSet, layers, layerSet>>
subs == <<known, nodeSubs, tgSubs, layerSubs, open>>
serverVars == <<channels, tree, subs>>

(* A command: its operation, the node it is about and what it says of it.  *)
NoArg == "none"   \* a command that says no more than its node
Msg(op, node, arg) == [op |-> op, node |-> node, arg |-> arg]
Signal(op) == Msg(op, Nowhere, NoArg)

ServerInit ==
    /\ up = [c \in Client |-> <<>>] /\ down = [c \in Client |-> <<>>]
    /\ parent = [n \in Node |-> Nowhere]
    /\ tgs = {} /\ layers = {} /\ layerSet = {}
    /\ tags = [n \in Node |-> <<>>] /\ tagSet = {}
    /\ known = [c \in Client |-> {}]
    /\ nodeSubs = [c \in Client |-> {}]
    /\ tgSubs = [c \in Client |-> {}]
    /\ layerSubs = [c \in Client |-> {}]
    /\ open = Client

-----------------------------------------------------------------------------
(* The clients' ends of the connections.                                   *)

Received(c, op) == down[c] # <<>> /\ Head(down[c]).op = op
Handled(c, sent) ==
    /\ down' = [down EXCEPT ![c] = Tail(@)]
    /\ up' = [up EXCEPT ![c] = @ \o sent]
    /\ UNCHANGED <<tree, subs>>
Send(c, sent) ==
    /\ up' = [up EXCEPT ![c] = @ \o sent]
    /\ UNCHANGED <<down, tree, subs>>

-----------------------------------------------------------------------------
(* The server: one action for each command it takes from a connection.     *)

Told(c) == Head(up[c])
Exists(n) == n \in Node => parent[n] # Nowhere

(* The next command of an open session, unless its node has been destroyed *)
Takes(c, op) ==
    /\ c \in open /\ up[c] # <<>> /\ Told(c).op = op
    /\ op # "nodeCreate" => Exists(Told(c).node)
    /\ up' = [up EXCEPT ![c] = Tail(@)]

Ignores(c) ==
    /\ c \in open /\ up[c] # <<>>
    /\ Told(c).op # "nodeCreate" /\ ~Exists(Told(c).node)
    /\ up' = [up EXCEPT ![c] = Tail(@)]
    /\ UNCHANGED <<down, tree, subs>>

Tell(set, msg) ==
    down' = [c \in Client |-> IF c \in set THEN Append(down[c], msg) ELSE down[c]]
Answer(c, msgs) == down' = [down EXCEPT ![c] = @ \o msgs]

Subscribers(table, n) == {c \in Client : n \in table[c]}
When(condition, msg) == IF condition THEN <<msg>> ELSE <<>>

(* The handshake: user name, password, accepted.                           *)
Greets(c) ==
    /\ \E step \in {<<"connect", "askName">>, <<"name", "askPassword">>,
                    <<"password", "accept">>} :
          Takes(c, step[1]) /\ Answer(c, <<Signal(step[2])>>)
    /\ UNCHANGED <<tree, subs>>

CreatesNode(c) ==
    /\ Takes(c, "nodeCreate")
    /\ LET n == Told(c).node IN
       /\ parent' = [parent EXCEPT ![n] = c]
       /\ known' = [d \in Client |->
                       IF c \in nodeSubs[d] THEN known[d] \cup {n} ELSE known[d]]
       /\ Tell(Subscribers(nodeSubs, c), Msg("nodeCreate", n, c))
    /\ UNCHANGED <<tgs, tags, tagSet, layers, layerSet,
                   nodeSubs, tgSubs, layerSubs, open>>

(* A client that sees the node for the first time is told of its creation, *)
(* one that knows it of the link.                                          *)
LinksNode(c) ==
    /\ Takes(c, "nodeLink")
    /\ LET n == Told(c).node
           p == Told(c).arg
           followers == Subscribers(nodeSubs, p) IN
       /\ parent' = [parent EXCEPT ![n] = p]
       /\ known' = [d \in Client |->
                       IF d \in followers THEN known[d] \cup {n} ELSE known[d]]
       /\ down' = [d \in Client |->
                      down[d] \o When(d \in followers,
                                      Msg(IF n \in known[d] THEN "nodeLink"
                                          ELSE "nodeCreate", n, p))]
    /\ UNCHANGED <<tgs, tags, tagSet, layers, layerSet,
                   nodeSubs, tgSubs, layerSubs, open>>

SubscribesNode(c) ==
    /\ Takes(c, "nodeSubscribe")
    /\ LET n == Told(c).node
           children == {m \in Node \ known[c] : parent[m] = n}
           Creation(m) == When(m \in children, Msg("nodeCreate", m, n)) IN
       /\ nodeSubs' = [nodeSubs EXCEPT ![c] = @ \cup {n}]
       /\ known' = [known EXCEPT ![c] = @ \cup children]
       /\ Answer(c, Creation(Scene(1)) \o Creation(Scene(2))
                    \o Creation(SenderNode(1)) \o Creation(SenderNode(2))
                    \o When(n \in tgs, Msg("tgCreate", n, NoArg))
                    \o When(n \in layers, Msg("layerCreate", n, NoArg)))
    /\ UNCHANGED <<tree, tgSubs, layerSubs, open>>

CreatesTagGroup(c) ==
    /\ Takes(c, "tgCreate")
    /\ LET n == Told(c).node IN
       /\ tgs' = tgs \cup {n}
       /\ Tell(Subscribers(nodeSubs, n), Msg("tgCreate", n, NoArg))
    /\ UNCHANGED <<parent, tags, tagSet, layers, layerSet, subs>>

SubscribesTagGroup(c) ==
    /\ Takes(c, "tgSubscribe")
    /\ LET n == Told(c).node
           names == tags[n]
           values == SetToSeq(ToSet(tags[n]) \cap tagSet) IN
       /\ tgSubs' = [tgSubs EXCEPT ![c] = @ \cup {n}]
       /\ Answer(c, [i \in DOMAIN names |-> Msg("tagCreate", n, names[i])]
                    \o [i \in DOMAIN values |-> Msg("tagSet", n, values[i])])
    /\ UNCHANGED <<tree, known, nodeSubs, layerSubs, open>>

CreatesTag(c) ==
    /\ Takes(c, "tagCreate")
    /\ LET n == Told(c).node IN
       /\ tags' = [tags EXCEPT ![n] = Append(@, Told(c).arg)]
       /\ Tell(Subscribers(tgSubs, n), Msg("tagCreate", n, Told(c).arg))
    /\ UNCHANGED <<parent, tgs, tagSet, layers, layerSet, subs>>

(* The client that has set a value ignores its echo, left out here.        *)
SetsTag(c) ==
    /\ Takes(c, "tagSet")
    /\ tagSet' = tagSet \cup {Told(c).arg}
    /\ Tell(Subscribers(tgSubs, Told(c).node) \ {c}, Told(c))
    /\ UNCHANGED <<parent, tgs, tags, layers, layerSet, subs>>

CreatesLayer(c) ==
    /\ Takes(c, "layerCreate")
    /\ LET n == Told(c).node IN
       /\ layers' = layers \cup {n}
       /\ Tell(Subscribers(nodeSubs, n), Msg("layerCreate", n, NoArg))
    /\ UNCHANGED <<parent, tgs, tags, tagSet, layerSet, subs>>

SubscribesLayer(c) ==
    /\ Takes(c, "layerSubscribe")
    /\ LET n == Told(c).node IN
       /\ layerSubs' = [layerSubs EXCEPT ![c] = @ \cup {n}]
       /\ Answer(c, When(n \in layerSet, Msg("layerSet", n, NoArg)))
    /\ UNCHANGED <<tree, known, nodeSubs, tgSubs, open>>

SetsLayer(c) ==
    /\ \/ Takes(c, "layerSet")
       \/ Takes(c, "layerUnset")
    /\ LET n == Told(c).node IN
       /\ layerSet' = IF Told(c).op = "layerSet"
                      THEN layerSet \cup {n} ELSE layerSet \ {n}
       /\ Tell(Subscribers(layerSubs, n) \ {c}, Told(c))
    /\ UNCHANGED <<parent, tgs, tags, tagSet, layers, subs>>

DestroysNode(c) ==
    /\ Takes(c, "nodeDestroy")
    /\ LET n == Told(c).node IN
       /\ parent' = [parent EXCEPT ![n] = Nowhere]
       /\ tgs' = tgs \ {n} /\ layers' = layers \ {n} /\ layerSet' = layerSet \ {n}
       /\ tags' = [tags EXCEPT ![n] = <<>>]
       /\ tagSet' = tagSet \ ToSet(tags[n])
       /\ Tell(Subscribers(nodeSubs, n), Msg("nodeDestroy", n, NoArg))
       /\ nodeSubs' = [d \in Client |-> nodeSubs[d] \ {n}]
       /\ tgSubs' = [d \in Client |-> tgSubs[d] \ {n}]
       /\ layerSubs' = [d \in Client |-> layerSubs[d] \ {n}]
    /\ UNCHANGED <<known, open>>

(* The end of a session: what the client still sends is not taken.         *)
Terminates(c) ==
    /\ Takes(c, "terminate")
    /\ Answer(c, <<Signal("terminate")>>)
    /\ open' = open \ {c}
    /\ nodeSubs' = [nodeSubs EXCEPT ![c] = {}]
    /\ tgSubs' = [tgSubs EXCEPT ![c] = {}]
    /\ layerSubs' = [layerSubs EXCEPT ![c] = {}]
    /\ UNCHANGED <<tree, known>>

(* The next run of a client, once its session is over: a new connection.   *)
Reconnects(c) ==
    /\ c \notin open
    /\ open' = open \cup {c}
    /\ up' = [up EXCEPT ![c] = <<>>] /\ down' = [down EXCEPT ![c] = <<>>]
    /\ known' = [known EXCEPT ![c] = {}]
    /\ UNCHANGED <<tree, nodeSubs, tgSubs, layerSubs>>

Serve(c) ==
    \/ Greets(c) \/ CreatesNode(c) \/ LinksNode(c) \/ SubscribesNode(c)
    \/ CreatesTagGroup(c) \/ SubscribesTagGroup(c) \/ CreatesTag(c) \/ SetsTag(c)
    \/ CreatesLayer(c) \/ SubscribesLayer(c) \/ SetsLayer(c)
    \/ DestroysNode(c) \/ Terminates(c) \/ Ignores(c)
=============================================================================
