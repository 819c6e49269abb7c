--------------------------- MODULE SessionProofs ----------------------------
(***************************************************************************)
(* The callbacks of both clients find what they rely on, whoever connects  *)
(* first, whenever they are interrupted and whether or not the sender is   *)
(* started again: for any tags and any number of batches.  The argument is *)
(* about the order of the commands on their way.                           *)
(***************************************************************************)
EXTENDS Session, FiniteSetTheorems, TLAPS

(* Every a in a queue has another command before it: b.                    *)
Precedes(q, b, a) == \A j \in DOMAIN q : q[j] = a => \E i \in 1 .. j - 1 : q[i] = b
Once(q, a) == \A i, j \in DOMAIN q : q[i] = a /\ q[j] = a => i = j

-----------------------------------------------------------------------------
(* The inductive invariant.                                                *)

Op == {"connect", "askName", "name", "askPassword", "password", "accept",
       "nodeCreate", "nodeLink", "nodeSubscribe", "nodeDestroy",
       "tgCreate", "tgSubscribe", "tagCreate", "tagSet",
       "layerCreate", "layerSubscribe", "layerSet", "layerUnset", "terminate"}
Name == Node \cup {Sender, Receiver, SceneParent, Nowhere}
Tag == {FrameTag} \cup ToSet(SceneTags) \cup ToSet(OtherTags)
Message == [op : Op, node : Name, arg : Name \cup Tag \cup {NoArg}]
Phase == {"new", "on", "exited", "killed", "crashed"}
Context == [life : Lives, phase : Phase, scene : BOOLEAN, bound : BOOLEAN,
            tg : SUBSET Node, tag : SUBSET Tag, layer : BOOLEAN,
            run : BOOLEAN, sent : Nat, interrupted : BOOLEAN]
Found == [phase : Phase, scene : Scenes \cup {Nowhere},
          bound : SenderNodes \cup {Nowhere}, tg : SUBSET Node,
          tag : SUBSET Tag, layer : BOOLEAN, run : BOOLEAN,
          framed : BOOLEAN, strayed : BOOLEAN, interrupted : BOOLEAN]

Queues == up \in [Client -> Seq(Message)] /\ down \in [Client -> Seq(Message)]
Tree ==
    /\ parent \in [Node -> Name]
    /\ tgs \subseteq Node /\ layers \subseteq Node /\ layerSet \subseteq Node
    /\ tags \in [Node -> Seq(Tag)] /\ tagSet \subseteq Tag
Subscriptions ==
    /\ known \in [Client -> SUBSET Node]
    /\ nodeSubs \in [Client -> SUBSET Name]
    /\ tgSubs \in [Client -> SUBSET Name]
    /\ layerSubs \in [Client -> SUBSET Name]
    /\ open \subseteq Client
TypeOK == Queues /\ Tree /\ Subscriptions /\ snd \in Context /\ rcv \in Found

S == Sender
R == Receiver
Up == ToSet(up[S])
Down == ToSet(down[S])
Serving == S \in open /\ parent[SndNode] # Nowhere

Greeting == {"connect", "name", "password", "askName", "askPassword", "accept"}
(* Nothing of this run is on the server yet.                               *)
Unknown == /\ parent[SndScene] = Nowhere /\ parent[SndNode] = Nowhere
           /\ S \notin nodeSubs[S]
Alone == /\ Len(up[S]) + Len(down[S]) =< 1 /\ ~snd.scene /\ ~snd.bound
         /\ Unknown

(* What a sender has sent, and what its callbacks have done before.        *)
SndSent(x) ==
    /\ x.op \in {"connect", "name", "password", "nodeSubscribe", "nodeCreate",
                 "nodeLink", "tgCreate", "tgSubscribe", "tagCreate", "tagSet",
                 "layerCreate", "layerSet", "layerUnset", "nodeDestroy",
                 "terminate"}
    /\ x.op \in Greeting => Alone
    /\ x.op \in {"tagCreate", "tagSet"} => x.arg \in Tag
    /\ x.op = "nodeSubscribe" =>
          /\ x.arg = NoArg
          /\ (x.node = S /\ Unknown) \/ SndFinds(x.node)
    /\ x.op = "nodeCreate" =>
          /\ x.node \in {SndScene, SndNode} /\ x.arg = NoArg
          /\ ~SndFinds(x.node)
          /\ Msg("nodeCreate", x.node, S) \notin Down
    /\ x.op = "nodeLink" =>
          \/ x = Msg("nodeLink", SndScene, SceneParent) /\ snd.scene
          \/ x = Msg("nodeLink", SndNode, SndScene) /\ snd.bound
    /\ x.op = "tgCreate" => SndFinds(x.node)
    /\ x.op = "tgSubscribe" => SndFinds(x.node) /\ x.node \in snd.tg
    /\ x.op = "tagCreate" =>
          /\ SndFinds(x.node) /\ x.node \in snd.tg
          /\ x.arg = FrameTag => x.node = SndNode
    /\ x.op \in {"layerCreate", "nodeDestroy"} =>
          x.node = SndNode /\ snd.bound /\ x.arg = NoArg
    /\ x.op = "tagSet" => SndFinds(x.node)
    /\ x = Msg("tagSet", SndNode, FrameTag) => snd.run
    /\ x.op = "tagSet" /\ x.arg = FrameTag => x.node = SndNode
    /\ x.op \in {"layerSet", "layerUnset"} =>
          x.node = SndNode /\ x.arg = NoArg /\ snd.bound /\ snd.run
    /\ x.op = "terminate" => x = Signal("terminate") /\ snd.bound

(* What the server has told it, and what it can do with that.              *)
SndTold(x) ==
    /\ x.op \in Greeting => Alone
    /\ x.op = "nodeCreate" =>
          x.node \in Node /\ (x.arg = S => x.node \in {SndScene, SndNode})
    /\ x.op \in {"tgCreate", "layerCreate"} => SndFinds(x.node)
    /\ x.op = "layerCreate" => x.arg = NoArg
    /\ x.op = "tagCreate" =>
          /\ SndFinds(x.node) /\ x.node \in snd.tg /\ x.arg \in Tag
          /\ x.arg = FrameTag => x.node = SndNode

SndQueues ==
    /\ snd.phase = "new" => up[S] = <<>> /\ down[S] = <<>>
    /\ snd.phase = "new" => snd = Life(snd.life) /\ Unknown
    /\ \A x \in Up : SndSent(x)
    /\ \A x \in Down : SndTold(x)
    /\ \A n \in nodeSubs[S] : n = S \/ SndFinds(n)
    /\ tgSubs[S] \subseteq snd.tg
    /\ \A n \in snd.tg : SndFinds(n)
    /\ layerSubs[S] = {}
    /\ S \notin open => nodeSubs[S] = {} /\ tgSubs[S] = {}
    /\ snd.bound => snd.scene
    /\ snd.run => snd.bound /\ SndNode \in snd.tg /\ FrameTag \in snd.tag
    /\ snd.phase # "crashed"

(* The scene is created before the node in it ...                          *)
SndBuilds ==
    /\ Once(up[S], Msg("nodeSubscribe", S, NoArg))
    /\ Once(up[S], Msg("nodeCreate", SndScene, NoArg))
    /\ Once(up[S], Msg("nodeCreate", SndNode, NoArg))
    /\ snd.scene \/ Precedes(down[S], Msg("nodeCreate", SndScene, S),
                                      Msg("nodeCreate", SndNode, S))
    /\ S \in open =>
          /\ \/ S \in nodeSubs[S]
             \/ Precedes(up[S], Msg("nodeSubscribe", S, NoArg),
                                Msg("nodeCreate", SndScene, NoArg))
          /\ \/ snd.scene \/ Msg("nodeCreate", SndScene, S) \in Down
             \/ Precedes(up[S], Msg("nodeCreate", SndScene, NoArg),
                                Msg("nodeCreate", SndNode, NoArg))

(* ... and the layer before the tag that starts the clock.                 *)
SndLayers ==
    /\ \/ snd.layer
       \/ Precedes(down[S], Msg("layerCreate", SndNode, NoArg),
                            Msg("tagCreate", SndNode, FrameTag))
    /\ snd.run => snd.layer
    /\ Serving /\ snd.bound =>
          /\ \/ snd.layer
             \/ Msg("layerCreate", SndNode, NoArg) \in Down
             \/ /\ Msg("layerCreate", SndNode, NoArg) \in Up
                /\ Precedes(up[S], Msg("layerCreate", SndNode, NoArg),
                                   Msg("tagCreate", SndNode, FrameTag))
                /\ FrameTag \notin ToSet(tags[SndNode])
          /\ \/ SndNode \in nodeSubs[S]
             \/ Precedes(up[S], Msg("nodeSubscribe", SndNode, NoArg),
                                Msg("layerCreate", SndNode, NoArg))

(* What is left on the server when a run ends.                             *)
SndEnds ==
    /\ \A l \in Lives :
          /\ parent[Scene(l)] \in {Nowhere, S, SceneParent}
          /\ parent[SenderNode(l)] \in {Nowhere, S, Scene(l)}
          /\ l > snd.life => parent[Scene(l)] = Nowhere
                             /\ parent[SenderNode(l)] = Nowhere
          /\ l < snd.life => parent[Scene(l)] = SceneParent
                             /\ parent[SenderNode(l)] = Nowhere
    /\ parent[SndScene] = SceneParent => snd.scene
    /\ parent[SndNode] = SndScene => snd.bound
    /\ snd.scene \/ Msg("nodeCreate", SndScene, S) \in Down =>
          parent[SndScene] # Nowhere
    /\ S \notin open => parent[SndScene] = SceneParent
                        /\ parent[SndNode] = Nowhere
    /\ S \in open /\ snd.scene =>
          \/ parent[SndScene] = SceneParent
          \/ /\ Msg("nodeLink", SndScene, SceneParent) \in Up
             /\ Precedes(up[S], Msg("nodeLink", SndScene, SceneParent),
                                Signal("terminate"))
    /\ S \in open =>
          \/ parent[SndNode] = Nowhere /\ snd.bound
          \/ Precedes(up[S], Msg("nodeDestroy", SndNode, NoArg),
                             Signal("terminate"))

(* On the server a frame is set before a position, and both below what     *)
(* they need.                                                              *)
SndStreams ==
    /\ layers \subseteq tgs /\ layers \subseteq SenderNodes
    /\ \A n \in layerSet :
          /\ n = SndNode /\ parent[n] # Nowhere
          /\ FrameTag \in tagSet /\ FrameTag \in ToSet(tags[n])
    /\ \A n \in Node : FrameTag \in ToSet(tags[n]) =>
          n = SndNode /\ snd.bound /\ parent[n] # Nowhere
    /\ Serving =>
          /\ \/ SndNode \in tgs
             \/ Precedes(up[S], Msg("tgCreate", SndNode, NoArg),
                                Msg("layerCreate", SndNode, NoArg))
          /\ \/ FrameTag \in tagSet
             \/ Precedes(up[S], Msg("tagSet", SndNode, FrameTag),
                                Msg("layerSet", SndNode, NoArg))
    /\ FrameTag \in tagSet => FrameTag \in ToSet(tags[SndNode])
    /\ /\ parent[SndNode] # Nowhere
       /\ snd.run \/ Msg("tagCreate", SndNode, FrameTag) \in Down
       => FrameTag \in ToSet(tags[SndNode])

-----------------------------------------------------------------------------
(* The receiver only knows the nodes of the first run.                     *)

Scene1 == Scene(1)
Node1 == SenderNode(1)
RUp == ToSet(up[R])
RDown == ToSet(down[R])
Following == R \in open /\ parent[Node1] # Nowhere
TagGroup1 == Msg("tgCreate", Node1, NoArg)
Tag1 == Msg("tagCreate", Node1, FrameTag)
Frame1 == Msg("tagSet", Node1, FrameTag)
Layer1 == Msg("layerCreate", Node1, NoArg)
Value1 == Msg("layerSet", Node1, NoArg)
FollowsTagGroup == Msg("tgSubscribe", Node1, NoArg)
FollowsLayer == Msg("layerSubscribe", Node1, NoArg)

RcvSent(x) ==
    /\ x.op \in {"connect", "name", "password", "nodeSubscribe", "tgSubscribe",
                 "layerSubscribe", "terminate"}
    /\ x.op = "nodeSubscribe" =>
          \/ x.node \in {R, SceneParent}
          \/ x.node \in Node /\ RcvFinds(x.node)
    /\ x.op = "tgSubscribe" => x.node \in rcv.tg /\ x.arg = NoArg
    /\ x.op = "layerSubscribe" => x = FollowsLayer /\ RcvFinds(Node1)

RcvTold(x) ==
    /\ x.op = "nodeCreate" =>
          /\ x.node \in Scenes => x.arg = SceneParent
          /\ x.node \in SenderNodes =>
                x = Msg("nodeCreate", Node1, Scene1) /\ rcv.scene = Scene1
                /\ Node1 \in known[R]
          /\ x.node \in Node
    /\ x.op = "tgCreate" =>
          x.node \in Node /\ RcvFinds(x.node) /\ x.arg = NoArg
    /\ x.op \in {"tagCreate", "tagSet"} => x.node \in rcv.tg /\ x.arg \in Tag
    /\ x.op \in {"layerCreate", "layerSet", "layerUnset"} =>
          x.node = Node1 /\ x.arg = NoArg /\ RcvFinds(Node1)

RcvQueues ==
    /\ rcv.scene \in {Nowhere, Scene1}
    /\ rcv.bound \in {Nowhere, Node1}
    /\ rcv.bound = Node1 => rcv.scene = Scene1 /\ Node1 \in known[R]
    /\ rcv.phase # "crashed"
    /\ \A x \in RUp : RcvSent(x)
    /\ \A x \in RDown : RcvTold(x)
    /\ \A n \in nodeSubs[R] : n \in {R, SceneParent} \/ (n \in Node /\ RcvFinds(n))
    /\ \A n \in rcv.tg : n \in Node /\ RcvFinds(n)
    /\ tgSubs[R] \subseteq rcv.tg
    /\ R \notin open =>
          nodeSubs[R] = {} /\ tgSubs[R] = {} /\ layerSubs[R] = {}
    /\ layerSubs[R] \subseteq {Node1} /\ (Node1 \in layerSubs[R] => RcvFinds(Node1))

RcvOrders ==
    /\ \/ rcv.scene = Scene1
       \/ Precedes(down[R], Msg("nodeCreate", Scene1, SceneParent),
                            Msg("nodeCreate", Scene(2), SceneParent))
    /\ Scene1 \in known[R] => \/ rcv.scene = Scene1
                              \/ Msg("nodeCreate", Scene1, SceneParent) \in RDown
    /\ SceneParent \in nodeSubs[R] /\ parent[Scene1] = SceneParent =>
          Scene1 \in known[R]
    /\ Node1 \in known[R] => snd.life > 1 \/ snd.bound

RcvStreams ==
    /\ rcv.framed \/ Precedes(down[R], Frame1, Value1)
    /\ FrameTag \in rcv.tag \/ Precedes(down[R], Tag1, Frame1)
    /\ Node1 \in rcv.tg \/ Precedes(down[R], TagGroup1, Layer1)
    /\ ~rcv.strayed
    /\ Following =>
          /\ Node1 \in tgSubs[R] /\ FrameTag \in ToSet(tags[Node1]) =>
                FrameTag \in rcv.tag \/ Tag1 \in RDown
          /\ Node1 \in tgSubs[R] /\ FrameTag \in ToSet(tags[Node1]) 
                /\ FrameTag \in tagSet =>
                rcv.framed \/ Frame1 \in RDown
          /\ Node1 \in nodeSubs[R] /\ Node1 \in tgs =>
                Node1 \in rcv.tg \/ TagGroup1 \in RDown
          /\ Node1 \in rcv.tg => Node1 \in tgSubs[R] \/ FollowsTagGroup \in RUp
          /\ Node1 \in layerSubs[R] => Node1 \in tgSubs[R]
          /\ Node1 \in tgSubs[R] \/ Precedes(up[R], FollowsTagGroup, FollowsLayer)

IInv == /\ TypeOK
        /\ SndQueues /\ SndBuilds /\ SndLayers /\ SndEnds /\ SndStreams
        /\ RcvQueues /\ RcvOrders /\ RcvStreams

-----------------------------------------------------------------------------
(* The order of a queue.                                                   *)

(* What is taken from the front.                                           *)
LEMMA QueueTail ==
    ASSUME NEW T, NEW q \in Seq(T), q # <<>>
    PROVE  /\ Head(q) \in T /\ Tail(q) \in Seq(T)
           /\ Len(Tail(q)) = Len(q) - 1
           /\ ToSet(q) = {Head(q)} \cup ToSet(Tail(q))
           /\ \A b, a : Precedes(q, b, a) =>
                 /\ Head(q) # a
                 /\ Head(q) = b \/ Precedes(Tail(q), b, a)
           /\ \A a : Once(q, a) =>
                 /\ Once(Tail(q), a)
                 /\ Head(q) = a => a \notin ToSet(Tail(q))
<1>1. /\ Head(q) \in T /\ Tail(q) \in Seq(T)
      /\ Len(Tail(q)) = Len(q) - 1 /\ Len(q) \in Nat \ {0}
      /\ Head(q) = q[1]
      /\ \A i \in 1 .. Len(q) - 1 : Tail(q)[i] = q[i + 1]
      /\ DOMAIN q = 1 .. Len(q) /\ DOMAIN Tail(q) = 1 .. Len(q) - 1
  OBVIOUS
<1>2. ToSet(q) = {Head(q)} \cup ToSet(Tail(q))
  <2>1. ASSUME NEW x \in ToSet(q) PROVE x = Head(q) \/ x \in ToSet(Tail(q))
    <3>1. PICK i \in 1 .. Len(q) : x = q[i]
      BY <1>1 DEF ToSet
    <3>2. CASE i = 1
      BY <1>1, <3>1, <3>2
    <3>3. CASE i # 1
      <4>1. i - 1 \in 1 .. Len(q) - 1 /\ Tail(q)[i - 1] = q[i]
        BY <1>1, <3>3
      <4> QED
        BY <1>1, <3>1, <4>1 DEF ToSet
    <3> QED
      BY <3>2, <3>3
  <2>2. ToSet(Tail(q)) \subseteq ToSet(q)
    BY <1>1 DEF ToSet
  <2>3. Head(q) \in ToSet(q)
    BY <1>1 DEF ToSet
  <2> QED
    BY <2>1, <2>2, <2>3
<1>3. ASSUME NEW a, NEW b, Precedes(q, b, a)
      PROVE  Head(q) # a /\ (Head(q) = b \/ Precedes(Tail(q), b, a))
  <2>1. Head(q) # a
    BY <1>1, <1>3 DEF Precedes
  <2>2. ASSUME Head(q) # b, NEW j \in 1 .. Len(q) - 1, Tail(q)[j] = a
        PROVE  \E i \in 1 .. j - 1 : Tail(q)[i] = b
    <3>1. j + 1 \in 1 .. Len(q) /\ q[j + 1] = a
      BY <1>1, <2>2
    <3>2. PICK i \in 1 .. j : q[i] = b
      BY <1>1, <1>3, <3>1 DEF Precedes
    <3>3. i # 1 /\ i - 1 \in 1 .. j - 1 /\ Tail(q)[i - 1] = b
      BY <1>1, <2>2, <3>2
    <3> QED
      BY <3>3
  <2> QED
    BY <1>1, <2>1, <2>2 DEF Precedes
<1>4. ASSUME NEW a, Once(q, a)
      PROVE  Once(Tail(q), a) /\ (Head(q) = a => a \notin ToSet(Tail(q)))
  BY <1>1, <1>4 DEF Once, ToSet
<1> QED
  BY <1>1, <1>2, <1>3, <1>4

(* What is put behind it.                                                  *)
LEMMA QueueConcat ==
    ASSUME NEW T, NEW q \in Seq(T), NEW s \in Seq(T)
    PROVE  /\ q \o s \in Seq(T)
           /\ Len(q \o s) = Len(q) + Len(s)
           /\ ToSet(q \o s) = ToSet(q) \cup ToSet(s)
           /\ \A b, a : Precedes(q, b, a) /\ (b \in ToSet(q) \/ Precedes(s, b, a))
                 => Precedes(q \o s, b, a)
           /\ \A a : Once(q, a) /\ a \notin ToSet(s) => Once(q \o s, a)
           /\ \A a : Once(s, a) /\ a \notin ToSet(q) => Once(q \o s, a)
<1>1. /\ q \o s \in Seq(T) /\ Len(q) \in Nat /\ Len(s) \in Nat
      /\ Len(q \o s) = Len(q) + Len(s)
      /\ DOMAIN q = 1 .. Len(q) /\ DOMAIN s = 1 .. Len(s)
      /\ DOMAIN (q \o s) = 1 .. Len(q) + Len(s)
      /\ \A i \in 1 .. Len(q) : (q \o s)[i] = q[i]
      /\ \A i \in 1 .. Len(s) : (q \o s)[Len(q) + i] = s[i]
  OBVIOUS
<1>2. \A i \in Len(q) + 1 .. Len(q) + Len(s) :
         i - Len(q) \in 1 .. Len(s) /\ (q \o s)[i] = s[i - Len(q)]
  OBVIOUS
<1>3. ToSet(q \o s) = ToSet(q) \cup ToSet(s)
  <2>1. ASSUME NEW i \in 1 .. Len(q) + Len(s)
        PROVE  (q \o s)[i] \in ToSet(q) \cup ToSet(s)
    BY <1>1, <1>2 DEF ToSet
  <2>2. \A i \in 1 .. Len(q) : q[i] \in ToSet(q \o s)
    BY <1>1 DEF ToSet
  <2>3. \A i \in 1 .. Len(s) : s[i] \in ToSet(q \o s)
    BY <1>1 DEF ToSet
  <2> QED
    BY <1>1, <2>1, <2>2, <2>3 DEF ToSet
<1>4. ASSUME NEW a, NEW b, Precedes(q, b, a), b \in ToSet(q) \/ Precedes(s, b, a)
      PROVE  Precedes(q \o s, b, a)
  <2> SUFFICES ASSUME NEW j \in 1 .. Len(q) + Len(s), (q \o s)[j] = a
               PROVE  \E i \in 1 .. j - 1 : (q \o s)[i] = b
    BY <1>1 DEF Precedes
  <2>1. CASE j \in 1 .. Len(q)
    BY <1>1, <1>4, <2>1 DEF Precedes
  <2>2. CASE j \in Len(q) + 1 .. Len(q) + Len(s)
    <3>1. CASE b \in ToSet(q)
      BY <1>1, <2>2, <3>1 DEF ToSet
    <3>2. CASE Precedes(s, b, a)
      <4>1. PICK i \in 1 .. j - Len(q) - 1 : s[i] = b
        BY <1>1, <1>2, <1>4, <2>2, <3>2 DEF Precedes
      <4>2. Len(q) + i \in 1 .. j - 1 /\ (q \o s)[Len(q) + i] = b
        BY <1>1, <2>2, <4>1
      <4> QED
        BY <4>2
    <3> QED
      BY <1>4, <3>1, <3>2
  <2> QED
    BY <1>1, <2>1, <2>2
<1>5. ASSUME NEW a, Once(q, a), a \notin ToSet(s)
      PROVE  Once(q \o s, a)
  BY <1>1, <1>2, <1>5 DEF Once, ToSet
<1>6. ASSUME NEW a, Once(s, a), a \notin ToSet(q)
      PROVE  Once(q \o s, a)
  BY <1>1, <1>2, <1>6 DEF Once, ToSet
<1> QED
  BY <1>1, <1>3, <1>4, <1>5, <1>6

(* What a queue does not contain need not be preceded by anything.         *)
LEMMA PrecedesNone ==
    ASSUME NEW q, NEW a, a \notin ToSet(q)
    PROVE  Once(q, a) /\ \A b : Precedes(q, b, a)
BY DEF Precedes, Once, ToSet

(* Short queues.                                                           *)
LEMMA Listed ==
    /\ ToSet(<<>>) = {} /\ Len(<<>>) = 0
    /\ \A a : ToSet(<<a>>) = {a} /\ Len(<<a>>) = 1
    /\ \A a, b : ToSet(<<a, b>>) = {a, b}
    /\ \A a, b, c : ToSet(<<a, b, c>>) = {a, b, c}
    /\ \A a, b, c, d : ToSet(<<a, b, c, d>>) = {a, b, c, d}
BY DEF ToSet

-----------------------------------------------------------------------------
(* Names and types.                                                        *)

LEMMA Names ==
    /\ Lives \subseteq {1, 2} /\ 1 \in Lives
    /\ Scene(1) = "scene1" /\ Scene(2) = "scene2"
    /\ SenderNode(1) = "sender1" /\ SenderNode(2) = "sender2"
    /\ Scenes \subseteq {"scene1", "scene2"}
    /\ SenderNodes \subseteq {"sender1", "sender2"}
    /\ Node = Scenes \cup SenderNodes
    /\ \A l \in Lives : Scene(l) \in Scenes /\ SenderNode(l) \in SenderNodes
    /\ "scene1" \in Scenes /\ "sender1" \in SenderNodes
    /\ "scene2" \in Scenes <=> 2 \in Lives
    /\ "sender2" \in SenderNodes <=> 2 \in Lives
<1>1. Lives \subseteq {1, 2} /\ 1 \in Lives
  BY VerseServerAssumption DEF Lives
<1>2. /\ Scene(1) = "scene1" /\ Scene(2) = "scene2"
      /\ SenderNode(1) = "sender1" /\ SenderNode(2) = "sender2"
  BY DEF Scene, SenderNode
<1>3. /\ Scenes \subseteq {"scene1", "scene2"} /\ "scene1" \in Scenes
      /\ "scene2" \in Scenes <=> 2 \in Lives
      /\ \A l \in Lives : Scene(l) \in Scenes
  BY <1>1, <1>2 DEF Scenes
<1>4. /\ SenderNodes \subseteq {"sender1", "sender2"} /\ "sender1" \in SenderNodes
      /\ "sender2" \in SenderNodes <=> 2 \in Lives
      /\ \A l \in Lives : SenderNode(l) \in SenderNodes
  BY <1>1, <1>2 DEF SenderNodes
<1>5. Node = Scenes \cup SenderNodes
  BY DEF Node
<1> QED
  BY <1>1, <1>2, <1>3, <1>4, <1>5

LEMMA TagSequences == SceneTags \in Seq(Tag) /\ OtherTags \in Seq(Tag)
<1>1. ASSUME NEW s \in Seq(STRING), ToSet(s) \subseteq Tag PROVE s \in Seq(Tag)
  <2>1. \A i \in 1 .. Len(s) : s[i] \in Tag
    BY <1>1 DEF ToSet
  <2>2. s = [i \in 1 .. Len(s) |-> s[i]] /\ Len(s) \in Nat
    OBVIOUS
  <2> QED
    BY <2>1, <2>2
<1> QED
  BY <1>1, SenderSessionAssumption DEF Tag

(* A queue from which the first command has been taken, ...                *)
Taken(q, r) ==
    /\ q # <<>> /\ r = Tail(q) /\ Len(r) = Len(q) - 1 /\ Len(r) \in Nat
    /\ ToSet(q) = {Head(q)} \cup ToSet(r)
    /\ \A b, a : Precedes(q, b, a) =>
          /\ Head(q) # a
          /\ Head(q) = b \/ Precedes(r, b, a)
    /\ \A a : Once(q, a) =>
          /\ Once(r, a)
          /\ Head(q) = a => a \notin ToSet(r)

(* ... and one to which commands have been added.                          *)
Added(q, s, r) ==
    /\ Len(r) = Len(q) + Len(s) /\ Len(q) \in Nat /\ Len(s) \in Nat
    /\ ToSet(r) = ToSet(q) \cup ToSet(s)
    /\ \A b, a : Precedes(q, b, a) /\ (b \in ToSet(q) \/ Precedes(s, b, a))
          => Precedes(r, b, a)
    /\ \A b, a : Precedes(q, b, a) /\ a \notin ToSet(s) => Precedes(r, b, a)
    /\ \A b, a : a \notin ToSet(q) /\ Precedes(s, b, a) => Precedes(r, b, a)
    /\ \A a : Once(q, a) /\ a \notin ToSet(s) => Once(r, a)
    /\ \A a : Once(s, a) /\ a \notin ToSet(q) => Once(r, a)

LEMMA TakenTail ==
    ASSUME NEW q \in Seq(Message), q # <<>>
    PROVE  Taken(q, Tail(q)) /\ Head(q) \in Message /\ Tail(q) \in Seq(Message)
BY QueueTail DEF Taken

LEMMA AddedConcat ==
    ASSUME NEW q \in Seq(Message), NEW s \in Seq(Message)
    PROVE  Added(q, s, q \o s) /\ q \o s \in Seq(Message)
<1>1. Len(q) \in Nat /\ Len(s) \in Nat
  OBVIOUS
<1> QED
  BY <1>1, QueueConcat, PrecedesNone DEF Added

LEMMA AddedAppend ==
    ASSUME NEW q \in Seq(Message), NEW x \in Message
    PROVE  Added(q, <<x>>, Append(q, x)) /\ Append(q, x) \in Seq(Message)
<1>1. Append(q, x) = q \o <<x>> /\ <<x>> \in Seq(Message)
  OBVIOUS
<1> QED
  BY <1>1, AddedConcat

(* A callback takes a command and sends some.                              *)
LEMMA Handling ==
    ASSUME Queues, NEW c \in Client, NEW sent \in Seq(Message),
           down[c] # <<>>, Handled(c, sent)
    PROVE  /\ Queues'
           /\ Taken(down[c], down'[c]) /\ Added(up[c], sent, up'[c])
           /\ \A d \in Client \ {c} : up'[d] = up[d] /\ down'[d] = down[d]
<1>1. down'[c] = Tail(down[c]) /\ up'[c] = up[c] \o sent
  BY DEF Handled, Queues
<1>2. Taken(down[c], down'[c]) /\ Tail(down[c]) \in Seq(Message)
  BY <1>1, TakenTail DEF Queues
<1>3. Added(up[c], sent, up'[c]) /\ up[c] \o sent \in Seq(Message)
  BY <1>1, AddedConcat DEF Queues
<1> QED
  BY <1>2, <1>3 DEF Handled, Queues

LEMMA Sending ==
    ASSUME Queues, NEW c \in Client, NEW sent \in Seq(Message), Send(c, sent)
    PROVE  /\ Queues' /\ down' = down
           /\ Added(up[c], sent, up'[c])
           /\ \A d \in Client \ {c} : up'[d] = up[d]
<1>1. up'[c] = up[c] \o sent
  BY DEF Send, Queues
<1>2. Added(up[c], sent, up'[c]) /\ up[c] \o sent \in Seq(Message)
  BY <1>1, AddedConcat DEF Queues
<1> QED
  BY <1>2 DEF Send, Queues

(* The server takes a command, and tells some clients of it or answers.    *)
LEMMA Taking ==
    ASSUME Queues, NEW c \in Client, up[c] # <<>>,
           up' = [up EXCEPT ![c] = Tail(@)]
    PROVE  /\ up' \in [Client -> Seq(Message)]
           /\ Told(c) \in Message
           /\ Taken(up[c], up'[c])
           /\ \A d \in Client \ {c} : up'[d] = up[d]
<1>1. up'[c] = Tail(up[c])
  BY DEF Queues
<1>2. Taken(up[c], up'[c]) /\ Head(up[c]) \in Message
      /\ Tail(up[c]) \in Seq(Message)
  BY <1>1, TakenTail DEF Queues
<1> QED
  BY <1>2 DEF Queues, Told

LEMMA Telling ==
    ASSUME Queues, NEW clients \in SUBSET Client, NEW x \in Message, Tell(clients, x)
    PROVE  /\ down' \in [Client -> Seq(Message)]
           /\ \A d \in clients : Added(down[d], <<x>>, down'[d])
           /\ \A d \in Client \ clients : down'[d] = down[d]
<1>1. \A d \in clients : down'[d] = Append(down[d], x)
  BY DEF Tell, Queues
<1>2. \A d \in clients : Added(down[d], <<x>>, down'[d])
                        /\ down'[d] \in Seq(Message)
  BY <1>1, AddedAppend DEF Queues
<1> QED
  BY <1>2 DEF Tell, Queues

LEMMA Answering ==
    ASSUME Queues, NEW c \in Client, NEW msgs \in Seq(Message), Answer(c, msgs)
    PROVE  /\ down' \in [Client -> Seq(Message)]
           /\ Added(down[c], msgs, down'[c])
           /\ \A d \in Client \ {c} : down'[d] = down[d]
<1>1. down'[c] = down[c] \o msgs
  BY DEF Answer, Queues
<1>2. Added(down[c], msgs, down'[c]) /\ down[c] \o msgs \in Seq(Message)
  BY <1>1, AddedConcat DEF Queues
<1> QED
  BY <1>2 DEF Answer, Queues

-----------------------------------------------------------------------------
(* What the two clients do not share: a step of one side leaves the other  *)
(* side's part of the invariant alone.                                     *)

SndView == <<up[S], down[S], tree, nodeSubs[S], tgSubs[S], layerSubs[S],
             S \in open, snd>>
SndInv == SndQueues /\ SndBuilds /\ SndLayers /\ SndEnds /\ SndStreams

LEMMA SndUntouched ==
    ASSUME SndInv, UNCHANGED SndView
    PROVE  SndInv'
<1> USE DEF SndView, tree
<1>1. /\ up[S]' = up[S] /\ down[S]' = down[S] /\ snd' = snd
      /\ parent' = parent /\ tgs' = tgs /\ tags' = tags /\ tagSet' = tagSet
      /\ layers' = layers /\ layerSet' = layerSet
      /\ nodeSubs[S]' = nodeSubs[S] /\ tgSubs[S]' = tgSubs[S]
      /\ layerSubs[S]' = layerSubs[S] /\ (S \in open)' = (S \in open)
  BY DEF SndView, tree
<1>2. SndQueues'
  <2>1. Up' = Up /\ Down' = Down
    BY <1>1 DEF Up, Down
  <2>2. /\ SndScene' = SndScene /\ SndNode' = SndNode
        /\ \A n : SndFinds(n)' <=> SndFinds(n)
    BY <1>1 DEF SndScene, SndNode, SndFinds
  <2>3. (Unknown' <=> Unknown) /\ (Alone' <=> Alone)
    BY <1>1, <2>2 DEF Unknown, Alone
  <2>4. ASSUME NEW x \in Up, SndSent(x) PROVE SndSent(x)'
    BY <1>1, <2>1, <2>2, <2>3, <2>4 DEF SndSent
  <2>5. ASSUME NEW x \in Down, SndTold(x) PROVE SndTold(x)'
    BY <1>1, <2>1, <2>2, <2>3, <2>5 DEF SndTold
  <2> QED
    BY <1>1, <2>1, <2>2, <2>3, <2>4, <2>5 DEF SndInv, SndQueues
<1>3. SndBuilds'
  BY <1>1 DEF SndInv, SndBuilds, Up, Down, SndScene, SndNode
<1>4. SndLayers'
  BY <1>1 DEF SndInv, SndLayers, Up, Down, SndScene, SndNode, Serving
<1>5. SndEnds'
  BY <1>1 DEF SndInv, SndEnds, Up, Down, SndScene, SndNode
<1>6. SndStreams'
  BY <1>1 DEF SndInv, SndStreams, Up, Down, SndScene, SndNode, Serving
<1> QED
  BY <1>2, <1>3, <1>4, <1>5, <1>6 DEF SndInv

RcvView == <<up[R], down[R], tree, known[R], nodeSubs[R], tgSubs[R],
             layerSubs[R], R \in open, rcv>>
RcvInv == RcvQueues /\ RcvOrders /\ RcvStreams

LEMMA RcvUntouched ==
    ASSUME RcvInv, UNCHANGED RcvView,
           (snd.life > 1 \/ snd.bound) => (snd.life > 1 \/ snd.bound)'
    PROVE  RcvInv'
<1>1. /\ up[R]' = up[R] /\ down[R]' = down[R] /\ rcv' = rcv
      /\ parent' = parent /\ tgs' = tgs /\ tags' = tags /\ tagSet' = tagSet
      /\ known[R]' = known[R] /\ nodeSubs[R]' = nodeSubs[R]
      /\ tgSubs[R]' = tgSubs[R] /\ layerSubs[R]' = layerSubs[R]
      /\ (R \in open)' = (R \in open)
  BY DEF RcvView, tree
<1>2. RcvQueues'
  BY <1>1 DEF RcvInv, RcvQueues, RcvSent, RcvTold, RUp, RDown, RcvFinds
<1>3. RcvOrders'
  <2>1. (Node1 \in known[R] => snd.life > 1 \/ snd.bound)'
    BY <1>1 DEF RcvInv, RcvOrders
  <2> QED
    BY <1>1, <2>1 DEF RcvInv, RcvOrders, RDown
<1>4. RcvStreams'
  BY <1>1 DEF RcvInv, RcvStreams, RDown, RUp, Following
<1> QED
  BY <1>2, <1>3, <1>4 DEF RcvInv

-----------------------------------------------------------------------------
(* The steps of the sending client.                                        *)

(* What all its callbacks leave alone.                                     *)
Elsewhere == /\ Queues' /\ UNCHANGED <<tree, subs>>
             /\ up'[R] = up[R] /\ down'[R] = down[R]

LEMMA SndHandling ==
    ASSUME Queues, NEW sent \in Seq(Message), down[S] # <<>>, Handled(S, sent)
    PROVE  /\ Elsewhere
           /\ Taken(down[S], down'[S]) /\ Added(up[S], sent, up'[S])
<1>1. S \in Client /\ R \in Client \ {S}
  BY DEF S, R, Client, Sender, Receiver
<1> QED
  BY <1>1, Handling DEF Handled, Elsewhere

LEMMA SndSending ==
    ASSUME Queues, NEW sent \in Seq(Message), Send(S, sent)
    PROVE  /\ Elsewhere /\ down' = down /\ Added(up[S], sent, up'[S])
<1>1. S \in Client /\ R \in Client \ {S}
  BY DEF S, R, Client, Sender, Receiver
<1> QED
  BY <1>1, Sending DEF Send, Elsewhere

(* The nodes of this run.                                                  *)
LEMMA SndNodes ==
    ASSUME snd \in Context
    PROVE  /\ SndScene \in Scenes /\ SndNode \in SenderNodes
           /\ SndScene \in Node /\ SndNode \in Node /\ SndScene # SndNode
           /\ \A n \in Node : n \notin {S, R, SceneParent, Nowhere}
           /\ Scenes \cap SenderNodes = {}
<1>1. snd.life \in Lives
  BY DEF Context
<1> QED
  BY <1>1, Names DEF SndScene, SndNode, S, R, Sender, Receiver, SceneParent, Nowhere

LEMMA InitHolds == Init => IInv
<1> SUFFICES ASSUME Init PROVE IInv
  OBVIOUS
<1> USE DEF Init, ServerInit, SenderInit, ReceiverInit
<1>1. S \in Client /\ R \in Client /\ S # R
  BY DEF S, R, Client, Sender, Receiver
<1>2. snd.life = 1 /\ ~snd.scene /\ ~snd.bound /\ snd.tg = {} /\ ~snd.run
      /\ snd = Life(snd.life) /\ ~snd.layer /\ snd.phase = "new"
  BY DEF Life
<1>3. snd \in Context /\ rcv \in Found
  BY Names DEF Context, Found, Life, Phase, Scenes, Nowhere
<1>4. TypeOK
  <2>1. Queues
    BY DEF Queues
  <2>2. Tree
    BY DEF Tree, Name
  <2>3. Subscriptions
    BY DEF Subscriptions
  <2> QED
    BY <1>3, <2>1, <2>2, <2>3 DEF TypeOK
<1>5. /\ up[S] = <<>> /\ down[S] = <<>> /\ Up = {} /\ Down = {}
      /\ up[R] = <<>> /\ down[R] = <<>> /\ RUp = {} /\ RDown = {}
  BY <1>1, Listed DEF Up, Down, RUp, RDown
<1>6. \A n \in Node : parent[n] = Nowhere /\ ToSet(tags[n]) = {}
  BY Listed
<1>7. /\ SndScene \in Node /\ SndNode \in Node /\ Scene1 \in Node /\ Node1 \in Node
      /\ \A l \in Lives : Scene(l) \in Node /\ SenderNode(l) \in Node
      /\ Nowhere \notin {S, SceneParent, Scene1, Node1, SndScene, SndNode}
  BY <1>2, <1>3, SndNodes, Names DEF S, Sender, SceneParent, Nowhere, Scene1, Node1
<1>8. SndQueues
  <2>1. Unknown
    BY <1>1, <1>6, <1>7 DEF Unknown
  <2> QED
    BY <1>1, <1>2, <1>5, <2>1 DEF SndQueues
<1>9. SndBuilds
  BY <1>1, <1>2, <1>5, PrecedesNone DEF SndBuilds, Up, Down
<1>10. SndLayers
  BY <1>1, <1>2, <1>5, PrecedesNone DEF SndLayers, Up, Down
<1>11. SndEnds
  <2>1. \A l \in Lives : ~(l < snd.life)
                           /\ parent[Scene(l)] = Nowhere
                           /\ parent[SenderNode(l)] = Nowhere
    BY <1>2, <1>6, <1>7, Names
  <2>2. parent[SndScene] = Nowhere /\ parent[SndNode] = Nowhere
    BY <1>6, <1>7
  <2>3. S \in open /\ \A b, a : Precedes(up[S], b, a)
    BY <1>1, <1>5, PrecedesNone DEF Up
  <2> HIDE DEF Init, ServerInit, SenderInit, ReceiverInit
  <2> QED
    BY <1>2, <1>5, <1>7, <2>1, <2>2, <2>3 DEF SndEnds
<1>12. SndStreams
  BY <1>1, <1>2, <1>5, <1>6, <1>7, PrecedesNone DEF SndStreams, Up, Down, Serving
<1>13. RcvQueues
  <2>1. /\ rcv.scene = Nowhere /\ rcv.bound = Nowhere /\ rcv.tg = {}
        /\ rcv.phase = "new" /\ nodeSubs[R] = {} /\ tgSubs[R] = {} /\ layerSubs[R] = {}
    BY <1>1
  <2> HIDE DEF Init, ServerInit, SenderInit, ReceiverInit
  <2> QED
    BY <1>5, <1>7, <2>1 DEF RcvQueues
<1>14. RcvOrders
  BY <1>1, <1>5, PrecedesNone DEF RcvOrders, RUp, RDown
<1>15. RcvStreams
  BY <1>1, <1>5, <1>6, <1>7, PrecedesNone DEF RcvStreams, RUp, RDown, Following
<1> QED
  BY <1>4, <1>8, <1>9, <1>10, <1>11, <1>12, <1>13, <1>14, <1>15 DEF IInv

LEMMA QueueSet ==
    ASSUME NEW q \in Seq(Message)
    PROVE  /\ Len(q) \in Nat
           /\ \A x \in ToSet(q) : Len(q) # 0
           /\ Len(q) = 0 => ToSet(q) = {}
<1>1. Len(q) \in Nat /\ DOMAIN q = 1 .. Len(q)
  OBVIOUS
<1>2. ASSUME Len(q) = 0 PROVE \A x : x \notin ToSet(q)
  BY <1>1, <1>2 DEF ToSet
<1> QED
  BY <1>1, <1>2

LEMMA AtMostOne ==
    \A u, d, e \in Nat : u + d =< 1 => /\ e = d - 1 => u = 0 /\ e = 0
                                       /\ u + d = 0 => u = 0 /\ d = 0
OBVIOUS

(* What a step of the client may do to its context, ...                    *)
SndGrows ==
    /\ snd' \in Context /\ snd'.life = snd.life
    /\ snd'.phase \notin {"new", "crashed"}
    /\ snd.scene => snd'.scene
    /\ snd.bound => snd'.bound
    /\ snd.tg \subseteq snd'.tg
    /\ snd.layer => snd'.layer
    /\ snd.run => snd'.run
    /\ snd'.scene /\ ~snd.scene => Msg("nodeCreate", SndScene, S) \in Down
    /\ snd'.bound /\ ~snd.bound => Msg("nodeCreate", SndNode, S) \in Down
    /\ snd'.run /\ ~snd.run => Msg("tagCreate", SndNode, FrameTag) \in Down
    /\ snd'.bound => snd'.scene
    /\ snd'.run => snd'.bound /\ snd'.layer
                   /\ SndNode \in snd'.tg /\ FrameTag \in snd'.tag
    /\ \A n \in snd'.tg : SndFinds(n)'

(* ... what it may take ...                                                *)
SndTakes ==
    \/ /\ Taken(down[S], down'[S])
       /\ Head(down[S]) = Msg("nodeCreate", SndScene, S) => snd'.scene
       /\ Head(down[S]) = Msg("layerCreate", SndNode, NoArg) => snd'.layer
    \/ /\ down'[S] = down[S]
       /\ ~Alone \/ Len(up[S]) + Len(down[S]) = 0

(* ... and what it may send.                                               *)
SndSends(sent) ==
    /\ \A x \in ToSet(sent) :
          /\ SndSent(x)'
          /\ x.op = "nodeCreate" \/ x = Msg("nodeSubscribe", S, NoArg) => Up = {}
    /\ Once(sent, Msg("nodeSubscribe", S, NoArg))
    /\ Once(sent, Msg("nodeCreate", SndScene, NoArg))
    /\ Once(sent, Msg("nodeCreate", SndNode, NoArg))
    /\ Precedes(sent, Msg("nodeSubscribe", S, NoArg),
                      Msg("nodeCreate", SndScene, NoArg))
    /\ Precedes(sent, Msg("nodeCreate", SndScene, NoArg),
                      Msg("nodeCreate", SndNode, NoArg))
    /\ Precedes(sent, Msg("nodeSubscribe", SndNode, NoArg),
                      Msg("layerCreate", SndNode, NoArg))
    /\ Precedes(sent, Msg("tgCreate", SndNode, NoArg),
                      Msg("layerCreate", SndNode, NoArg))
    /\ Precedes(sent, Msg("tagSet", SndNode, FrameTag),
                      Msg("layerSet", SndNode, NoArg))
    /\ Precedes(sent, Msg("nodeDestroy", SndNode, NoArg), Signal("terminate"))
    /\ Msg("layerCreate", SndNode, NoArg) \in ToSet(sent) <=> snd'.bound /\ ~snd.bound
    /\ snd'.scene /\ ~snd.scene =>
          Msg("nodeLink", SndScene, SceneParent) \in ToSet(sent)
    /\ Msg("tagCreate", SndNode, FrameTag) \in ToSet(sent) => snd.bound
    /\ Signal("terminate") \in ToSet(sent) => snd.scene

LEMMA SndCalls ==
    ASSUME TypeOK, SndInv, NEW sent, Elsewhere, SndGrows, SndTakes, SndSends(sent),
           Added(up[S], sent, up'[S])
    PROVE  SndInv'
<1> DEFINE s == Msg("nodeCreate", SndScene, NoArg)
           m == Msg("nodeCreate", SndNode, NoArg)
           sceneMade == Msg("nodeCreate", SndScene, S)
           nodeMade == Msg("nodeCreate", SndNode, S)
           layer == Msg("layerCreate", SndNode, NoArg)
           frameTag == Msg("tagCreate", SndNode, FrameTag)
           link == Msg("nodeLink", SndScene, SceneParent)
           sub == Msg("nodeSubscribe", S, NoArg)
           follow == Msg("nodeSubscribe", SndNode, NoArg)
           tg == Msg("tgCreate", SndNode, NoArg)
           set == Msg("tagSet", SndNode, FrameTag)
           value == Msg("layerSet", SndNode, NoArg)
           destroy == Msg("nodeDestroy", SndNode, NoArg)
           end == Signal("terminate")
<1>1. /\ tree' = tree /\ nodeSubs' = nodeSubs /\ tgSubs' = tgSubs
      /\ layerSubs' = layerSubs /\ open' = open
      /\ parent' = parent /\ tgs' = tgs /\ tags' = tags /\ tagSet' = tagSet
      /\ layers' = layers /\ layerSet' = layerSet
  BY DEF Elsewhere, tree, subs
<1>2. SndScene' = SndScene /\ SndNode' = SndNode /\ (Unknown' <=> Unknown)
  BY <1>1 DEF SndGrows, SndScene, SndNode, Unknown
<1>3. \A n : SndFinds(n) => SndFinds(n)'
  BY <1>2 DEF SndFinds, SndGrows
<1>4. Up' = Up \cup ToSet(sent) /\ Down' \subseteq Down
  BY DEF Added, SndTakes, Taken, Up, Down
<1>5. /\ \A x \in Up : Len(up[S]) # 0
      /\ \A x \in Down : Len(down[S]) # 0
      /\ \A x \in Down' : Len(down[S]') # 0
      /\ Len(up[S]) \in Nat /\ Len(down[S]) \in Nat /\ Len(down[S]') \in Nat
  <2>1. up[S] \in Seq(Message) /\ down[S] \in Seq(Message) /\ down[S]' \in Seq(Message)
    BY DEF TypeOK, Queues, Elsewhere, S, Client, Sender
  <2> QED
    BY <2>1, QueueSet DEF Up, Down
<1>6. ASSUME Alone PROVE Up = {} /\ Down' = {}
  <2>1. CASE Taken(down[S], down'[S])
    <3>1. Len(down[S]') = Len(down[S]) - 1 /\ Len(up[S]) + Len(down[S]) =< 1
      BY <1>6, <2>1 DEF Taken, Alone
    <3>2. Len(up[S]) = 0 /\ Len(down[S]') = 0
      BY <1>5, <3>1, AtMostOne, Zenon
    <3> QED
      BY <1>5, <3>2
  <2>2. CASE down'[S] = down[S] /\ Len(up[S]) + Len(down[S]) = 0
    <3>1. Len(up[S]) = 0 /\ Len(down[S]') = 0
      BY <1>5, <1>6, <2>2, AtMostOne, Zenon DEF Alone
    <3> QED
      BY <1>5, <3>1
  <2> QED
    BY <1>6, <2>1, <2>2 DEF SndTakes
<1>7. (\A x \in Up : x.op \notin Greeting) /\ \A x \in Down' : x.op \notin Greeting
  BY <1>4, <1>6 DEF SndInv, SndQueues, SndSent, SndTold
<1>8. SndQueues'
  <2>1. ASSUME NEW x \in Up PROVE SndSent(x)'
    <3>1. SndSent(x)
      BY DEF SndInv, SndQueues
    <3>2. x.op = "nodeCreate" => ~SndFinds(x.node)'
      <4>1. ASSUME x.op = "nodeCreate", SndFinds(x.node)' PROVE FALSE
        BY <1>2, <3>1, <4>1 DEF SndSent, SndGrows, SndFinds
      <4> QED
        BY <4>1
    <3> QED
      BY <1>2, <1>3, <1>4, <1>7, <3>1, <3>2 DEF SndSent, SndGrows
  <2>2. ASSUME NEW x \in Down' PROVE SndTold(x)'
    <3>1. SndTold(x)
      BY <1>4 DEF SndInv, SndQueues
    <3> QED
      BY <1>2, <1>3, <1>7, <3>1 DEF SndTold, SndGrows
  <2>3. \A x \in Up' : SndSent(x)'
    BY <1>4, <2>1 DEF SndSends
  <2> QED
    <3>1. /\ \A n \in nodeSubs[S] : n = S \/ SndFinds(n)'
          /\ tgSubs[S] \subseteq snd'.tg
          /\ \A n \in snd'.tg : SndFinds(n)'
          /\ layerSubs[S] = {}
          /\ S \notin open => nodeSubs[S] = {} /\ tgSubs[S] = {}
      BY <1>3 DEF SndInv, SndQueues, SndGrows
    <3> QED
      BY <1>1, <1>2, <2>2, <2>3, <3>1 DEF SndQueues, SndGrows
<1>9. SndBuilds'
  <2>1. Once(up[S]', s) /\ Once(up[S]', m) /\ Once(up[S]', sub)
    <3>1. s.op = "nodeCreate" /\ m.op = "nodeCreate"
      BY DEF Msg
    <3>2. s \in ToSet(sent) \/ m \in ToSet(sent) \/ sub \in ToSet(sent) => Up = {}
      BY <3>1 DEF SndSends
    <3> QED
      BY <3>2 DEF SndInv, SndBuilds, Added, SndSends, Up
  <2>2. snd'.scene \/ Precedes(down[S]', sceneMade, nodeMade)
    BY DEF SndInv, SndBuilds, SndTakes, Taken, SndGrows
  <2>3. S \in open => S \in nodeSubs[S] \/ Precedes(up[S]', sub, s)
    BY DEF SndInv, SndBuilds, SndSends, Added, Up, Msg
  <2>4. S \in open => \/ snd'.scene \/ sceneMade \in Down'
                      \/ Precedes(up[S]', s, m)
    BY DEF SndInv, SndBuilds, SndSends, Added, Up, Down, SndTakes, Taken, SndGrows
  <2> QED
    BY <1>1, <1>2, <2>1, <2>2, <2>3, <2>4 DEF SndBuilds
<1>10. SndLayers'
  <2>1. snd'.layer \/ Precedes(down[S]', layer, frameTag)
    BY DEF SndInv, SndLayers, SndTakes, Taken, SndGrows
  <2>2. ASSUME Serving, snd.bound
        PROVE  /\ \/ snd'.layer
                  \/ layer \in Down'
                  \/ /\ layer \in Up'
                     /\ Precedes(up[S]', layer, frameTag)
                     /\ FrameTag \notin ToSet(tags[SndNode])
               /\ SndNode \in nodeSubs[S] \/ Precedes(up[S]', follow, layer)
    BY <1>4, <2>2 DEF SndInv, SndLayers, SndSends, Added, Up, Down, SndTakes, Taken, SndGrows
  <2>3. ASSUME Serving, ~snd.bound, snd'.bound
        PROVE  /\ layer \in Up'
               /\ Precedes(up[S]', layer, frameTag)
               /\ FrameTag \notin ToSet(tags[SndNode])
               /\ Precedes(up[S]', follow, layer)
    <3>1. layer \notin Up /\ frameTag \notin Up'
      <4>1. layer \notin Up
        BY <2>3 DEF SndInv, SndQueues, SndSent, Msg
      <4>2. frameTag \notin Up
        BY <2>3, SndNodes DEF SndInv, SndQueues, SndSent, Msg, SndFinds, TypeOK
      <4>3. frameTag \notin ToSet(sent)
        BY <2>3 DEF SndSends
      <4> QED
        BY <1>4, <4>1, <4>2, <4>3
    <3>2. FrameTag \notin ToSet(tags[SndNode])
      BY <2>3, SndNodes DEF SndInv, SndStreams, TypeOK
    <3> QED
      BY <1>4, <2>3, <3>1, <3>2, PrecedesNone DEF SndSends, Added, Up
  <2> QED
    BY <1>1, <1>2, <2>1, <2>2, <2>3 DEF SndLayers, Serving, SndGrows
<1>11. SndEnds'
  <2>1. S \in open /\ snd'.scene =>
          \/ parent[SndScene] = SceneParent
          \/ link \in Up' /\ Precedes(up[S]', link, end)
    <3>1. CASE snd.scene
      BY <1>4, <3>1 DEF SndInv, SndEnds, SndSends, Added, Up
    <3>2. CASE ~snd.scene /\ snd'.scene
      <4>1. end \notin Up'
        BY <1>4, <3>2 DEF SndInv, SndQueues, SndSent, SndSends, Signal, Msg
      <4> QED
        BY <1>4, <3>2, <4>1, PrecedesNone DEF SndSends, Up
    <3> QED
      BY <3>1, <3>2
  <2>2. S \in open =>
          \/ parent[SndNode] = Nowhere /\ snd'.bound
          \/ Precedes(up[S]', destroy, end)
    BY DEF SndInv, SndEnds, SndSends, Added, Up, SndGrows
  <2> QED
    BY <1>1, <1>2, <1>4, <2>1, <2>2 DEF SndInv, SndEnds, SndGrows
<1>12. SndStreams'
  <2>1. Serving => SndNode \in tgs \/ Precedes(up[S]', tg, layer)
    <3>1. layer \in Up => snd.bound
      BY DEF SndInv, SndQueues, SndSent, Msg
    <3> QED
      BY <3>1 DEF SndInv, SndStreams, SndSends, Added, Up
  <2>2. Serving => FrameTag \in tagSet \/ Precedes(up[S]', set, value)
    BY DEF SndInv, SndStreams, SndSends, Added, Up
  <2>3. /\ parent[SndNode] # Nowhere
        /\ snd'.run \/ frameTag \in Down'
        => FrameTag \in ToSet(tags[SndNode])
    BY <1>4 DEF SndInv, SndStreams, SndGrows
  <2> QED
    BY <1>1, <1>2, <2>1, <2>2, <2>3 DEF SndInv, SndStreams, SndGrows, Serving
<1> QED
  BY <1>8, <1>9, <1>10, <1>11, <1>12 DEF SndInv

(* The rest of the invariant is not about what the sending client does.    *)
LEMMA SndCalled ==
    ASSUME IInv, UNCHANGED rcv,
           NEW sent, Elsewhere, SndGrows, SndTakes, SndSends(sent),
           Added(up[S], sent, up'[S])
    PROVE  IInv'
<1>1. SndInv /\ RcvInv /\ TypeOK
  BY DEF IInv, SndInv, RcvInv
<1>2. SndInv'
  BY <1>1, SndCalls
<1>3. TypeOK'
  BY <1>1 DEF TypeOK, Elsewhere, SndGrows, Tree, Subscriptions, tree, subs
<1>4. UNCHANGED RcvView
  BY DEF RcvView, Elsewhere, tree, subs
<1>5. RcvInv'
  <2>1. (snd.life > 1 \/ snd.bound) => (snd.life > 1 \/ snd.bound)'
    BY DEF SndGrows
  <2> QED
    BY <1>1, <1>4, <2>1, RcvUntouched
<1> QED
  BY <1>2, <1>3, <1>5 DEF IInv, SndInv, RcvInv

LEMMA Messages ==
    ASSUME NEW op \in Op, NEW n \in Name, NEW a \in Name \cup Tag \cup {NoArg}
    PROVE  Msg(op, n, a) \in Message
BY DEF Msg, Message

LEMMA Fields ==
    \A op, n, a : Msg(op, n, a).op = op /\ Msg(op, n, a).node = n /\ Msg(op, n, a).arg = a
BY DEF Msg

LEMMA Signals ==
    \A op \in Op : Signal(op) \in Message
<1>1. Nowhere \in Name
  BY DEF Name
<1> QED
  BY <1>1, Messages DEF Signal

(* A callback takes its command.                                           *)
LEMMA SndCallback ==
    ASSUME IInv, UNCHANGED rcv,
           NEW op, SndOn(op), NEW sent \in Seq(Message), Handled(S, sent),
           SndGrows, SndSends(sent),
           SndMsg = Msg("nodeCreate", SndScene, S) => snd'.scene,
           SndMsg = Msg("layerCreate", SndNode, NoArg) => snd'.layer
    PROVE  IInv'
<1>1. down[S] # <<>> /\ SndMsg = Head(down[S])
  BY DEF SndOn, Received, SndMsg, S
<1>2. /\ Elsewhere
      /\ Taken(down[S], down'[S]) /\ Added(up[S], sent, up'[S])
  BY <1>1, SndHandling DEF IInv, TypeOK
<1>3. SndTakes
  BY <1>1, <1>2 DEF SndTakes
<1> QED
  BY <1>2, <1>3, SndCalled

(* It may send nothing.                                                    *)
LEMMA SndNothing ==
    ASSUME SndGrows, snd'.scene => snd.scene, snd'.bound => snd.bound
    PROVE  <<>> \in Seq(Message) /\ SndSends(<<>>)
<1>1. /\ \A a : a \notin ToSet(<<>>) /\ Once(<<>>, a)
      /\ \A a, b : Precedes(<<>>, b, a)
  BY Listed, PrecedesNone
<1> QED
  BY <1>1 DEF SndSends

LEMMA SndAsBefore ==
    ASSUME IInv, snd.phase \notin {"new", "crashed"},
           snd' \in Context, snd'.life = snd.life,
           snd'.phase \notin {"new", "crashed"},
           snd'.scene = snd.scene, snd'.bound = snd.bound,
           snd'.tg = snd.tg, snd'.tag = snd.tag, snd'.run = snd.run,
           snd.layer => snd'.layer
    PROVE  SndGrows
BY DEF SndGrows, IInv, SndQueues, SndLayers, SndFinds, SndScene, SndNode

(* Callbacks that send nothing: the layer of the node is remembered.       *)
LEMMA SndQuiet ==
    ASSUME IInv, UNCHANGED rcv,
           NEW op, SndOn(op), Handled(S, <<>>),
           snd' \in Context, snd'.life = snd.life,
           snd'.phase \notin {"new", "crashed"},
           snd'.scene = snd.scene, snd'.bound = snd.bound,
           snd'.tg = snd.tg, snd'.tag = snd.tag, snd'.run = snd.run,
           snd.layer => snd'.layer,
           SndMsg = Msg("nodeCreate", SndScene, S) => snd.scene,
           SndMsg = Msg("layerCreate", SndNode, NoArg) => snd'.layer
    PROVE  IInv'
<1>1. SndGrows
  BY SndAsBefore DEF SndOn
<1>2. <<>> \in Seq(Message) /\ SndSends(<<>>)
  BY <1>1, SndNothing
<1> QED
  BY <1>1, <1>2, SndCallback

(* A callback that only returns does not miss what it is waiting for.      *)
LEMMA SndReturnsHolds ==
    ASSUME IInv, UNCHANGED rcv, NEW op, SndOn(op), SndReturns,
           SndMsg = Msg("nodeCreate", SndScene, S) => snd.scene,
           SndMsg.op # "layerCreate"
    PROVE  IInv'
<1>1. Handled(S, <<>>) /\ snd' = snd
  BY DEF SndReturns, S
<1>2. snd \in Context /\ SndMsg # Msg("layerCreate", SndNode, NoArg)
  BY Fields DEF IInv, TypeOK
<1>3. snd.phase = "on"
  BY DEF SndOn
<1> QED
  BY <1>1, <1>2, <1>3, SndQuiet

LEMMA SndIgnoresHolds ==
    ASSUME IInv, UNCHANGED rcv, SndIgnores PROVE IInv'
<1>1. PICK op \in {"nodeLink", "nodeDestroy"} : SndOn(op) /\ SndReturns
  BY DEF SndIgnores
<1>2. SndMsg.op = op
  BY <1>1 DEF SndOn, Received, SndMsg
<1> QED
  BY <1>1, <1>2, SndReturnsHolds DEF Msg

LEMMA SndTerminatedHolds ==
    ASSUME IInv, UNCHANGED rcv, SndTerminated PROVE IInv'
<1>1. /\ SndOn("terminate") /\ SndMsg.op = "terminate" /\ Handled(S, <<>>)
      /\ snd' = [snd EXCEPT !.phase = "exited"]
  BY DEF SndTerminated, SndOn, Received, SndMsg, S
<1>2. snd \in Context
  BY DEF IInv, TypeOK
<1>3. /\ snd' \in Context /\ snd'.life = snd.life /\ snd'.phase = "exited"
      /\ snd'.scene = snd.scene /\ snd'.bound = snd.bound
      /\ snd'.tg = snd.tg /\ snd'.tag = snd.tag /\ snd'.run = snd.run
      /\ snd'.layer = snd.layer
  BY <1>1, <1>2 DEF Context, Phase
<1>4. /\ SndMsg # Msg("nodeCreate", SndScene, S)
      /\ SndMsg # Msg("layerCreate", SndNode, NoArg)
  BY <1>1, Fields
<1> QED
  BY <1>1, <1>3, <1>4, SndQuiet

LEMMA SndLayerCreatedHolds ==
    ASSUME IInv, UNCHANGED rcv, SndLayerCreated PROVE IInv'
<1>1. SndOn("layerCreate") /\ SndMsg.op = "layerCreate" /\ SndMsg \in Down
  <2>1. down[S] \in Seq(Message) /\ down[S] # <<>>
    BY DEF IInv, TypeOK, Queues, S, Client, Sender, SndLayerCreated, SndOn, Received
  <2>2. SndMsg \in Down
    BY <2>1, QueueTail DEF SndMsg, S, Down
  <2> QED
    BY <2>2 DEF SndLayerCreated, SndOn, Received, SndMsg
<1>2. SndFinds(SndMsg.node)
  BY <1>1 DEF IInv, SndQueues, SndTold
<1>3. snd' = [snd EXCEPT !.layer = TRUE] /\ Handled(S, <<>>)
  BY <1>2 DEF SndLayerCreated, S
<1>4. snd \in Context
  BY DEF IInv, TypeOK
<1>5. /\ snd' \in Context /\ snd'.life = snd.life /\ snd'.phase = snd.phase
      /\ snd'.scene = snd.scene /\ snd'.bound = snd.bound
      /\ snd'.tg = snd.tg /\ snd'.tag = snd.tag /\ snd'.run = snd.run
      /\ snd'.layer
  BY <1>3, <1>4 DEF Context
<1>6. SndMsg # Msg("nodeCreate", SndScene, S) /\ snd.phase = "on"
  BY <1>1 DEF Msg, SndOn
<1> QED
  BY <1>1, <1>3, <1>5, <1>6, SndQuiet

(* The order of the few commands that a callback sends.                    *)
LEMMA InOrder ==
    /\ \A x, b, a : x # a => Precedes(<<x>>, b, a)
    /\ \A x, y, b, a :
          x # a /\ (x = b \/ y # a) => Precedes(<<x, y>>, b, a)
    /\ \A x, y, z, b, a :
          x # a /\ (x = b \/ (y # a /\ (y = b \/ z # a)))
             => Precedes(<<x, y, z>>, b, a)
    /\ \A w, x, y, z, b, a :
          w # a /\ (w = b \/ (x # a /\ (x = b \/ (y # a /\ (y = b \/ z # a)))))
             => Precedes(<<w, x, y, z>>, b, a)
<1>1. ASSUME NEW x, NEW b, NEW a, x # a PROVE Precedes(<<x>>, b, a)
  BY <1>1 DEF Precedes
<1>2. ASSUME NEW x, NEW y, NEW b, NEW a, x # a /\ (x = b \/ y # a)
      PROVE  Precedes(<<x, y>>, b, a)
  BY <1>2 DEF Precedes
<1>3. ASSUME NEW x, NEW y, NEW z, NEW b, NEW a,
             x # a /\ (x = b \/ (y # a /\ (y = b \/ z # a)))
      PROVE  Precedes(<<x, y, z>>, b, a)
  BY <1>3 DEF Precedes
<1>4. ASSUME NEW w, NEW x, NEW y, NEW z, NEW b, NEW a,
             w # a /\ (w = b \/ (x # a /\ (x = b \/ (y # a /\ (y = b \/ z # a)))))
      PROVE  Precedes(<<w, x, y, z>>, b, a)
  BY <1>4 DEF Precedes
<1> QED
  BY <1>1, <1>2, <1>3, <1>4

LEMMA OnlyOnce ==
    \A x, y, z, a :
       (x # a /\ y # a) \/ (x # a /\ z # a) \/ (y # a /\ z # a)
          => Once(<<x, y, z>>, a)
BY DEF Once

(* Operations, nodes and arguments are told apart.                         *)
LEMMA Different ==
    \A op1, n1, a1, op2, n2, a2 :
       Msg(op1, n1, a1) = Msg(op2, n2, a2) => op1 = op2 /\ n1 = n2 /\ a1 = a2
BY DEF Msg

LEMMA SndNames ==
    ASSUME snd \in Context
    PROVE  /\ {S, R, SceneParent, SndScene, SndNode} \subseteq Name
           /\ NoArg \in Name \cup Tag \cup {NoArg}
           /\ S \in Name \cup Tag \cup {NoArg}
           /\ {SceneParent, SndScene, FrameTag} \subseteq Name \cup Tag \cup {NoArg}
           /\ Tag \subseteq Name \cup Tag \cup {NoArg}
           /\ S # NoArg /\ SndScene # S /\ SndNode # S
           /\ SndScene # SndNode
<1>1. S # NoArg
  BY DEF S, Sender, NoArg
<1> QED
  BY <1>1, SndNodes DEF Name, Tag, S, R

(* Commands whose place does not matter.                                   *)
LEMMA SndOrdinary ==
    ASSUME NEW sent, snd'.bound => snd.bound,
           snd'.scene /\ ~snd.scene =>
              Msg("nodeLink", SndScene, SceneParent) \in ToSet(sent),
           \A x \in ToSet(sent) :
              /\ SndSent(x)'
              /\ x.op \notin {"nodeCreate", "layerCreate", "layerSet", "terminate"}
              /\ x.op = "nodeSubscribe" => x.node # S
              /\ x = Msg("tagCreate", SndNode, FrameTag) => snd.bound
    PROVE  SndSends(sent)
<1>1. \A a : a.op \in {"nodeCreate", "layerCreate", "layerSet", "terminate"} =>
         a \notin ToSet(sent)
  OBVIOUS
<1>2. /\ Msg("nodeCreate", SndScene, NoArg) \notin ToSet(sent)
      /\ Msg("nodeCreate", SndNode, NoArg) \notin ToSet(sent)
      /\ Msg("layerCreate", SndNode, NoArg) \notin ToSet(sent)
      /\ Msg("layerSet", SndNode, NoArg) \notin ToSet(sent)
      /\ Signal("terminate") \notin ToSet(sent)
      /\ Msg("nodeSubscribe", S, NoArg) \notin ToSet(sent)
  BY <1>1, Fields DEF Signal
<1> QED
  BY <1>1, <1>2, PrecedesNone DEF SndSends

LEMMA SndConnectsHolds ==
    ASSUME IInv, UNCHANGED rcv, SndConnects PROVE IInv'
<1> DEFINE sent == <<Signal("connect")>>
<1>1. /\ snd.phase = "new" /\ Send(S, sent) /\ snd \in Context
      /\ snd' = [snd EXCEPT !.phase = "on"]
  BY DEF SndConnects, S, IInv, TypeOK
<1>2. sent \in Seq(Message)
  BY Signals DEF Op
<1>3. Elsewhere /\ down' = down /\ Added(up[S], sent, up'[S])
  BY <1>1, <1>2, SndSending DEF IInv, TypeOK
<1>4. /\ ~snd.scene /\ ~snd.bound /\ snd.tg = {} /\ ~snd.run /\ ~snd.layer
      /\ up[S] = <<>> /\ down[S] = <<>> /\ Unknown
  BY <1>1 DEF IInv, SndQueues, Life
<1>5. /\ snd' \in Context /\ snd'.life = snd.life /\ snd'.phase = "on"
      /\ snd'.scene = snd.scene /\ snd'.bound = snd.bound
      /\ snd'.tg = snd.tg /\ snd'.run = snd.run
      /\ snd'.layer = snd.layer
  BY <1>1 DEF Context, Phase
<1>6. SndGrows
  BY <1>4, <1>5 DEF SndGrows
<1>7. SndTakes
  BY <1>3, <1>4, Listed DEF SndTakes
<1>8. Alone'
  <2>1. Len(up[S]') = 1 /\ Len(down[S]') = 0
    BY <1>3, <1>4, Listed DEF Added
  <2>2. Unknown'
    BY <1>3, <1>4, <1>5 DEF Unknown, Elsewhere, tree, subs, SndScene, SndNode
  <2> QED
    BY <1>4, <1>5, <2>1, <2>2 DEF Alone
<1>9. SndSends(sent)
  <2>1. ToSet(sent) = {Signal("connect")} /\ Signal("connect").op = "connect"
    BY Listed, Fields DEF Signal
  <2>2. SndSent(Signal("connect"))'
    BY <1>8, <2>1, Fields DEF SndSent, Greeting, Signal
  <2> HIDE DEF sent
  <2> QED
    BY <1>5, <2>1, <2>2, SndOrdinary, Fields
<1> QED
  BY <1>3, <1>6, <1>7, <1>9, SndCalled

LEMMA SndAuthenticatesHolds ==
    ASSUME IInv, UNCHANGED rcv, SndAuthenticates PROVE IInv'
<1>1. PICK op \in {"askName", "askPassword"}, reply \in {"name", "password"} :
         SndOn(op) /\ Handled(S, <<Signal(reply)>>) /\ snd' = snd
  BY DEF SndAuthenticates, S
<1> DEFINE sent == <<Signal(reply)>>
<1>2. sent \in Seq(Message) /\ snd \in Context /\ Queues
  BY Signals DEF Op, IInv, TypeOK
<1>3. down[S] # <<>> /\ SndMsg = Head(down[S]) /\ SndMsg.op = op /\ SndMsg \in Down
  <2>1. down[S] # <<>> /\ SndMsg = Head(down[S]) /\ SndMsg.op = op
    BY <1>1 DEF SndOn, Received, SndMsg, S
  <2>2. down[S] \in Seq(Message)
    BY <1>2 DEF Queues, S, Client
  <2> QED
    BY <2>1, <2>2, QueueTail DEF Down
<1>4. /\ Elsewhere
      /\ Taken(down[S], down'[S]) /\ Added(up[S], sent, up'[S])
  BY <1>1, <1>2, <1>3, SndHandling
<1>5. Alone
  BY <1>3 DEF IInv, SndQueues, SndTold, Greeting
<1>6. Alone'
  <2>1. /\ up[S] \in Seq(Message) /\ down[S] \in Seq(Message)
        /\ up[S]' \in Seq(Message) /\ down[S]' \in Seq(Message)
    BY <1>2, <1>4 DEF Queues, S, Client, Elsewhere
  <2>2. Len(up[S]) = 0 /\ Len(down[S]') = 0
    <3>1. Len(up[S]) + Len(down[S]) =< 1 /\ Len(down[S]') = Len(down[S]) - 1
      BY <1>4, <1>5 DEF Alone, Taken
    <3> QED
      BY <2>1, <3>1, QueueSet, AtMostOne, Zenon
  <2>3. Len(up[S]') = 1
    BY <1>4, <2>2, Listed DEF Added
  <2>4. Unknown'
    BY <1>1, <1>4, <1>5 DEF Alone, Unknown, Elsewhere, tree, subs, SndScene, SndNode
  <2> QED
    BY <1>1, <1>5, <2>2, <2>3, <2>4 DEF Alone
<1>7. SndGrows
  BY <1>1, <1>2, SndAsBefore DEF SndOn
<1>8. SndSends(sent)
  <2>1. ToSet(sent) = {Signal(reply)} /\ Signal(reply).op = reply
    BY Listed, Fields DEF Signal
  <2>2. SndSent(Signal(reply))'
    BY <1>6, <2>1, Fields DEF SndSent, Greeting, Signal
  <2> HIDE DEF sent
  <2> QED
    BY <1>1, <2>1, <2>2, SndOrdinary, Fields
<1>9. SndMsg # Msg("nodeCreate", SndScene, S) /\ SndMsg # Msg("layerCreate", SndNode, NoArg)
  BY <1>3, Fields
<1> QED
  BY <1>1, <1>2, <1>7, <1>8, <1>9, SndCallback

LEMMA SndHead ==
    ASSUME IInv, NEW op, SndOn(op)
    PROVE  /\ down[S] # <<>> /\ SndMsg = Head(down[S]) /\ SndMsg \in Down
           /\ SndMsg.op = op /\ SndTold(SndMsg) /\ SndMsg \in Message
           /\ SndMsg = Msg(op, SndMsg.node, SndMsg.arg)
           /\ snd.phase = "on" /\ snd \in Context
<1>1. down[S] # <<>> /\ SndMsg = Head(down[S]) /\ SndMsg.op = op /\ snd.phase = "on"
  BY DEF SndOn, Received, SndMsg, S
<1>2. down[S] \in Seq(Message) /\ snd \in Context
  BY DEF IInv, TypeOK, Queues, S, Client
<1>3. SndMsg \in Down /\ SndMsg \in Message
  BY <1>1, <1>2, QueueTail DEF Down
<1>4. SndMsg = Msg(op, SndMsg.node, SndMsg.arg)
  BY <1>1, <1>3 DEF Message, Msg
<1> QED
  BY <1>1, <1>2, <1>3, <1>4 DEF IInv, SndQueues

(* The answer to a greeting is alone on its way.                           *)
LEMMA SndGreeted ==
    ASSUME IInv, NEW op \in Greeting, SndOn(op), NEW sent, Handled(S, sent),
           sent \in Seq(Message)
    PROVE  Alone /\ Up = {} /\ Down' = {}
<1>1. Alone
  BY SndHead DEF SndTold
<1>2. /\ Queues /\ Queues' /\ Taken(down[S], down'[S])
  BY SndHead, SndHandling DEF IInv, TypeOK, Elsewhere
<1>3. /\ up[S] \in Seq(Message) /\ down[S] \in Seq(Message)
      /\ down[S]' \in Seq(Message)
  BY <1>2 DEF Queues, S, Client
<1>4. Len(up[S]) = 0 /\ Len(down[S]') = 0
  <2>1. Len(up[S]) + Len(down[S]) =< 1 /\ Len(down[S]') = Len(down[S]) - 1
    BY <1>1, <1>2 DEF Alone, Taken
  <2> QED
    BY <1>3, <2>1, QueueSet, AtMostOne, Zenon
<1> QED
  BY <1>1, <1>3, <1>4, QueueSet DEF Up, Down

LEMMA SndAcceptedHolds ==
    ASSUME IInv, UNCHANGED rcv, SndAccepted PROVE IInv'
<1> DEFINE sub == Msg("nodeSubscribe", S, NoArg)
           s == Msg("nodeCreate", SndScene, NoArg)
           m == Msg("nodeCreate", SndNode, NoArg)
           sent == <<sub, s, m>>
<1>1. SndOn("accept") /\ Handled(S, sent) /\ snd' = snd
  BY DEF SndAccepted, S
<1>2. snd \in Context /\ snd.phase = "on" /\ SndMsg.op = "accept"
  BY <1>1, SndHead
<1>3. sent \in Seq(Message)
  <2>1. sub \in Message /\ s \in Message /\ m \in Message
    BY <1>2, SndNames, Messages DEF Op
  <2> QED
    BY <2>1
<1>4. Alone /\ Up = {} /\ Down' = {}
  BY <1>1, <1>3, SndGreeted DEF Greeting
<1>5. ~snd.scene /\ ~snd.bound /\ \A n : ~SndFinds(n)
  BY <1>4 DEF Alone, SndFinds
<1>6. SndGrows
  BY <1>1, <1>2, SndAsBefore
<1>7. SndScene # SndNode /\ sub # s /\ sub # m /\ s # m
  BY <1>2, SndNames, Different
<1>8. SndSends(sent)
  <2>1. ToSet(sent) = {sub, s, m}
    BY Listed
  <2>2. /\ sub.op = "nodeSubscribe" /\ sub.node = S
        /\ s.op = "nodeCreate" /\ s.node = SndScene /\ s.arg = NoArg
        /\ m.op = "nodeCreate" /\ m.node = SndNode /\ m.arg = NoArg
    BY Fields
  <2>3. SndScene' = SndScene /\ SndNode' = SndNode /\ \A n : ~SndFinds(n)'
    BY <1>1, <1>5 DEF SndScene, SndNode, SndFinds
  <2>4. \A x \in ToSet(sent) : SndSent(x)'
    <3>1. ASSUME NEW x, x = sub PROVE SndSent(x)'
      <4>1. Elsewhere
        BY <1>1, <1>3, SndHead, SndHandling DEF IInv, TypeOK
      <4>2. Unknown'
        BY <1>4, <2>3, <4>1 DEF Alone, Unknown, Elsewhere, tree, subs
      <4>3. x.op = "nodeSubscribe" /\ x.node = S /\ x.arg = NoArg
        BY <3>1, Fields
      <4> QED
        BY <4>2, <4>3, Fields DEF SndSent, Greeting
    <3>2. ASSUME NEW x, x = s \/ x = m PROVE SndSent(x)'
      BY <1>4, <2>2, <2>3, <3>2, Fields DEF SndSent, Greeting
    <3> QED
      BY <2>1, <3>1, <3>2
  <2>5. /\ Once(sent, sub) /\ Once(sent, s) /\ Once(sent, m)
        /\ Precedes(sent, sub, s) /\ Precedes(sent, s, m)
    BY <1>7, OnlyOnce, InOrder
  <2>6. \A op \in {"layerCreate", "layerSet", "terminate", "tagCreate"} : \A n, a :
           Msg(op, n, a) \notin ToSet(sent)
    BY <2>1, Different
  <2> HIDE DEF sent, sub, s, m
  <2>7. /\ Msg("layerCreate", SndNode, NoArg) \notin ToSet(sent)
        /\ Msg("layerSet", SndNode, NoArg) \notin ToSet(sent)
        /\ Msg("tagCreate", SndNode, FrameTag) \notin ToSet(sent)
        /\ Signal("terminate") \notin ToSet(sent)
    BY <2>6 DEF Signal
  <2> QED
    BY <1>1, <1>4, <2>4, <2>5, <2>7, PrecedesNone DEF SndSends, sub, s, m
<1>9. SndMsg # Msg("nodeCreate", SndScene, S) /\ SndMsg # Msg("layerCreate", SndNode, NoArg)
  BY <1>2, Fields
<1> HIDE DEF sent
<1> QED
  BY <1>1, <1>3, <1>6, <1>8, <1>9, SndCallback

LEMMA SndSceneCreatedHolds ==
    ASSUME IInv, UNCHANGED rcv, SndSceneCreated PROVE IInv'
<1>1. /\ SndOn("nodeCreate") /\ SndMsg.node \in Scenes
      /\ SndMsg.op = "nodeCreate" /\ SndTold(SndMsg) /\ SndMsg \in Down
      /\ SndMsg = Msg("nodeCreate", SndMsg.node, SndMsg.arg)
      /\ snd \in Context /\ snd.phase = "on"
  BY SndHead DEF SndSceneCreated
<1>2. CASE SndReturns /\ (SndMsg.arg # S \/ snd.scene)
  <2>1. SndMsg = Msg("nodeCreate", SndScene, S) => snd.scene
    BY <1>2, Fields
  <2> QED
    BY <1>1, <1>2, <2>1, SndReturnsHolds
<1>3. CASE SndMsg.arg = S /\ ~snd.scene
  <2> DEFINE link == Msg("nodeLink", SndScene, SceneParent)
             follow == Msg("nodeSubscribe", SndScene, NoArg)
             tg == Msg("tgCreate", SndScene, NoArg)
             sent == <<link, follow, tg>>
  <2>1. /\ snd' = [snd EXCEPT !.scene = TRUE] /\ Handled(S, sent)
    BY <1>3 DEF SndSceneCreated, S
  <2>2. SndMsg = Msg("nodeCreate", SndScene, S)
    <3>1. SndMsg.node = SndScene
      BY <1>1, <1>3, SndNodes DEF SndTold
    <3> QED
      BY <1>1, <1>3, <3>1
  <2>3. sent \in Seq(Message)
    <3>1. link \in Message /\ follow \in Message /\ tg \in Message
      BY <1>1, SndNames, Messages DEF Op
    <3> QED
      BY <3>1
  <2>4. /\ snd' \in Context /\ snd'.life = snd.life /\ snd'.phase = "on"
        /\ snd'.scene /\ snd'.bound = snd.bound
        /\ snd'.tg = snd.tg /\ snd'.tag = snd.tag /\ snd'.run = snd.run
        /\ snd'.layer = snd.layer
    BY <1>1, <2>1 DEF Context
  <2>5. SndGrows
    <3>1. /\ \A n \in snd'.tg : SndFinds(n)'
          /\ snd'.run => snd'.bound /\ snd'.layer
                   /\ SndNode \in snd'.tg /\ FrameTag \in snd'.tag
      BY <2>4 DEF IInv, SndQueues, SndLayers, SndFinds, SndScene, SndNode
    <3> QED
      BY <1>1, <2>2, <2>4, <3>1 DEF SndGrows
  <2>6. SndSends(sent)
    <3>1. ToSet(sent) = {link, follow, tg}
      BY Listed
    <3>2. /\ link.op = "nodeLink"
          /\ follow.op = "nodeSubscribe" /\ follow.node = SndScene
          /\ tg.op = "tgCreate" /\ tg.node = SndScene
      BY Fields
    <3>3. SndScene' = SndScene /\ SndFinds(SndScene)'
      BY <2>4 DEF SndScene, SndFinds
    <3>4. ASSUME NEW x \in {link, follow, tg} PROVE SndSent(x)'
      <4>1. ASSUME x = link PROVE SndSent(x)'
        BY <2>4, <3>2, <3>3, <4>1, Fields DEF SndSent, Greeting
      <4>2. ASSUME x = follow \/ x = tg PROVE SndSent(x)'
        BY <3>2, <3>3, <4>2, Fields DEF SndSent, Greeting
      <4> QED
        BY <4>1, <4>2
    <3>5. \A x \in ToSet(sent) :
             /\ SndSent(x)'
             /\ x.op \notin {"nodeCreate", "layerCreate", "layerSet", "terminate"}
             /\ x # Msg("tagCreate", SndNode, FrameTag)
             /\ x.op = "nodeSubscribe" => x.node # S
      <4>1. SndScene # S
        BY <1>1, SndNames
      <4> QED
        BY <3>1, <3>2, <3>4, <4>1, Fields
    <3>6. link \in ToSet(sent)
      BY <3>1
    <3> HIDE DEF sent
    <3> QED
      BY <2>4, <3>5, <3>6, SndOrdinary
  <2>7. SndMsg # Msg("layerCreate", SndNode, NoArg)
    BY <1>1, Fields
  <2> HIDE DEF sent
  <2> QED
    BY <1>1, <2>1, <2>3, <2>4, <2>5, <2>6, <2>7, SndCallback
<1> QED
  BY <1>2, <1>3 DEF SndSceneCreated, S

LEMMA SndSenderCreatedHolds ==
    ASSUME IInv, UNCHANGED rcv, SndSenderCreated PROVE IInv'
<1>1. /\ SndOn("nodeCreate") /\ SndMsg.node \in SenderNodes
      /\ SndMsg.op = "nodeCreate" /\ SndTold(SndMsg) /\ SndMsg \in Down
      /\ SndMsg = Msg("nodeCreate", SndMsg.node, SndMsg.arg)
      /\ snd \in Context /\ snd.phase = "on"
      /\ down[S] # <<>> /\ SndMsg = Head(down[S])
  BY SndHead DEF SndSenderCreated
<1>2. SndMsg # Msg("nodeCreate", SndScene, S)
  BY <1>1, SndNodes, Fields
<1>3. CASE SndReturns /\ (SndMsg.arg # S \/ snd.bound)
  BY <1>1, <1>2, <1>3, SndReturnsHolds
<1>4. CASE SndMsg.arg = S /\ ~snd.bound
  <2> DEFINE follow == Msg("nodeSubscribe", SndNode, NoArg)
             link == Msg("nodeLink", SndNode, SndScene)
             tg == Msg("tgCreate", SndNode, NoArg)
             layer == Msg("layerCreate", SndNode, NoArg)
             sent == <<follow, link, tg, layer>>
  <2>1. SndMsg = Msg("nodeCreate", SndNode, S)
    <3>1. SndMsg.node = SndNode
      BY <1>1, <1>4, SndNodes DEF SndTold
    <3> QED
      BY <1>1, <1>4, <3>1
  <2>2. snd.scene
    <3>1. down[S] \in Seq(Message)
      BY DEF IInv, TypeOK, Queues, S, Client
    <3>2. Taken(down[S], Tail(down[S]))
      BY <1>1, <3>1, TakenTail
    <3> QED
      BY <1>1, <2>1, <3>2 DEF Taken, IInv, SndBuilds
  <2>3. /\ snd' = [snd EXCEPT !.bound = TRUE] /\ Handled(S, sent)
    BY <1>4, <2>2 DEF SndSenderCreated, S
  <2>4. sent \in Seq(Message)
    <3>1. follow \in Message /\ link \in Message /\ tg \in Message /\ layer \in Message
      BY <1>1, SndNames, Messages DEF Op
    <3> QED
      BY <3>1
  <2>5. /\ snd' \in Context /\ snd'.life = snd.life /\ snd'.phase = "on"
        /\ snd'.scene = snd.scene /\ snd'.bound
        /\ snd'.tg = snd.tg /\ snd'.tag = snd.tag /\ snd'.run = snd.run
        /\ snd'.layer = snd.layer
    BY <1>1, <2>3 DEF Context
  <2>6. SndGrows
    <3>1. /\ \A n \in snd'.tg : SndFinds(n)'
          /\ snd'.run => snd'.bound /\ snd'.layer
                   /\ SndNode \in snd'.tg /\ FrameTag \in snd'.tag
      BY <2>5 DEF IInv, SndQueues, SndLayers, SndFinds, SndScene, SndNode
    <3> QED
      BY <1>1, <2>1, <2>2, <2>5, <3>1 DEF SndGrows
  <2>7. SndSends(sent)
    <3>1. ToSet(sent) = {follow, link, tg, layer}
      BY Listed
    <3>2. /\ follow.op = "nodeSubscribe" /\ follow.node = SndNode
          /\ link.op = "nodeLink"
          /\ tg.op = "tgCreate" /\ tg.node = SndNode
          /\ layer.op = "layerCreate" /\ layer.node = SndNode /\ layer.arg = NoArg
      BY Fields
    <3>3. SndNode' = SndNode /\ SndScene' = SndScene /\ SndFinds(SndNode)'
      BY <2>5 DEF SndNode, SndScene, SndFinds
    <3>4. ASSUME NEW x \in {follow, link, tg, layer} PROVE SndSent(x)'
      <4>1. ASSUME x = link PROVE SndSent(x)'
        BY <2>5, <3>2, <3>3, <4>1, Fields DEF SndSent, Greeting
      <4>2. ASSUME x = follow \/ x = tg PROVE SndSent(x)'
        BY <3>2, <3>3, <4>2, Fields DEF SndSent, Greeting
      <4>3. ASSUME x = layer PROVE SndSent(x)'
        BY <2>5, <3>2, <3>3, <4>3, Fields DEF SndSent, Greeting
      <4> QED
        BY <4>1, <4>2, <4>3
    <3>5. follow # layer /\ link # layer /\ tg # layer
      BY <3>2
    <3>6. Precedes(sent, follow, layer) /\ Precedes(sent, tg, layer)
      BY <3>5, InOrder
    <3>7. \A op \in {"nodeCreate", "layerSet", "terminate", "tagCreate"} : \A n, a :
             Msg(op, n, a) \notin ToSet(sent)
      BY <3>1, Different
    <3>8. \A x \in ToSet(sent) : x.op # "nodeCreate" /\ x # Msg("nodeSubscribe", S, NoArg)
      <4>1. SndNode # S
        BY <1>1, SndNames
      <4> QED
        BY <3>1, <3>2, <4>1, Fields
    <3> HIDE DEF sent, follow, link, tg, layer
    <3>9. /\ Msg("nodeCreate", SndScene, NoArg) \notin ToSet(sent)
          /\ Msg("nodeCreate", SndNode, NoArg) \notin ToSet(sent)
          /\ Msg("layerSet", SndNode, NoArg) \notin ToSet(sent)
          /\ Msg("tagCreate", SndNode, FrameTag) \notin ToSet(sent)
          /\ Signal("terminate") \notin ToSet(sent)
      BY <3>7 DEF Signal
    <3> QED
      BY <1>4, <2>2, <2>5, <3>1, <3>4, <3>6, <3>8, <3>9, PrecedesNone
         DEF SndSends, follow, tg, layer
  <2>8. SndMsg # Msg("layerCreate", SndNode, NoArg)
    BY <1>1, Fields
  <2> HIDE DEF sent
  <2> QED
    BY <1>1, <1>2, <2>3, <2>4, <2>6, <2>7, <2>8, SndCallback
<1> QED
  BY <1>3, <1>4 DEF SndSenderCreated, S

(* The tags that are created in a tag group.                               *)
LEMMA CreatedTags ==
    ASSUME snd \in Context, NEW n \in {SndScene, SndNode}
    PROVE  /\ CreateTags(n) \in Seq(Message)
           /\ \A x \in ToSet(CreateTags(n)) :
                 \E t \in Tag : /\ x = Msg("tagCreate", n, t)
                                /\ t = FrameTag => n = SndNode
<1> DEFINE names == IF n \in Scenes THEN SceneTags ELSE <<FrameTag>> \o OtherTags
<1>1. names \in Seq(Tag) /\ (n \in Scenes => FrameTag \notin ToSet(names))
  <2>1. FrameTag \in Tag
    BY DEF Tag
  <2> QED
    BY <2>1, TagSequences, SenderSessionAssumption
<1>2. n \notin Scenes => n = SndNode
  BY SndNodes
<1>3. n \in Scenes => n # SndNode
  BY SndNodes
<1> HIDE DEF names
<1>4. names \in [1 .. Len(names) -> Tag] /\ Len(names) \in Nat
      /\ DOMAIN names = 1 .. Len(names)
  BY <1>1
<1>5. CreateTags(n) = [i \in 1 .. Len(names) |-> Msg("tagCreate", n, names[i])]
  BY <1>4 DEF CreateTags, names
<1>6. \A i \in 1 .. Len(names) :
         names[i] \in Tag /\ Msg("tagCreate", n, names[i]) \in Message
  <2>1. n \in Name /\ "tagCreate" \in Op /\ Tag \subseteq Name \cup Tag \cup {NoArg}
    BY SndNames DEF Op
  <2>2. \A t \in Tag : Msg("tagCreate", n, t) \in Message
    BY <2>1, Messages
  <2> QED
    BY <1>4, <2>2
<1>7. CreateTags(n) \in Seq(Message)
  BY <1>4, <1>5, <1>6
<1>8. \A i \in 1 .. Len(names) : names[i] = FrameTag => n = SndNode
  BY <1>1, <1>2, <1>4 DEF ToSet
<1>9. \A x \in ToSet(CreateTags(n)) : \E i \in 1 .. Len(names) :
         x = Msg("tagCreate", n, names[i])
  BY <1>5 DEF ToSet
<1> QED
  BY <1>4, <1>7, <1>8, <1>9

LEMMA SndTagGroupCreatedHolds ==
    ASSUME IInv, UNCHANGED rcv, SndTagGroupCreated PROVE IInv'
<1> DEFINE n == SndMsg.node
           follow == Msg("tgSubscribe", n, NoArg)
           sent == <<follow>> \o CreateTags(n)
<1>1. /\ SndOn("tgCreate")
      /\ SndMsg.op = "tgCreate" /\ SndTold(SndMsg)
      /\ snd \in Context /\ snd.phase = "on"
  BY SndHead DEF SndTagGroupCreated
<1>2. SndFinds(n) /\ n \in {SndScene, SndNode}
  BY <1>1 DEF SndTold, SndFinds
<1>3. snd' = [snd EXCEPT !.tg = @ \cup {n}] /\ Handled(S, sent)
  BY <1>2 DEF SndTagGroupCreated, S
<1>4. /\ follow \in Message /\ n \in Node /\ CreateTags(n) \in Seq(Message)
      /\ <<follow>> \in Seq(Message)
  <2>1. n \in Name /\ n \in Node /\ NoArg \in Name \cup Tag \cup {NoArg}
    BY <1>1, <1>2, SndNames, SndNodes
  <2>2. follow \in Message
    BY <2>1, Messages DEF Op
  <2> QED
    BY <1>1, <1>2, <2>1, <2>2, CreatedTags
<1>5. sent \in Seq(Message) /\ ToSet(sent) = {follow} \cup ToSet(CreateTags(n))
  <2>1. ToSet(<<follow>>) = {follow}
    BY Listed
  <2> HIDE DEF follow
  <2> QED
    BY <1>4, <2>1, QueueConcat
<1>6. /\ snd' \in Context /\ snd'.life = snd.life /\ snd'.phase = "on"
      /\ snd'.scene = snd.scene /\ snd'.bound = snd.bound
      /\ snd'.tg = snd.tg \cup {n} /\ snd'.tag = snd.tag /\ snd'.run = snd.run
      /\ snd'.layer = snd.layer
  BY <1>1, <1>3, <1>4 DEF Context
<1>7. (\A k : SndFinds(k)' <=> SndFinds(k)) /\ SndNode' = SndNode /\ SndScene' = SndScene
  BY <1>2, <1>6 DEF SndFinds, SndNode, SndScene
<1>8. SndGrows
  <2>1. /\ \A k \in snd'.tg : SndFinds(k)'
        /\ snd'.run => snd'.bound /\ snd'.layer
                 /\ SndNode \in snd'.tg /\ FrameTag \in snd'.tag
    BY <1>2, <1>6, <1>7 DEF IInv, SndQueues, SndLayers, SndFinds
  <2> QED
    BY <1>1, <1>6, <2>1 DEF SndGrows, IInv, SndQueues
<1>9. SndSends(sent)
  <2>1. ASSUME NEW x, x = follow PROVE SndSent(x)'
    <3>1. x.op = "tgSubscribe" /\ x.node = n
      BY <2>1, Fields
    <3>2. n \in snd'.tg
      BY <1>6
    <3> HIDE DEF n
    <3> QED
      BY <1>2, <1>7, <3>1, <3>2, Fields DEF SndSent, Greeting
  <2>2. ASSUME NEW x \in ToSet(CreateTags(n))
        PROVE SndSent(x)' /\ x.op = "tagCreate" /\ (x = Msg("tagCreate", SndNode, FrameTag) => snd.bound)
    <3>1. PICK t \in Tag : x = Msg("tagCreate", n, t) /\ (t = FrameTag => n = SndNode)
      BY <1>1, <1>2, CreatedTags
    <3>2. x.op = "tagCreate" /\ x.node = n /\ x.arg = t
      BY <3>1, Fields
    <3>3. n \in snd'.tg
      BY <1>6
    <3>4. n = SndNode => snd.bound
      BY <1>1, <1>2, SndNodes DEF SndFinds
    <3>5. x # Msg("tagSet", SndNode, FrameTag)
      BY <3>2, Fields
    <3> HIDE DEF n
    <3>6. SndSent(x)'
      BY <1>2, <1>7, <3>1, <3>2, <3>3, <3>5 DEF SndSent, Greeting
    <3>7. x = Msg("tagCreate", SndNode, FrameTag) => n = SndNode
      BY <3>2, Fields
    <3> QED
      BY <3>2, <3>4, <3>6, <3>7
  <2>3. follow.op = "tgSubscribe" /\ follow # Msg("tagCreate", SndNode, FrameTag)
    BY Fields
  <2> HIDE DEF follow, sent
  <2> QED
    BY <1>5, <1>6, <2>1, <2>2, <2>3, SndOrdinary
<1>10. SndMsg # Msg("nodeCreate", SndScene, S) /\ SndMsg # Msg("layerCreate", SndNode, NoArg)
  BY <1>1, Fields
<1> HIDE DEF sent
<1> QED
  BY <1>1, <1>3, <1>5, <1>8, <1>9, <1>10, SndCallback

LEMMA SndTagCreatedHolds ==
    ASSUME IInv, UNCHANGED rcv, SndTagCreated PROVE IInv'
<1> DEFINE n == SndMsg.node
           t == SndMsg.arg
           sent == When(t \in ToSet(OtherTags), Msg("tagSet", n, t))
<1>1. /\ SndOn("tagCreate")
      /\ SndMsg.op = "tagCreate" /\ SndTold(SndMsg) /\ SndMsg \in Down
      /\ SndMsg = Msg("tagCreate", n, t)
      /\ snd \in Context /\ snd.phase = "on"
      /\ down[S] # <<>> /\ SndMsg = Head(down[S])
  BY SndHead DEF SndTagCreated
<1>2. /\ SndFinds(n) /\ n \in snd.tg /\ t \in Tag
      /\ t = FrameTag => n = SndNode
      /\ n \in Name
  BY <1>1, SndNames DEF SndTold, SndFinds
<1>3. /\ snd' = [snd EXCEPT !.tag = @ \cup {t}, !.run = @ \/ t = FrameTag]
      /\ Handled(S, sent)
  BY <1>2 DEF SndTagCreated, S
<1>4. /\ snd' \in Context /\ snd'.life = snd.life /\ snd'.phase = "on"
      /\ snd'.scene = snd.scene /\ snd'.bound = snd.bound
      /\ snd'.tg = snd.tg /\ snd'.tag = snd.tag \cup {t}
      /\ snd'.run <=> (snd.run \/ t = FrameTag)
      /\ snd'.layer = snd.layer
  BY <1>1, <1>2, <1>3 DEF Context
<1>5. ASSUME t = FrameTag
      PROVE  SndMsg = Msg("tagCreate", SndNode, FrameTag) /\ snd.bound /\ snd.layer
  <2>1. SndMsg = Msg("tagCreate", SndNode, FrameTag)
    BY <1>1, <1>2, <1>5
  <2>2. snd.bound
    BY <1>1, <1>2, <1>5, SndNodes DEF SndFinds
  <2>3. down[S] \in Seq(Message)
    BY DEF IInv, TypeOK, Queues, S, Client
  <2>4. Taken(down[S], Tail(down[S]))
    BY <1>1, <2>3, TakenTail
  <2>5. ~Precedes(down[S], Msg("layerCreate", SndNode, NoArg), SndMsg)
    BY <1>1, <2>4 DEF Taken
  <2> QED
    BY <2>1, <2>2, <2>5 DEF IInv, SndLayers
<1>6. (\A k : SndFinds(k)' <=> SndFinds(k)) /\ SndNode' = SndNode /\ SndScene' = SndScene
  BY <1>4 DEF SndFinds, SndNode, SndScene
<1>7. SndGrows
  <2>1. \A k \in snd'.tg : SndFinds(k)'
    BY <1>4, <1>6 DEF IInv, SndQueues
  <2>2. snd'.run => snd'.bound /\ snd'.layer
                    /\ SndNode \in snd'.tg /\ FrameTag \in snd'.tag
    BY <1>2, <1>4, <1>5 DEF IInv, SndQueues, SndLayers
  <2> HIDE DEF n, t
  <2>3. snd'.run /\ ~snd.run => Msg("tagCreate", SndNode, FrameTag) \in Down
    BY <1>1, <1>4, <1>5
  <2>4. snd'.bound => snd'.scene
    BY <1>4 DEF IInv, SndQueues
  <2> QED
    BY <1>1, <1>4, <2>1, <2>2, <2>3, <2>4 DEF SndGrows
<1>8. Msg("tagSet", n, t) \in Message
  <2>1. "tagSet" \in Op /\ t \in Name \cup Tag \cup {NoArg}
    BY <1>2 DEF Op
  <2> QED
    BY <1>2, <2>1, Messages
<1>9. sent \in Seq(Message) /\ (\A x \in ToSet(sent) : x = Msg("tagSet", n, t))
  BY <1>8, Listed DEF When
<1>10. SndSends(sent)
  <2>1. ASSUME NEW x, x = Msg("tagSet", n, t) PROVE SndSent(x)' /\ x.op = "tagSet"
    <3>1. x.op = "tagSet" /\ x.node = n /\ x.arg = t
      BY <2>1, Fields
    <3> HIDE DEF n, t
    <3>2. x = Msg("tagSet", SndNode, FrameTag) => snd'.run
      BY <1>4, <3>1, Fields
    <3> QED
      BY <1>2, <1>6, <3>1, <3>2 DEF SndSent, Greeting
  <2>2. \A x \in ToSet(sent) : SndSent(x)' /\ x.op = "tagSet"
    BY <1>9, <2>1
  <2> HIDE DEF sent, n, t
  <2> QED
    BY <1>4, <2>2, SndOrdinary, Fields
<1>11. SndMsg # Msg("nodeCreate", SndScene, S) /\ SndMsg # Msg("layerCreate", SndNode, NoArg)
  BY <1>1, Fields
<1> HIDE DEF sent
<1> QED
  BY <1>1, <1>3, <1>7, <1>9, <1>10, <1>11, SndCallback

LEMMA SndDataHolds ==
    ASSUME IInv, UNCHANGED rcv, SndData PROVE IInv'
<1> DEFINE frame == Msg("tagSet", SndNode, FrameTag)
           value == Msg("layerSet", SndNode, NoArg)
           unset == Msg("layerUnset", SndNode, NoArg)
<1>1. /\ snd.phase = "on" /\ snd.bound /\ snd.run /\ snd.sent < MaxFrames
      /\ snd' = [snd EXCEPT !.sent = @ + 1] /\ snd \in Context
  BY DEF SndData, IInv, TypeOK
<1>2. frame \in Message /\ value \in Message /\ unset \in Message
  BY <1>1, SndNames, Messages DEF Op
<1>3. PICK sent \in {<<frame>>, <<frame, value>>, <<frame, unset>>} : Send(S, sent)
  <2>1. PICK items \in {<<>>, <<value>>, <<unset>>} : Send(S, <<frame>> \o items)
    BY DEF SndData, S
  <2> HIDE DEF frame, value, unset
  <2>2. \A a, b : <<a>> \o <<>> = <<a>> /\ <<a>> \o <<b>> = <<a, b>>
    <3>1. ASSUME NEW a PROVE <<a>> \o <<>> = <<a>>
      OBVIOUS
    <3>2. ASSUME NEW a, NEW b PROVE <<a>> \o <<b>> = <<a, b>>
      <4> DEFINE r == <<a>> \o <<b>>
      <4>1. /\ <<a>> \in Seq({a, b}) /\ <<b>> \in Seq({a, b})
            /\ Len(<<a>>) = 1 /\ Len(<<b>>) = 1
        OBVIOUS
      <4>2. r \in Seq({a, b}) /\ Len(r) = 2 /\ r[1] = a /\ r[2] = b
        BY <4>1
      <4> HIDE DEF r
      <4>3. r = [i \in 1 .. 2 |-> r[i]]
        BY <4>2
      <4>4. <<a, b>> = [i \in 1 .. 2 |-> r[i]]
        BY <4>2
      <4> QED
        BY <4>3, <4>4 DEF r
    <3> QED
      BY <3>1, <3>2
  <2>3. <<frame>> \o items \in {<<frame>>, <<frame, value>>, <<frame, unset>>}
    BY <2>1, <2>2
  <2> QED
    BY <2>1, <2>3
<1>4. sent \in Seq(Message) /\ ToSet(sent) \subseteq {frame, value, unset}
  BY <1>2, <1>3, Listed
<1>5. Elsewhere /\ down' = down /\ Added(up[S], sent, up'[S])
  BY <1>3, <1>4, SndSending DEF IInv, TypeOK
<1>6. /\ snd' \in Context /\ snd'.life = snd.life /\ snd'.phase = "on"
      /\ snd'.scene = snd.scene /\ snd'.bound = snd.bound
      /\ snd'.tg = snd.tg /\ snd'.tag = snd.tag /\ snd'.run = snd.run
      /\ snd'.layer = snd.layer
  <2>1. snd.sent + 1 \in Nat
    BY <1>1 DEF Context
  <2> QED
    BY <1>1, <2>1 DEF Context
<1>7. SndGrows
  BY <1>1, <1>6, SndAsBefore
<1>8. SndTakes
  BY <1>1, <1>5 DEF SndTakes, Alone
<1>9. SndSends(sent)
  <2>1. /\ frame.op = "tagSet" /\ frame.node = SndNode /\ frame.arg = FrameTag
        /\ value.op = "layerSet" /\ value.node = SndNode /\ value.arg = NoArg
        /\ unset.op = "layerUnset" /\ unset.node = SndNode /\ unset.arg = NoArg
    BY Fields
  <2>2. SndNode' = SndNode /\ \A k : SndFinds(k)' <=> SndFinds(k)
    BY <1>6 DEF SndFinds, SndNode, SndScene
  <2>3. SndFinds(SndNode)
    BY <1>1 DEF SndFinds
  <2>4. ASSUME NEW x, x = frame PROVE SndSent(x)'
    BY <1>1, <1>6, <2>1, <2>2, <2>3, <2>4, Fields DEF SndSent, Greeting, Tag
  <2>5. ASSUME NEW x, x = value \/ x = unset PROVE SndSent(x)'
    BY <1>1, <1>6, <2>1, <2>2, <2>5, Fields DEF SndSent, Greeting
  <2>6. \A x \in ToSet(sent) : SndSent(x)' /\ x.op \in {"tagSet", "layerSet", "layerUnset"}
    BY <1>4, <2>1, <2>4, <2>5
  <2>7. Precedes(sent, frame, value)
    <3>1. frame # value /\ unset # value
      BY <2>1
    <3> QED
      BY <1>3, <3>1, InOrder
  <2> HIDE DEF frame, value, unset
  <2>8. /\ Msg("nodeCreate", SndScene, NoArg) \notin ToSet(sent)
        /\ Msg("nodeCreate", SndNode, NoArg) \notin ToSet(sent)
        /\ Msg("layerCreate", SndNode, NoArg) \notin ToSet(sent)
        /\ Msg("tagCreate", SndNode, FrameTag) \notin ToSet(sent)
        /\ Signal("terminate") \notin ToSet(sent)
        /\ Msg("nodeSubscribe", S, NoArg) \notin ToSet(sent)
    BY <2>6, Fields DEF Signal
  <2> QED
    BY <1>6, <2>6, <2>7, <2>8, PrecedesNone DEF SndSends, frame, value
<1> QED
  BY <1>5, <1>7, <1>8, <1>9, SndCalled

(* A step that the connection does not notice.                             *)
LEMMA SndStands ==
    ASSUME IInv, UNCHANGED <<serverVars, rcv>>, snd.phase = "on",
           snd' \in Context, snd'.life = snd.life,
           snd'.phase \notin {"new", "crashed"},
           snd'.scene = snd.scene, snd'.bound = snd.bound,
           snd'.tg = snd.tg, snd'.tag = snd.tag, snd'.run = snd.run,
           snd'.layer = snd.layer
    PROVE  IInv'
<1>1. /\ up' = up /\ down' = down /\ parent' = parent /\ tgs' = tgs
      /\ tags' = tags /\ tagSet' = tagSet /\ layers' = layers
      /\ layerSet' = layerSet /\ known' = known /\ nodeSubs' = nodeSubs
      /\ tgSubs' = tgSubs /\ layerSubs' = layerSubs /\ open' = open
  BY DEF serverVars, channels, tree, subs
<1>2. SndScene' = SndScene /\ SndNode' = SndNode /\ \A n : SndFinds(n)' <=> SndFinds(n)
  BY DEF SndScene, SndNode, SndFinds
<1>3. /\ Up' = Up /\ Down' = Down
      /\ (Alone' <=> Alone) /\ (Serving' <=> Serving) /\ (Unknown' <=> Unknown)
  BY <1>1, <1>2 DEF Up, Down, Alone, Serving, Unknown
<1>4. TypeOK'
  BY <1>1 DEF IInv, TypeOK, Queues, Tree, Subscriptions
<1>5. SndQueues'
  <2>1. \A x \in Up : SndSent(x)'
    BY <1>2, <1>3 DEF IInv, SndQueues, SndSent
  <2>2. \A x \in Down : SndTold(x)'
    BY <1>2, <1>3 DEF IInv, SndQueues, SndTold
  <2> QED
    BY <1>1, <1>2, <1>3, <2>1, <2>2 DEF IInv, SndQueues
<1>6. SndBuilds' /\ SndLayers'
  BY <1>1, <1>2, <1>3 DEF IInv, SndBuilds, SndLayers
<1>7. SndEnds' /\ SndStreams'
  BY <1>1, <1>2, <1>3 DEF IInv, SndEnds, SndStreams
<1>8. RcvInv'
  <2>1. UNCHANGED RcvView
    BY <1>1 DEF RcvView, tree
  <2> QED
    BY <2>1, RcvUntouched DEF IInv, RcvInv
<1> QED
  BY <1>4, <1>5, <1>6, <1>7, <1>8 DEF IInv, RcvInv

(* The first SIGINT of a client without a node ends it at once, and so     *)
(* does the second.                                                        *)
LEMMA SndInterruptHolds ==
    ASSUME IInv, UNCHANGED rcv, SndInterrupt PROVE IInv'
<1>1. snd.phase = "on" /\ snd \in Context
  BY DEF SndInterrupt, IInv, TypeOK
<1>2. CASE snd' = [snd EXCEPT !.phase = "exited"] /\ UNCHANGED serverVars
  <2>1. /\ snd' \in Context /\ snd'.life = snd.life /\ snd'.phase = "exited"
        /\ snd'.scene = snd.scene /\ snd'.bound = snd.bound
        /\ snd'.tg = snd.tg /\ snd'.tag = snd.tag /\ snd'.run = snd.run
        /\ snd'.layer = snd.layer
    BY <1>1, <1>2 DEF Context, Phase
  <2> QED
    BY <1>1, <1>2, <2>1, SndStands
<1>3. CASE snd.bound /\ snd' = [snd EXCEPT !.interrupted = TRUE, !.phase = "on"]
           /\ Send(S, <<Msg("nodeDestroy", SndNode, NoArg), Signal("terminate")>>)
  <2> DEFINE destroy == Msg("nodeDestroy", SndNode, NoArg)
             end == Signal("terminate")
             sent == <<destroy, end>>
  <2>1. /\ snd' \in Context /\ snd'.life = snd.life /\ snd'.phase = "on"
        /\ snd'.scene = snd.scene /\ snd'.bound = snd.bound
        /\ snd'.tg = snd.tg /\ snd'.tag = snd.tag /\ snd'.run = snd.run
        /\ snd'.layer = snd.layer
    BY <1>1, <1>3 DEF Context, Phase
  <2>2. sent \in Seq(Message) /\ Send(S, sent)
    <3>1. destroy \in Message /\ end \in Message
      BY <1>1, SndNames, Messages, Signals DEF Op
    <3> QED
      BY <1>3, <3>1
  <2>3. Elsewhere /\ down' = down /\ Added(up[S], sent, up'[S])
    BY <2>2, SndSending DEF IInv, TypeOK
  <2>4. SndGrows
    BY <1>1, <2>1, SndAsBefore
  <2>5. SndTakes
    BY <1>3, <2>3 DEF SndTakes, Alone
  <2>6. SndSends(sent)
    <3>1. /\ destroy.op = "nodeDestroy" /\ destroy.node = SndNode /\ destroy.arg = NoArg
          /\ end.op = "terminate"
      BY Fields DEF Signal
    <3>2. SndNode' = SndNode
      BY <2>1 DEF SndNode
    <3>3. ASSUME NEW x, x = destroy \/ x = end PROVE SndSent(x)'
      BY <1>3, <2>1, <3>1, <3>2, <3>3, Fields DEF SndSent, Greeting, Signal
    <3>4. ToSet(sent) = {destroy, end}
      BY Listed
    <3>5. Precedes(sent, destroy, end)
      BY <3>1, InOrder
    <3> HIDE DEF destroy, end, sent
    <3>6. \A x \in ToSet(sent) : SndSent(x)' /\ x.op \in {"nodeDestroy", "terminate"}
      BY <3>1, <3>3, <3>4
    <3>7. /\ Msg("nodeCreate", SndScene, NoArg) \notin ToSet(sent)
          /\ Msg("nodeCreate", SndNode, NoArg) \notin ToSet(sent)
          /\ Msg("layerCreate", SndNode, NoArg) \notin ToSet(sent)
          /\ Msg("layerSet", SndNode, NoArg) \notin ToSet(sent)
          /\ Msg("tagCreate", SndNode, FrameTag) \notin ToSet(sent)
          /\ Msg("nodeSubscribe", S, NoArg) \notin ToSet(sent)
      BY <3>6, Fields
    <3>8. snd.scene
      BY <1>3 DEF IInv, SndQueues
    <3> QED
      BY <2>1, <3>5, <3>6, <3>7, <3>8, PrecedesNone DEF SndSends, destroy, end
  <2> QED
    BY <2>3, <2>4, <2>5, <2>6, SndCalled
<1>4. CASE ~snd.bound /\ snd' = [snd EXCEPT !.interrupted = TRUE, !.phase = "killed"]
           /\ Send(S, <<>>)
  <2>1. /\ snd' \in Context /\ snd'.life = snd.life /\ snd'.phase = "killed"
        /\ snd'.scene = snd.scene /\ snd'.bound = snd.bound
        /\ snd'.tg = snd.tg /\ snd'.tag = snd.tag /\ snd'.run = snd.run
        /\ snd'.layer = snd.layer
    BY <1>1, <1>4 DEF Context, Phase
  <2>2. UNCHANGED serverVars
    <3>1. up \in [Client -> Seq(Message)] /\ S \in Client
      BY DEF IInv, TypeOK, Queues, S, Client
    <3>2. up[S] \o <<>> = up[S]
      BY <3>1
    <3>3. up' = up
      BY <1>4, <3>1, <3>2 DEF Send
    <3> QED
      BY <1>4, <3>3 DEF Send, serverVars, channels
  <2> QED
    BY <1>1, <2>1, <2>2, SndStands
<1> QED
  BY <1>1, <1>2, <1>3, <1>4 DEF SndInterrupt, S

LEMMA SndRestartsHolds ==
    ASSUME IInv, UNCHANGED rcv, SndRestarts PROVE IInv'
<1>1. /\ snd.phase = "exited" /\ snd.life < MaxLives /\ snd' = Life(snd.life + 1)
      /\ Reconnects(S) /\ snd \in Context /\ S \in Client /\ R \in Client /\ S # R
  BY DEF SndRestarts, S, R, Client, Sender, Receiver, IInv, TypeOK
<1>2. snd.life = 1 /\ Lives = {1, 2}
  BY <1>1, VerseServerAssumption DEF Context, Lives
<1>3. /\ snd' = Life(2) /\ snd'.life = 2 /\ snd'.phase = "new"
      /\ ~snd'.scene /\ ~snd'.bound /\ snd'.tg = {} /\ ~snd'.run /\ ~snd'.layer
  BY <1>1, <1>2 DEF Life
<1>4. snd' \in Context
  BY <1>2, <1>3 DEF Life, Context, Phase
<1>5. /\ S \notin open /\ S \in open'
      /\ up[S]' = <<>> /\ down[S]' = <<>> /\ Up' = {} /\ Down' = {}
      /\ parent' = parent /\ tgs' = tgs /\ tags' = tags /\ tagSet' = tagSet
      /\ layers' = layers /\ layerSet' = layerSet
      /\ nodeSubs' = nodeSubs /\ tgSubs' = tgSubs /\ layerSubs' = layerSubs
  <2>1. /\ S \notin open /\ S \in open'
        /\ up[S]' = <<>> /\ down[S]' = <<>>
    BY <1>1 DEF Reconnects, IInv, TypeOK, Queues
  <2> QED
    BY <1>1, <2>1, Listed DEF Up, Down, Reconnects, tree
<1>6. TypeOK'
  <2>1. Queues'
    BY <1>1 DEF Reconnects, IInv, TypeOK, Queues
  <2>2. Subscriptions'
    BY <1>1, <1>5 DEF Reconnects, IInv, TypeOK, Subscriptions
  <2> QED
    BY <1>4, <1>5, <2>1, <2>2 DEF IInv, TypeOK, Tree
<1>7. /\ SndScene = Scene(1) /\ SndNode = SenderNode(1)
      /\ SndScene' = Scene(2) /\ SndNode' = SenderNode(2)
      /\ parent[Scene(1)] = SceneParent /\ parent[SenderNode(1)] = Nowhere
      /\ parent[Scene(2)] = Nowhere /\ parent[SenderNode(2)] = Nowhere
      /\ Nowhere # S /\ Nowhere # SceneParent
  <2>1. /\ SndScene = Scene(1) /\ SndNode = SenderNode(1)
        /\ SndScene' = Scene(2) /\ SndNode' = SenderNode(2)
    BY <1>2, <1>3 DEF SndScene, SndNode
  <2>2. 2 \in Lives /\ 2 > snd.life
    BY <1>2
  <2> QED
    BY <1>5, <2>1, <2>2 DEF IInv, SndEnds, Nowhere, S, Sender, SceneParent
<1>8. \A b, a : Precedes(up[S]', b, a) /\ Precedes(down[S]', b, a) /\ Once(up[S]', a)
  BY <1>5, PrecedesNone, Listed
<1>9. SndQueues'
  <2>1. nodeSubs[S] = {} /\ tgSubs[S] = {} /\ layerSubs[S] = {}
    BY <1>5 DEF IInv, SndQueues
  <2>2. Unknown'
    BY <1>5, <1>7, <2>1 DEF Unknown
  <2> QED
    BY <1>3, <1>5, <2>1, <2>2 DEF SndQueues
<1>10. SndBuilds' /\ SndLayers'
  BY <1>3, <1>8 DEF SndBuilds, SndLayers
<1>11. SndEnds'
  <2>1. ASSUME NEW l \in Lives
        PROVE  /\ parent[Scene(l)] \in {Nowhere, S, SceneParent}
               /\ parent[SenderNode(l)] \in {Nowhere, S, Scene(l)}
               /\ ~(l > 2)
               /\ l < 2 => parent[Scene(l)] = SceneParent
                          /\ parent[SenderNode(l)] = Nowhere
    BY <1>2, <1>7
  <2>2. ASSUME NEW l \in Lives
        PROVE  (/\ parent[Scene(l)] \in {Nowhere, S, SceneParent}
                /\ parent[SenderNode(l)] \in {Nowhere, S, Scene(l)}
                /\ l > snd.life => parent[Scene(l)] = Nowhere
                                   /\ parent[SenderNode(l)] = Nowhere
                /\ l < snd.life => parent[Scene(l)] = SceneParent
                                   /\ parent[SenderNode(l)] = Nowhere)'
    BY <1>3, <1>5, <2>1
  <2>3. parent[SndScene]' = Nowhere /\ parent[SndNode]' = Nowhere
    BY <1>5, <1>7
  <2>4. ~(S \notin open)' /\ (\A x : x \notin Down') /\ ~snd'.scene
    BY <1>3, <1>5
  <2>5. parent[SndScene]' # SceneParent /\ \A n : parent[SndNode]' = n => n = Nowhere
    BY <1>7, <2>3
  <2>6. SndScene' \in Scenes /\ Nowhere \notin Scenes
    BY <1>2, <1>7, Names DEF Nowhere
  <2>7. parent[SndNode]' # SndScene'
    BY <2>5, <2>6
  <2> QED
    BY <1>8, <2>2, <2>4, <2>5, <2>7 DEF SndEnds
<1>12. SndStreams'
  <2>1. \A n \in Node : FrameTag \notin ToSet(tags[n])
    BY <1>7 DEF IInv, SndStreams
  <2>2. layerSet = {}
    <3>1. \A n : n \notin layerSet
      BY <1>7 DEF IInv, SndStreams
    <3> QED
      BY <3>1
  <2>3. layers \subseteq tgs /\ layers \subseteq SenderNodes
    BY DEF IInv, SndStreams
  <2>4. FrameTag \notin tagSet
    BY <1>1, <2>1, SndNodes DEF IInv, SndStreams
  <2> QED
    BY <1>3, <1>5, <1>7, <1>8, <2>1, <2>2, <2>3, <2>4 DEF SndStreams, Serving
<1>13. RcvInv'
  <2>1. UNCHANGED RcvView
    BY <1>1, <1>5 DEF RcvView, Reconnects, tree, IInv, TypeOK, Queues, Subscriptions
  <2> QED
    BY <1>3, <2>1, RcvUntouched DEF IInv, RcvInv
<1> QED
  BY <1>6, <1>9, <1>10, <1>11, <1>12, <1>13 DEF IInv, RcvInv

LEMMA SenderActsHolds ==
    ASSUME IInv, SenderStep \/ SndInterrupt \/ SndRestarts, UNCHANGED rcv
    PROVE  IInv'
BY SndConnectsHolds, SndAuthenticatesHolds, SndAcceptedHolds, SndSceneCreatedHolds,
   SndSenderCreatedHolds, SndTagGroupCreatedHolds, SndTagCreatedHolds,
   SndLayerCreatedHolds, SndTerminatedHolds, SndIgnoresHolds, SndDataHolds,
   SndInterruptHolds, SndRestartsHolds
   DEF SenderStep

-----------------------------------------------------------------------------
(* The steps of the receiving client, in the same way.                     *)

RcvElsewhere == /\ Queues' /\ UNCHANGED <<tree, subs>>
                /\ up'[S] = up[S] /\ down'[S] = down[S]

RcvGrows ==
    /\ rcv' \in Found /\ rcv'.phase # "crashed"
    /\ rcv.scene = Scene1 => rcv'.scene = Scene1
    /\ rcv.bound = Node1 => rcv'.bound = Node1
    /\ rcv'.scene \in {Nowhere, Scene1}
    /\ rcv'.bound \in {Nowhere, Node1}
    /\ rcv'.bound = Node1 => rcv'.scene = Scene1 /\ Node1 \in known[R]
    /\ rcv.tg \subseteq rcv'.tg /\ rcv.tag \subseteq rcv'.tag
    /\ rcv.framed => rcv'.framed
    /\ ~rcv'.strayed
    /\ \A n \in rcv'.tg : n \in Node /\ RcvFinds(n)'

SceneTold == Msg("nodeCreate", Scene1, SceneParent)

RcvTakes ==
    \/ /\ Taken(down[R], down'[R])
       /\ Head(down[R]) = SceneTold => rcv'.scene = Scene1
       /\ Head(down[R]) = TagGroup1 => Node1 \in rcv'.tg
       /\ Head(down[R]) = Tag1 => FrameTag \in rcv'.tag
       /\ Head(down[R]) = Frame1 => rcv'.framed
    \/ down'[R] = down[R]

RcvSends(sent) ==
    /\ \A x \in ToSet(sent) : RcvSent(x)'
    /\ Node1 \in rcv'.tg /\ Node1 \notin rcv.tg => FollowsTagGroup \in ToSet(sent)
    /\ Following /\ FollowsLayer \in ToSet(sent) =>
          \/ Node1 \in tgSubs[R]
          \/ FollowsTagGroup \in RUp /\ FollowsTagGroup \notin ToSet(sent)

LEMMA RcvNames ==
    /\ Scene1 \in Scenes /\ Node1 \in SenderNodes /\ Scene1 \in Node /\ Node1 \in Node
    /\ Scene1 # Node1 /\ Scenes \cap SenderNodes = {}
    /\ Scene1 = "scene1" /\ Node1 = "sender1"
    /\ \A n \in Node : n \notin {S, R, SceneParent, Nowhere}
    /\ {Scene1, Node1, R, SceneParent} \subseteq Name
    /\ R # SceneParent /\ R # S /\ Nowhere \notin {S, R, SceneParent}
BY Names DEF Scene1, Node1, S, R, Sender, Receiver, SceneParent, Nowhere, Name

LEMMA RcvCalls ==
    ASSUME TypeOK, RcvInv, NEW sent, RcvElsewhere, RcvGrows, RcvTakes, RcvSends(sent),
           Added(up[R], sent, up'[R]), UNCHANGED snd
    PROVE  RcvInv'
<1>1. /\ parent' = parent /\ tgs' = tgs /\ tags' = tags /\ tagSet' = tagSet
      /\ layers' = layers /\ layerSet' = layerSet /\ known' = known
      /\ nodeSubs' = nodeSubs /\ tgSubs' = tgSubs
      /\ layerSubs' = layerSubs /\ open' = open
      /\ (Following' <=> Following)
  BY DEF RcvElsewhere, tree, subs, Following
<1>2. RUp' = RUp \cup ToSet(sent) /\ RDown' \subseteq RDown
  BY DEF Added, RcvTakes, Taken, RUp, RDown
<1>3. \A n \in Node : RcvFinds(n) => RcvFinds(n)'
  BY RcvNames DEF RcvFinds, RcvGrows, RcvInv, RcvQueues
<1>4. RcvQueues'
  <2>1. ASSUME NEW x \in RUp PROVE RcvSent(x)'
    BY <1>3, RcvNames DEF RcvInv, RcvQueues, RcvSent, RcvGrows
  <2>2. ASSUME NEW x \in RDown PROVE RcvTold(x)'
    BY <1>1, <1>3, RcvNames DEF RcvInv, RcvQueues, RcvTold, RcvGrows
  <2>3. /\ \A x \in RUp' : RcvSent(x)'
        /\ \A x \in RDown' : RcvTold(x)'
    BY <1>2, <2>1, <2>2 DEF RcvSends
  <2>4. /\ \A n \in nodeSubs[R] : n \in {R, SceneParent} \/ (n \in Node /\ RcvFinds(n)')
        /\ tgSubs[R] \subseteq rcv'.tg
        /\ layerSubs[R] \subseteq {Node1} /\ (Node1 \in layerSubs[R] => RcvFinds(Node1)')
        /\ R \notin open => nodeSubs[R] = {} /\ tgSubs[R] = {} /\ layerSubs[R] = {}
    BY <1>3, RcvNames DEF RcvInv, RcvQueues, RcvGrows
  <2> QED
    BY <1>1, <2>3, <2>4 DEF RcvQueues, RcvGrows
<1>5. RcvOrders'
  <2>1. \/ rcv'.scene = Scene1
        \/ Precedes(down[R]', SceneTold, Msg("nodeCreate", Scene(2), SceneParent))
    BY DEF RcvInv, RcvOrders, RcvTakes, Taken, RcvGrows, SceneTold
  <2>2. Scene1 \in known[R] => rcv'.scene = Scene1 \/ SceneTold \in RDown'
    BY <1>2 DEF RcvInv, RcvOrders, RcvTakes, Taken, RcvGrows, SceneTold, RDown
  <2> QED
    BY <1>1, <2>1, <2>2 DEF RcvInv, RcvOrders, SceneTold
<1>6. RcvStreams'
  <2>1. /\ rcv'.framed \/ Precedes(down[R]', Frame1, Value1)
        /\ FrameTag \in rcv'.tag \/ Precedes(down[R]', Tag1, Frame1)
        /\ Node1 \in rcv'.tg \/ Precedes(down[R]', TagGroup1, Layer1)
    BY DEF RcvInv, RcvStreams, RcvTakes, Taken, RcvGrows
  <2>2. ASSUME Following
        PROVE  /\ Node1 \in tgSubs[R] /\ FrameTag \in ToSet(tags[Node1]) =>
                     FrameTag \in rcv'.tag \/ Tag1 \in RDown'
               /\ Node1 \in tgSubs[R] /\ FrameTag \in ToSet(tags[Node1])
                     /\ FrameTag \in tagSet =>
                     rcv'.framed \/ Frame1 \in RDown'
               /\ Node1 \in nodeSubs[R] /\ Node1 \in tgs =>
                     Node1 \in rcv'.tg \/ TagGroup1 \in RDown'
    BY <1>2, <2>2 DEF RcvInv, RcvStreams, RcvTakes, Taken, RcvGrows, RDown
  <2>3. ASSUME Following
        PROVE  /\ Node1 \in rcv'.tg => Node1 \in tgSubs[R] \/ FollowsTagGroup \in RUp'
               /\ Node1 \in layerSubs[R] => Node1 \in tgSubs[R]
               /\ Node1 \in tgSubs[R] \/ Precedes(up[R]', FollowsTagGroup, FollowsLayer)
    BY <1>2, <2>3 DEF RcvInv, RcvStreams, RcvSends, Added, RUp
  <2> QED
    BY <1>1, <2>1, <2>2, <2>3 DEF RcvStreams, RcvGrows
<1> QED
  BY <1>4, <1>5, <1>6 DEF RcvInv

LEMMA RcvCalled ==
    ASSUME IInv, UNCHANGED snd,
           NEW sent, RcvElsewhere, RcvGrows, RcvTakes, RcvSends(sent),
           Added(up[R], sent, up'[R])
    PROVE  IInv'
<1>1. SndInv /\ RcvInv /\ TypeOK
  BY DEF IInv, SndInv, RcvInv
<1>2. RcvInv'
  BY <1>1, RcvCalls
<1>3. TypeOK'
  BY <1>1 DEF TypeOK, RcvElsewhere, RcvGrows, Tree, Subscriptions, tree, subs
<1>4. UNCHANGED SndView
  BY DEF SndView, RcvElsewhere, tree, subs
<1>5. SndInv'
  BY <1>1, <1>4, SndUntouched
<1> QED
  BY <1>2, <1>3, <1>5 DEF IInv, SndInv, RcvInv

LEMMA RcvHead ==
    ASSUME IInv, NEW op, RcvOn(op)
    PROVE  /\ down[R] # <<>> /\ RcvMsg = Head(down[R]) /\ RcvMsg \in RDown
           /\ RcvMsg.op = op /\ RcvTold(RcvMsg) /\ RcvMsg \in Message
           /\ RcvMsg = Msg(op, RcvMsg.node, RcvMsg.arg)
           /\ rcv.phase = "on" /\ rcv \in Found
           /\ Taken(down[R], Tail(down[R]))
<1>1. down[R] # <<>> /\ RcvMsg = Head(down[R]) /\ RcvMsg.op = op /\ rcv.phase = "on"
  BY DEF RcvOn, Received, RcvMsg, R
<1>2. down[R] \in Seq(Message) /\ rcv \in Found
  BY DEF IInv, TypeOK, Queues, R, Client
<1>3. RcvMsg \in RDown /\ RcvMsg \in Message /\ Taken(down[R], Tail(down[R]))
  BY <1>1, <1>2, TakenTail, QueueTail DEF RDown
<1>4. RcvMsg = Msg(op, RcvMsg.node, RcvMsg.arg)
  BY <1>1, <1>3 DEF Message, Msg
<1> QED
  BY <1>1, <1>2, <1>3, <1>4 DEF IInv, RcvQueues

LEMMA RcvCallback ==
    ASSUME IInv, UNCHANGED snd,
           NEW op, RcvOn(op), NEW sent \in Seq(Message), Handled(R, sent),
           RcvGrows, RcvSends(sent),
           RcvMsg = SceneTold => rcv'.scene = Scene1,
           RcvMsg = TagGroup1 => Node1 \in rcv'.tg,
           RcvMsg = Tag1 => FrameTag \in rcv'.tag,
           RcvMsg = Frame1 => rcv'.framed
    PROVE  IInv'
<1>1. down[R] # <<>> /\ RcvMsg = Head(down[R]) /\ Queues
  BY RcvHead DEF IInv, TypeOK
<1>2. R \in Client /\ S \in Client \ {R}
  BY DEF S, R, Client, Sender, Receiver
<1>3. /\ RcvElsewhere
      /\ Taken(down[R], down'[R]) /\ Added(up[R], sent, up'[R])
  BY <1>1, <1>2, Handling DEF Handled, RcvElsewhere
<1>4. RcvTakes
  BY <1>1, <1>3 DEF RcvTakes
<1> QED
  BY <1>3, <1>4, RcvCalled

(* A callback that sends at most what it may always send.                  *)
LEMMA RcvPlain ==
    ASSUME NEW sent, rcv'.tg = rcv.tg,
           \A x \in ToSet(sent) : RcvSent(x)' /\ x.op # "layerSubscribe"
    PROVE  RcvSends(sent)
<1>1. FollowsLayer \notin ToSet(sent)
  BY Fields DEF FollowsLayer
<1> QED
  BY <1>1 DEF RcvSends

LEMMA RcvAsBefore ==
    ASSUME IInv, rcv' \in Found, rcv'.phase # "crashed",
           rcv'.scene = rcv.scene, rcv'.bound = rcv.bound, rcv'.tg = rcv.tg,
           rcv.tag \subseteq rcv'.tag, rcv.framed => rcv'.framed, ~rcv'.strayed
    PROVE  RcvGrows
BY DEF RcvGrows, IInv, RcvQueues, RcvFinds

LEMMA RcvSameContext ==
    ASSUME rcv \in Found, NEW p \in Phase,
           \/ rcv' = [rcv EXCEPT !.phase = p]
           \/ rcv' = [rcv EXCEPT !.interrupted = TRUE] /\ p = rcv.phase
    PROVE  /\ rcv' \in Found /\ rcv'.phase = p
           /\ rcv'.scene = rcv.scene /\ rcv'.bound = rcv.bound
           /\ rcv'.tg = rcv.tg /\ rcv'.tag = rcv.tag
           /\ rcv'.framed = rcv.framed /\ rcv'.strayed = rcv.strayed
BY DEF Found

LEMMA RcvSendsPlainly ==
    ASSUME IInv, UNCHANGED snd, NEW sent \in Seq(Message), Send(R, sent),
           rcv' \in Found, rcv'.phase # "crashed",
           rcv'.scene = rcv.scene, rcv'.bound = rcv.bound, rcv'.tg = rcv.tg,
           rcv'.tag = rcv.tag, rcv'.framed = rcv.framed, rcv'.strayed = rcv.strayed,
           \A x \in ToSet(sent) : x.op \in {"connect", "terminate"}
    PROVE  IInv'
<1>1. R \in Client /\ S \in Client \ {R}
  BY DEF S, R, Client, Sender, Receiver
<1>2. RcvElsewhere /\ down' = down /\ Added(up[R], sent, up'[R])
  BY <1>1, Sending DEF IInv, TypeOK, Send, RcvElsewhere
<1>3. RcvGrows
  BY RcvAsBefore DEF IInv, RcvStreams
<1>4. RcvSends(sent)
  <2>1. ASSUME NEW x \in ToSet(sent) PROVE RcvSent(x)' /\ x.op # "layerSubscribe"
    BY <2>1, Fields DEF RcvSent
  <2> QED
    BY <2>1, RcvPlain
<1>5. RcvTakes
  BY <1>2 DEF RcvTakes
<1> QED
  BY <1>2, <1>3, <1>4, <1>5, RcvCalled

LEMMA RcvConnectsHolds ==
    ASSUME IInv, UNCHANGED snd, RcvConnects PROVE IInv'
<1>1. /\ rcv' = [rcv EXCEPT !.phase = "on"] /\ Send(R, <<Signal("connect")>>)
      /\ rcv \in Found /\ "on" \in Phase
  BY DEF RcvConnects, R, IInv, TypeOK, Phase
<1>2. /\ <<Signal("connect")>> \in Seq(Message)
      /\ \A x \in ToSet(<<Signal("connect")>>) : x.op = "connect"
  BY Signals, Listed, Fields DEF Op, Signal
<1> QED
  BY <1>1, <1>2, RcvSameContext, RcvSendsPlainly

LEMMA RcvInterruptHolds ==
    ASSUME IInv, UNCHANGED snd, RcvInterrupt PROVE IInv'
<1>1. rcv \in Found /\ rcv.phase = "on" /\ "on" \in Phase /\ "exited" \in Phase
  BY DEF RcvInterrupt, IInv, TypeOK, Phase
<1>2. CASE rcv' = [rcv EXCEPT !.phase = "exited"] /\ UNCHANGED serverVars
  <2>1. Send(R, <<>>) /\ <<>> \in Seq(Message) /\ \A x : x \notin ToSet(<<>>)
    <3>1. up \in [Client -> Seq(Message)] /\ R \in Client
      BY DEF IInv, TypeOK, Queues, R, Client
    <3>2. up[R] \o <<>> = up[R]
      BY <3>1
    <3> QED
      BY <1>2, <3>1, <3>2, Listed DEF Send, serverVars, channels
  <2> QED
    BY <1>1, <1>2, <2>1, RcvSameContext, RcvSendsPlainly
<1>3. CASE rcv' = [rcv EXCEPT !.interrupted = TRUE] /\ Send(R, <<Signal("terminate")>>)
  <2>1. /\ <<Signal("terminate")>> \in Seq(Message)
        /\ \A x \in ToSet(<<Signal("terminate")>>) : x.op = "terminate"
    BY Signals, Listed, Fields DEF Op, Signal
  <2> QED
    BY <1>1, <1>3, <2>1, RcvSameContext, RcvSendsPlainly
<1> QED
  BY <1>2, <1>3 DEF RcvInterrupt, R

(* Callbacks whose command the client was not waiting for.                 *)
LEMMA RcvQuiet ==
    ASSUME IInv, UNCHANGED snd,
           NEW op, RcvOn(op), NEW sent \in Seq(Message), Handled(R, sent),
           rcv' \in Found, rcv'.phase # "crashed",
           rcv'.scene = rcv.scene, rcv'.bound = rcv.bound, rcv'.tg = rcv.tg,
           rcv'.tag = rcv.tag, rcv'.framed = rcv.framed, ~rcv'.strayed,
           \A x \in ToSet(sent) : RcvSent(x)' /\ x.op # "layerSubscribe",
           op \notin {"tgCreate", "tagCreate", "tagSet"},
           RcvMsg = SceneTold => rcv.scene = Scene1
    PROVE  IInv'
<1>1. RcvGrows
  BY RcvAsBefore
<1>2. RcvSends(sent)
  BY RcvPlain
<1>3. RcvMsg # TagGroup1 /\ RcvMsg # Tag1 /\ RcvMsg # Frame1
  BY RcvHead, Fields DEF TagGroup1, Tag1, Frame1
<1> QED
  BY <1>1, <1>2, <1>3, RcvCallback

LEMMA RcvReturnsHolds ==
    ASSUME IInv, UNCHANGED snd,
           NEW op, op \notin {"tgCreate", "tagCreate", "tagSet"},
           RcvOn(op), RcvReturns,
           RcvMsg = SceneTold => rcv.scene = Scene1
    PROVE  IInv'
<1>1. Handled(R, <<>>) /\ rcv' = rcv /\ rcv \in Found /\ rcv.phase = "on" /\ ~rcv.strayed
  BY RcvHead DEF RcvReturns, R, IInv, RcvStreams
<1>2. <<>> \in Seq(Message) /\ \A x : x \notin ToSet(<<>>)
  BY Listed
<1> QED
  BY <1>1, <1>2, RcvQuiet

LEMMA RcvIgnoresHolds ==
    ASSUME IInv, UNCHANGED snd, RcvIgnores PROVE IInv'
<1>1. PICK op \in {"layerUnset", "nodeDestroy"} : RcvOn(op) /\ RcvReturns
  BY DEF RcvIgnores
<1>2. RcvMsg # SceneTold
  BY <1>1, RcvHead, Fields DEF SceneTold
<1> QED
  BY <1>1, <1>2, RcvReturnsHolds

LEMMA RcvTerminatedHolds ==
    ASSUME IInv, UNCHANGED snd, RcvTerminated PROVE IInv'
<1>1. /\ RcvOn("terminate") /\ rcv' = [rcv EXCEPT !.phase = "exited"]
      /\ Handled(R, <<>>) /\ "exited" \in Phase
  BY DEF RcvTerminated, R, Phase
<1>2. RcvMsg # SceneTold /\ rcv \in Found /\ ~rcv.strayed
  BY <1>1, RcvHead, Fields DEF SceneTold, IInv, RcvStreams
<1>3. <<>> \in Seq(Message) /\ \A x : x \notin ToSet(<<>>)
  BY Listed
<1> QED
  <2>1. /\ rcv' \in Found /\ rcv'.phase = "exited"
        /\ rcv'.scene = rcv.scene /\ rcv'.bound = rcv.bound
        /\ rcv'.tg = rcv.tg /\ rcv'.tag = rcv.tag
        /\ rcv'.framed = rcv.framed /\ ~rcv'.strayed
    BY <1>1, <1>2, RcvSameContext
  <2>2. \A x \in ToSet(<<>>) : RcvSent(x)' /\ x.op # "layerSubscribe"
    BY <1>3
  <2>3. PICK op : RcvOn(op) /\ op \notin {"tgCreate", "tagCreate", "tagSet"} /\ Handled(R, <<>>)
    BY <1>1
  <2> QED
    BY <1>2, <1>3, <2>1, <2>2, <2>3, RcvQuiet

LEMMA RcvAuthenticatesHolds ==
    ASSUME IInv, UNCHANGED snd, RcvAuthenticates PROVE IInv'
<1>1. PICK op \in {"askName", "askPassword"}, reply \in {"name", "password"} :
         RcvOn(op) /\ Handled(R, <<Signal(reply)>>) /\ rcv' = rcv
  BY DEF RcvAuthenticates, R
<1>2. RcvMsg # SceneTold /\ rcv \in Found /\ ~rcv.strayed /\ rcv.phase = "on"
  BY <1>1, RcvHead, Fields DEF SceneTold, IInv, RcvStreams
<1>3. /\ <<Signal(reply)>> \in Seq(Message)
      /\ \A x \in ToSet(<<Signal(reply)>>) : x.op = reply
  BY Signals, Listed, Fields DEF Op, Signal
<1>4. \A x \in ToSet(<<Signal(reply)>>) : RcvSent(x)' /\ x.op # "layerSubscribe"
  BY <1>3 DEF RcvSent
<1> QED
  BY <1>1, <1>2, <1>3, <1>4, RcvQuiet

LEMMA RcvAcceptedHolds ==
    ASSUME IInv, UNCHANGED snd, RcvAccepted PROVE IInv'
<1> DEFINE a == Msg("nodeSubscribe", R, NoArg)
           b == Msg("nodeSubscribe", SceneParent, NoArg)
<1>1. RcvOn("accept") /\ Handled(R, <<a, b>>) /\ rcv' = rcv
  BY DEF RcvAccepted, R
<1>2. RcvMsg # SceneTold /\ rcv \in Found /\ ~rcv.strayed /\ rcv.phase = "on"
  BY <1>1, RcvHead, Fields DEF SceneTold, IInv, RcvStreams
<1>3. a \in Message /\ b \in Message
  BY RcvNames, Messages DEF Op
<1>4. <<a, b>> \in Seq(Message) /\ ToSet(<<a, b>>) = {a, b}
  BY <1>3, Listed
<1>5. \A x \in {a, b} : x.op = "nodeSubscribe" /\ x.node \in {R, SceneParent}
  BY Fields
<1>6. \A x \in ToSet(<<a, b>>) : RcvSent(x)' /\ x.op # "layerSubscribe"
  BY <1>4, <1>5 DEF RcvSent
<1> DEFINE sent == <<a, b>>
<1>7. Handled(R, sent) /\ sent \in Seq(Message)
      /\ \A x \in ToSet(sent) : RcvSent(x)' /\ x.op # "layerSubscribe"
  BY <1>1, <1>4, <1>6
<1> HIDE DEF sent
<1> QED
  BY <1>1, <1>2, <1>7, RcvQuiet

LEMMA RcvSceneCreatedHolds ==
    ASSUME IInv, UNCHANGED snd, RcvSceneCreated PROVE IInv'
<1> DEFINE n == RcvMsg.node
           sent == <<Msg("nodeSubscribe", n, NoArg)>>
<1>1. /\ RcvOn("nodeCreate") /\ n \in Scenes
      /\ RcvMsg = Msg("nodeCreate", n, SceneParent) /\ RcvMsg.arg = SceneParent
      /\ rcv \in Found /\ rcv.phase = "on"
      /\ down[R] # <<>> /\ RcvMsg = Head(down[R]) /\ Taken(down[R], Tail(down[R]))
      /\ ~rcv.strayed
  BY RcvHead DEF RcvSceneCreated, RcvTold, IInv, RcvStreams
<1>2. CASE rcv.scene # Nowhere
  <2>1. rcv.scene = Scene1
    BY <1>2 DEF IInv, RcvQueues
  <2>2. RcvReturns
    BY <1>2 DEF RcvSceneCreated
  <2>3. PICK op : RcvOn(op) /\ op \notin {"tgCreate", "tagCreate", "tagSet"}
    BY <1>1
  <2> QED
    BY <2>1, <2>2, <2>3, RcvReturnsHolds
<1>3. CASE rcv.scene = Nowhere
  <2>1. /\ rcv' = [rcv EXCEPT !.scene = n] /\ Handled(R, sent)
    BY <1>1, <1>3 DEF RcvSceneCreated, R
  <2>2. n = Scene1
    <3>1. rcv.scene # Scene1
      BY <1>3, RcvNames
    <3>2. RcvMsg # Msg("nodeCreate", Scene(2), SceneParent)
      BY <1>1, <3>1 DEF Taken, IInv, RcvOrders
    <3> QED
      BY <1>1, <3>2, Names DEF Scene1
  <2>3. /\ rcv' \in Found /\ rcv'.phase = "on"
        /\ rcv'.scene = Scene1 /\ rcv'.bound = rcv.bound
        /\ rcv'.tg = rcv.tg /\ rcv'.tag = rcv.tag
        /\ rcv'.framed = rcv.framed /\ ~rcv'.strayed
    BY <1>1, <2>1, <2>2, RcvNames DEF Found
  <2>4. RcvGrows
    <3>1. rcv.bound # Node1
      BY <1>3, RcvNames DEF IInv, RcvQueues
    <3>2. \A k \in rcv.tg : k \in Node /\ RcvFinds(k)'
      BY <1>3, <2>3, RcvNames DEF IInv, RcvQueues, RcvFinds
    <3> QED
      BY <2>3, <3>1, <3>2 DEF RcvGrows, IInv, RcvQueues
  <2>5. sent \in Seq(Message) /\ \A x \in ToSet(sent) : x = Msg("nodeSubscribe", Scene1, NoArg)
    <3>1. Msg("nodeSubscribe", n, NoArg) \in Message
      BY <2>2, RcvNames, Messages DEF Op
    <3> QED
      BY <2>2, <3>1, Listed
  <2>6. ASSUME NEW x, x = Msg("nodeSubscribe", Scene1, NoArg)
        PROVE  RcvSent(x)' /\ x.op # "layerSubscribe"
    <3>1. x.op = "nodeSubscribe" /\ x.node = Scene1
      BY <2>6, Fields
    <3>2. RcvFinds(Scene1)'
      BY <2>3 DEF RcvFinds, Scene1
    <3> QED
      BY <3>1, <3>2, RcvNames DEF RcvSent, Scene1
  <2> HIDE DEF sent
  <2>7. RcvSends(sent)
    BY <2>3, <2>5, <2>6, RcvPlain
  <2>8. RcvMsg # TagGroup1 /\ RcvMsg # Tag1 /\ RcvMsg # Frame1
    BY <1>1, Fields DEF TagGroup1, Tag1, Frame1
  <2> QED
    BY <1>1, <2>1, <2>3, <2>4, <2>5, <2>7, <2>8, RcvCallback
<1> QED
  BY <1>2, <1>3

LEMMA RcvSenderCreatedHolds ==
    ASSUME IInv, UNCHANGED snd, RcvSenderCreated PROVE IInv'
<1> DEFINE sent == <<Msg("nodeSubscribe", Node1, NoArg)>>
<1>1. /\ RcvOn("nodeCreate") /\ RcvMsg.node = Node1 /\ RcvMsg.arg = Scene1
      /\ RcvMsg = Msg("nodeCreate", Node1, Scene1)
      /\ rcv.scene = Scene1 /\ Node1 \in known[R]
      /\ rcv \in Found /\ rcv.phase = "on" /\ ~rcv.strayed
  <2>1. RcvMsg = Msg("nodeCreate", Node1, Scene1) /\ rcv.scene = Scene1 /\ Node1 \in known[R]
    BY RcvHead DEF RcvSenderCreated, RcvTold
  <2> QED
    BY <2>1, RcvHead, Fields DEF RcvSenderCreated, IInv, RcvStreams
<1>2. /\ RcvMsg # SceneTold
      /\ RcvMsg # TagGroup1 /\ RcvMsg # Tag1 /\ RcvMsg # Frame1
  BY <1>1, Fields, RcvNames DEF TagGroup1, Tag1, Frame1, SceneTold
<1>3. CASE rcv.bound # Nowhere
  <2>1. RcvReturns
    BY <1>1, <1>3, RcvNames DEF RcvSenderCreated
  <2>2. PICK op : RcvOn(op) /\ op \notin {"tgCreate", "tagCreate", "tagSet"}
    BY <1>1
  <2> QED
    BY <1>2, <2>1, <2>2, RcvReturnsHolds
<1>4. CASE rcv.bound = Nowhere
  <2>1. /\ rcv' = [rcv EXCEPT !.bound = Node1] /\ Handled(R, sent)
    BY <1>1, <1>4, RcvNames DEF RcvSenderCreated, R
  <2>2. /\ rcv' \in Found /\ rcv'.phase = "on"
        /\ rcv'.scene = Scene1 /\ rcv'.bound = Node1
        /\ rcv'.tg = rcv.tg /\ rcv'.tag = rcv.tag
        /\ rcv'.framed = rcv.framed /\ ~rcv'.strayed
    BY <1>1, <2>1, RcvNames DEF Found
  <2>3. RcvGrows
    <3>1. \A k \in rcv.tg : k \in Node /\ RcvFinds(k)'
      BY <1>1, <1>4, <2>2, RcvNames DEF IInv, RcvQueues, RcvFinds
    <3> QED
      BY <1>1, <2>2, <3>1 DEF RcvGrows, IInv, RcvQueues
  <2>4. sent \in Seq(Message) /\ \A x \in ToSet(sent) : x = Msg("nodeSubscribe", Node1, NoArg)
    <3>1. Msg("nodeSubscribe", Node1, NoArg) \in Message
      BY RcvNames, Messages DEF Op
    <3> QED
      BY <3>1, Listed
  <2>5. ASSUME NEW x, x = Msg("nodeSubscribe", Node1, NoArg)
        PROVE  RcvSent(x)' /\ x.op # "layerSubscribe"
    <3>1. x.op = "nodeSubscribe" /\ x.node = Node1
      BY <2>5, Fields
    <3>2. RcvFinds(Node1)'
      BY <2>2 DEF RcvFinds, Node1
    <3> QED
      BY <3>1, <3>2, RcvNames DEF RcvSent, Node1
  <2> HIDE DEF sent
  <2>6. RcvSends(sent)
    BY <2>2, <2>4, <2>5, RcvPlain
  <2> QED
    BY <1>1, <1>2, <2>1, <2>3, <2>4, <2>6, RcvCallback
<1> QED
  BY <1>3, <1>4

LEMMA RcvTagGroupCreatedHolds ==
    ASSUME IInv, UNCHANGED snd, RcvTagGroupCreated PROVE IInv'
<1>1. /\ RcvOn("tgCreate") /\ RcvMsg.op = "tgCreate"
      /\ RcvMsg.node \in Node /\ RcvFinds(RcvMsg.node)
      /\ rcv \in Found /\ rcv.phase = "on" /\ ~rcv.strayed
  BY RcvHead DEF RcvTagGroupCreated, RcvTold, IInv, RcvStreams
<1>2. PICK n \in Node : n = RcvMsg.node
  BY <1>1
<1> DEFINE sent == <<Msg("tgSubscribe", n, NoArg)>>
<1>3. /\ rcv' = [rcv EXCEPT !.tg = @ \cup {n}] /\ Handled(R, sent) /\ RcvFinds(n)
  BY <1>1, <1>2 DEF RcvTagGroupCreated, R
<1>4. /\ rcv' \in Found /\ rcv'.phase = "on"
      /\ rcv'.scene = rcv.scene /\ rcv'.bound = rcv.bound
      /\ rcv'.tg = rcv.tg \cup {n} /\ rcv'.tag = rcv.tag
      /\ rcv'.framed = rcv.framed /\ ~rcv'.strayed
  BY <1>1, <1>2, <1>3 DEF Found
<1>5. RcvGrows
  <2>1. \A k \in rcv'.tg : k \in Node /\ RcvFinds(k)'
    BY <1>3, <1>4 DEF IInv, RcvQueues, RcvFinds
  <2> QED
    BY <1>4, <2>1 DEF RcvGrows, IInv, RcvQueues
<1>6. sent \in Seq(Message) /\ ToSet(sent) = {Msg("tgSubscribe", n, NoArg)}
  <2>1. n \in Name
    BY DEF Name
  <2>2. Msg("tgSubscribe", n, NoArg) \in Message
    BY <2>1, Messages DEF Op
  <2> QED
    BY <2>2, Listed
<1>7. ASSUME NEW x, x = Msg("tgSubscribe", n, NoArg)
      PROVE  RcvSent(x)' /\ x.op # "layerSubscribe"
  <2>1. x.op = "tgSubscribe" /\ x.node = n /\ x.arg = NoArg
    BY <1>7, Fields
  <2> QED
    BY <1>4, <2>1 DEF RcvSent
<1>8. RcvSends(sent)
  <2>1. FollowsLayer \notin ToSet(sent)
    BY <1>6, Fields DEF FollowsLayer
  <2> HIDE DEF sent
  <2>2. n = Node1 => FollowsTagGroup \in ToSet(sent)
    BY <1>6 DEF FollowsTagGroup
  <2> QED
    BY <1>4, <1>6, <1>7, <2>1, <2>2 DEF RcvSends
<1>9. /\ RcvMsg # SceneTold /\ RcvMsg # Tag1 /\ RcvMsg # Frame1
      /\ RcvMsg = TagGroup1 => Node1 \in rcv'.tg
  <2>1. RcvMsg # SceneTold /\ RcvMsg # Tag1 /\ RcvMsg # Frame1
    BY <1>1, Fields DEF SceneTold, Tag1, Frame1
  <2>2. RcvMsg = TagGroup1 => n = Node1
    BY <1>2, Fields DEF TagGroup1
  <2> QED
    BY <1>4, <2>1, <2>2
<1> HIDE DEF sent
<1> QED
  BY <1>1, <1>3, <1>5, <1>6, <1>8, <1>9, RcvCallback

LEMMA RcvTagCreatedHolds ==
    ASSUME IInv, UNCHANGED snd, RcvTagCreated PROVE IInv'
<1>1. /\ RcvOn("tagCreate") /\ RcvMsg.op = "tagCreate"
      /\ RcvMsg.node \in rcv.tg /\ RcvMsg.arg \in Tag /\ RcvFinds(RcvMsg.node)
      /\ rcv \in Found /\ rcv.phase = "on" /\ ~rcv.strayed
  <2>1. RcvOn("tagCreate") /\ RcvMsg.node \in rcv.tg /\ RcvMsg.arg \in Tag
    BY RcvHead DEF RcvTagCreated, RcvTold
  <2> QED
    BY <2>1, RcvHead DEF IInv, RcvQueues, RcvStreams
<1>2. PICK t \in Tag : t = RcvMsg.arg
  BY <1>1
<1>3. /\ rcv' = [rcv EXCEPT !.tag = @ \cup {t}] /\ Handled(R, <<>>)
  BY <1>1, <1>2 DEF RcvTagCreated, R
<1>4. /\ rcv' \in Found /\ rcv'.phase = "on"
      /\ rcv'.scene = rcv.scene /\ rcv'.bound = rcv.bound
      /\ rcv'.tg = rcv.tg /\ rcv'.tag = rcv.tag \cup {t}
      /\ rcv'.framed = rcv.framed /\ ~rcv'.strayed
  BY <1>1, <1>2, <1>3 DEF Found
<1>5. RcvGrows
  BY <1>4, RcvAsBefore
<1>6. <<>> \in Seq(Message) /\ RcvSends(<<>>)
  <2>1. \A x : x \notin ToSet(<<>>)
    BY Listed
  <2> QED
    BY <1>4, <2>1, RcvPlain
<1>7. RcvMsg # SceneTold /\ RcvMsg # TagGroup1 /\ RcvMsg # Frame1
  BY <1>1, Fields DEF SceneTold, TagGroup1, Frame1
<1>8. RcvMsg = Tag1 => FrameTag \in rcv'.tag
  BY <1>2, <1>4, Fields DEF Tag1
<1> QED
  BY <1>1, <1>3, <1>5, <1>6, <1>7, <1>8, RcvCallback

LEMMA RcvTagSetHolds ==
    ASSUME IInv, UNCHANGED snd, RcvTagSet PROVE IInv'
<1> DEFINE frame == RcvMsg.node = rcv.bound /\ rcv.bound \in rcv.tg
                    /\ RcvMsg.arg = FrameTag /\ FrameTag \in rcv.tag
<1>1. /\ RcvOn("tagSet") /\ RcvMsg.op = "tagSet" /\ RcvMsg = Head(down[R])
      /\ RcvMsg.node \in rcv.tg /\ RcvFinds(RcvMsg.node) /\ Taken(down[R], Tail(down[R]))
      /\ rcv \in Found /\ rcv.phase = "on" /\ ~rcv.strayed
      /\ Handled(R, <<>>)
      /\ rcv' = IF frame THEN [rcv EXCEPT !.run = TRUE, !.framed = TRUE] ELSE rcv
  <2>1. RcvOn("tagSet") /\ RcvMsg.node \in rcv.tg
    BY RcvHead DEF RcvTagSet, RcvTold
  <2> QED
    BY <2>1, RcvHead DEF IInv, RcvQueues, RcvStreams, RcvTagSet, R
<1>2. RcvMsg = Frame1 => frame
  <2>1. ASSUME RcvMsg = Frame1 PROVE FrameTag \in rcv.tag
    BY <1>1, <2>1 DEF Taken, IInv, RcvStreams
  <2>2. ASSUME RcvMsg = Frame1
        PROVE  RcvMsg.node = Node1 /\ RcvMsg.arg = FrameTag
    BY <2>2, Fields DEF Frame1
  <2>3. ASSUME RcvMsg.node = Node1 PROVE rcv.bound = Node1
    BY <1>1, <2>3, RcvNames DEF RcvFinds, IInv, RcvQueues
  <2> QED
    BY <1>1, <2>1, <2>2, <2>3
<1>3. /\ rcv' \in Found /\ rcv'.phase = "on"
      /\ rcv'.scene = rcv.scene /\ rcv'.bound = rcv.bound
      /\ rcv'.tg = rcv.tg /\ rcv'.tag = rcv.tag
      /\ rcv.framed => rcv'.framed
      /\ frame => rcv'.framed
      /\ ~rcv'.strayed
  <2> HIDE DEF frame
  <2> QED
    BY <1>1 DEF Found
<1>4. RcvGrows
  <2> HIDE DEF frame
  <2> QED
    BY <1>3, RcvAsBefore
<1>5. <<>> \in Seq(Message) /\ RcvSends(<<>>)
  <2>1. \A x : x \notin ToSet(<<>>)
    BY Listed
  <2> QED
    BY <1>3, <2>1, RcvPlain
<1>6. RcvMsg # SceneTold /\ RcvMsg # TagGroup1 /\ RcvMsg # Tag1
  BY <1>1, Fields DEF SceneTold, TagGroup1, Tag1
<1>7. RcvMsg = Frame1 => rcv'.framed
  BY <1>2, <1>3
<1>8. RcvOn("tagSet") /\ Handled(R, <<>>)
  BY <1>1
<1> HIDE DEF frame
<1> QED
  BY <1>4, <1>5, <1>6, <1>7, <1>8, RcvCallback

LEMMA RcvLayerCreatedHolds ==
    ASSUME IInv, UNCHANGED snd, RcvLayerCreated PROVE IInv'
<1> DEFINE sent == <<FollowsLayer>>
<1>1. /\ RcvOn("layerCreate") /\ RcvMsg = Layer1 /\ RcvMsg.node = Node1
      /\ RcvFinds(Node1) /\ RcvMsg = Head(down[R]) /\ Taken(down[R], Tail(down[R]))
      /\ rcv \in Found /\ rcv.phase = "on" /\ ~rcv.strayed
  <2>1. RcvOn("layerCreate") /\ RcvMsg.node = Node1 /\ RcvMsg.arg = NoArg /\ RcvFinds(Node1)
    BY RcvHead DEF RcvLayerCreated, RcvTold
  <2> QED
    BY <2>1, RcvHead DEF IInv, RcvStreams, Layer1
<1>2. rcv' = [rcv EXCEPT !.layer = TRUE] /\ Handled(R, sent)
  BY <1>1 DEF RcvLayerCreated, R, FollowsLayer
<1>3. /\ rcv' \in Found /\ rcv'.phase = "on"
      /\ rcv'.scene = rcv.scene /\ rcv'.bound = rcv.bound
      /\ rcv'.tg = rcv.tg /\ rcv'.tag = rcv.tag
      /\ rcv'.framed = rcv.framed /\ ~rcv'.strayed
  BY <1>1, <1>2 DEF Found
<1>4. RcvGrows
  BY <1>3, RcvAsBefore
<1>5. sent \in Seq(Message) /\ ToSet(sent) = {FollowsLayer}
  <2>1. FollowsLayer \in Message
    BY RcvNames, Messages DEF FollowsLayer, Op
  <2> QED
    BY <2>1, Listed
<1>6. Node1 \in rcv.tg
  BY <1>1 DEF Taken, IInv, RcvStreams
<1>7. FollowsTagGroup # FollowsLayer
  BY Different DEF FollowsTagGroup, FollowsLayer
<1>8. RcvSends(sent)
  <2>1. ASSUME NEW x, x = FollowsLayer PROVE RcvSent(x)'
    <3>1. x.op = "layerSubscribe"
      BY <2>1, Fields DEF FollowsLayer
    <3>2. RcvFinds(Node1)'
      BY <1>1, <1>3 DEF RcvFinds, Node1
    <3> QED
      BY <2>1, <3>1, <3>2 DEF RcvSent, FollowsLayer, Node1
  <2> HIDE DEF sent
  <2>2. Following => Node1 \in tgSubs[R] \/ FollowsTagGroup \in RUp
    BY <1>6 DEF IInv, RcvStreams
  <2> QED
    BY <1>3, <1>5, <1>7, <2>1, <2>2 DEF RcvSends
<1>9. RcvMsg # SceneTold /\ RcvMsg # TagGroup1 /\ RcvMsg # Tag1 /\ RcvMsg # Frame1
  BY <1>1, Different DEF Layer1, SceneTold, TagGroup1, Tag1, Frame1
<1> HIDE DEF sent
<1> QED
  BY <1>1, <1>2, <1>4, <1>5, <1>8, <1>9, RcvCallback

LEMMA RcvLayerSetHolds ==
    ASSUME IInv, UNCHANGED snd, RcvLayerSet PROVE IInv'
<1>1. /\ RcvOn("layerSet") /\ RcvMsg = Value1 /\ RcvMsg.node = Node1
      /\ RcvFinds(Node1) /\ RcvMsg = Head(down[R]) /\ Taken(down[R], Tail(down[R]))
      /\ rcv \in Found /\ rcv.phase = "on" /\ ~rcv.strayed
  <2>1. RcvOn("layerSet") /\ RcvMsg.node = Node1 /\ RcvMsg.arg = NoArg /\ RcvFinds(Node1)
    BY RcvHead DEF RcvLayerSet, RcvTold
  <2> QED
    BY <2>1, RcvHead DEF IInv, RcvStreams, Value1
<1>2. rcv.framed
  BY <1>1 DEF Taken, IInv, RcvStreams
<1>3. rcv' = [rcv EXCEPT !.strayed = FALSE] /\ Handled(R, <<>>)
  BY <1>1, <1>2 DEF RcvLayerSet, R
<1>4. /\ rcv' \in Found /\ rcv'.phase = "on"
      /\ rcv'.scene = rcv.scene /\ rcv'.bound = rcv.bound
      /\ rcv'.tg = rcv.tg /\ rcv'.tag = rcv.tag
      /\ rcv'.framed = rcv.framed /\ ~rcv'.strayed
  BY <1>1, <1>3 DEF Found
<1>5. <<>> \in Seq(Message) /\ RcvSends(<<>>) /\ RcvGrows
  <2>1. \A x : x \notin ToSet(<<>>)
    BY Listed
  <2> QED
    BY <1>4, <2>1, RcvPlain, RcvAsBefore
<1>6. RcvMsg # SceneTold /\ RcvMsg # TagGroup1 /\ RcvMsg # Tag1 /\ RcvMsg # Frame1
  BY <1>1, Different DEF Value1, SceneTold, TagGroup1, Tag1, Frame1
<1>7. RcvOn("layerSet") /\ Handled(R, <<>>)
  BY <1>1, <1>3
<1> QED
  BY <1>5, <1>6, <1>7, RcvCallback

LEMMA ReceiverActsHolds ==
    ASSUME IInv, ReceiverStep \/ RcvInterrupt, UNCHANGED snd
    PROVE  IInv'
BY RcvConnectsHolds, RcvAuthenticatesHolds, RcvAcceptedHolds, RcvSceneCreatedHolds,
   RcvSenderCreatedHolds, RcvTagGroupCreatedHolds, RcvTagCreatedHolds,
   RcvTagSetHolds, RcvLayerCreatedHolds, RcvLayerSetHolds, RcvIgnoresHolds,
   RcvTerminatedHolds, RcvInterruptHolds
   DEF ReceiverStep

-----------------------------------------------------------------------------
(* What the server does for the receiving client: the sending client does  *)
(* not notice.                                                             *)

RcvAsks(msgs) ==
    /\ UNCHANGED <<snd, rcv, tree>> /\ Queues' /\ Subscriptions'
    /\ R \in open /\ RcvSent(Told(R)) /\ Told(R) = Head(up[R])
    /\ Told(R) \in Message
    /\ Taken(up[R], up'[R]) /\ Added(down[R], msgs, down'[R])
    /\ up'[S] = up[S] /\ down'[S] = down[S] /\ nodeSubs'[S] = nodeSubs[S]
    /\ tgSubs'[S] = tgSubs[S] /\ layerSubs'[S] = layerSubs[S]
    /\ S \in open' <=> S \in open
    /\ known[R] \subseteq known'[R]

LEMMA Clients == S \in Client /\ R \in Client /\ S # R /\ Client = {S, R}
BY DEF S, R, Client, Sender, Receiver

LEMMA RcvTaking ==
    ASSUME IInv, up[R] # <<>>, up' = [up EXCEPT ![R] = Tail(@)]
    PROVE  /\ up' \in [Client -> Seq(Message)]
           /\ Told(R) \in Message /\ RcvSent(Told(R)) /\ Told(R) = Head(up[R])
           /\ Taken(up[R], up'[R]) /\ up'[S] = up[S]
<1>1. Queues /\ up[R] \in Seq(Message)
  BY Clients DEF IInv, TypeOK, Queues
<1>2. Told(R) \in RUp
  BY <1>1, QueueTail DEF Told, RUp
<1>3. RcvSent(Told(R))
  BY <1>2 DEF IInv, RcvQueues
<1> QED
  BY <1>1, <1>3, Clients, Taking DEF Told

LEMMA AddedNothing ==
    ASSUME NEW q \in Seq(Message) PROVE Added(q, <<>>, q)
<1>1. q \o <<>> = q /\ <<>> \in Seq(Message)
  OBVIOUS
<1> QED
  BY <1>1, AddedConcat

LEMMA RcvAsked ==
    ASSUME IInv, NEW msgs, RcvAsks(msgs),
           \A x \in ToSet(msgs) : RcvTold(x)',
           \A n \in nodeSubs'[R] : n \in {R, SceneParent} \/ (n \in Node /\ RcvFinds(n)),
           tgSubs'[R] \subseteq rcv.tg,
           layerSubs'[R] \subseteq {Node1}, Node1 \in layerSubs'[R] => RcvFinds(Node1),
           R \notin open' =>
              nodeSubs'[R] = {} /\ tgSubs'[R] = {} /\ layerSubs'[R] = {},
           RcvOrders', RcvStreams'
    PROVE  IInv'
<1>1. TypeOK'
  BY DEF RcvAsks, IInv, TypeOK, Tree, tree
<1>2. SndInv'
  <2>1. UNCHANGED SndView
    BY DEF RcvAsks, SndView
  <2> QED
    BY <2>1, SndUntouched DEF IInv, SndInv
<1>3. RcvQueues'
  <2>1. RUp' \subseteq RUp /\ RDown' = RDown \cup ToSet(msgs)
    BY DEF RcvAsks, Taken, Added, RUp, RDown
  <2>2. /\ rcv' = rcv /\ \A n : RcvFinds(n)' <=> RcvFinds(n)
    BY DEF RcvAsks, RcvFinds
  <2>3. ASSUME NEW x \in RUp PROVE RcvSent(x)'
    BY <2>2 DEF IInv, RcvQueues, RcvSent
  <2>4. ASSUME NEW x \in RDown PROVE RcvTold(x)'
    BY <2>2 DEF IInv, RcvQueues, RcvTold, RcvAsks
  <2>5. (\A x \in RUp' : RcvSent(x)') /\ \A x \in RDown' : RcvTold(x)'
    BY <2>1, <2>3, <2>4
  <2>6. rcv'.bound = Node1 => rcv'.scene = Scene1 /\ Node1 \in known'[R]
    BY <2>2 DEF IInv, RcvQueues, RcvAsks
  <2>7. /\ rcv'.scene \in {Nowhere, Scene1} /\ rcv'.bound \in {Nowhere, Node1}
        /\ rcv'.phase # "crashed"
        /\ \A n \in rcv'.tg : n \in Node /\ RcvFinds(n)'
    BY <2>2 DEF IInv, RcvQueues
  <2> QED
    BY <2>2, <2>5, <2>6, <2>7 DEF RcvQueues
<1> QED
  BY <1>1, <1>2, <1>3 DEF IInv, SndInv

(* Requests that are not about nodes.                                      *)
LEMMA RcvOrdersKept ==
    ASSUME IInv, NEW msgs, RcvAsks(msgs), known'[R] = known[R],
           SceneParent \in nodeSubs'[R] => SceneParent \in nodeSubs[R],
           \A x \in ToSet(msgs) : x.op # "nodeCreate"
    PROVE  RcvOrders'
<1>1. /\ rcv' = rcv /\ snd' = snd /\ parent' = parent /\ known'[R] = known[R]
      /\ RDown \subseteq RDown'
  BY DEF RcvAsks, tree, Added, RDown
<1>2. Msg("nodeCreate", Scene(2), SceneParent) \notin ToSet(msgs)
  BY Fields
<1>3. rcv.scene = Scene1 \/
      Precedes(down'[R], Msg("nodeCreate", Scene1, SceneParent),
                         Msg("nodeCreate", Scene(2), SceneParent))
  BY <1>2 DEF IInv, RcvOrders, RcvAsks, Added
<1> QED
  BY <1>1, <1>3 DEF IInv, RcvOrders

(* Answers that subscribe to nothing.                                      *)
LEMMA RcvStreamsKept ==
    ASSUME IInv, NEW msgs, RcvAsks(msgs),
           tgSubs'[R] = tgSubs[R], layerSubs'[R] = layerSubs[R],
           nodeSubs'[R] = nodeSubs[R], R \in open' => R \in open,
           Following' => Told(R) # FollowsTagGroup,
           \A x \in ToSet(msgs) : x.op \notin {"layerSet", "tagSet", "layerCreate"}
    PROVE  RcvStreams'
<1>1. /\ rcv' = rcv /\ parent' = parent /\ tgs' = tgs /\ tags' = tags /\ tagSet' = tagSet
      /\ RDown \subseteq RDown' /\ RUp \subseteq {Told(R)} \cup RUp'
  BY DEF RcvAsks, tree, Added, Taken, RDown, RUp
<1>2. Value1 \notin ToSet(msgs) /\ Frame1 \notin ToSet(msgs) /\ Layer1 \notin ToSet(msgs)
  BY Fields DEF Value1, Frame1, Layer1
<1>3. /\ rcv.framed \/ Precedes(down'[R], Frame1, Value1)
      /\ FrameTag \in rcv.tag \/ Precedes(down'[R], Tag1, Frame1)
      /\ Node1 \in rcv.tg \/ Precedes(down'[R], TagGroup1, Layer1)
  BY <1>2 DEF IInv, RcvStreams, RcvAsks, Added
<1>4. ASSUME Following'
      PROVE  /\ Following
             /\ Node1 \in rcv.tg => Node1 \in tgSubs[R] \/ FollowsTagGroup \in RUp'
             /\ Node1 \in tgSubs[R] \/ Precedes(up'[R], FollowsTagGroup, FollowsLayer)
  <2>1. Following
    BY <1>1, <1>4 DEF Following
  <2> QED
    BY <1>1, <1>4, <2>1 DEF IInv, RcvStreams, RcvAsks, Taken
<1> QED
  BY <1>1, <1>3, <1>4 DEF IInv, RcvStreams

(* The answer to a request that changes at most the subscriptions of the   *)
(* receiving client.                                                       *)
LEMMA RcvAnswers ==
    ASSUME IInv, UNCHANGED <<snd, rcv, tree>>, R \in open, up[R] # <<>>,
           up' = [up EXCEPT ![R] = Tail(@)],
           NEW msgs \in Seq(Message), Answer(R, msgs), Subscriptions',
           nodeSubs'[S] = nodeSubs[S], tgSubs'[S] = tgSubs[S],
           layerSubs'[S] = layerSubs[S], S \in open' <=> S \in open,
           known[R] \subseteq known'[R]
    PROVE  RcvAsks(msgs)
<1>1. /\ up' \in [Client -> Seq(Message)]
      /\ Told(R) \in Message /\ RcvSent(Told(R)) /\ Told(R) = Head(up[R])
      /\ Taken(up[R], up'[R]) /\ up'[S] = up[S]
  BY RcvTaking
<1>2. /\ down' \in [Client -> Seq(Message)]
      /\ Added(down[R], msgs, down'[R]) /\ down'[S] = down[S]
  BY Clients, Answering DEF IInv, TypeOK
<1> QED
  BY <1>1, <1>2 DEF RcvAsks, Queues

LEMMA RcvGreetsHolds ==
    ASSUME IInv, UNCHANGED <<snd, rcv>>, Greets(R) PROVE IInv'
<1>1. PICK op \in {"connect", "name", "password"},
           reply \in {"askName", "askPassword", "accept"} :
         Takes(R, op) /\ Answer(R, <<Signal(reply)>>)
  BY DEF Greets
<1> DEFINE msgs == <<Signal(reply)>>
<1>2. /\ UNCHANGED <<tree, known, nodeSubs, tgSubs, layerSubs, open>>
      /\ R \in open /\ up[R] # <<>> /\ Told(R).op = op
      /\ up' = [up EXCEPT ![R] = Tail(@)]
  BY <1>1 DEF Greets, Takes, subs
<1>3. msgs \in Seq(Message) /\ \A x \in ToSet(msgs) : x.op = reply
  BY Signals, Listed, Fields DEF Op, Signal
<1>4. Subscriptions'
  BY <1>2 DEF IInv, TypeOK, Subscriptions
<1>5. RcvAsks(msgs)
  BY <1>1, <1>2, <1>3, <1>4, RcvAnswers
<1>6. \A x \in ToSet(msgs) : RcvTold(x)'
  BY <1>3 DEF RcvTold
<1>7. Told(R) # FollowsTagGroup
  BY <1>2, Fields DEF FollowsTagGroup
<1> HIDE DEF msgs
<1>8. RcvOrders'
  BY <1>2, <1>3, <1>5, RcvOrdersKept
<1>9. RcvStreams'
  BY <1>2, <1>3, <1>5, <1>7, RcvStreamsKept
<1> QED
  BY <1>2, <1>5, <1>6, <1>8, <1>9, RcvAsked DEF IInv, RcvQueues

LEMMA RcvIgnoredHolds ==
    ASSUME IInv, UNCHANGED <<snd, rcv>>, Ignores(R) PROVE IInv'
<1>1. /\ UNCHANGED <<tree, known, nodeSubs, tgSubs, layerSubs, open, down>>
      /\ R \in open /\ up[R] # <<>> /\ up' = [up EXCEPT ![R] = Tail(@)]
      /\ Told(R).node \in Node /\ parent[Told(R).node] = Nowhere
  BY DEF Ignores, subs, Exists
<1>2. /\ up' \in [Client -> Seq(Message)]
      /\ Told(R) \in Message /\ RcvSent(Told(R)) /\ Told(R) = Head(up[R])
      /\ Taken(up[R], up'[R]) /\ up'[S] = up[S]
  BY <1>1, RcvTaking
<1>3. Added(down[R], <<>>, down'[R]) /\ \A x : x \notin ToSet(<<>>)
  BY <1>1, AddedNothing, Clients, Listed DEF IInv, TypeOK, Queues
<1>4. RcvAsks(<<>>)
  BY <1>1, <1>2, <1>3 DEF RcvAsks, IInv, TypeOK, Queues, Subscriptions
<1>5. Following' => Told(R) # FollowsTagGroup
  BY <1>1, Fields DEF FollowsTagGroup, Following, tree
<1>6. RcvOrders'
  BY <1>1, <1>3, <1>4, RcvOrdersKept
<1>7. RcvStreams'
  BY <1>1, <1>3, <1>4, <1>5, RcvStreamsKept
<1> QED
  BY <1>1, <1>3, <1>4, <1>6, <1>7, RcvAsked DEF IInv, RcvQueues

LEMMA RcvTerminatesHolds ==
    ASSUME IInv, UNCHANGED <<snd, rcv>>, Terminates(R) PROVE IInv'
<1> DEFINE msgs == <<Signal("terminate")>>
<1>1. /\ UNCHANGED <<tree, known>> /\ Answer(R, msgs)
      /\ R \in open /\ up[R] # <<>> /\ up' = [up EXCEPT ![R] = Tail(@)]
      /\ open' = open \ {R}
      /\ nodeSubs' = [nodeSubs EXCEPT ![R] = {}]
      /\ tgSubs' = [tgSubs EXCEPT ![R] = {}]
      /\ layerSubs' = [layerSubs EXCEPT ![R] = {}]
  BY DEF Terminates, Takes
<1>2. /\ Subscriptions'
      /\ nodeSubs'[R] = {} /\ tgSubs'[R] = {} /\ layerSubs'[R] = {}
      /\ nodeSubs'[S] = nodeSubs[S] /\ tgSubs'[S] = tgSubs[S]
      /\ layerSubs'[S] = layerSubs[S] /\ (S \in open' <=> S \in open)
  BY <1>1, Clients DEF IInv, TypeOK, Subscriptions
<1>3. msgs \in Seq(Message) /\ \A x \in ToSet(msgs) : x.op = "terminate"
  BY Signals, Listed, Fields DEF Op, Signal
<1>4. RcvAsks(msgs)
  BY <1>1, <1>2, <1>3, RcvAnswers
<1>5. \A x \in ToSet(msgs) : RcvTold(x)'
  BY <1>3 DEF RcvTold
<1> HIDE DEF msgs
<1>6. RcvOrders'
  BY <1>1, <1>2, <1>3, <1>4, RcvOrdersKept
<1>7. RcvStreams'
  <2>1. Value1 \notin ToSet(msgs) /\ Frame1 \notin ToSet(msgs) /\ Layer1 \notin ToSet(msgs)
    BY <1>3, Fields DEF Value1, Frame1, Layer1
  <2>2. rcv' = rcv /\ ~Following'
    BY <1>1, <1>4 DEF RcvAsks, Following
  <2>3. /\ rcv.framed \/ Precedes(down'[R], Frame1, Value1)
        /\ FrameTag \in rcv.tag \/ Precedes(down'[R], Tag1, Frame1)
        /\ Node1 \in rcv.tg \/ Precedes(down'[R], TagGroup1, Layer1)
    BY <1>4, <2>1 DEF IInv, RcvStreams, RcvAsks, Added
  <2> QED
    BY <2>2, <2>3 DEF IInv, RcvStreams
<1> QED
  BY <1>2, <1>4, <1>5, <1>6, <1>7, RcvAsked

(* The values of the tags, in some order.                                  *)
LEMMA InSomeOrder ==
    ASSUME NEW s \in Seq(Tag), NEW V
    PROVE  /\ SetToSeq(ToSet(s) \cap V) \in Seq(Tag)
           /\ ToSet(SetToSeq(ToSet(s) \cap V)) = ToSet(s) \cap V
<1> DEFINE T == ToSet(s) \cap V
           n == Cardinality(T)
           f == SetToSeq(T)
<1>1. Len(s) \in Nat /\ s \in [1 .. Len(s) -> Tag]
  OBVIOUS
<1>2. IsFiniteSet(ToSet(s)) /\ T \subseteq Tag
  <2>1. s \in [1 .. Len(s) -> ToSet(s)] /\ \A t \in ToSet(s) : \E i \in 1 .. Len(s) : s[i] = t
    BY <1>1 DEF ToSet
  <2>2. ExistsSurjection(1 .. Len(s), ToSet(s))
    BY <2>1 DEF ExistsSurjection, Surjection
  <2>3. ToSet(s) \subseteq Tag
    BY <1>1 DEF ToSet
  <2> QED
    BY <1>1, <2>2, <2>3, FS_NatSurjection
<1>3. IsFiniteSet(T)
  <2>1. T \in SUBSET ToSet(s)
    OBVIOUS
  <2> QED
    BY <1>2, <2>1, FS_Subset
<1> HIDE DEF T
<1>4. n \in Nat /\ ExistsBijection(1 .. n, T)
  BY <1>3, FS_CardinalityType
<1>5. \E g \in [1 .. n -> T] : IsInjective(g)
  BY <1>4 DEF ExistsBijection, Bijection, Injection
<1>6. f \in [1 .. n -> T] /\ IsInjective(f)
  BY <1>5 DEF SetToSeq
<1> HIDE DEF f
<1>7. f \in Surjection(1 .. n, T)
  <2>1. f \in Injection(1 .. n, T)
    BY <1>6 DEF Injection
  <2>2. Cardinality(1 .. n) = n
    <3>1. 1 \in Int /\ n \in Int
      BY <1>4
    <3>2. Cardinality(1 .. n) = IF 1 > n THEN 0 ELSE n - 1 + 1
      BY <3>1, FS_Interval
    <3> HIDE DEF n
    <3> QED
      BY <1>4, <3>2
  <2> QED
    BY <1>3, <2>1, <2>2, FS_Injection
<1>8. ToSet(f) = T
  BY <1>6, <1>7 DEF Surjection, ToSet
<1>9. f \in Seq(Tag)
  <2>1. f \in [1 .. n -> Tag]
    BY <1>2, <1>6
  <2> HIDE DEF n
  <2> QED
    BY <1>4, <2>1
<1> QED
  BY <1>8, <1>9 DEF f, T

(* A message about every tag of a sequence.                                *)
LEMMA Mapped ==
    ASSUME NEW s \in Seq(Tag), NEW op \in Op, NEW n \in Name
    PROVE  LET r == [i \in DOMAIN s |-> Msg(op, n, s[i])]
           IN  /\ r \in Seq(Message)
               /\ \A t : Msg(op, n, t) \in ToSet(r) <=> t \in ToSet(s)
               /\ \A x \in ToSet(r) : \E t \in Tag : t \in ToSet(s) /\ x = Msg(op, n, t)
<1> DEFINE r == [i \in DOMAIN s |-> Msg(op, n, s[i])]
<1>1. /\ Len(s) \in Nat /\ DOMAIN s = 1 .. Len(s) /\ \A i \in 1 .. Len(s) : s[i] \in Tag
      /\ DOMAIN r = 1 .. Len(s)
  OBVIOUS
<1>2. \A i \in 1 .. Len(s) : Msg(op, n, s[i]) \in Message
  BY <1>1, Messages
<1>3. r \in Seq(Message)
  BY <1>1, <1>2
<1>4. \A x \in ToSet(r) : \E t \in Tag : t \in ToSet(s) /\ x = Msg(op, n, t)
  BY <1>1 DEF ToSet
<1>5. ASSUME NEW t \in ToSet(s) PROVE Msg(op, n, t) \in ToSet(r)
  <2>1. PICK i \in 1 .. Len(s) : t = s[i]
    BY <1>1 DEF ToSet
  <2>2. r[i] = Msg(op, n, t) /\ i \in DOMAIN r
    BY <1>1, <2>1
  <2> HIDE DEF r
  <2> QED
    BY <2>2 DEF ToSet
<1>6. ASSUME NEW t, Msg(op, n, t) \in ToSet(r) PROVE t \in ToSet(s)
  BY <1>4, <1>6, Different
<1> QED
  BY <1>3, <1>4, <1>5, <1>6

(* What a new subscriber of a tag group is told: the tags before values.   *)
TagsTold(n) ==
    LET names == tags[n]
        values == SetToSeq(ToSet(tags[n]) \cap tagSet)
    IN  [i \in DOMAIN names |-> Msg("tagCreate", n, names[i])]
        \o [i \in DOMAIN values |-> Msg("tagSet", n, values[i])]

LEMMA ToldOfTags ==
    ASSUME TypeOK, NEW n \in Node
    PROVE  /\ TagsTold(n) \in Seq(Message)
           /\ \A x \in ToSet(TagsTold(n)) :
                 /\ x.op \in {"tagCreate", "tagSet"} /\ x.node = n
                 /\ x.arg \in Tag /\ x.arg \in ToSet(tags[n])
           /\ \A t \in ToSet(tags[n]) :
                 /\ Msg("tagCreate", n, t) \in ToSet(TagsTold(n))
                 /\ t \in tagSet => Msg("tagSet", n, t) \in ToSet(TagsTold(n))
           /\ \A t : Precedes(TagsTold(n), Msg("tagCreate", n, t), Msg("tagSet", n, t))
<1> DEFINE names == tags[n]
           values == SetToSeq(ToSet(tags[n]) \cap tagSet)
           q == [i \in DOMAIN names |-> Msg("tagCreate", n, names[i])]
           s == [i \in DOMAIN values |-> Msg("tagSet", n, values[i])]
<1>1. names \in Seq(Tag) /\ n \in Name
  BY DEF TypeOK, Tree, Name
<1>2. values \in Seq(Tag) /\ ToSet(values) = ToSet(names) \cap tagSet
  BY <1>1, InSomeOrder
<1> HIDE DEF names, values
<1>3. "tagCreate" \in Op /\ "tagSet" \in Op
  BY DEF Op
<1>4. /\ q \in Seq(Message)
      /\ \A t : Msg("tagCreate", n, t) \in ToSet(q) <=> t \in ToSet(names)
      /\ \A x \in ToSet(q) : \E t \in Tag : t \in ToSet(names) /\ x = Msg("tagCreate", n, t)
  BY <1>1, <1>3, Mapped
<1>5. /\ s \in Seq(Message)
      /\ \A t : Msg("tagSet", n, t) \in ToSet(s) <=> t \in ToSet(values)
      /\ \A x \in ToSet(s) : \E t \in Tag : t \in ToSet(values) /\ x = Msg("tagSet", n, t)
  BY <1>1, <1>2, <1>3, Mapped
<1>6. TagsTold(n) = q \o s
  BY DEF TagsTold, names, values
<1> HIDE DEF q, s
<1>7. /\ TagsTold(n) \in Seq(Message) /\ ToSet(TagsTold(n)) = ToSet(q) \cup ToSet(s)
      /\ \A b, a : Precedes(q, b, a) /\ (b \in ToSet(q) \/ Precedes(s, b, a))
            => Precedes(TagsTold(n), b, a)
  BY <1>4, <1>5, <1>6, QueueConcat
<1>8. ASSUME NEW x \in ToSet(TagsTold(n))
      PROVE  /\ x.op \in {"tagCreate", "tagSet"} /\ x.node = n
             /\ x.arg \in Tag /\ x.arg \in ToSet(names)
  <2>1. PICK op \in {"tagCreate", "tagSet"}, t \in Tag :
           x = Msg(op, n, t) /\ t \in ToSet(names)
    BY <1>2, <1>4, <1>5, <1>7
  <2> QED
    BY <2>1, Fields
<1>9. ASSUME NEW t \in ToSet(names)
      PROVE  /\ Msg("tagCreate", n, t) \in ToSet(TagsTold(n))
             /\ t \in tagSet => Msg("tagSet", n, t) \in ToSet(TagsTold(n))
  BY <1>2, <1>4, <1>5, <1>7
<1>10. ASSUME NEW t
       PROVE Precedes(TagsTold(n), Msg("tagCreate", n, t), Msg("tagSet", n, t))
  <2>1. Msg("tagSet", n, t) \notin ToSet(q)
    BY <1>4, Different
  <2>2. Precedes(q, Msg("tagCreate", n, t), Msg("tagSet", n, t))
    BY <2>1, PrecedesNone
  <2>3. CASE t \in ToSet(names)
    BY <1>4, <1>7, <2>2, <2>3
  <2>4. CASE t \notin ToSet(names)
    <3>1. Msg("tagSet", n, t) \notin ToSet(s)
      BY <1>2, <1>5, <2>4
    <3> QED
      BY <1>7, <2>2, <3>1, PrecedesNone
  <2> QED
    BY <2>3, <2>4
<1> QED
  BY <1>7, <1>8, <1>9, <1>10 DEF names

LEMMA RcvSubscribesTagGroupHolds ==
    ASSUME IInv, UNCHANGED <<snd, rcv>>, SubscribesTagGroup(R) PROVE IInv'
<1>1. PICK n : n = Told(R).node
  OBVIOUS
<1>2. /\ UNCHANGED <<tree, known, nodeSubs, layerSubs, open>>
      /\ Answer(R, TagsTold(n))
      /\ R \in open /\ up[R] # <<>> /\ Told(R).op = "tgSubscribe"
      /\ up' = [up EXCEPT ![R] = Tail(@)]
      /\ tgSubs' = [tgSubs EXCEPT ![R] = @ \cup {n}]
  BY <1>1 DEF SubscribesTagGroup, Takes, TagsTold
<1>3. n \in rcv.tg /\ Told(R).arg = NoArg /\ n \in Node /\ RcvFinds(n)
  BY <1>1, <1>2, RcvTaking DEF RcvSent, IInv, RcvQueues
<1>4. TypeOK /\ n \in Name
  BY <1>3 DEF IInv, Name
<1>5. /\ TagsTold(n) \in Seq(Message)
      /\ \A x \in ToSet(TagsTold(n)) :
            /\ x.op \in {"tagCreate", "tagSet"} /\ x.node = n /\ x.arg \in Tag
            /\ x.arg \in ToSet(tags[n])
  BY <1>3, <1>4, ToldOfTags
<1>6. /\ tgSubs'[R] = tgSubs[R] \cup {n} /\ tgSubs'[S] = tgSubs[S]
      /\ Subscriptions'
  BY <1>2, <1>4, Clients DEF TypeOK, Subscriptions
<1>7. RcvAsks(TagsTold(n))
  BY <1>2, <1>5, <1>6, RcvAnswers
<1>8. \A x \in ToSet(TagsTold(n)) : RcvTold(x)'
  BY <1>2, <1>3, <1>5 DEF RcvTold, RcvFinds
<1>9. RcvOrders'
  BY <1>2, <1>5, <1>7, RcvOrdersKept
<1>10. RcvStreams'
  <2>1. /\ rcv' = rcv /\ parent' = parent /\ tgs' = tgs /\ tags' = tags /\ tagSet' = tagSet
        /\ RDown' = RDown \cup ToSet(TagsTold(n)) /\ (Following' <=> Following)
        /\ RUp \subseteq {Told(R)} \cup RUp'
    BY <1>2, <1>7 DEF RcvAsks, tree, Added, Taken, RDown, RUp, Following
  <2>2. Value1 \notin ToSet(TagsTold(n)) /\ Layer1 \notin ToSet(TagsTold(n))
    BY <1>5, Fields DEF Value1, Layer1
  <2>3. rcv.framed \/ Precedes(down'[R], Frame1, Value1)
    BY <1>7, <2>2 DEF IInv, RcvStreams, RcvAsks, Added
  <2>4. Node1 \in rcv.tg \/ Precedes(down'[R], TagGroup1, Layer1)
    BY <1>7, <2>2 DEF IInv, RcvStreams, RcvAsks, Added
  <2>5. FrameTag \in rcv.tag \/ Precedes(down'[R], Tag1, Frame1)
    <3>1. Precedes(TagsTold(n), Tag1, Frame1)
      <4>1. CASE n = Node1
        BY <1>3, <1>4, <4>1, ToldOfTags DEF Tag1, Frame1
      <4>2. CASE n # Node1
        <5>1. Frame1 \notin ToSet(TagsTold(n))
          BY <1>5, <4>2, Fields DEF Frame1
        <5> QED
          BY <5>1, PrecedesNone
      <4> QED
        BY <4>1, <4>2
    <3> QED
      BY <1>7, <3>1 DEF IInv, RcvStreams, RcvAsks, Added
  <2>6. ASSUME Following
        PROVE  /\ Node1 \in tgSubs'[R] /\ FrameTag \in ToSet(tags[Node1]) =>
                     FrameTag \in rcv.tag \/ Tag1 \in RDown'
               /\ Node1 \in tgSubs'[R] /\ FrameTag \in ToSet(tags[Node1])
                     /\ FrameTag \in tagSet =>
                     rcv.framed \/ Frame1 \in RDown'
    <3>1. CASE n = Node1
      <4>1. \A t \in ToSet(tags[Node1]) :
               /\ Msg("tagCreate", Node1, t) \in ToSet(TagsTold(n))
               /\ t \in tagSet => Msg("tagSet", Node1, t) \in ToSet(TagsTold(n))
        BY <1>3, <1>4, <3>1, ToldOfTags
      <4> QED
        BY <2>1, <4>1 DEF Tag1, Frame1
    <3>2. CASE n # Node1
      BY <1>6, <2>1, <2>6, <3>2 DEF IInv, RcvStreams
    <3> QED
      BY <3>1, <3>2
  <2>7. ASSUME Following
        PROVE  /\ Node1 \in rcv.tg => Node1 \in tgSubs'[R] \/ FollowsTagGroup \in RUp'
               /\ Node1 \in tgSubs'[R] \/ Precedes(up'[R], FollowsTagGroup, FollowsLayer)
    <3>1. Told(R) = FollowsTagGroup => n = Node1
      BY <1>1, Fields DEF FollowsTagGroup
    <3>2. CASE Node1 \in tgSubs[R]
      BY <1>6, <3>2
    <3>3. CASE Node1 \notin tgSubs[R]
      <4>1. /\ Node1 \in rcv.tg => FollowsTagGroup \in RUp
            /\ Precedes(up[R], FollowsTagGroup, FollowsLayer)
        BY <2>7, <3>3 DEF IInv, RcvStreams
      <4> QED
        BY <1>6, <1>7, <2>1, <3>1, <4>1 DEF RcvAsks, Taken
    <3> QED
      BY <3>2, <3>3
  <2> QED
    BY <1>2, <1>6, <2>1, <2>3, <2>4, <2>5, <2>6, <2>7 DEF IInv, RcvStreams
<1> QED
  <2>1. tgSubs'[R] \subseteq rcv.tg
    BY <1>3, <1>6 DEF IInv, RcvQueues
  <2> QED
    BY <1>2, <1>7, <1>8, <1>9, <1>10, <2>1, RcvAsked DEF IInv, RcvQueues

(* What a new subscriber of a node is told: the first scene before the     *)
(* second, the tag group before the layer.                                 *)
NodeTold(n, children) ==
    LET Creation(m) == When(m \in children, Msg("nodeCreate", m, n))
    IN  Creation(Scene(1)) \o Creation(Scene(2))
        \o Creation(SenderNode(1)) \o Creation(SenderNode(2))
        \o When(n \in tgs, Msg("tgCreate", n, NoArg))
        \o When(n \in layers, Msg("layerCreate", n, NoArg))

LEMMA Conditional ==
    ASSUME NEW T, NEW m, NEW x, m \in T => x \in Message
    PROVE  /\ When(m \in T, x) \in Seq(Message)
           /\ m \in T => ToSet(When(m \in T, x)) = {x}
           /\ m \notin T => ToSet(When(m \in T, x)) = {}
<1>1. CASE m \in T
  <2>1. When(m \in T, x) = <<x>> /\ x \in Message
    BY <1>1 DEF When
  <2>2. <<x>> \in Seq(Message)
    BY <2>1
  <2> QED
    BY <1>1, <2>1, <2>2, Listed
<1>2. CASE m \notin T
  <2>1. When(m \in T, x) = <<>> /\ <<>> \in Seq(Message)
    BY <1>2 DEF When
  <2> QED
    BY <1>2, <2>1, Listed
<1> QED
  BY <1>1, <1>2

LEMMA ToldOfNode ==
    ASSUME NEW n \in Name, NEW children \in SUBSET Node
    PROVE  /\ NodeTold(n, children) \in Seq(Message)
           /\ \A x \in ToSet(NodeTold(n, children)) :
                 \/ \E m \in children : x = Msg("nodeCreate", m, n)
                 \/ x = Msg("tgCreate", n, NoArg) /\ n \in tgs
                 \/ x = Msg("layerCreate", n, NoArg) /\ n \in layers
           /\ \A m \in children :
                 Msg("nodeCreate", m, n) \in ToSet(NodeTold(n, children))
           /\ n \in tgs =>
                 Msg("tgCreate", n, NoArg) \in ToSet(NodeTold(n, children))
           /\ Scene(1) \in children \/ Scene(2) \notin children =>
                 Precedes(NodeTold(n, children), Msg("nodeCreate", Scene(1), n),
                                                 Msg("nodeCreate", Scene(2), n))
           /\ n \in tgs \/ n \notin layers =>
                 Precedes(NodeTold(n, children), Msg("tgCreate", n, NoArg),
                                                 Msg("layerCreate", n, NoArg))
<1> DEFINE s1 == Msg("nodeCreate", Scene(1), n)
           s2 == Msg("nodeCreate", Scene(2), n)
           m1 == Msg("nodeCreate", SenderNode(1), n)
           m2 == Msg("nodeCreate", SenderNode(2), n)
           tg == Msg("tgCreate", n, NoArg)
           layer == Msg("layerCreate", n, NoArg)
           q1 == When(Scene(1) \in children, s1)
           q2 == When(Scene(2) \in children, s2)
           q3 == When(SenderNode(1) \in children, m1)
           q4 == When(SenderNode(2) \in children, m2)
           q5 == When(n \in tgs, tg)
           q6 == When(n \in layers, layer)
           scenes == q1 \o q2
           three == scenes \o q3
           nodes == three \o q4
           five == nodes \o q5
           all == five \o q6
<1>1. NodeTold(n, children) = all
  BY DEF NodeTold
<1>2. \A m \in children : Msg("nodeCreate", m, n) \in Message
  <2>1. \A m \in children : m \in Name
    BY DEF Name
  <2>2. "nodeCreate" \in Op /\ n \in Name \cup Tag \cup {NoArg}
    BY DEF Op
  <2> QED
    BY <2>1, <2>2, Messages
<1>3. tg \in Message /\ layer \in Message
  <2>1. "tgCreate" \in Op /\ "layerCreate" \in Op /\ NoArg \in Name \cup Tag \cup {NoArg}
    BY DEF Op
  <2> QED
    BY <2>1, Messages
<1>4. /\ q1 \in Seq(Message) /\ (Scene(1) \in children => ToSet(q1) = {s1})
      /\ Scene(1) \notin children => ToSet(q1) = {}
      /\ q2 \in Seq(Message) /\ (Scene(2) \in children => ToSet(q2) = {s2})
      /\ Scene(2) \notin children => ToSet(q2) = {}
  BY <1>2, Conditional
<1>5. /\ q3 \in Seq(Message) /\ (SenderNode(1) \in children => ToSet(q3) = {m1})
      /\ SenderNode(1) \notin children => ToSet(q3) = {}
      /\ q4 \in Seq(Message) /\ (SenderNode(2) \in children => ToSet(q4) = {m2})
      /\ SenderNode(2) \notin children => ToSet(q4) = {}
  BY <1>2, Conditional
<1>6. /\ q5 \in Seq(Message) /\ (n \in tgs => ToSet(q5) = {tg})
      /\ n \notin tgs => ToSet(q5) = {}
      /\ q6 \in Seq(Message) /\ (n \in layers => ToSet(q6) = {layer})
      /\ n \notin layers => ToSet(q6) = {}
  BY <1>3, Conditional
<1>7. /\ s1.op = "nodeCreate" /\ s2.op = "nodeCreate" /\ m1.op = "nodeCreate"
      /\ m2.op = "nodeCreate" /\ tg.op = "tgCreate" /\ layer.op = "layerCreate"
      /\ s1 # s2 /\ s2 # m1 /\ s2 # m2
  BY Names, Fields
<1> HIDE DEF q1, q2, q3, q4, q5, q6, s1, s2, m1, m2, tg, layer
<1>8. /\ scenes \in Seq(Message) /\ ToSet(scenes) = ToSet(q1) \cup ToSet(q2)
      /\ \A b, a : Precedes(q1, b, a) /\ (b \in ToSet(q1) \/ Precedes(q2, b, a))
            => Precedes(scenes, b, a)
  BY <1>4, QueueConcat
<1> HIDE DEF scenes
<1>9. /\ three \in Seq(Message) /\ ToSet(three) = ToSet(scenes) \cup ToSet(q3)
      /\ \A b, a : Precedes(scenes, b, a) /\ (b \in ToSet(scenes) \/ Precedes(q3, b, a))
            => Precedes(three, b, a)
  BY <1>5, <1>8, QueueConcat
<1> HIDE DEF three
<1>10. /\ nodes \in Seq(Message) /\ ToSet(nodes) = ToSet(three) \cup ToSet(q4)
       /\ \A b, a : Precedes(three, b, a) /\ (b \in ToSet(three) \/ Precedes(q4, b, a))
             => Precedes(nodes, b, a)
  BY <1>5, <1>9, QueueConcat
<1> HIDE DEF nodes
<1>11. /\ five \in Seq(Message) /\ ToSet(five) = ToSet(nodes) \cup ToSet(q5)
       /\ \A b, a : Precedes(nodes, b, a) /\ (b \in ToSet(nodes) \/ Precedes(q5, b, a))
             => Precedes(five, b, a)
  BY <1>6, <1>10, QueueConcat
<1> HIDE DEF five
<1>12. /\ all \in Seq(Message) /\ ToSet(all) = ToSet(five) \cup ToSet(q6)
       /\ \A b, a : Precedes(five, b, a) /\ (b \in ToSet(five) \/ Precedes(q6, b, a))
             => Precedes(all, b, a)
  BY <1>6, <1>11, QueueConcat
<1> HIDE DEF all
<1>13. ToSet(all) = ToSet(q1) \cup ToSet(q2) \cup ToSet(q3) \cup ToSet(q4)
                    \cup ToSet(q5) \cup ToSet(q6)
  BY <1>8, <1>9, <1>10, <1>11, <1>12
<1>14. ASSUME NEW x \in ToSet(all)
       PROVE  \/ \E m \in children : x = Msg("nodeCreate", m, n)
              \/ x = tg /\ n \in tgs
              \/ x = layer /\ n \in layers
  <2>1. \/ x = s1 /\ Scene(1) \in children
        \/ x = s2 /\ Scene(2) \in children
        \/ x = m1 /\ SenderNode(1) \in children
        \/ x = m2 /\ SenderNode(2) \in children
        \/ x = tg /\ n \in tgs
        \/ x = layer /\ n \in layers
    BY <1>4, <1>5, <1>6, <1>13
  <2> QED
    BY <2>1 DEF s1, s2, m1, m2
<1>15. ASSUME NEW m \in children PROVE Msg("nodeCreate", m, n) \in ToSet(all)
  <2>1. m \in {Scene(1), Scene(2), SenderNode(1), SenderNode(2)}
    BY Names
  <2>2. \/ m = Scene(1) /\ s1 \in ToSet(all)
        \/ m = Scene(2) /\ s2 \in ToSet(all)
        \/ m = SenderNode(1) /\ m1 \in ToSet(all)
        \/ m = SenderNode(2) /\ m2 \in ToSet(all)
    BY <1>4, <1>5, <1>13, <2>1
  <2> QED
    BY <2>2 DEF s1, s2, m1, m2
<1>16. n \in tgs => tg \in ToSet(all)
  BY <1>6, <1>13
<1>17. Scene(1) \in children \/ Scene(2) \notin children => Precedes(all, s1, s2)
  <2>1. CASE Scene(2) \notin children
    <3>1. s2 \notin ToSet(all)
      <4>1. s2 \notin ToSet(q1) /\ s2 \notin ToSet(q2) /\ s2 \notin ToSet(q3)
            /\ s2 \notin ToSet(q4) /\ s2 \notin ToSet(q5) /\ s2 \notin ToSet(q6)
        BY <1>4, <1>5, <1>6, <1>7, <2>1
      <4> QED
        BY <1>13, <4>1
    <3> QED
      BY <3>1, PrecedesNone
  <2>2. CASE Scene(1) \in children
    <3>1. s1 \in ToSet(q1) /\ s2 \notin ToSet(q1)
      BY <1>4, <1>7, <2>2
    <3>2. Precedes(q1, s1, s2)
      BY <3>1, PrecedesNone
    <3> QED
      BY <1>8, <1>9, <1>10, <1>11, <1>12, <3>1, <3>2
  <2> QED
    BY <2>1, <2>2
<1>18. n \in tgs \/ n \notin layers => Precedes(all, tg, layer)
  <2>1. layer \notin ToSet(five)
    <3>1. layer \notin ToSet(q1) /\ layer \notin ToSet(q2) /\ layer \notin ToSet(q3)
          /\ layer \notin ToSet(q4) /\ layer \notin ToSet(q5)
      BY <1>4, <1>5, <1>6, <1>7
    <3> QED
      BY <1>8, <1>9, <1>10, <1>11, <3>1
  <2>2. Precedes(five, tg, layer)
    BY <2>1, PrecedesNone
  <2>3. CASE n \notin layers
    <3>1. layer \notin ToSet(q6)
      BY <1>6, <2>3
    <3> QED
      BY <1>12, <2>2, <3>1, PrecedesNone
  <2>4. CASE n \in tgs
    BY <1>6, <1>11, <1>12, <2>2, <2>4
  <2> QED
    BY <2>3, <2>4
<1> QED
  BY <1>1, <1>12, <1>14, <1>15, <1>16, <1>17, <1>18 DEF s1, s2, tg, layer

LEMMA RcvSubscribesNodeHolds ==
    ASSUME IInv, UNCHANGED <<snd, rcv>>, SubscribesNode(R) PROVE IInv'
<1>1. PICK n : n = Told(R).node
  OBVIOUS
<1>2. PICK children : children = {m \in Node \ known[R] : parent[m] = n}
  OBVIOUS
<1> DEFINE msgs == NodeTold(n, children)
<1>3. /\ UNCHANGED <<tree, tgSubs, layerSubs, open>>
      /\ Answer(R, msgs)
      /\ R \in open /\ up[R] # <<>> /\ Told(R).op = "nodeSubscribe"
      /\ up' = [up EXCEPT ![R] = Tail(@)]
      /\ nodeSubs' = [nodeSubs EXCEPT ![R] = @ \cup {n}]
      /\ known' = [known EXCEPT ![R] = @ \cup children]
  BY <1>1, <1>2 DEF SubscribesNode, Takes, NodeTold
<1>4. \/ n \in {R, SceneParent}
      \/ n \in Node /\ RcvFinds(n)
  BY <1>1, <1>3, RcvTaking DEF RcvSent
<1>5. TypeOK /\ n \in Name /\ children \in SUBSET Node
  BY <1>2, <1>4, RcvNames DEF IInv, Name
<1>6. /\ msgs \in Seq(Message)
      /\ \A x \in ToSet(msgs) :
            \/ \E m \in children : x = Msg("nodeCreate", m, n)
            \/ x = Msg("tgCreate", n, NoArg) /\ n \in tgs
            \/ x = Msg("layerCreate", n, NoArg) /\ n \in layers
      /\ \A m \in children : Msg("nodeCreate", m, n) \in ToSet(msgs)
      /\ n \in tgs => Msg("tgCreate", n, NoArg) \in ToSet(msgs)
      /\ Scene(1) \in children \/ Scene(2) \notin children =>
            Precedes(msgs, Msg("nodeCreate", Scene(1), n), Msg("nodeCreate", Scene(2), n))
      /\ Precedes(msgs, Msg("tgCreate", n, NoArg), Msg("layerCreate", n, NoArg))
  <2>1. layers \subseteq tgs
    BY DEF IInv, SndStreams
  <2> QED
    BY <1>5, <2>1, ToldOfNode
<1> HIDE DEF msgs
<1>7. /\ nodeSubs'[R] = nodeSubs[R] \cup {n} /\ nodeSubs'[S] = nodeSubs[S]
      /\ known'[R] = known[R] \cup children
      /\ Subscriptions'
  BY <1>3, <1>5, Clients DEF TypeOK, Subscriptions
<1>8. RcvAsks(msgs)
  BY <1>3, <1>6, <1>7, RcvAnswers
<1>9. ASSUME NEW m \in children
      PROVE  /\ m \in Node /\ parent[m] = n
             /\ m \in Scenes => n = SceneParent
             /\ m \in SenderNodes => m = Node1 /\ n = Scene1 /\ rcv.scene = Scene1
  <2>1. m \in Node /\ parent[m] = n
    BY <1>2
  <2>2. ASSUME m \in Scenes PROVE n = SceneParent
    <3>1. PICK l \in Lives : m = Scene(l)
      BY <2>2 DEF Scenes
    <3>2. n \in {Nowhere, S, SceneParent}
      BY <2>1, <3>1 DEF IInv, SndEnds
    <3> QED
      BY <1>4, <3>2, RcvNames
  <2>3. ASSUME m \in SenderNodes PROVE m = Node1 /\ n = Scene1 /\ rcv.scene = Scene1
    <3>1. PICK l \in Lives : m = SenderNode(l)
      BY <2>3 DEF SenderNodes
    <3>2. n \in {Nowhere, S, Scene(l)}
      BY <2>1, <3>1 DEF IInv, SndEnds
    <3>3. n = Scene(l) /\ n \in Scenes /\ n \in Node /\ n \notin {R, SceneParent}
      <4>1. n \notin {Nowhere, S}
        BY <1>4, RcvNames DEF SceneParent, S, Sender
      <4>2. n = Scene(l) /\ n \in Scenes /\ n \in Node
        BY <3>2, <4>1, Names
      <4> QED
        BY <4>2, RcvNames
    <3>4. RcvFinds(n)
      BY <1>4, <3>3
    <3>5. n = Scene1 /\ rcv.scene = Scene1
      BY <3>3, <3>4, RcvNames DEF RcvFinds, IInv, RcvQueues
    <3>6. l = 1
      BY <3>3, <3>5, Names DEF Scene1
    <3> QED
      BY <3>1, <3>5, <3>6 DEF Node1
  <2> QED
    BY <2>1, <2>2, <2>3
<1>10. n \in tgs => n \in Node /\ RcvFinds(n)
  BY <1>4, <1>5, RcvNames DEF TypeOK, Tree
<1>11. n \in layers => n = Node1 /\ RcvFinds(Node1) /\ n \in tgs
  <2>1. n \in layers => n \in SenderNodes /\ n \in tgs
    BY DEF IInv, SndStreams
  <2> QED
    BY <1>10, <2>1, RcvNames DEF RcvFinds, IInv, RcvQueues
<1>12. /\ rcv' = rcv /\ snd' = snd /\ parent' = parent /\ tgs' = tgs /\ tags' = tags
       /\ tagSet' = tagSet
       /\ RDown' = RDown \cup ToSet(msgs) /\ (Following' <=> Following)
       /\ RUp \subseteq {Told(R)} \cup RUp'
  BY <1>3, <1>8 DEF RcvAsks, tree, Added, Taken, RDown, RUp, Following
<1>13. \A x \in ToSet(msgs) : RcvTold(x)'
  <2>1. ASSUME NEW x, NEW m \in children, x = Msg("nodeCreate", m, n)
        PROVE  RcvTold(x)'
    <3>1. x.op = "nodeCreate" /\ x.node = m /\ x.arg = n
      BY <2>1, Fields
    <3>2. m \in SenderNodes => x = Msg("nodeCreate", Node1, Scene1)
      BY <1>9, <2>1
    <3>3. m \in Node /\ m \in known'[R] /\ rcv' = rcv
      BY <1>7, <1>9, <1>12
    <3>4. m \in Scenes => n = SceneParent
      BY <1>9
    <3>5. m \in SenderNodes => m = Node1 /\ rcv.scene = Scene1
      BY <1>9
    <3> QED
      BY <3>1, <3>2, <3>3, <3>4, <3>5 DEF RcvTold
  <2>2. ASSUME NEW x, x = Msg("tgCreate", n, NoArg), n \in tgs
        PROVE  RcvTold(x)'
    <3>1. x.op = "tgCreate" /\ x.node = n /\ x.arg = NoArg
      BY <2>2, Fields
    <3> QED
      BY <1>10, <1>12, <2>2, <3>1 DEF RcvTold, RcvFinds
  <2>3. ASSUME NEW x, x = Msg("layerCreate", n, NoArg), n \in layers
        PROVE  RcvTold(x)'
    <3>1. x.op = "layerCreate" /\ x.node = n /\ x.arg = NoArg
      BY <2>3, Fields
    <3>2. n = Node1 /\ RcvFinds(Node1)'
      BY <1>11, <1>12, <2>3 DEF RcvFinds, Node1
    <3> QED
      BY <3>1, <3>2 DEF RcvTold, Node1
  <2> QED
    BY <1>6, <2>1, <2>2, <2>3
<1>14. RcvOrders'
  <2> DEFINE s1 == Msg("nodeCreate", Scene1, SceneParent)
             s2 == Msg("nodeCreate", Scene(2), SceneParent)
  <2>1. rcv.scene = Scene1 \/ Precedes(down'[R], s1, s2)
    <3>1. CASE s2 \notin ToSet(msgs)
      BY <1>8, <3>1 DEF IInv, RcvOrders, RcvAsks, Added
    <3>2. CASE s2 \in ToSet(msgs)
      <4>1. Scene(2) \in children /\ n = SceneParent
        <5>1. PICK m \in children : s2 = Msg("nodeCreate", m, n)
          BY <1>6, <3>2, Different
        <5> QED
          BY <5>1, Different
      <4>2. parent[Scene(2)] = SceneParent /\ Scene(2) \in Node
        BY <1>9, <4>1
      <4>3. 2 \in Lives
        BY <4>2, Names
      <4>4. parent[Scene1] = SceneParent
        <5>1. ~(2 > snd.life)
          BY <4>2, <4>3, RcvNames DEF IInv, SndEnds
        <5>2. snd.life \in {1, 2}
          BY <1>5, Names DEF TypeOK, Context
        <5>3. 1 < snd.life
          BY <5>1, <5>2
        <5> QED
          BY <5>3, Names DEF IInv, SndEnds, Scene1
      <4>5. CASE Scene1 \in known[R]
        BY <1>8, <4>5 DEF IInv, RcvOrders, RcvAsks, Added, RDown
      <4>6. CASE Scene1 \notin known[R]
        <5>1. Scene(1) \in children
          BY <1>2, <4>1, <4>4, <4>6, RcvNames DEF Scene1
        <5>2. Precedes(msgs, s1, s2)
          BY <1>6, <4>1, <5>1 DEF Scene1
        <5> QED
          BY <1>8, <5>2 DEF IInv, RcvOrders, RcvAsks, Added
      <4> QED
        BY <4>5, <4>6
    <3> QED
      BY <3>1, <3>2
  <2>2. Scene1 \in known'[R] => rcv.scene = Scene1 \/ s1 \in RDown'
    <3>1. ASSUME Scene1 \in children PROVE s1 \in RDown'
      <4>1. n = SceneParent
        BY <1>9, <3>1, RcvNames
      <4> QED
        BY <1>6, <1>12, <3>1, <4>1
    <3> QED
      BY <1>7, <1>12, <3>1 DEF IInv, RcvOrders
  <2>3. SceneParent \in nodeSubs'[R] /\ parent[Scene1] = SceneParent => Scene1 \in known'[R]
    BY <1>2, <1>7, RcvNames DEF IInv, RcvOrders
  <2>4. Node1 \in known'[R] => snd.life > 1 \/ snd.bound
    <3>1. ASSUME Node1 \in children PROVE snd.life > 1 \/ snd.bound
      <4>1. parent[Node1] = Scene1
        BY <1>9, <3>1, RcvNames
      <4>2. CASE snd.life = 1
        BY <4>1, <4>2 DEF IInv, SndEnds, SndNode, SndScene, Scene1, Node1
      <4>3. snd.life \in {1, 2}
        BY <1>5, Names DEF TypeOK, Context
      <4> QED
        BY <4>2, <4>3
    <3> QED
      BY <1>7, <3>1 DEF IInv, RcvOrders
  <2> QED
    BY <1>12, <2>1, <2>2, <2>3, <2>4 DEF RcvOrders
<1>15. RcvStreams'
  <2>1. Value1 \notin ToSet(msgs) /\ Frame1 \notin ToSet(msgs)
    BY <1>6, Different DEF Value1, Frame1
  <2>2. rcv.framed \/ Precedes(down'[R], Frame1, Value1)
    BY <1>8, <2>1 DEF IInv, RcvStreams, RcvAsks, Added
  <2>3. FrameTag \in rcv.tag \/ Precedes(down'[R], Tag1, Frame1)
    BY <1>8, <2>1 DEF IInv, RcvStreams, RcvAsks, Added
  <2>4. Node1 \in rcv.tg \/ Precedes(down'[R], TagGroup1, Layer1)
    <3>1. Precedes(msgs, TagGroup1, Layer1)
      <4>1. CASE n = Node1
        BY <1>6, <4>1 DEF TagGroup1, Layer1
      <4>2. CASE n # Node1
        <5>1. Layer1 \notin ToSet(msgs)
          BY <1>6, <4>2, Different DEF Layer1
        <5> QED
          BY <5>1, PrecedesNone
      <4> QED
        BY <4>1, <4>2
    <3> QED
      BY <1>8, <3>1 DEF IInv, RcvStreams, RcvAsks, Added
  <2>5. ASSUME Following, Node1 \in nodeSubs'[R], Node1 \in tgs
        PROVE  Node1 \in rcv.tg \/ TagGroup1 \in RDown'
    <3>1. CASE n = Node1
      BY <1>6, <1>12, <2>5, <3>1 DEF TagGroup1
    <3>2. CASE n # Node1
      BY <1>7, <1>12, <2>5, <3>2 DEF IInv, RcvStreams
    <3> QED
      BY <3>1, <3>2
  <2>6. Told(R) # FollowsTagGroup
    BY <1>3, Fields DEF FollowsTagGroup
  <2>7. ASSUME Following
        PROVE  /\ Node1 \in rcv.tg => Node1 \in tgSubs[R] \/ FollowsTagGroup \in RUp'
               /\ Node1 \in tgSubs[R] \/ Precedes(up'[R], FollowsTagGroup, FollowsLayer)
    BY <1>8, <1>12, <2>6, <2>7 DEF IInv, RcvStreams, RcvAsks, Taken
  <2> QED
    BY <1>3, <1>12, <2>2, <2>3, <2>4, <2>5, <2>7 DEF IInv, RcvStreams
<1> QED
  <2>1. \A k \in nodeSubs'[R] : k \in {R, SceneParent} \/ (k \in Node /\ RcvFinds(k))
    BY <1>4, <1>7 DEF IInv, RcvQueues
  <2> QED
    BY <1>3, <1>8, <1>13, <1>14, <1>15, <2>1, RcvAsked DEF IInv, RcvQueues

LEMMA RcvSubscribesLayerHolds ==
    ASSUME IInv, UNCHANGED <<snd, rcv>>, SubscribesLayer(R) PROVE IInv'
<1> DEFINE msgs == When(Node1 \in layerSet, Value1)
<1>1. /\ UNCHANGED <<tree, known, nodeSubs, tgSubs, open>>
      /\ R \in open /\ up[R] # <<>> /\ Told(R).op = "layerSubscribe"
      /\ up' = [up EXCEPT ![R] = Tail(@)] /\ Exists(Told(R).node)
  BY DEF SubscribesLayer, Takes
<1>2. Told(R) = FollowsLayer /\ RcvFinds(Node1) /\ Told(R).node = Node1
      /\ Taken(up[R], up'[R]) /\ Told(R) = Head(up[R])
  <2>1. Told(R) = FollowsLayer /\ RcvFinds(Node1)
    BY <1>1, RcvTaking DEF RcvSent
  <2> QED
    BY <1>1, <2>1, RcvTaking, Fields DEF FollowsLayer
<1>3. Answer(R, msgs) /\ layerSubs' = [layerSubs EXCEPT ![R] = @ \cup {Node1}]
  BY <1>2 DEF SubscribesLayer, Value1
<1>4. msgs \in Seq(Message) /\ (Node1 \in layerSet => ToSet(msgs) = {Value1})
      /\ (Node1 \notin layerSet => ToSet(msgs) = {})
  <2>1. Value1 \in Message
    <3>1. "layerSet" \in Op /\ NoArg \in Name \cup Tag \cup {NoArg}
      BY DEF Op
    <3> QED
      BY <3>1, RcvNames, Messages DEF Value1
  <2> QED
    BY <2>1, Conditional
<1> HIDE DEF msgs
<1>5. /\ layerSubs'[R] = layerSubs[R] \cup {Node1} /\ layerSubs'[S] = layerSubs[S]
      /\ Subscriptions'
  BY <1>1, <1>3, RcvNames, Clients DEF IInv, TypeOK, Subscriptions
<1>6. RcvAsks(msgs)
  BY <1>1, <1>3, <1>4, <1>5, RcvAnswers
<1>7. \A x \in ToSet(msgs) : x = Value1 /\ x.op = "layerSet" /\ x.node = Node1 /\ x.arg = NoArg
  BY <1>4, Fields DEF Value1
<1>8. /\ rcv' = rcv /\ parent' = parent /\ tgs' = tgs /\ tags' = tags /\ tagSet' = tagSet
      /\ RDown' = RDown \cup ToSet(msgs) /\ (Following' <=> Following)
      /\ RUp \subseteq {Told(R)} \cup RUp'
  BY <1>1, <1>6 DEF RcvAsks, tree, Added, Taken, RDown, RUp, Following
<1>9. \A x \in ToSet(msgs) : RcvTold(x)'
  <2>1. RcvFinds(Node1)'
    BY <1>2, <1>8 DEF RcvFinds, Node1
  <2> QED
    BY <1>7, <2>1 DEF RcvTold, Node1
<1>10. RcvOrders'
  BY <1>1, <1>6, <1>7, RcvOrdersKept
<1>11. Following /\ Node1 \in tgSubs[R]
  <2>1. Following
    BY <1>1, <1>2, RcvNames DEF Following, Exists
  <2> QED
    BY <1>2, <2>1 DEF IInv, RcvStreams, Taken
<1>12. RcvStreams'
  <2>1. Frame1 \notin ToSet(msgs) /\ Layer1 \notin ToSet(msgs)
    BY <1>7, Fields DEF Frame1, Layer1
  <2>2. Told(R) # FollowsTagGroup
    BY <1>1, Fields DEF FollowsTagGroup
  <2>3. rcv.framed \/ Precedes(down'[R], Frame1, Value1)
    <3>1. CASE Node1 \in layerSet
      <4>1. FrameTag \in tagSet /\ FrameTag \in ToSet(tags[Node1])
        BY <3>1 DEF IInv, SndStreams
      <4> QED
        BY <1>6, <1>11, <4>1 DEF IInv, RcvStreams, RcvAsks, Added, RDown
    <3>2. CASE Node1 \notin layerSet
      BY <1>4, <1>6, <3>2 DEF IInv, RcvStreams, RcvAsks, Added
    <3> QED
      BY <3>1, <3>2
  <2>4. /\ FrameTag \in rcv.tag \/ Precedes(down'[R], Tag1, Frame1)
        /\ Node1 \in rcv.tg \/ Precedes(down'[R], TagGroup1, Layer1)
    BY <1>6, <2>1 DEF IInv, RcvStreams, RcvAsks, Added
  <2> QED
    BY <1>1, <1>8, <1>11, <2>3, <2>4 DEF IInv, RcvStreams
<1> QED
  BY <1>1, <1>2, <1>5, <1>6, <1>9, <1>10, <1>12, RcvAsked DEF IInv, RcvQueues

LEMMA ReceiverServedHolds ==
    ASSUME IInv, UNCHANGED <<snd, rcv>>, Serve(R) PROVE IInv'
<1>1. ASSUME NEW op, Takes(R, op)
      PROVE  op \in {"connect", "name", "password", "nodeSubscribe", "tgSubscribe",
                     "layerSubscribe", "terminate"}
  <2>1. /\ up[R] # <<>> /\ Told(R).op = op /\ up' = [up EXCEPT ![R] = Tail(@)]
    BY <1>1 DEF Takes
  <2> QED
    BY <2>1, RcvTaking DEF RcvSent
<1>2. /\ ~Takes(R, "nodeCreate") /\ ~Takes(R, "nodeLink") /\ ~Takes(R, "tgCreate")
      /\ ~Takes(R, "tagCreate") /\ ~Takes(R, "tagSet") /\ ~Takes(R, "layerCreate")
      /\ ~Takes(R, "layerSet") /\ ~Takes(R, "layerUnset") /\ ~Takes(R, "nodeDestroy")
  <2>1. \A op : Takes(R, op) => op \in {"connect", "name", "password", "nodeSubscribe",
                                       "tgSubscribe", "layerSubscribe", "terminate"}
    BY <1>1
  <2> QED
    BY <2>1
<1>3. /\ ~CreatesNode(R) /\ ~LinksNode(R) /\ ~CreatesTagGroup(R) /\ ~CreatesTag(R)
      /\ ~SetsTag(R) /\ ~CreatesLayer(R) /\ ~SetsLayer(R) /\ ~DestroysNode(R)
  <2>1. ~CreatesNode(R) /\ ~LinksNode(R)
    BY <1>2, Zenon DEF CreatesNode, LinksNode
  <2>2. ~CreatesTagGroup(R) /\ ~CreatesTag(R)
    BY <1>2, Zenon DEF CreatesTagGroup, CreatesTag
  <2>3. ~SetsTag(R) /\ ~CreatesLayer(R)
    BY <1>2, Zenon DEF SetsTag, CreatesLayer
  <2>4. ~SetsLayer(R) /\ ~DestroysNode(R)
    BY <1>2, Zenon DEF SetsLayer, DestroysNode
  <2> QED
    BY <2>1, <2>2, <2>3, <2>4
<1> QED
  BY <1>3, RcvGreetsHolds, RcvIgnoredHolds, RcvTerminatesHolds,
     RcvSubscribesNodeHolds, RcvSubscribesTagGroupHolds, RcvSubscribesLayerHolds
     DEF Serve

-----------------------------------------------------------------------------
(* What the server does for the sending client.  Some of it the receiving  *)
(* client is told.                                                         *)

SndAsks(msgs) ==
    /\ UNCHANGED <<snd, rcv>> /\ Queues'
    /\ S \in open /\ SndSent(Told(S)) /\ Told(S) = Head(up[S])
    /\ Told(S) \in Message /\ Told(S) \in Up
    /\ Taken(up[S], up'[S]) /\ Added(down[S], msgs, down'[S])
    /\ up'[R] = up[R]

LEMMA SndTaking ==
    ASSUME IInv, up[S] # <<>>, up' = [up EXCEPT ![S] = Tail(@)]
    PROVE  /\ up' \in [Client -> Seq(Message)]
           /\ Told(S) \in Message /\ SndSent(Told(S)) /\ Told(S) = Head(up[S])
           /\ Told(S) \in Up
           /\ Taken(up[S], up'[S]) /\ up'[R] = up[R]
<1>1. Queues /\ up[S] \in Seq(Message)
  BY Clients DEF IInv, TypeOK, Queues
<1>2. Told(S) \in Up
  BY <1>1, QueueTail DEF Told, Up
<1>3. SndSent(Told(S))
  BY <1>2 DEF IInv, SndQueues
<1> QED
  BY <1>1, <1>2, <1>3, Clients, Taking DEF Told

(* A greeting is not on its way when there is something else.              *)
LEMMA SndAsksAlone ==
    ASSUME IInv, NEW msgs, SndAsks(msgs), Alone
    PROVE  Up' = {} /\ Down = {} /\ Len(up'[S]) = 0 /\ Len(down[S]) = 0
<1>1. /\ up[S] \in Seq(Message) /\ down[S] \in Seq(Message) /\ up'[S] \in Seq(Message)
  BY Clients DEF SndAsks, IInv, TypeOK, Queues
<1>2. Len(up[S]) + Len(down[S]) =< 1 /\ Len(up'[S]) = Len(up[S]) - 1
  BY DEF Alone, SndAsks, Taken
<1>3. Len(up'[S]) = 0 /\ Len(down[S]) = 0
  <2>1. \A u, d, e \in Nat : u + d =< 1 /\ e = u - 1 => e = 0 /\ d = 0
    OBVIOUS
  <2> QED
    BY <1>1, <1>2, <2>1, QueueSet, Zenon
<1> QED
  BY <1>1, <1>3, QueueSet DEF Up, Down

LEMMA SndAsked ==
    ASSUME IInv, NEW msgs, SndAsks(msgs), Tree', Subscriptions',
           \A x \in ToSet(msgs) : SndTold(x)',
           Msg("nodeSubscribe", S, NoArg) \in Up' /\ Unknown => Unknown',
           \A n : Msg("nodeCreate", n, NoArg) \in Up' =>
                     Msg("nodeCreate", n, S) \notin ToSet(msgs),
           \A n \in nodeSubs'[S] : n = S \/ SndFinds(n),
           tgSubs'[S] \subseteq snd.tg, layerSubs'[S] = {},
           S \notin open' => nodeSubs'[S] = {} /\ tgSubs'[S] = {},
           SndBuilds', SndLayers', SndEnds', SndStreams', RcvInv'
    PROVE  IInv'
<1>1. TypeOK'
  BY DEF SndAsks, IInv, TypeOK
<1>2. SndQueues'
  <2>1. Up' \subseteq Up /\ Down' = Down \cup ToSet(msgs)
    BY DEF SndAsks, Taken, Added, Up, Down
  <2>2. /\ snd' = snd /\ SndScene' = SndScene /\ SndNode' = SndNode
        /\ \A n : SndFinds(n)' <=> SndFinds(n)
    BY DEF SndAsks, SndFinds, SndScene, SndNode
  <2>3. /\ \A x \in Up' : x.op \notin Greeting
        /\ \A x \in Down : x.op \notin Greeting
    BY <2>1, SndAsksAlone DEF IInv, SndQueues, SndSent, SndTold
  <2>4. ASSUME NEW x \in Up' PROVE SndSent(x)'
    <3>1. SndSent(x) /\ x \in Message
      <4>1. up[S] \in Seq(Message) /\ x \in Up
        BY <2>1, Clients DEF IInv, TypeOK, Queues
      <4>2. x \in Message
        BY <4>1 DEF Up, ToSet
      <4> QED
        BY <4>1, <4>2 DEF IInv, SndQueues
    <3>2. x = Msg(x.op, x.node, x.arg)
      BY <3>1 DEF Message, Msg
    <3>3. x.op = "nodeCreate" => Msg("nodeCreate", x.node, S) \notin Down'
      BY <2>1, <3>1, <3>2 DEF SndSent
    <3>4. x.op = "nodeSubscribe" => (x.node = S /\ Unknown') \/ SndFinds(x.node)
      BY <3>1, <3>2 DEF SndSent
    <3> QED
      BY <2>2, <2>3, <3>1, <3>3, <3>4 DEF SndSent
  <2>5. ASSUME NEW x \in Down PROVE SndTold(x)'
    BY <2>2, <2>3 DEF IInv, SndQueues, SndTold
  <2>6. snd.phase # "new"
    BY DEF SndAsks, IInv, SndQueues, Taken
  <2>7. (\A x \in Up' : SndSent(x)') /\ \A x \in Down' : SndTold(x)'
    BY <2>1, <2>4, <2>5
  <2>8. /\ \A n \in snd'.tg : SndFinds(n)'
        /\ snd'.bound => snd'.scene
        /\ snd'.run => snd'.bound /\ SndNode' \in snd'.tg /\ FrameTag \in snd'.tag
        /\ snd'.phase # "crashed" /\ tgSubs'[S] \subseteq snd'.tg
        /\ \A n \in nodeSubs'[S] : n = S \/ SndFinds(n)'
    BY <2>2 DEF IInv, SndQueues
  <2> QED
    BY <2>2, <2>6, <2>7, <2>8 DEF SndQueues
<1> QED
  BY <1>1, <1>2 DEF IInv, RcvInv

(* Each part of the invariant, for what most commands do.                  *)
LEMMA SndBuildsKept ==
    ASSUME IInv, NEW msgs, SndAsks(msgs),
           S \in open' /\ S \in nodeSubs[S] => S \in nodeSubs'[S],
           Told(S) = Msg("nodeSubscribe", S, NoArg) => S \in nodeSubs'[S],
           Told(S) = Msg("nodeCreate", SndScene, NoArg) =>
              Msg("nodeCreate", SndScene, S) \in ToSet(msgs),
           Msg("nodeCreate", SndNode, S) \in ToSet(msgs) =>
              snd.scene \/ Msg("nodeCreate", SndScene, S) \in Down
    PROVE  SndBuilds'
<1>1. /\ snd' = snd /\ SndScene' = SndScene /\ SndNode' = SndNode
      /\ S \in open /\ Down \subseteq Down' /\ ToSet(msgs) \subseteq Down'
  BY DEF SndAsks, SndScene, SndNode, Added, Down
<1>2. /\ Once(up'[S], Msg("nodeSubscribe", S, NoArg))
      /\ Once(up'[S], Msg("nodeCreate", SndScene, NoArg))
      /\ Once(up'[S], Msg("nodeCreate", SndNode, NoArg))
  BY DEF IInv, SndBuilds, SndAsks, Taken
<1>3. snd.scene \/ Precedes(down'[S], Msg("nodeCreate", SndScene, S),
                                      Msg("nodeCreate", SndNode, S))
  BY DEF IInv, SndBuilds, SndAsks, Added, Down
<1>4. S \in open' => \/ S \in nodeSubs'[S]
                     \/ Precedes(up'[S], Msg("nodeSubscribe", S, NoArg),
                                         Msg("nodeCreate", SndScene, NoArg))
  BY <1>1 DEF IInv, SndBuilds, SndAsks, Taken
<1>5. \/ snd.scene \/ Msg("nodeCreate", SndScene, S) \in Down'
      \/ Precedes(up'[S], Msg("nodeCreate", SndScene, NoArg),
                          Msg("nodeCreate", SndNode, NoArg))
  BY <1>1 DEF IInv, SndBuilds, SndAsks, Taken
<1> QED
  BY <1>1, <1>2, <1>3, <1>4, <1>5 DEF SndBuilds

LEMMA SndLayersKept ==
    ASSUME IInv, NEW msgs, SndAsks(msgs),
           Msg("tagCreate", SndNode, FrameTag) \in ToSet(msgs) =>
              snd.layer \/ Msg("layerCreate", SndNode, NoArg) \in Down,
           Serving' /\ snd.bound =>
              /\ Serving
              /\ Told(S) = Msg("layerCreate", SndNode, NoArg) =>
                    Msg("layerCreate", SndNode, NoArg) \in ToSet(msgs)
              /\ Told(S) = Msg("nodeSubscribe", SndNode, NoArg) =>
                    SndNode \in nodeSubs'[S]
              /\ SndNode \in nodeSubs[S] => SndNode \in nodeSubs'[S]
              /\ FrameTag \in ToSet(tags'[SndNode]) =>
                    \/ FrameTag \in ToSet(tags[SndNode])
                    \/ snd.layer \/ Msg("layerCreate", SndNode, NoArg) \in Down
    PROVE  SndLayers'
<1> DEFINE layer == Msg("layerCreate", SndNode, NoArg)
           frameTag == Msg("tagCreate", SndNode, FrameTag)
           follow == Msg("nodeSubscribe", SndNode, NoArg)
<1>1. /\ snd' = snd /\ SndNode' = SndNode
      /\ Down' = Down \cup ToSet(msgs) /\ Up = {Told(S)} \cup Up'
  BY DEF SndAsks, SndNode, Added, Taken, Up, Down
<1>2. snd.layer \/ Precedes(down'[S], layer, frameTag)
  BY DEF IInv, SndLayers, SndAsks, Added, Down
<1>3. ASSUME Serving', snd.bound
      PROVE  \/ snd.layer
             \/ layer \in Down'
             \/ /\ layer \in Up'
                /\ Precedes(up'[S], layer, frameTag)
                /\ FrameTag \notin ToSet(tags'[SndNode])
  <2>1. \/ snd.layer
        \/ layer \in Down
        \/ /\ layer \in Up
           /\ Precedes(up[S], layer, frameTag)
           /\ FrameTag \notin ToSet(tags[SndNode])
    BY <1>3 DEF IInv, SndLayers
  <2>2. CASE snd.layer \/ layer \in Down
    BY <1>1, <2>2
  <2>3. CASE Told(S) = layer
    BY <1>1, <1>3, <2>3
  <2>4. CASE Told(S) # layer /\ ~snd.layer /\ layer \notin Down
    BY <1>1, <1>3, <2>1, <2>4 DEF SndAsks, Taken
  <2> QED
    BY <2>2, <2>3, <2>4
<1>4. ASSUME Serving', snd.bound
      PROVE  SndNode \in nodeSubs'[S] \/ Precedes(up'[S], follow, layer)
  BY <1>1, <1>3, <1>4 DEF IInv, SndLayers, SndAsks, Taken
<1>5. snd.run => snd.layer
  BY DEF IInv, SndLayers
<1> QED
  BY <1>1, <1>2, <1>3, <1>4, <1>5 DEF SndLayers

LEMMA SndEndsKept ==
    ASSUME IInv, NEW msgs, SndAsks(msgs), parent' = parent, S \in open',
           Msg("nodeCreate", SndScene, S) \notin ToSet(msgs),
           Told(S) # Msg("nodeLink", SndScene, SceneParent),
           Told(S) = Msg("nodeDestroy", SndNode, NoArg) => parent[SndNode] = Nowhere
    PROVE  SndEnds'
<1> DEFINE link == Msg("nodeLink", SndScene, SceneParent)
           destroy == Msg("nodeDestroy", SndNode, NoArg)
           end == Signal("terminate")
<1>1. /\ snd' = snd /\ SndScene' = SndScene /\ SndNode' = SndNode /\ S \in open
      /\ Down' = Down \cup ToSet(msgs) /\ Up = {Told(S)} \cup Up'
  BY DEF SndAsks, SndScene, SndNode, Added, Taken, Up, Down
<1>2. snd.scene => \/ parent[SndScene] = SceneParent
                   \/ link \in Up' /\ Precedes(up'[S], link, end)
  BY <1>1 DEF IInv, SndEnds, SndAsks, Taken
<1>3. \/ parent[SndNode] = Nowhere /\ snd.bound
      \/ Precedes(up'[S], destroy, end)
  <2>1. Told(S) = destroy => snd.bound
    BY Fields DEF SndAsks, SndSent
  <2> QED
    BY <1>1, <2>1 DEF IInv, SndEnds, SndAsks, Taken
<1> QED
  BY <1>1, <1>2, <1>3 DEF IInv, SndEnds

LEMMA SndServes ==
    ASSUME IInv, NEW msgs, SndAsks(msgs), Serving' => Serving,
           tgs \subseteq tgs', tagSet \subseteq tagSet',
           Told(S) = Msg("tgCreate", SndNode, NoArg) => SndNode \in tgs' \/ ~Serving',
           Told(S) = Msg("tagSet", SndNode, FrameTag) => FrameTag \in tagSet' \/ ~Serving'
    PROVE  Serving' =>
              /\ \/ SndNode \in tgs'
                 \/ Precedes(up'[S], Msg("tgCreate", SndNode, NoArg),
                                     Msg("layerCreate", SndNode, NoArg))
              /\ \/ FrameTag \in tagSet'
                 \/ Precedes(up'[S], Msg("tagSet", SndNode, FrameTag),
                                     Msg("layerSet", SndNode, NoArg))
BY DEF IInv, SndStreams, SndAsks, Taken

LEMMA SndStreamsKept ==
    ASSUME IInv, NEW msgs, SndAsks(msgs), UNCHANGED tree,
           Serving' => Told(S) \notin {Msg("tgCreate", SndNode, NoArg),
                                       Msg("tagSet", SndNode, FrameTag)},
           Msg("tagCreate", SndNode, FrameTag) \in ToSet(msgs) =>
              FrameTag \in ToSet(tags[SndNode])
    PROVE  SndStreams'
<1>1. /\ snd' = snd /\ SndNode' = SndNode /\ S \in open
      /\ Down' = Down \cup ToSet(msgs)
      /\ parent' = parent /\ tgs' = tgs /\ tags' = tags /\ tagSet' = tagSet
      /\ layers' = layers /\ layerSet' = layerSet
  BY DEF SndAsks, SndNode, Added, Down, tree
<1>2. Serving' => Serving
  BY <1>1 DEF Serving
<1>3. Serving' =>
         /\ \/ SndNode \in tgs'
            \/ Precedes(up'[S], Msg("tgCreate", SndNode, NoArg),
                                Msg("layerCreate", SndNode, NoArg))
         /\ \/ FrameTag \in tagSet'
            \/ Precedes(up'[S], Msg("tagSet", SndNode, FrameTag),
                                Msg("layerSet", SndNode, NoArg))
  BY <1>1, <1>2, SndServes
<1> QED
  BY <1>1, <1>3 DEF IInv, SndStreams

(* What the receiving client is told of it.                                *)
RcvHears(told) ==
    /\ UNCHANGED <<snd, rcv>> /\ up'[R] = up[R]
    /\ Added(down[R], told, down'[R])
    /\ known[R] \subseteq known'[R] /\ nodeSubs'[R] \subseteq nodeSubs[R]
    /\ tgSubs'[R] \subseteq tgSubs[R] /\ layerSubs'[R] \subseteq layerSubs[R]
    /\ R \in open' <=> R \in open

LEMMA RcvOrdersHeard ==
    ASSUME IInv, NEW told, RcvHears(told),
           Msg("nodeCreate", Scene(2), SceneParent) \in ToSet(told) =>
              rcv.scene = Scene1 \/ Msg("nodeCreate", Scene1, SceneParent) \in RDown,
           Scene1 \in known'[R] =>
              Scene1 \in known[R]
              \/ Msg("nodeCreate", Scene1, SceneParent) \in ToSet(told),
           SceneParent \in nodeSubs[R] /\ parent'[Scene1] = SceneParent =>
              parent[Scene1] = SceneParent \/ Scene1 \in known'[R],
           Node1 \in known'[R] =>
              Node1 \in known[R] \/ snd.life > 1 \/ snd.bound
    PROVE  RcvOrders'
<1> DEFINE s1 == Msg("nodeCreate", Scene1, SceneParent)
           s2 == Msg("nodeCreate", Scene(2), SceneParent)
<1>1. /\ rcv' = rcv /\ snd' = snd /\ RDown' = RDown \cup ToSet(told)
      /\ known[R] \subseteq known'[R] /\ nodeSubs'[R] \subseteq nodeSubs[R]
  BY DEF RcvHears, Added, RDown
<1>2. rcv.scene = Scene1 \/ Precedes(down'[R], s1, s2)
  <2>1. rcv.scene = Scene1 \/ Precedes(down[R], s1, s2)
    BY DEF IInv, RcvOrders
  <2> QED
    BY <2>1 DEF RcvHears, Added, RDown
<1>3. Scene1 \in known'[R] => rcv.scene = Scene1 \/ s1 \in RDown'
  BY <1>1 DEF IInv, RcvOrders
<1>4. SceneParent \in nodeSubs'[R] /\ parent'[Scene1] = SceneParent =>
         Scene1 \in known'[R]
  BY <1>1 DEF IInv, RcvOrders
<1>5. Node1 \in known'[R] => snd'.life > 1 \/ snd'.bound
  BY <1>1 DEF IInv, RcvOrders
<1> QED
  BY <1>1, <1>2, <1>3, <1>4, <1>5 DEF RcvOrders

LEMMA RcvStreamsHeard ==
    ASSUME IInv, NEW told, RcvHears(told),
           Value1 \in ToSet(told) => rcv.framed \/ Frame1 \in RDown,
           Frame1 \in ToSet(told) => FrameTag \in rcv.tag \/ Tag1 \in RDown,
           Layer1 \in ToSet(told) => Node1 \in rcv.tg \/ TagGroup1 \in RDown,
           Following' =>
              /\ Following
              /\ nodeSubs'[R] = nodeSubs[R] /\ tgSubs'[R] = tgSubs[R]
              /\ layerSubs'[R] = layerSubs[R]
              /\ Node1 \in tgSubs[R] /\ FrameTag \in ToSet(tags'[Node1]) =>
                    FrameTag \in ToSet(tags[Node1]) \/ Tag1 \in ToSet(told)
              /\ Node1 \in tgSubs[R] /\ FrameTag \in ToSet(tags'[Node1])
                    /\ FrameTag \in tagSet' =>
                    \/ FrameTag \in ToSet(tags[Node1]) /\ FrameTag \in tagSet
                    \/ Frame1 \in ToSet(told)
              /\ Node1 \in nodeSubs[R] /\ Node1 \in tgs' =>
                    Node1 \in tgs \/ TagGroup1 \in ToSet(told)
    PROVE  RcvStreams'
<1>1. /\ rcv' = rcv /\ RDown' = RDown \cup ToSet(told) /\ RUp' = RUp
      /\ up'[R] = up[R]
  BY DEF RcvHears, Added, RDown, RUp
<1>2. rcv.framed \/ Precedes(down'[R], Frame1, Value1)
  <2>1. rcv.framed \/ Precedes(down[R], Frame1, Value1)
    BY DEF IInv, RcvStreams
  <2> QED
    BY <2>1 DEF RcvHears, Added, RDown
<1>3. FrameTag \in rcv.tag \/ Precedes(down'[R], Tag1, Frame1)
  <2>1. FrameTag \in rcv.tag \/ Precedes(down[R], Tag1, Frame1)
    BY DEF IInv, RcvStreams
  <2> QED
    BY <2>1 DEF RcvHears, Added, RDown
<1>4. Node1 \in rcv.tg \/ Precedes(down'[R], TagGroup1, Layer1)
  <2>1. Node1 \in rcv.tg \/ Precedes(down[R], TagGroup1, Layer1)
    BY DEF IInv, RcvStreams
  <2> QED
    BY <2>1 DEF RcvHears, Added, RDown
<1>5. ASSUME Following'
      PROVE  /\ Node1 \in tgSubs'[R] /\ FrameTag \in ToSet(tags'[Node1]) =>
                   FrameTag \in rcv.tag \/ Tag1 \in RDown'
             /\ Node1 \in tgSubs'[R] /\ FrameTag \in ToSet(tags'[Node1])
                   /\ FrameTag \in tagSet' =>
                   rcv.framed \/ Frame1 \in RDown'
             /\ Node1 \in nodeSubs'[R] /\ Node1 \in tgs' =>
                   Node1 \in rcv.tg \/ TagGroup1 \in RDown'
             /\ Node1 \in rcv.tg => Node1 \in tgSubs'[R] \/ FollowsTagGroup \in RUp'
             /\ Node1 \in layerSubs'[R] => Node1 \in tgSubs'[R]
             /\ Node1 \in tgSubs'[R] \/ Precedes(up'[R], FollowsTagGroup, FollowsLayer)
  BY <1>1, <1>5 DEF IInv, RcvStreams
<1> QED
  BY <1>1, <1>2, <1>3, <1>4, <1>5 DEF IInv, RcvStreams

LEMMA RcvHeard ==
    ASSUME IInv, NEW told, RcvHears(told), \A x \in ToSet(told) : RcvTold(x)',
           RcvOrders', RcvStreams'
    PROVE  RcvInv'
<1>1. /\ RUp' = RUp /\ RDown' = RDown \cup ToSet(told)
      /\ rcv' = rcv /\ \A n : RcvFinds(n)' <=> RcvFinds(n)
  BY DEF RcvHears, Added, RUp, RDown, RcvFinds
<1>2. ASSUME NEW x \in RUp PROVE RcvSent(x)'
  BY <1>1 DEF IInv, RcvQueues, RcvSent
<1>3. ASSUME NEW x \in RDown PROVE RcvTold(x)'
  BY <1>1 DEF IInv, RcvQueues, RcvTold, RcvHears
<1>4. (\A x \in RUp' : RcvSent(x)') /\ \A x \in RDown' : RcvTold(x)'
  BY <1>1, <1>2, <1>3
<1>5. rcv'.bound = Node1 => rcv'.scene = Scene1 /\ Node1 \in known'[R]
  BY <1>1 DEF IInv, RcvQueues, RcvHears
<1>6. /\ \A n \in nodeSubs'[R] : n \in {R, SceneParent} \/ (n \in Node /\ RcvFinds(n)')
      /\ tgSubs'[R] \subseteq rcv'.tg /\ layerSubs'[R] \subseteq {Node1}
      /\ Node1 \in layerSubs'[R] => RcvFinds(Node1)'
      /\ R \notin open' =>
            nodeSubs'[R] = {} /\ tgSubs'[R] = {} /\ layerSubs'[R] = {}
  <2>1. RcvFinds(Node1)' <=> RcvFinds(Node1)
    BY <1>1 DEF RcvFinds, Node1
  <2> QED
    BY <1>1, <2>1 DEF IInv, RcvQueues, RcvHears
<1>7. /\ rcv'.scene \in {Nowhere, Scene1} /\ rcv'.bound \in {Nowhere, Node1}
      /\ rcv'.phase # "crashed"
      /\ \A n \in rcv'.tg : n \in Node /\ RcvFinds(n)'
  BY <1>1 DEF IInv, RcvQueues
<1>8. RcvQueues'
  <2>1. RcvFinds(Node1)' <=> RcvFinds(Node1)
    BY <1>1 DEF RcvFinds, Node1
  <2> QED
    BY <1>4, <1>5, <1>6, <1>7, <2>1 DEF RcvQueues, Node1
<1> QED
  BY <1>8 DEF RcvInv

(* Nothing.                                                                *)
LEMMA RcvHearsNothing ==
    ASSUME IInv, RcvHears(<<>>), parent' = parent, tgs' = tgs, tags' = tags,
           tagSet' = tagSet, known'[R] = known[R], nodeSubs'[R] = nodeSubs[R],
           tgSubs'[R] = tgSubs[R], layerSubs'[R] = layerSubs[R]
    PROVE  RcvInv'
<1>1. ToSet(<<>>) = {} /\ (Following' <=> Following)
  BY Listed DEF Following, RcvHears
<1>2. RcvOrders'
  BY <1>1, RcvOrdersHeard
<1>3. RcvStreams'
  BY <1>1, RcvStreamsHeard
<1> QED
  BY <1>1, <1>2, <1>3, RcvHeard

LEMMA ToldOne ==
    ASSUME IInv, NEW clients \in SUBSET Client, NEW x \in Message, Tell(clients, x),
           NEW c \in Client
    PROVE  \E msgs : /\ Added(down[c], msgs, down'[c])
                     /\ \A y : y \in ToSet(msgs) <=> y = x /\ c \in clients
<1>1. Queues /\ down[c] \in Seq(Message)
  BY DEF IInv, TypeOK, Queues
<1>2. /\ \A d \in clients : Added(down[d], <<x>>, down'[d])
      /\ \A d \in Client \ clients : down'[d] = down[d]
  BY <1>1, Telling
<1>3. CASE c \in clients
  <2>1. Added(down[c], <<x>>, down'[c]) /\ ToSet(<<x>>) = {x}
    BY <1>2, <1>3, Listed
  <2>2. \A y : y \in ToSet(<<x>>) <=> y = x /\ c \in clients
    BY <1>3, <2>1
  <2> QED
    BY <2>1, <2>2
<1>4. CASE c \notin clients
  <2>1. Added(down[c], <<>>, down'[c]) /\ ToSet(<<>>) = {}
    BY <1>1, <1>2, <1>4, AddedNothing, Listed
  <2>2. \A y : y \in ToSet(<<>>) <=> y = x /\ c \in clients
    BY <1>4, <2>1
  <2> QED
    BY <2>1, <2>2
<1> QED
  BY <1>3, <1>4

LEMMA SndTells ==
    ASSUME IInv, UNCHANGED <<snd, rcv>>, S \in open, up[S] # <<>>,
           up' = [up EXCEPT ![S] = Tail(@)],
           NEW clients \in SUBSET Client, NEW x \in Message, Tell(clients, x)
    PROVE  \E msgs, told :
              /\ SndAsks(msgs) /\ up'[R] = up[R] /\ Added(down[R], told, down'[R])
              /\ \A y : y \in ToSet(msgs) <=> y = x /\ S \in clients
              /\ \A y : y \in ToSet(told) <=> y = x /\ R \in clients
<1>1. /\ up' \in [Client -> Seq(Message)]
      /\ Told(S) \in Message /\ SndSent(Told(S)) /\ Told(S) = Head(up[S])
      /\ Told(S) \in Up
      /\ Taken(up[S], up'[S]) /\ up'[R] = up[R]
  BY SndTaking
<1>2. down' \in [Client -> Seq(Message)]
  BY Telling DEF IInv, TypeOK
<1>3. PICK msgs : /\ Added(down[S], msgs, down'[S])
                  /\ \A y : y \in ToSet(msgs) <=> y = x /\ S \in clients
  BY Clients, ToldOne
<1>4. PICK told : /\ Added(down[R], told, down'[R])
                  /\ \A y : y \in ToSet(told) <=> y = x /\ R \in clients
  BY Clients, ToldOne
<1>5. SndAsks(msgs)
  BY <1>1, <1>2, <1>3 DEF SndAsks, Queues
<1> QED
  BY <1>1, <1>3, <1>4, <1>5

(* The answer to a request that changes at most the subscriptions of the   *)
(* sending client: the receiving client hears nothing.                     *)
LEMMA SndAnswers ==
    ASSUME IInv, UNCHANGED <<snd, rcv, tree>>, S \in open, up[S] # <<>>,
           up' = [up EXCEPT ![S] = Tail(@)],
           NEW msgs \in Seq(Message), Answer(S, msgs),
           known'[R] = known[R], nodeSubs'[R] = nodeSubs[R],
           tgSubs'[R] = tgSubs[R], layerSubs'[R] = layerSubs[R],
           R \in open' <=> R \in open
    PROVE  SndAsks(msgs) /\ RcvInv'
<1>1. /\ up' \in [Client -> Seq(Message)]
      /\ Told(S) \in Message /\ SndSent(Told(S)) /\ Told(S) = Head(up[S])
      /\ Told(S) \in Up
      /\ Taken(up[S], up'[S]) /\ up'[R] = up[R]
  BY SndTaking
<1>2. /\ down' \in [Client -> Seq(Message)]
      /\ Added(down[S], msgs, down'[S]) /\ down'[R] = down[R]
  BY Clients, Answering DEF IInv, TypeOK
<1>3. SndAsks(msgs)
  BY <1>1, <1>2 DEF SndAsks, Queues
<1>4. UNCHANGED RcvView
  BY <1>1, <1>2 DEF RcvView
<1> QED
  BY <1>3, <1>4, RcvUntouched DEF IInv, RcvInv

LEMMA SndGreetsHolds ==
    ASSUME IInv, UNCHANGED <<snd, rcv>>, Greets(S) PROVE IInv'
<1>1. PICK op \in {"connect", "name", "password"},
           reply \in {"askName", "askPassword", "accept"} :
         Takes(S, op) /\ Answer(S, <<Signal(reply)>>)
  BY DEF Greets
<1> DEFINE msgs == <<Signal(reply)>>
<1>2. /\ UNCHANGED <<tree, known, nodeSubs, tgSubs, layerSubs, open>>
      /\ S \in open /\ up[S] # <<>> /\ Told(S).op = op
      /\ up' = [up EXCEPT ![S] = Tail(@)]
  BY <1>1 DEF Greets, Takes, subs
<1>3. /\ msgs \in Seq(Message) /\ ToSet(msgs) = {Signal(reply)} /\ Len(msgs) = 1
      /\ Signal(reply).op = reply
  BY Signals, Listed, Fields DEF Op, Signal
<1>4. SndAsks(msgs) /\ RcvInv'
  BY <1>1, <1>2, <1>3, SndAnswers
<1>5. Alone
  BY <1>2, <1>4 DEF SndAsks, SndSent, Greeting
<1> HIDE DEF msgs
<1>6. Up' = {} /\ Down = {} /\ Len(up'[S]) = 0 /\ Len(down[S]) = 0
  BY <1>4, <1>5, SndAsksAlone
<1>7. /\ parent' = parent /\ nodeSubs' = nodeSubs /\ snd' = snd
      /\ SndScene' = SndScene /\ SndNode' = SndNode
      /\ tgSubs' = tgSubs /\ layerSubs' = layerSubs /\ open' = open
  BY <1>2 DEF tree, SndScene, SndNode
<1>8. Alone' /\ (Unknown => Unknown')
  <2>1. Len(down'[S]) = 1 
    BY <1>3, <1>4, <1>6 DEF SndAsks, Added
  <2> QED
    BY <1>5, <1>6, <1>7, <2>1 DEF Alone, Unknown
<1>9. \A x \in ToSet(msgs) : SndTold(x)' /\ x.op = reply
  BY <1>3, <1>8 DEF SndTold
<1>10. Told(S).op \notin {"nodeCreate", "nodeSubscribe", "layerCreate", "nodeLink",
                         "nodeDestroy", "tgCreate", "tagSet"}
  BY <1>2
<1>11. SndBuilds'
  BY <1>4, <1>7, <1>9, <1>10, Fields, SndBuildsKept
<1>12. SndLayers'
  <2>1. snd.bound = FALSE
    BY <1>5, <1>4 DEF Alone, IInv, TypeOK, Context
  <2> QED
    BY <1>4, <1>9, <2>1, Fields, SndLayersKept
<1>13. SndEnds'
  BY <1>2, <1>4, <1>7, <1>9, <1>10, Fields, SndEndsKept
<1>14. SndStreams'
  BY <1>2, <1>4, <1>9, <1>10, Fields, SndStreamsKept
<1>15. Tree' /\ Subscriptions'
  BY <1>2, <1>7 DEF IInv, TypeOK, Tree, Subscriptions, tree
<1>16. \A n : Msg("nodeCreate", n, S) \notin ToSet(msgs)
  BY <1>9, Fields
<1> QED
  BY <1>4, <1>7, <1>8, <1>9, <1>11, <1>12, <1>13, <1>14, <1>15, <1>16, SndAsked
     DEF IInv, SndQueues

LEMMA SndIgnoredHolds ==
    ASSUME IInv, UNCHANGED <<snd, rcv>>, Ignores(S) PROVE IInv'
<1>1. /\ UNCHANGED <<tree, known, nodeSubs, tgSubs, layerSubs, open, down>>
      /\ S \in open /\ up[S] # <<>> /\ up' = [up EXCEPT ![S] = Tail(@)]
      /\ Told(S).op # "nodeCreate"
      /\ Told(S).node \in Node /\ parent[Told(S).node] = Nowhere
  BY DEF Ignores, subs, Exists
<1>2. /\ parent' = parent /\ nodeSubs' = nodeSubs /\ snd' = snd
      /\ SndScene' = SndScene /\ SndNode' = SndNode /\ tags' = tags
      /\ tgSubs' = tgSubs /\ layerSubs' = layerSubs /\ open' = open
  BY <1>1 DEF tree, SndScene, SndNode
<1>3. Answer(S, <<>>) /\ <<>> \in Seq(Message) /\ \A x : x \notin ToSet(<<>>)
  <2>1. down[S] \o <<>> = down[S] /\ down = [down EXCEPT ![S] = @]
    BY Clients DEF IInv, TypeOK, Queues
  <2> QED
    BY <1>1, <2>1, Listed DEF Answer
<1>4. SndAsks(<<>>) /\ RcvInv'
  BY <1>1, <1>3, SndAnswers
<1>5. (Unknown' <=> Unknown) /\ (Serving' <=> Serving)
  BY <1>2 DEF Unknown, Serving
<1>6. Told(S).node # S
  BY <1>1, SndNodes DEF IInv, TypeOK
<1>7. SndBuilds'
  <2>1. Told(S) # Msg("nodeSubscribe", S, NoArg)
    BY <1>6, Fields
  <2>2. Told(S) # Msg("nodeCreate", SndScene, NoArg)
    BY <1>1, Fields
  <2> QED
    BY <1>2, <1>3, <1>4, <2>1, <2>2, SndBuildsKept
<1>8. Serving => Told(S).node # SndNode
  BY <1>1 DEF Serving
<1>9. SndLayers'
  BY <1>2, <1>3, <1>4, <1>5, <1>8, Fields, SndLayersKept
<1>10. SndEnds'
  <2>1. Told(S) # Msg("nodeLink", SndScene, SceneParent)
    <3>1. Told(S) = Msg("nodeLink", SndScene, SceneParent) =>
             snd.scene /\ Told(S).node = SndScene
      <4>1. ASSUME Told(S) = Msg("nodeLink", SndScene, SceneParent) PROVE snd.scene
        <5>1. Told(S).op = "nodeLink"
          BY <4>1, Fields
        <5>2. \/ snd.scene
              \/ Told(S) = Msg("nodeLink", SndNode, SndScene) /\ snd.bound
          BY <1>4, <5>1 DEF SndAsks, SndSent
        <5> QED
          BY <5>2 DEF IInv, SndQueues
      <4> QED
        BY <4>1, Fields
    <3> QED
      BY <1>1, <3>1 DEF IInv, SndEnds
  <2>2. Told(S) = Msg("nodeDestroy", SndNode, NoArg) => parent[SndNode] = Nowhere
    BY <1>1, Fields
  <2> QED
    BY <1>1, <1>2, <1>3, <1>4, <2>1, <2>2, SndEndsKept
<1>11. SndStreams'
  BY <1>1, <1>3, <1>4, <1>5, <1>8, Fields, SndStreamsKept
<1>12. Tree' /\ Subscriptions'
  BY <1>1, <1>2 DEF IInv, TypeOK, Tree, Subscriptions, tree
<1> QED
  BY <1>2, <1>3, <1>4, <1>5, <1>7, <1>9, <1>10, <1>11, <1>12, SndAsked
     DEF IInv, SndQueues

LEMMA SndTerminatesHolds ==
    ASSUME IInv, UNCHANGED <<snd, rcv>>, Terminates(S) PROVE IInv'
<1> DEFINE msgs == <<Signal("terminate")>>
<1>1. /\ UNCHANGED <<tree, known>> /\ Answer(S, msgs)
      /\ S \in open /\ up[S] # <<>> /\ up' = [up EXCEPT ![S] = Tail(@)]
      /\ open' = open \ {S} /\ Told(S).op = "terminate"
      /\ nodeSubs' = [nodeSubs EXCEPT ![S] = {}]
      /\ tgSubs' = [tgSubs EXCEPT ![S] = {}]
      /\ layerSubs' = [layerSubs EXCEPT ![S] = {}]
  BY DEF Terminates, Takes
<1>2. /\ Subscriptions'
      /\ nodeSubs'[S] = {} /\ tgSubs'[S] = {} /\ layerSubs'[S] = {}
      /\ nodeSubs'[R] = nodeSubs[R] /\ tgSubs'[R] = tgSubs[R]
      /\ layerSubs'[R] = layerSubs[R] /\ (R \in open' <=> R \in open)
  BY <1>1, Clients DEF IInv, TypeOK, Subscriptions
<1>3. msgs \in Seq(Message) /\ \A x \in ToSet(msgs) : x.op = "terminate"
  BY Signals, Listed, Fields DEF Op, Signal
<1>4. SndAsks(msgs) /\ RcvInv'
  BY <1>1, <1>2, <1>3, SndAnswers
<1> HIDE DEF msgs
<1>5. /\ parent' = parent /\ snd' = snd /\ SndScene' = SndScene /\ SndNode' = SndNode
      /\ Down' = Down \cup ToSet(msgs)
  BY <1>1, <1>4 DEF tree, SndScene, SndNode, SndAsks, Added, Down
<1>6. Told(S) = Signal("terminate") /\ snd.bound /\ snd.scene
  BY <1>1, <1>4 DEF SndAsks, SndSent, IInv, SndQueues
<1>7. \A x \in ToSet(msgs) : SndTold(x)'
  BY <1>3 DEF SndTold, Greeting
<1>8. Unknown => Unknown'
  BY <1>2, <1>5 DEF Unknown
<1>9. S \notin open' /\ ~Serving'
  BY <1>1 DEF Serving
<1>10. SndBuilds'
  BY <1>1, <1>3, <1>4, <1>9, Fields, SndBuildsKept
<1>11. SndLayers'
  BY <1>3, <1>4, <1>9, Fields, SndLayersKept
<1>12. SndEnds'
  <2>1. parent[SndScene] = SceneParent /\ parent[SndNode] = Nowhere
    BY <1>1, <1>4, <1>6 DEF IInv, SndEnds, SndAsks, Taken
  <2>2. Msg("nodeCreate", SndScene, S) \notin ToSet(msgs)
    BY <1>3, Fields
  <2> QED
    BY <1>5, <1>6, <1>9, <2>1, <2>2 DEF IInv, SndEnds
<1>13. SndStreams'
  BY <1>1, <1>3, <1>4, <1>9, Fields, SndStreamsKept
<1>14. Tree'
  BY <1>1 DEF IInv, TypeOK, Tree, tree
<1>15. \A n : Msg("nodeCreate", n, S) \notin ToSet(msgs)
  BY <1>3, Fields
<1> QED
  BY <1>2, <1>4, <1>7, <1>8, <1>10, <1>11, <1>12, <1>13, <1>14, <1>15, SndAsked

LEMMA SndSubscribesTagGroupHolds ==
    ASSUME IInv, UNCHANGED <<snd, rcv>>, SubscribesTagGroup(S) PROVE IInv'
<1>1. PICK n : n = Told(S).node
  OBVIOUS
<1>2. /\ UNCHANGED <<tree, known, nodeSubs, layerSubs, open>>
      /\ Answer(S, TagsTold(n))
      /\ S \in open /\ up[S] # <<>> /\ Told(S).op = "tgSubscribe"
      /\ up' = [up EXCEPT ![S] = Tail(@)]
      /\ tgSubs' = [tgSubs EXCEPT ![S] = @ \cup {n}]
  BY <1>1 DEF SubscribesTagGroup, Takes, TagsTold
<1>3. SndFinds(n) /\ n \in snd.tg /\ n \in Node
  <2>1. SndFinds(n) /\ n \in snd.tg
    BY <1>1, <1>2, SndTaking DEF SndSent
  <2> QED
    BY <2>1, SndNodes DEF SndFinds, IInv, TypeOK
<1>4. TypeOK /\ n \in Name
  BY <1>3 DEF IInv, Name
<1>5. /\ TagsTold(n) \in Seq(Message)
      /\ \A x \in ToSet(TagsTold(n)) :
            /\ x.op \in {"tagCreate", "tagSet"} /\ x.node = n /\ x.arg \in Tag
            /\ x.arg \in ToSet(tags[n])
  BY <1>3, <1>4, ToldOfTags
<1>6. PICK msgs : msgs = TagsTold(n)
  OBVIOUS
<1>7. /\ tgSubs'[S] = tgSubs[S] \cup {n} /\ tgSubs'[R] = tgSubs[R]
      /\ Subscriptions' /\ Tree'
  BY <1>2, <1>4, Clients DEF TypeOK, Subscriptions, Tree, tree
<1>8. SndAsks(msgs) /\ RcvInv'
  BY <1>2, <1>5, <1>6, <1>7, SndAnswers
<1>9. /\ parent' = parent /\ nodeSubs' = nodeSubs /\ snd' = snd /\ tags' = tags
      /\ SndScene' = SndScene /\ SndNode' = SndNode /\ open' = open
      /\ \A k : SndFinds(k)' <=> SndFinds(k)
  BY <1>2 DEF tree, SndScene, SndNode, SndFinds
<1>10. (Unknown' <=> Unknown) /\ (Serving' <=> Serving)
  BY <1>9 DEF Unknown, Serving
<1>11. Msg("tagCreate", SndNode, FrameTag) \in ToSet(msgs) =>
          FrameTag \in ToSet(tags[SndNode])
  BY <1>5, <1>6, Fields
<1>12. \A x \in ToSet(msgs) : SndTold(x)'
  <2>1. ASSUME NEW x \in ToSet(msgs)
        PROVE  /\ x.op \in {"tagCreate", "tagSet"} /\ x.node = n /\ x.arg \in Tag
               /\ x.arg = FrameTag => n = SndNode
    BY <1>3, <1>5, <1>6 DEF IInv, SndStreams
  <2> QED
    BY <1>3, <1>9, <2>1 DEF SndTold, Greeting
<1>13. SndBuilds'
  BY <1>2, <1>5, <1>6, <1>8, <1>9, Fields, SndBuildsKept
<1>14. SndLayers'
  <2>1. FrameTag \in ToSet(tags[SndNode]) =>
           snd.layer \/ Msg("layerCreate", SndNode, NoArg) \in Down
    <3>1. FrameTag \in ToSet(tags[SndNode]) => Serving /\ snd.bound
      BY <1>2, <1>4, SndNodes DEF IInv, TypeOK, SndStreams, Serving
    <3> QED
      BY <3>1 DEF IInv, SndLayers
  <2> QED
    BY <1>2, <1>8, <1>9, <1>10, <1>11, <2>1, Fields, SndLayersKept
<1>15. SndEnds'
  BY <1>2, <1>5, <1>6, <1>8, <1>9, Fields, SndEndsKept
<1>16. SndStreams'
  BY <1>2, <1>8, <1>11, Fields, SndStreamsKept
<1>17. \A k : Msg("nodeCreate", k, S) \notin ToSet(msgs)
  BY <1>5, <1>6, Fields
<1>18. tgSubs'[S] \subseteq snd.tg
  BY <1>3, <1>7 DEF IInv, SndQueues
<1> QED
  BY <1>2, <1>7, <1>8, <1>9, <1>10, <1>12, <1>13, <1>14, <1>15, <1>16, <1>17, <1>18,
     SndAsked DEF IInv, SndQueues

LEMMA SndSubscribesNodeHolds ==
    ASSUME IInv, UNCHANGED <<snd, rcv>>, SubscribesNode(S) PROVE IInv'
<1>1. PICK n : n = Told(S).node
  OBVIOUS
<1>2. PICK children : children = {m \in Node \ known[S] : parent[m] = n}
  OBVIOUS
<1> DEFINE told == NodeTold(n, children)
<1>3. /\ UNCHANGED <<tree, tgSubs, layerSubs, open>> /\ Answer(S, told)
      /\ S \in open /\ up[S] # <<>> /\ Told(S).op = "nodeSubscribe"
      /\ up' = [up EXCEPT ![S] = Tail(@)]
      /\ nodeSubs' = [nodeSubs EXCEPT ![S] = @ \cup {n}]
      /\ known' = [known EXCEPT ![S] = @ \cup children]
  BY <1>1, <1>2 DEF SubscribesNode, Takes, NodeTold
<1>4. /\ (n = S /\ Unknown) \/ SndFinds(n)
      /\ Told(S) = Msg("nodeSubscribe", n, NoArg)
  <2>1. Told(S).arg = NoArg /\ ((n = S /\ Unknown) \/ SndFinds(n))
    BY <1>1, <1>3, SndTaking DEF SndSent
  <2>2. Told(S) \in Message
    BY <1>3, SndTaking
  <2> QED
    BY <1>1, <1>3, <2>1, <2>2 DEF Message, Msg
<1>5. /\ TypeOK /\ SndScene \in Scenes /\ SndNode \in SenderNodes
      /\ SndScene \in Node /\ SndNode \in Node
      /\ \A k \in Node : k \notin {S, R, SceneParent, Nowhere}
      /\ Scenes \cap SenderNodes = {} /\ SndScene # SndNode
      /\ n = S \/ (n \in Node /\ n # S)
  <2>1. TypeOK /\ snd \in Context
    BY DEF IInv, TypeOK
  <2> QED
    BY <1>4, <2>1, SndNodes DEF SndFinds
<1>6. n \in Name /\ children \in SUBSET Node
  BY <1>2, <1>5 DEF Name, S
<1>7. \A m \in children : m \in Node /\ n # S /\ SndFinds(n)
  <2>1. ASSUME NEW m \in children, n = S PROVE FALSE
    <3>1. m \in Node /\ parent[m] = S
      BY <1>2, <2>1
    <3>2. m \notin {SndScene, SndNode} /\ S \notin {Nowhere, SceneParent}
      <4>1. S \notin {Nowhere, SceneParent}
        BY DEF S, Sender, Nowhere, SceneParent
      <4>2. ~SndFinds(S)
        BY <1>5 DEF SndFinds
      <4> QED
        BY <1>4, <2>1, <3>1, <4>1, <4>2 DEF Unknown
    <3>3. PICK l \in Lives : m = Scene(l) \/ m = SenderNode(l)
      BY <3>1 DEF Node, Scenes, SenderNodes
    <3>4. l # snd.life
      BY <3>2, <3>3 DEF SndScene, SndNode
    <3>5. l < snd.life \/ l > snd.life
      <4>1. l \in {1, 2} /\ snd.life \in {1, 2}
        BY <1>5, Names DEF TypeOK, Context
      <4> QED
        BY <3>4, <4>1
    <3> QED
      BY <3>1, <3>2, <3>3, <3>5 DEF IInv, SndEnds
  <2> QED
    BY <1>4, <1>6, <2>1
<1>8. /\ told \in Seq(Message)
      /\ \A x \in ToSet(told) :
            \/ \E m \in children : x = Msg("nodeCreate", m, n)
            \/ x = Msg("tgCreate", n, NoArg) /\ n \in tgs
            \/ x = Msg("layerCreate", n, NoArg) /\ n \in layers
  BY <1>6, ToldOfNode
<1>9. PICK msgs : msgs = told
  OBVIOUS
<1> HIDE DEF told
<1>10. \A x \in ToSet(msgs) :
          /\ n # S /\ SndFinds(n)
          /\ x.op \in {"nodeCreate", "tgCreate", "layerCreate"}
          /\ x.op = "nodeCreate" => x.node \in Node /\ x.arg = n
          /\ x.op \in {"tgCreate", "layerCreate"} => x.node = n /\ x.arg = NoArg
  <2>1. n \in tgs \/ n \in layers => n # S /\ SndFinds(n)
    BY <1>4, <1>5 DEF TypeOK, Tree
  <2>2. ASSUME NEW x, NEW m \in children, x = Msg("nodeCreate", m, n)
        PROVE  x.op = "nodeCreate" /\ x.node \in Node /\ x.arg = n
               /\ n # S /\ SndFinds(n)
    BY <1>7, <2>2, Fields
  <2>3. ASSUME NEW x, x = Msg("tgCreate", n, NoArg), n \in tgs
        PROVE  x.op = "tgCreate" /\ x.node = n /\ x.arg = NoArg /\ n # S /\ SndFinds(n)
    BY <2>1, <2>3, Fields
  <2>4. ASSUME NEW x, x = Msg("layerCreate", n, NoArg), n \in layers
        PROVE  x.op = "layerCreate" /\ x.node = n /\ x.arg = NoArg /\ n # S /\ SndFinds(n)
    BY <2>1, <2>4, Fields
  <2> QED
    BY <1>8, <1>9, <2>2, <2>3, <2>4
<1>11. /\ nodeSubs'[S] = nodeSubs[S] \cup {n} /\ nodeSubs'[R] = nodeSubs[R]
       /\ known'[R] = known[R] /\ Subscriptions' /\ Tree'
  BY <1>3, <1>5, <1>6, Clients DEF TypeOK, Subscriptions, Tree, tree
<1>12. SndAsks(msgs) /\ RcvInv'
  BY <1>3, <1>8, <1>9, <1>11, SndAnswers
<1>13. /\ parent' = parent /\ snd' = snd /\ tags' = tags
       /\ SndScene' = SndScene /\ SndNode' = SndNode /\ open' = open
       /\ \A k : SndFinds(k)' <=> SndFinds(k)
  BY <1>3 DEF tree, SndScene, SndNode, SndFinds
<1>14. Msg("nodeSubscribe", S, NoArg) \in Up' /\ Unknown => Unknown'
  <2>1. CASE n = S
    <3>1. Told(S) = Msg("nodeSubscribe", S, NoArg)
      BY <1>4, <2>1
    <3>2. Msg("nodeSubscribe", S, NoArg) \notin Up'
      BY <1>12, <3>1 DEF IInv, SndBuilds, SndAsks, Taken, Up
    <3> QED
      BY <3>2
  <2>2. CASE n # S
    BY <1>11, <1>13, <2>2 DEF Unknown
  <2> QED
    BY <2>1, <2>2
<1>15. \A x \in ToSet(msgs) : SndTold(x)'
  <2>1. ASSUME NEW x \in ToSet(msgs)
        PROVE  /\ x.op \in {"nodeCreate", "tgCreate", "layerCreate"}
               /\ x.op = "nodeCreate" => x.node \in Node /\ x.arg # S
               /\ x.op \in {"tgCreate", "layerCreate"} => SndFinds(x.node)' /\ x.arg = NoArg
    BY <1>10, <1>13
  <2> QED
    BY <2>1 DEF SndTold, Greeting
<1>16. \A k : Msg("nodeCreate", k, S) \notin ToSet(msgs)
  BY <1>10, Fields
<1>17. SndBuilds'
  <2>1. Told(S) = Msg("nodeSubscribe", S, NoArg) => S \in nodeSubs'[S]
    BY <1>4, <1>11, Different
  <2> QED
    BY <1>4, <1>11, <1>12, <1>16, <2>1, Different, SndBuildsKept
<1>18. Msg("tagCreate", SndNode, FrameTag) \notin ToSet(msgs)
  BY <1>10, Fields
<1>19. SndLayers'
  <2>1. Told(S) = Msg("nodeSubscribe", SndNode, NoArg) => SndNode \in nodeSubs'[S]
    BY <1>4, <1>11, Different
  <2>2. Serving' <=> Serving
    BY <1>13 DEF Serving
  <2>3. Told(S) # Msg("layerCreate", SndNode, NoArg)
    BY <1>4, Different
  <2> QED
    BY <1>11, <1>12, <1>13, <1>18, <2>1, <2>2, <2>3, SndLayersKept
<1>20. SndEnds'
  <2>1. S \in open' /\ Told(S) # Msg("nodeLink", SndScene, SceneParent)
        /\ Told(S) # Msg("nodeDestroy", SndNode, NoArg)
    BY <1>3, <1>4, Different
  <2> QED
    BY <1>12, <1>13, <1>16, <2>1, SndEndsKept
<1>21. SndStreams'
  <2>1. Told(S) \notin {Msg("tgCreate", SndNode, NoArg), Msg("tagSet", SndNode, FrameTag)}
    BY <1>4, Different
  <2> QED
    BY <1>3, <1>12, <1>18, <2>1, SndStreamsKept
<1>22. \A k \in nodeSubs'[S] : k = S \/ SndFinds(k)
  BY <1>4, <1>11 DEF IInv, SndQueues
<1> QED
  BY <1>3, <1>11, <1>12, <1>13, <1>14, <1>15, <1>16, <1>17, <1>19, <1>20, <1>21, <1>22,
     SndAsked DEF IInv, SndQueues

(* What holds whenever the server takes a request about a node there is.   *)
LEMMA SndRequest ==
    ASSUME IInv, UNCHANGED <<snd, rcv>>, NEW op, Takes(S, op), op # "nodeCreate"
    PROVE  /\ S \in open /\ up[S] # <<>> /\ up' = [up EXCEPT ![S] = Tail(@)]
           /\ SndSent(Told(S)) /\ Told(S).op = op /\ Told(S) \in Message
           /\ Told(S) = Msg(op, Told(S).node, Told(S).arg)
           /\ Told(S).node \in Node => parent[Told(S).node] # Nowhere
           /\ SndScene' = SndScene /\ SndNode' = SndNode
           /\ \A n : SndFinds(n)' <=> SndFinds(n)
           /\ \A n : SndFinds(n) => n \in Node /\ n \in Name
           /\ SndFinds(SndNode) => snd.bound
           /\ SndScene \in Node /\ SndNode \in Node /\ SndScene # SndNode
           /\ SndNode \in SenderNodes
           /\ TypeOK
<1>1. S \in open /\ up[S] # <<>> /\ up' = [up EXCEPT ![S] = Tail(@)] /\ Told(S).op = op
      /\ Exists(Told(S).node)
  BY DEF Takes
<1>2. SndSent(Told(S)) /\ Told(S) \in Message
  BY <1>1, SndTaking
<1>3. Told(S) = Msg(op, Told(S).node, Told(S).arg)
  BY <1>1, <1>2 DEF Message, Msg
<1>4. TypeOK /\ snd \in Context
  BY DEF IInv, TypeOK
<1>5. /\ SndScene \in Node /\ SndNode \in Node /\ SndScene # SndNode
      /\ SndNode \in SenderNodes /\ Node \subseteq Name
  BY <1>4, SndNodes DEF Name
<1>6. /\ \A n : SndFinds(n) => n \in Node /\ n \in Name
      /\ SndFinds(SndNode) => snd.bound
  BY <1>5 DEF SndFinds
<1>7. /\ SndScene' = SndScene /\ SndNode' = SndNode
      /\ \A n : SndFinds(n)' <=> SndFinds(n)
  BY DEF SndScene, SndNode, SndFinds
<1> QED
  BY <1>1, <1>2, <1>3, <1>4, <1>5, <1>6, <1>7 DEF Exists

(* Both clients may be told of it; neither subscribes to anything.         *)
LEMMA SndTellsOf ==
    ASSUME IInv, UNCHANGED <<snd, rcv, parent, subs>>, S \in open, up[S] # <<>>,
           up' = [up EXCEPT ![S] = Tail(@)],
           NEW clients \in SUBSET Client, NEW x \in Message, Tell(clients, x),
           x.op # "nodeCreate"
    PROVE  \E msgs, told :
              /\ SndAsks(msgs) /\ RcvHears(told) /\ RcvOrders' /\ Subscriptions'
              /\ \A y : y \in ToSet(msgs) <=> y = x /\ S \in clients
              /\ \A y : y \in ToSet(told) <=> y = x /\ R \in clients
              /\ (Unknown' <=> Unknown) /\ (Serving' <=> Serving)
              /\ (Following' <=> Following)
              /\ \A n : Msg("nodeCreate", n, S) \notin ToSet(msgs)
<1>1. PICK msgs, told :
              /\ SndAsks(msgs) /\ up'[R] = up[R] /\ Added(down[R], told, down'[R])
              /\ \A y : y \in ToSet(msgs) <=> y = x /\ S \in clients
              /\ \A y : y \in ToSet(told) <=> y = x /\ R \in clients
  BY SndTells
<1>2. /\ known' = known /\ nodeSubs' = nodeSubs /\ tgSubs' = tgSubs
      /\ layerSubs' = layerSubs /\ open' = open /\ parent' = parent
      /\ SndScene' = SndScene /\ SndNode' = SndNode
  BY DEF subs, SndScene, SndNode
<1>3. RcvHears(told)
  BY <1>1, <1>2 DEF RcvHears
<1>4. /\ \A y \in ToSet(told) : y.op # "nodeCreate"
      /\ \A y \in ToSet(msgs) : y.op # "nodeCreate"
  BY <1>1
<1>5. RcvOrders'
  <2>1. Msg("nodeCreate", Scene(2), SceneParent) \notin ToSet(told)
    BY <1>4, Fields
  <2> QED
    BY <1>2, <1>3, <2>1, RcvOrdersHeard
<1>6. Subscriptions'
  BY <1>2 DEF IInv, TypeOK, Subscriptions
<1>7. (Unknown' <=> Unknown) /\ (Serving' <=> Serving) /\ (Following' <=> Following)
  BY <1>2 DEF Unknown, Serving, Following
<1>8. \A n : Msg("nodeCreate", n, S) \notin ToSet(msgs)
  BY <1>4, Fields
<1> QED
  BY <1>1, <1>3, <1>5, <1>6, <1>7, <1>8

LEMMA SndCreatesTagGroupHolds ==
    ASSUME IInv, UNCHANGED <<snd, rcv>>, CreatesTagGroup(S) PROVE IInv'
<1>1. PICK n, x : n = Told(S).node /\ x = Msg("tgCreate", n, NoArg)
  OBVIOUS
<1>2. /\ Takes(S, "tgCreate") /\ tgs' = tgs \cup {n} /\ Tell(Subscribers(nodeSubs, n), x)
      /\ UNCHANGED <<parent, tags, tagSet, layers, layerSet, subs>>
  BY <1>1 DEF CreatesTagGroup
<1>3. /\ S \in open /\ up[S] # <<>> /\ up' = [up EXCEPT ![S] = Tail(@)]
      /\ SndSent(Told(S)) /\ Told(S).op = "tgCreate"
      /\ Told(S) = Msg("tgCreate", n, Told(S).arg)
      /\ SndScene' = SndScene /\ SndNode' = SndNode
      /\ \A k : SndFinds(k)' <=> SndFinds(k)
      /\ \A k : SndFinds(k) => k \in Node /\ k \in Name
      /\ SndNode \in Node /\ TypeOK
  BY <1>1, <1>2, SndRequest
<1>4. SndFinds(n) /\ n \in Node /\ n \in Name
  BY <1>1, <1>3 DEF SndSent
<1>5. x \in Message /\ x.op = "tgCreate" /\ x.node = n /\ x.arg = NoArg
  BY <1>1, <1>4, Messages, Fields DEF Op
<1>6. Subscribers(nodeSubs, n) \in SUBSET Client
  BY DEF Subscribers
<1>7. PICK msgs, told :
         /\ SndAsks(msgs) /\ RcvHears(told) /\ RcvOrders' /\ Subscriptions'
         /\ \A y : y \in ToSet(msgs) <=> y = x /\ S \in Subscribers(nodeSubs, n)
         /\ \A y : y \in ToSet(told) <=> y = x /\ R \in Subscribers(nodeSubs, n)
         /\ (Unknown' <=> Unknown) /\ (Serving' <=> Serving)
         /\ (Following' <=> Following)
         /\ \A k : Msg("nodeCreate", k, S) \notin ToSet(msgs)
  BY <1>2, <1>3, <1>5, <1>6, SndTellsOf
<1>8. /\ nodeSubs' = nodeSubs /\ tgSubs' = tgSubs /\ layerSubs' = layerSubs
      /\ open' = open /\ parent' = parent /\ tags' = tags /\ snd' = snd /\ rcv' = rcv
      /\ tagSet' = tagSet /\ layers' = layers /\ layerSet' = layerSet
  BY <1>2 DEF subs
<1>9. Tree'
  BY <1>2, <1>3, <1>4, <1>8 DEF TypeOK, Tree
<1>10. \A y \in ToSet(msgs) : SndTold(y)'
  BY <1>3, <1>4, <1>5, <1>7 DEF SndTold, Greeting
<1>11. Msg("tagCreate", SndNode, FrameTag) \notin ToSet(msgs)
  BY <1>5, <1>7, Fields
<1>12. SndBuilds'
  BY <1>3, <1>7, <1>8, Fields, SndBuildsKept
<1>13. SndLayers'
  <2>1. /\ Told(S) # Msg("layerCreate", SndNode, NoArg)
        /\ Told(S) # Msg("nodeSubscribe", SndNode, NoArg)
    BY <1>3, Fields
  <2> QED
    BY <1>7, <1>8, <1>11, <2>1, SndLayersKept
<1>14. SndEnds'
  BY <1>3, <1>7, <1>8, Fields, SndEndsKept
<1>15. SndStreams'
  <2>1. /\ Told(S) = Msg("tgCreate", SndNode, NoArg) => SndNode \in tgs' \/ ~Serving'
        /\ Told(S) # Msg("tagSet", SndNode, FrameTag)
    BY <1>2, <1>3, Different
  <2>2. tgs \subseteq tgs' /\ tagSet \subseteq tagSet'
    BY <1>2, <1>8
  <2>3. Serving' =>
         /\ \/ SndNode \in tgs'
            \/ Precedes(up'[S], Msg("tgCreate", SndNode, NoArg),
                                Msg("layerCreate", SndNode, NoArg))
         /\ \/ FrameTag \in tagSet'
            \/ Precedes(up'[S], Msg("tagSet", SndNode, FrameTag),
                                Msg("layerSet", SndNode, NoArg))
    BY <1>7, <2>1, <2>2, SndServes
  <2>4. Down' = Down \cup ToSet(msgs)
    BY <1>7 DEF SndAsks, Added, Down
  <2> QED
    BY <1>3, <1>8, <1>11, <2>2, <2>3, <2>4 DEF IInv, SndStreams
<1>16. \A y \in ToSet(told) : RcvTold(y)'
  <2>1. ASSUME R \in Subscribers(nodeSubs, n) PROVE RcvFinds(n)'
    <3>1. n \in nodeSubs[R] /\ n \notin {R, SceneParent}
      BY <1>4, <2>1, RcvNames DEF Subscribers
    <3> QED
      BY <1>8, <3>1 DEF RcvFinds, IInv, RcvQueues
  <2> QED
    BY <1>4, <1>5, <1>7, <2>1 DEF RcvTold
<1>17. RcvStreams'
  <2>1. Value1 \notin ToSet(told) /\ Frame1 \notin ToSet(told) /\ Layer1 \notin ToSet(told)
    BY <1>5, <1>7, Fields DEF Value1, Frame1, Layer1
  <2>2. Node1 \in nodeSubs[R] /\ Node1 \in tgs' => Node1 \in tgs \/ TagGroup1 \in ToSet(told)
    BY <1>1, <1>2, <1>7, Clients DEF Subscribers, TagGroup1
  <2> QED
    BY <1>7, <1>8, <2>1, <2>2, RcvStreamsHeard
<1>18. RcvInv'
  BY <1>7, <1>16, <1>17, RcvHeard
<1> QED
  BY <1>7, <1>8, <1>9, <1>10, <1>12, <1>13, <1>14, <1>15, <1>18, SndAsked
     DEF IInv, SndQueues

LEMMA SndCreatesTagHolds ==
    ASSUME IInv, UNCHANGED <<snd, rcv>>, CreatesTag(S) PROVE IInv'
<1>1. PICK n, a, x : n = Told(S).node /\ a = Told(S).arg /\ x = Msg("tagCreate", n, a)
  OBVIOUS
<1>2. /\ Takes(S, "tagCreate") /\ tags' = [tags EXCEPT ![n] = Append(@, a)]
      /\ Tell(Subscribers(tgSubs, n), x)
      /\ UNCHANGED <<parent, tgs, tagSet, layers, layerSet, subs>>
  BY <1>1 DEF CreatesTag
<1>3. /\ S \in open /\ up[S] # <<>> /\ up' = [up EXCEPT ![S] = Tail(@)]
      /\ SndSent(Told(S)) /\ Told(S).op = "tagCreate" /\ Told(S) = x
      /\ n \in Node => parent[n] # Nowhere
      /\ SndScene' = SndScene /\ SndNode' = SndNode
      /\ \A k : SndFinds(k)' <=> SndFinds(k)
      /\ \A k : SndFinds(k) => k \in Node /\ k \in Name
      /\ SndFinds(SndNode) => snd.bound
      /\ SndNode \in Node /\ TypeOK
  BY <1>1, <1>2, SndRequest
<1>4. /\ SndFinds(n) /\ n \in Node /\ n \in Name /\ n \in snd.tg /\ a \in Tag
      /\ a = FrameTag => n = SndNode
  BY <1>1, <1>3 DEF SndSent
<1>5. x \in Message /\ x.op = "tagCreate" /\ x.node = n /\ x.arg = a
  BY <1>1, <1>4, Messages, Fields DEF Op
<1>6. Subscribers(tgSubs, n) \in SUBSET Client
  BY DEF Subscribers
<1>7. PICK msgs, told :
         /\ SndAsks(msgs) /\ RcvHears(told) /\ RcvOrders' /\ Subscriptions'
         /\ \A y : y \in ToSet(msgs) <=> y = x /\ S \in Subscribers(tgSubs, n)
         /\ \A y : y \in ToSet(told) <=> y = x /\ R \in Subscribers(tgSubs, n)
         /\ (Unknown' <=> Unknown) /\ (Serving' <=> Serving)
         /\ (Following' <=> Following)
         /\ \A k : Msg("nodeCreate", k, S) \notin ToSet(msgs)
  BY <1>2, <1>3, <1>5, <1>6, SndTellsOf
<1>8. /\ nodeSubs' = nodeSubs /\ tgSubs' = tgSubs /\ layerSubs' = layerSubs
      /\ open' = open /\ parent' = parent /\ tgs' = tgs /\ snd' = snd /\ rcv' = rcv
      /\ tagSet' = tagSet /\ layers' = layers /\ layerSet' = layerSet
  BY <1>2 DEF subs
<1>9. /\ tags' \in [Node -> Seq(Tag)]
      /\ ToSet(tags'[n]) = ToSet(tags[n]) \cup {a}
      /\ \A k \in Node \ {n} : tags'[k] = tags[k]
  <2>1. tags[n] \in Seq(Tag) /\ <<a>> \in Seq(Tag) /\ Append(tags[n], a) = tags[n] \o <<a>>
    BY <1>3, <1>4 DEF TypeOK, Tree
  <2>2. ToSet(tags[n] \o <<a>>) = ToSet(tags[n]) \cup {a} /\ tags[n] \o <<a>> \in Seq(Tag)
    <3>1. \A q, s \in Seq(Tag) :
             q \o s \in Seq(Tag) /\ ToSet(q \o s) = ToSet(q) \cup ToSet(s)
      BY QueueConcat
    <3>2. ToSet(<<a>>) = {a}
      BY Listed
    <3> QED
      BY <2>1, <3>1, <3>2
  <2> QED
    BY <1>2, <1>3, <1>4, <2>1, <2>2 DEF TypeOK, Tree
<1>10. Tree'
  BY <1>3, <1>8, <1>9 DEF TypeOK, Tree
<1>11. \A y \in ToSet(msgs) : SndTold(y)'
  BY <1>3, <1>4, <1>5, <1>7, <1>8 DEF SndTold, Greeting
<1>12. SndBuilds'
  BY <1>3, <1>5, <1>7, <1>8, Fields, SndBuildsKept
<1>13. ASSUME a = FrameTag
       PROVE  /\ n = SndNode /\ Serving /\ snd.bound
              /\ snd.layer \/ Msg("layerCreate", SndNode, NoArg) \in Down
  <2>1. n = SndNode /\ Serving /\ snd.bound
    BY <1>3, <1>4, <1>13 DEF Serving
  <2>2. Told(S) = Msg("tagCreate", SndNode, FrameTag)
    BY <1>1, <1>3, <1>13, <2>1
  <2> QED
    BY <1>7, <2>1, <2>2 DEF IInv, SndLayers, SndAsks, Taken
<1>14. /\ Msg("tagCreate", SndNode, FrameTag) \in ToSet(msgs) => a = FrameTag
       /\ Msg("tagCreate", SndNode, FrameTag) \in ToSet(msgs) => n = SndNode
  BY <1>5, <1>7, Fields
<1>15. SndLayers'
  <2>1. /\ Told(S) # Msg("layerCreate", SndNode, NoArg)
        /\ Told(S) # Msg("nodeSubscribe", SndNode, NoArg)
    BY <1>3, Fields
  <2>2. FrameTag \in ToSet(tags'[SndNode]) =>
           FrameTag \in ToSet(tags[SndNode]) \/ a = FrameTag
    BY <1>3, <1>9
  <2> QED
    BY <1>7, <1>8, <1>13, <1>14, <2>1, <2>2, SndLayersKept
<1>16. SndEnds'
  BY <1>3, <1>7, <1>8, Fields, SndEndsKept
<1>17. SndStreams'
  <2>1. /\ Told(S) # Msg("tgCreate", SndNode, NoArg)
        /\ Told(S) # Msg("tagSet", SndNode, FrameTag)
    BY <1>3, Fields
  <2>2. Serving' =>
         /\ \/ SndNode \in tgs'
            \/ Precedes(up'[S], Msg("tgCreate", SndNode, NoArg),
                                Msg("layerCreate", SndNode, NoArg))
         /\ \/ FrameTag \in tagSet'
            \/ Precedes(up'[S], Msg("tagSet", SndNode, FrameTag),
                                Msg("layerSet", SndNode, NoArg))
    BY <1>7, <1>8, <2>1, SndServes
  <2>3. Down' = Down \cup ToSet(msgs)
    BY <1>7 DEF SndAsks, Added, Down
  <2>4. \A k \in Node : ToSet(tags[k]) \subseteq ToSet(tags'[k])
    BY <1>9
  <2>5. \A k \in Node : FrameTag \in ToSet(tags'[k]) =>
           k = SndNode /\ snd.bound /\ parent[k] # Nowhere
    BY <1>3, <1>4, <1>9, <1>13 DEF IInv, SndStreams
  <2>6. Msg("tagCreate", SndNode, FrameTag) \in ToSet(msgs) =>
           FrameTag \in ToSet(tags'[SndNode])
    BY <1>9, <1>14
  <2>7. \A k \in layerSet : k \in Node
    BY <1>3 DEF TypeOK, Tree
  <2> QED
    BY <1>3, <1>8, <2>2, <2>3, <2>4, <2>5, <2>6, <2>7 DEF IInv, SndStreams
<1>18. \A y \in ToSet(told) : RcvTold(y)'
  <2>1. R \in Subscribers(tgSubs, n) => n \in rcv.tg
    BY DEF Subscribers, IInv, RcvQueues
  <2> QED
    BY <1>4, <1>5, <1>7, <1>8, <2>1 DEF RcvTold
<1>19. RcvStreams'
  <2>1. Value1 \notin ToSet(told) /\ Frame1 \notin ToSet(told) /\ Layer1 \notin ToSet(told)
    BY <1>5, <1>7, Fields DEF Value1, Frame1, Layer1
  <2>2. FrameTag \in ToSet(tags'[Node1]) =>
           \/ FrameTag \in ToSet(tags[Node1])
           \/ n = Node1 /\ a = FrameTag
    BY <1>9, RcvNames
  <2>3. n = Node1 /\ a = FrameTag /\ Node1 \in tgSubs[R] => Tag1 \in ToSet(told)
    BY <1>1, <1>7, Clients DEF Subscribers, Tag1
  <2>4. n = Node1 /\ a = FrameTag /\ FrameTag \in tagSet => FrameTag \in ToSet(tags[Node1])
    BY <1>4 DEF IInv, SndStreams
  <2> QED
    BY <1>7, <1>8, <2>1, <2>2, <2>3, <2>4, RcvStreamsHeard
<1>20. RcvInv'
  BY <1>7, <1>18, <1>19, RcvHeard
<1> QED
  BY <1>7, <1>8, <1>10, <1>11, <1>12, <1>15, <1>16, <1>17, <1>20, SndAsked
     DEF IInv, SndQueues

LEMMA SndSetsTagHolds ==
    ASSUME IInv, UNCHANGED <<snd, rcv>>, SetsTag(S) PROVE IInv'
<1>1. PICK n, a, x : n = Told(S).node /\ a = Told(S).arg /\ x = Msg("tagSet", n, a)
  OBVIOUS
<1>2. PICK clients : clients = Subscribers(tgSubs, n) \ {S}
  OBVIOUS
<1>3. /\ Takes(S, "tagSet") /\ tagSet' = tagSet \cup {a} /\ Tell(clients, Told(S))
      /\ UNCHANGED <<parent, tgs, tags, layers, layerSet, subs>>
  BY <1>1, <1>2 DEF SetsTag
<1>4. /\ S \in open /\ up[S] # <<>> /\ up' = [up EXCEPT ![S] = Tail(@)]
      /\ SndSent(Told(S)) /\ Told(S).op = "tagSet" /\ Told(S) = x /\ x \in Message
      /\ n \in Node => parent[n] # Nowhere
      /\ SndScene' = SndScene /\ SndNode' = SndNode
      /\ \A k : SndFinds(k) => k \in Node /\ k \in Name
      /\ SndNode \in Node /\ TypeOK
  BY <1>1, <1>3, SndRequest
<1>5. /\ n \in Node /\ n \in Name /\ a \in Tag
      /\ a = FrameTag => n = SndNode
  BY <1>1, <1>4 DEF SndSent
<1>6. x.op = "tagSet" /\ x.node = n /\ x.arg = a
  BY <1>1, Fields
<1>7. clients \in SUBSET Client /\ S \notin clients /\ (R \in clients <=> n \in tgSubs[R])
  BY <1>2, Clients DEF Subscribers
<1>8. PICK msgs, told :
         /\ SndAsks(msgs) /\ RcvHears(told) /\ RcvOrders' /\ Subscriptions'
         /\ \A y : y \in ToSet(msgs) <=> y = x /\ S \in clients
         /\ \A y : y \in ToSet(told) <=> y = x /\ R \in clients
         /\ (Unknown' <=> Unknown) /\ (Serving' <=> Serving)
         /\ (Following' <=> Following)
         /\ \A k : Msg("nodeCreate", k, S) \notin ToSet(msgs)
  BY <1>3, <1>4, <1>6, <1>7, SndTellsOf
<1>9. /\ nodeSubs' = nodeSubs /\ tgSubs' = tgSubs /\ layerSubs' = layerSubs
      /\ open' = open /\ parent' = parent /\ tgs' = tgs /\ snd' = snd /\ rcv' = rcv
      /\ tags' = tags /\ layers' = layers /\ layerSet' = layerSet
  BY <1>3 DEF subs
<1>10. Tree'
  BY <1>3, <1>4, <1>5, <1>9 DEF TypeOK, Tree
<1>11. \A y : y \notin ToSet(msgs)
  BY <1>7, <1>8
<1>12. SndBuilds'
  BY <1>4, <1>8, <1>9, <1>11, Fields, SndBuildsKept
<1>13. SndLayers'
  <2>1. /\ Told(S) # Msg("layerCreate", SndNode, NoArg)
        /\ Told(S) # Msg("nodeSubscribe", SndNode, NoArg)
    BY <1>4, Fields
  <2> QED
    BY <1>8, <1>9, <1>11, <2>1, SndLayersKept
<1>14. SndEnds'
  BY <1>4, <1>8, <1>9, <1>11, Fields, SndEndsKept
<1>15. a = FrameTag => FrameTag \in ToSet(tags[SndNode]) /\ n = SndNode
  <2>1. ASSUME a = FrameTag PROVE snd.run /\ n = SndNode /\ parent[SndNode] # Nowhere
    BY <1>1, <1>4, <1>5, <2>1 DEF SndSent
  <2> QED
    BY <2>1 DEF IInv, SndStreams
<1>16. SndStreams'
  <2>1. /\ Told(S) # Msg("tgCreate", SndNode, NoArg)
        /\ Told(S) = Msg("tagSet", SndNode, FrameTag) => FrameTag \in tagSet' \/ ~Serving'
    BY <1>1, <1>3, <1>4, Different
  <2>2. Serving' =>
         /\ \/ SndNode \in tgs'
            \/ Precedes(up'[S], Msg("tgCreate", SndNode, NoArg),
                                Msg("layerCreate", SndNode, NoArg))
         /\ \/ FrameTag \in tagSet'
            \/ Precedes(up'[S], Msg("tagSet", SndNode, FrameTag),
                                Msg("layerSet", SndNode, NoArg))
    BY <1>3, <1>8, <1>9, <2>1, SndServes
  <2>3. Down' = Down \cup ToSet(msgs)
    BY <1>8 DEF SndAsks, Added, Down
  <2>4. FrameTag \in tagSet' => FrameTag \in ToSet(tags[SndNode])
    BY <1>3, <1>15 DEF IInv, SndStreams
  <2> QED
    BY <1>3, <1>4, <1>9, <1>11, <2>2, <2>3, <2>4 DEF IInv, SndStreams
<1>17. \A y \in ToSet(told) : RcvTold(y)'
  <2>1. R \in clients => n \in rcv.tg
    BY <1>7 DEF IInv, RcvQueues
  <2> QED
    BY <1>5, <1>6, <1>8, <1>9, <2>1 DEF RcvTold
<1>18. RcvStreams'
  <2>1. Value1 \notin ToSet(told) /\ Layer1 \notin ToSet(told)
    BY <1>6, <1>8, Fields DEF Value1, Layer1
  <2>2. Frame1 \in ToSet(told) => FrameTag \in rcv.tag \/ Tag1 \in RDown
    <3>1. ASSUME Frame1 \in ToSet(told)
          PROVE  /\ n = Node1 /\ a = FrameTag /\ Node1 \in tgSubs[R]
                 /\ R \in open /\ parent[Node1] # Nowhere
      <4>1. n = Node1 /\ a = FrameTag /\ Node1 \in tgSubs[R]
        BY <1>6, <1>7, <1>8, <3>1, Fields DEF Frame1
      <4>2. R \in open
        BY <4>1 DEF IInv, RcvQueues
      <4> QED
        BY <1>4, <1>5, <4>1, <4>2
    <3> QED
      BY <1>15, <3>1 DEF IInv, RcvStreams, Following
  <2>3. Node1 \in tgSubs[R] /\ FrameTag \in ToSet(tags[Node1]) /\ FrameTag \in tagSet' =>
           FrameTag \in tagSet \/ Frame1 \in ToSet(told)
    <3>1. FrameTag \in ToSet(tags[Node1]) => Node1 = SndNode
      BY RcvNames DEF IInv, SndStreams
    <3>2. n = Node1 /\ a = FrameTag /\ Node1 \in tgSubs[R] => Frame1 \in ToSet(told)
      BY <1>1, <1>7, <1>8 DEF Frame1
    <3> QED
      BY <1>3, <1>15, <3>1, <3>2
  <2> QED
    BY <1>8, <1>9, <2>1, <2>2, <2>3, RcvStreamsHeard
<1>19. RcvInv'
  BY <1>8, <1>17, <1>18, RcvHeard
<1> QED
  BY <1>8, <1>9, <1>10, <1>11, <1>12, <1>13, <1>14, <1>16, <1>19, SndAsked
     DEF IInv, SndQueues

LEMMA SndCreatesLayerHolds ==
    ASSUME IInv, UNCHANGED <<snd, rcv>>, CreatesLayer(S) PROVE IInv'
<1>1. PICK x : x = Msg("layerCreate", SndNode, NoArg)
  OBVIOUS
<1>2. Takes(S, "layerCreate") /\ UNCHANGED <<parent, tgs, tags, tagSet, layerSet, subs>>
  BY DEF CreatesLayer
<1>3. /\ S \in open /\ up[S] # <<>> /\ up' = [up EXCEPT ![S] = Tail(@)]
      /\ SndSent(Told(S)) /\ Told(S).op = "layerCreate"
      /\ Told(S) = Msg("layerCreate", Told(S).node, Told(S).arg)
      /\ Told(S).node \in Node => parent[Told(S).node] # Nowhere
      /\ SndScene' = SndScene /\ SndNode' = SndNode
      /\ \A k : SndFinds(k)' <=> SndFinds(k)
      /\ SndNode \in Node /\ SndNode \in SenderNodes /\ TypeOK
      /\ Told(S) \in Message
  BY <1>2, SndRequest
<1>4. Told(S) = x /\ snd.bound /\ Told(S).node = SndNode /\ Serving
  <2>1. Told(S).node = SndNode /\ snd.bound /\ Told(S).arg = NoArg
    BY <1>3 DEF SndSent
  <2> QED
    BY <1>1, <1>3, <2>1 DEF Serving
<1>5. /\ layers' = layers \cup {SndNode} /\ Tell(Subscribers(nodeSubs, SndNode), x)
      /\ x \in Message /\ x.op = "layerCreate" /\ x.node = SndNode /\ x.arg = NoArg
  BY <1>1, <1>3, <1>4, Fields DEF CreatesLayer
<1>6. /\ Subscribers(nodeSubs, SndNode) \in SUBSET Client
      /\ S \in Subscribers(nodeSubs, SndNode) <=> SndNode \in nodeSubs[S]
      /\ R \in Subscribers(nodeSubs, SndNode) <=> SndNode \in nodeSubs[R]
  BY Clients DEF Subscribers
<1>7. PICK msgs, told :
         /\ SndAsks(msgs) /\ RcvHears(told) /\ RcvOrders' /\ Subscriptions'
         /\ \A y : y \in ToSet(msgs) <=> y = x /\ S \in Subscribers(nodeSubs, SndNode)
         /\ \A y : y \in ToSet(told) <=> y = x /\ R \in Subscribers(nodeSubs, SndNode)
         /\ (Unknown' <=> Unknown) /\ (Serving' <=> Serving)
         /\ (Following' <=> Following)
         /\ \A k : Msg("nodeCreate", k, S) \notin ToSet(msgs)
  BY <1>2, <1>3, <1>5, <1>6, SndTellsOf
<1>8. /\ nodeSubs' = nodeSubs /\ tgSubs' = tgSubs /\ layerSubs' = layerSubs
      /\ open' = open /\ parent' = parent /\ tgs' = tgs /\ snd' = snd /\ rcv' = rcv
      /\ tags' = tags /\ tagSet' = tagSet /\ layerSet' = layerSet
  BY <1>2 DEF subs
<1>9. Tree'
  BY <1>3, <1>5, <1>8 DEF TypeOK, Tree
<1>10. \A y \in ToSet(msgs) : SndTold(y)'
  <2>1. SndFinds(SndNode)
    BY <1>4 DEF SndFinds
  <2> QED
    BY <1>3, <1>5, <1>7, <2>1 DEF SndTold, Greeting
<1>11. Msg("tagCreate", SndNode, FrameTag) \notin ToSet(msgs)
  BY <1>5, <1>7, Fields
<1>12. SndBuilds'
  BY <1>3, <1>7, <1>8, Fields, SndBuildsKept
<1>13. SndLayers'
  <2>1. /\ Told(S) # Msg("nodeSubscribe", SndNode, NoArg)
    BY <1>3, Fields
  <2>2. SndNode \in nodeSubs[S]
    BY <1>1, <1>4, <1>7 DEF IInv, SndLayers, SndAsks, Taken
  <2>3. Msg("layerCreate", SndNode, NoArg) \in ToSet(msgs)
    BY <1>1, <1>6, <1>7, <2>2
  <2> QED
    BY <1>7, <1>8, <1>11, <2>1, <2>3, SndLayersKept
<1>14. SndEnds'
  BY <1>3, <1>7, <1>8, Fields, SndEndsKept
<1>15. SndNode \in tgs
  BY <1>1, <1>4, <1>7 DEF IInv, SndStreams, SndAsks, Taken
<1>16. SndStreams'
  <2>1. /\ Told(S) # Msg("tgCreate", SndNode, NoArg)
        /\ Told(S) # Msg("tagSet", SndNode, FrameTag)
    BY <1>3, Fields
  <2>2. Serving' =>
         /\ \/ SndNode \in tgs'
            \/ Precedes(up'[S], Msg("tgCreate", SndNode, NoArg),
                                Msg("layerCreate", SndNode, NoArg))
         /\ \/ FrameTag \in tagSet'
            \/ Precedes(up'[S], Msg("tagSet", SndNode, FrameTag),
                                Msg("layerSet", SndNode, NoArg))
    BY <1>7, <1>8, <2>1, SndServes
  <2>3. Down' = Down \cup ToSet(msgs)
    BY <1>7 DEF SndAsks, Added, Down
  <2>4. layers' \subseteq tgs /\ layers' \subseteq SenderNodes
    BY <1>3, <1>5, <1>15 DEF IInv, SndStreams
  <2> QED
    BY <1>3, <1>8, <1>11, <2>2, <2>3, <2>4 DEF IInv, SndStreams
<1>17. SndNode \in nodeSubs[R] => SndNode = Node1 /\ RcvFinds(SndNode)
  <2>1. SndNode \in nodeSubs[R] => RcvFinds(SndNode)
    BY <1>3, RcvNames DEF IInv, RcvQueues
  <2>2. SndNode \notin {Nowhere, Scene1}
    BY <1>3, RcvNames
  <2> QED
    BY <2>1, <2>2 DEF RcvFinds, IInv, RcvQueues
<1>18. \A y \in ToSet(told) : RcvTold(y)'
  <2>1. SndNode \in nodeSubs[R] => SndNode = Node1 /\ RcvFinds(Node1)'
    BY <1>8, <1>17 DEF RcvFinds, Node1
  <2> QED
    BY <1>5, <1>6, <1>7, <2>1 DEF RcvTold, Node1
<1>19. RcvStreams'
  <2>1. Value1 \notin ToSet(told) /\ Frame1 \notin ToSet(told) /\ TagGroup1 \notin ToSet(told)
    BY <1>5, <1>7, Fields DEF Value1, Frame1, TagGroup1
  <2>2. Layer1 \in ToSet(told) => Node1 \in rcv.tg \/ TagGroup1 \in RDown
    <3>1. ASSUME Layer1 \in ToSet(told)
          PROVE  Node1 \in nodeSubs[R] /\ Node1 \in tgs /\ Following
      <4>1. SndNode = Node1 /\ Node1 \in nodeSubs[R]
        BY <1>6, <1>7, <1>17, <3>1
      <4>2. R \in open
        BY <4>1 DEF IInv, RcvQueues
      <4> QED
        BY <1>4, <1>15, <4>1, <4>2 DEF Following, Serving
    <3> QED
      BY <3>1 DEF IInv, RcvStreams
  <2> QED
    BY <1>7, <1>8, <2>1, <2>2, RcvStreamsHeard
<1>20. RcvInv'
  BY <1>7, <1>18, <1>19, RcvHeard
<1> QED
  BY <1>7, <1>8, <1>9, <1>10, <1>12, <1>13, <1>14, <1>16, <1>20, SndAsked
     DEF IInv, SndQueues

LEMMA SndSetsLayerHolds ==
    ASSUME IInv, UNCHANGED <<snd, rcv>>, SetsLayer(S) PROVE IInv'
<1>1. PICK op \in {"layerSet", "layerUnset"} : Takes(S, op)
  BY DEF SetsLayer
<1>2. UNCHANGED <<parent, tgs, tags, tagSet, layers, subs>>
  BY DEF SetsLayer
<1>3. /\ S \in open /\ up[S] # <<>> /\ up' = [up EXCEPT ![S] = Tail(@)]
      /\ SndSent(Told(S)) /\ Told(S).op = op /\ Told(S) \in Message
      /\ Told(S) = Msg(op, Told(S).node, Told(S).arg)
      /\ Told(S).node \in Node => parent[Told(S).node] # Nowhere
      /\ SndScene' = SndScene /\ SndNode' = SndNode
      /\ \A k : SndFinds(k)' <=> SndFinds(k)
      /\ SndNode \in Node /\ SndNode \in SenderNodes /\ TypeOK
  <2>1. op # "nodeCreate"
    OBVIOUS
  <2> QED
    BY <1>1, <2>1, SndRequest
<1>4. PICK x, clients : x = Told(S) /\ clients = Subscribers(layerSubs, SndNode) \ {S}
  OBVIOUS
<1>5. x = Msg(op, SndNode, NoArg) /\ x.op = op /\ x.node = SndNode /\ x.arg = NoArg
      /\ Serving
  <2>1. x.node = SndNode /\ snd.bound /\ x.arg = NoArg /\ x.op = op
    BY <1>3, <1>4 DEF SndSent
  <2> QED
    BY <1>3, <1>4, <2>1 DEF Serving
<1>6. /\ layerSet' = IF op = "layerSet" THEN layerSet \cup {SndNode} ELSE layerSet \ {SndNode}
      /\ Tell(clients, x) /\ x \in Message
  BY <1>3, <1>4, <1>5 DEF SetsLayer
<1>7. clients \in SUBSET Client /\ S \notin clients /\ (R \in clients => SndNode \in layerSubs[R])
  BY <1>4, Clients DEF Subscribers
<1>8. x.op # "nodeCreate"
  BY <1>5
<1>9. PICK msgs, told :
         /\ SndAsks(msgs) /\ RcvHears(told) /\ RcvOrders' /\ Subscriptions'
         /\ \A y : y \in ToSet(msgs) <=> y = x /\ S \in clients
         /\ \A y : y \in ToSet(told) <=> y = x /\ R \in clients
         /\ (Unknown' <=> Unknown) /\ (Serving' <=> Serving)
         /\ (Following' <=> Following)
         /\ \A k : Msg("nodeCreate", k, S) \notin ToSet(msgs)
  BY <1>2, <1>3, <1>6, <1>7, <1>8, SndTellsOf
<1>10. /\ nodeSubs' = nodeSubs /\ tgSubs' = tgSubs /\ layerSubs' = layerSubs
       /\ open' = open /\ parent' = parent /\ tgs' = tgs /\ snd' = snd /\ rcv' = rcv
       /\ tags' = tags /\ tagSet' = tagSet /\ layers' = layers
  BY <1>2 DEF subs
<1>11. Tree'
  BY <1>3, <1>6, <1>10 DEF TypeOK, Tree
<1>12. (\A y : y \notin ToSet(msgs)) /\ Told(S).op \in {"layerSet", "layerUnset"}
  BY <1>3, <1>7, <1>9
<1>13. SndBuilds'
  BY <1>9, <1>10, <1>12, Fields, SndBuildsKept
<1>14. SndLayers'
  <2>1. /\ Told(S) # Msg("layerCreate", SndNode, NoArg)
        /\ Told(S) # Msg("nodeSubscribe", SndNode, NoArg)
    BY <1>12, Fields
  <2> QED
    BY <1>9, <1>10, <1>12, <2>1, SndLayersKept
<1>15. SndEnds'
  BY <1>3, <1>9, <1>10, <1>12, Fields, SndEndsKept
<1>16. op = "layerSet" => FrameTag \in tagSet /\ FrameTag \in ToSet(tags[SndNode])
  <2>1. op = "layerSet" => FrameTag \in tagSet
    BY <1>4, <1>5, <1>9 DEF IInv, SndStreams, SndAsks, Taken
  <2> QED
    BY <2>1 DEF IInv, SndStreams
<1>17. SndStreams'
  <2>1. /\ Told(S) # Msg("tgCreate", SndNode, NoArg)
        /\ Told(S) # Msg("tagSet", SndNode, FrameTag)
    BY <1>12, Fields
  <2>2. Serving' =>
         /\ \/ SndNode \in tgs'
            \/ Precedes(up'[S], Msg("tgCreate", SndNode, NoArg),
                                Msg("layerCreate", SndNode, NoArg))
         /\ \/ FrameTag \in tagSet'
            \/ Precedes(up'[S], Msg("tagSet", SndNode, FrameTag),
                                Msg("layerSet", SndNode, NoArg))
    BY <1>9, <1>10, <2>1, SndServes
  <2>3. Down' = Down \cup ToSet(msgs)
    BY <1>9 DEF SndAsks, Added, Down
  <2>4. \A n \in layerSet' :
           /\ n = SndNode /\ parent[n] # Nowhere
           /\ FrameTag \in tagSet /\ FrameTag \in ToSet(tags[n])
    BY <1>5, <1>6, <1>16 DEF IInv, SndStreams, Serving
  <2> QED
    BY <1>3, <1>10, <1>12, <2>2, <2>3, <2>4 DEF IInv, SndStreams
<1>18. SndNode \in layerSubs[R] => SndNode = Node1 /\ RcvFinds(Node1)'
  <2>1. RcvFinds(Node1)' <=> RcvFinds(Node1)
    BY <1>10 DEF RcvFinds, Node1
  <2> QED
    BY <2>1 DEF IInv, RcvQueues
<1>19. \A y \in ToSet(told) : RcvTold(y)'
  BY <1>5, <1>7, <1>9, <1>18 DEF RcvTold, Node1
<1>20. RcvStreams'
  <2>1. Layer1 \notin ToSet(told) /\ Frame1 \notin ToSet(told)
    BY <1>5, <1>9, Fields DEF Layer1, Frame1
  <2>2. Value1 \in ToSet(told) => rcv.framed \/ Frame1 \in RDown
    <3>1. ASSUME Value1 \in ToSet(told)
          PROVE  /\ Node1 \in tgSubs[R] /\ Following
                 /\ FrameTag \in tagSet /\ FrameTag \in ToSet(tags[Node1])
      <4>1. op = "layerSet" /\ Node1 \in layerSubs[R] /\ SndNode = Node1
        BY <1>5, <1>7, <1>9, <1>18, <3>1, Fields DEF Value1
      <4>2. R \in open
        BY <4>1 DEF IInv, RcvQueues
      <4>3. Following
        BY <1>5, <4>1, <4>2 DEF Following, Serving
      <4> QED
        BY <1>16, <4>1, <4>3 DEF IInv, RcvStreams
    <3> QED
      BY <3>1 DEF IInv, RcvStreams
  <2> QED
    BY <1>9, <1>10, <2>1, <2>2, RcvStreamsHeard
<1>21. RcvInv'
  BY <1>9, <1>19, <1>20, RcvHeard
<1> QED
  BY <1>9, <1>10, <1>11, <1>12, <1>13, <1>14, <1>15, <1>17, <1>21, SndAsked
     DEF IInv, SndQueues

LEMMA OtherLives ==
    ASSUME snd \in Context
    PROVE  /\ \A l \in Lives : /\ Scene(l) \in Node /\ SenderNode(l) \in Node
                               /\ Scene(l) = SndScene <=> l = snd.life
                               /\ SenderNode(l) = SndNode <=> l = snd.life
                               /\ Scene(l) # SndNode /\ SenderNode(l) # SndScene
                               /\ l = snd.life => ~(l > snd.life) /\ ~(l < snd.life)
           /\ snd.life \in Lives /\ Scene1 # SndNode
           /\ SndNode = Node1 => snd.life = 1
           /\ SndScene = Scene1 => snd.life = 1 /\ SndNode = Node1
           /\ SndNode # Node1 => 1 < snd.life
           /\ SndScene = Scene(2) => 1 < snd.life
<1>1. snd.life \in Lives /\ Lives \subseteq {1, 2} /\ 1 \in Lives
  BY Names DEF Context
<1>2. ASSUME NEW l \in Lives
      PROVE  /\ Scene(l) \in Node /\ SenderNode(l) \in Node
             /\ Scene(l) = SndScene <=> l = snd.life
             /\ SenderNode(l) = SndNode <=> l = snd.life
             /\ Scene(l) # SndNode /\ SenderNode(l) # SndScene
             /\ l = snd.life => ~(l > snd.life) /\ ~(l < snd.life)
  <2>1. l \in {1, 2} /\ snd.life \in {1, 2}
    BY <1>1
  <2> QED
    BY <1>1, <2>1, Names DEF SndScene, SndNode
<1>3. /\ Scene1 # SndNode /\ (SndNode = Node1 => snd.life = 1)
      /\ SndScene = Scene1 => snd.life = 1 /\ SndNode = Node1
      /\ SndNode # Node1 => 1 < snd.life
      /\ SndScene = Scene(2) => 1 < snd.life
  <2>1. snd.life \in {1, 2}
    BY <1>1
  <2> QED
    BY <2>1, Names DEF SndScene, SndNode, Scene1, Node1
<1> QED
  BY <1>1, <1>2, <1>3

LEMMA SndDestroysNodeHolds ==
    ASSUME IInv, UNCHANGED <<snd, rcv>>, DestroysNode(S) PROVE IInv'
<1>1. PICK x : x = Msg("nodeDestroy", SndNode, NoArg)
  OBVIOUS
<1>2. Takes(S, "nodeDestroy") /\ UNCHANGED <<known, open>>
  BY DEF DestroysNode
<1>3. /\ S \in open /\ up[S] # <<>> /\ up' = [up EXCEPT ![S] = Tail(@)]
      /\ SndSent(Told(S)) /\ Told(S).op = "nodeDestroy"
      /\ Told(S) = Msg("nodeDestroy", Told(S).node, Told(S).arg)
      /\ Told(S).node \in Node => parent[Told(S).node] # Nowhere
      /\ SndScene' = SndScene /\ SndNode' = SndNode
      /\ SndNode \in Node /\ SndNode \in SenderNodes /\ TypeOK
      /\ SndScene # SndNode /\ SndScene \in Node
      /\ Told(S) \in Message /\ snd' = snd /\ rcv' = rcv
  BY <1>2, SndRequest
<1>4. Told(S) = x /\ snd.bound /\ Told(S).node = SndNode /\ Serving
  <2>1. Told(S).node = SndNode /\ snd.bound /\ Told(S).arg = NoArg
    BY <1>3 DEF SndSent
  <2> QED
    BY <1>1, <1>3, <2>1 DEF Serving
<1>5. /\ parent' = [parent EXCEPT ![SndNode] = Nowhere]
      /\ tgs' = tgs \ {SndNode} /\ layers' = layers \ {SndNode}
      /\ layerSet' = layerSet \ {SndNode}
      /\ tags' = [tags EXCEPT ![SndNode] = <<>>]
      /\ tagSet' = tagSet \ ToSet(tags[SndNode])
      /\ Tell(Subscribers(nodeSubs, SndNode), x)
      /\ nodeSubs' = [d \in Client |-> nodeSubs[d] \ {SndNode}]
      /\ tgSubs' = [d \in Client |-> tgSubs[d] \ {SndNode}]
      /\ layerSubs' = [d \in Client |-> layerSubs[d] \ {SndNode}]
  BY <1>1, <1>4 DEF DestroysNode
<1>6. Subscribers(nodeSubs, SndNode) \in SUBSET Client /\ x \in Message
  BY <1>3, <1>4 DEF Subscribers
<1>7. PICK msgs, told :
         /\ SndAsks(msgs) /\ up'[R] = up[R] /\ Added(down[R], told, down'[R])
         /\ \A y : y \in ToSet(msgs) <=> y = x /\ S \in Subscribers(nodeSubs, SndNode)
         /\ \A y : y \in ToSet(told) <=> y = x /\ R \in Subscribers(nodeSubs, SndNode)
  BY <1>3, <1>5, <1>6, SndTells
<1>8. /\ nodeSubs'[S] = nodeSubs[S] \ {SndNode} /\ nodeSubs'[R] = nodeSubs[R] \ {SndNode}
      /\ tgSubs'[S] = tgSubs[S] \ {SndNode} /\ tgSubs'[R] = tgSubs[R] \ {SndNode}
      /\ layerSubs'[S] = layerSubs[S] \ {SndNode}
      /\ layerSubs'[R] = layerSubs[R] \ {SndNode}
      /\ Subscriptions'
  BY <1>2, <1>3, <1>5, Clients DEF TypeOK, Subscriptions
<1>9. /\ parent'[SndNode] = Nowhere
      /\ \A k \in Node \ {SndNode} : parent'[k] = parent[k] /\ tags'[k] = tags[k]
      /\ ToSet(tags'[SndNode]) = {} /\ Tree'
  <2>1. tags'[SndNode] = <<>> /\ parent'[SndNode] = Nowhere
    BY <1>3, <1>5 DEF TypeOK, Tree
  <2>2. \A k \in Node \ {SndNode} : parent'[k] = parent[k] /\ tags'[k] = tags[k]
    BY <1>3, <1>5 DEF TypeOK, Tree
  <2>3. Tree'
    BY <1>3, <1>5 DEF TypeOK, Tree, Name
  <2> QED
    BY <2>1, <2>2, <2>3, Listed
<1>10. (\A y \in ToSet(msgs) : y.op = "nodeDestroy") /\ \A y \in ToSet(told) : y.op = "nodeDestroy"
  BY <1>1, <1>7, Fields
<1>11. \A y \in ToSet(msgs) : SndTold(y)'
  BY <1>10 DEF SndTold, Greeting
<1>12. ~Unknown /\ ~Serving'
  BY <1>3, <1>4, <1>9 DEF Unknown, Serving
<1>13. \A k, m : Msg("nodeCreate", k, m) \notin ToSet(msgs)
  BY <1>10, Fields
<1>14. SndBuilds'
  <2>1. S # SndNode
    BY <1>3, SndNodes DEF TypeOK
  <2> QED
    BY <1>3, <1>7, <1>8, <1>13, <2>1, Fields, SndBuildsKept
<1>15. SndLayers'
  BY <1>7, <1>10, <1>12, Fields, SndLayersKept
<1>16. Down' = Down \cup ToSet(msgs) /\ Up = {Told(S)} \cup Up'
  BY <1>7 DEF SndAsks, Added, Taken, Down, Up
<1>17. SndEnds'
  <2>1. \A l \in Lives :
           /\ parent'[Scene(l)] = parent[Scene(l)]
           /\ parent'[SenderNode(l)] \in {Nowhere, parent[SenderNode(l)]}
    BY <1>3, <1>9, OtherLives DEF TypeOK
  <2>2. \A l \in Lives :
          /\ parent'[Scene(l)] \in {Nowhere, S, SceneParent}
          /\ parent'[SenderNode(l)] \in {Nowhere, S, Scene(l)}
          /\ l > snd.life => parent'[Scene(l)] = Nowhere
                             /\ parent'[SenderNode(l)] = Nowhere
          /\ l < snd.life => parent'[Scene(l)] = SceneParent
                             /\ parent'[SenderNode(l)] = Nowhere
    BY <2>1 DEF IInv, SndEnds
  <2>3. parent'[SndScene] = parent[SndScene] /\ parent'[SndNode] # SndScene
    BY <1>3, <1>9, SndNodes DEF TypeOK
  <2>4. Told(S) # Msg("nodeLink", SndScene, SceneParent)
    BY <1>3, Fields
  <2>5. snd.scene =>
          \/ parent[SndScene] = SceneParent
          \/ /\ Msg("nodeLink", SndScene, SceneParent) \in Up'
             /\ Precedes(up'[S], Msg("nodeLink", SndScene, SceneParent),
                                Signal("terminate"))
    BY <1>3, <1>7, <1>16, <2>4 DEF IInv, SndEnds, SndAsks, Taken
  <2>6. S \in open'
    BY <1>2, <1>3
  <2>7. snd.scene \/ Msg("nodeCreate", SndScene, S) \in Down' => parent[SndScene] # Nowhere
    BY <1>13, <1>16 DEF IInv, SndEnds
  <2> QED
    BY <1>3, <1>4, <1>9, <2>2, <2>3, <2>5, <2>6, <2>7 DEF IInv, SndEnds
<1>18. SndStreams'
  <2>1. layers' \subseteq tgs' /\ layers' \subseteq SenderNodes
    BY <1>5 DEF IInv, SndStreams
  <2>2. \A n : n \notin layerSet'
    BY <1>5 DEF IInv, SndStreams
  <2>3. \A n \in Node : FrameTag \notin ToSet(tags'[n])
    BY <1>9 DEF IInv, SndStreams
  <2>4. FrameTag \notin tagSet'
    BY <1>5 DEF IInv, SndStreams
  <2> QED
    BY <1>3, <1>9, <1>12, <2>1, <2>2, <2>3, <2>4 DEF SndStreams
<1>19. RcvHears(told)
  BY <1>2, <1>3, <1>7, <1>8 DEF RcvHears
<1>20. RcvOrders'
  <2>1. parent'[Scene1] = parent[Scene1]
    BY <1>3, <1>9, OtherLives, RcvNames DEF TypeOK
  <2>2. Msg("nodeCreate", Scene(2), SceneParent) \notin ToSet(told)
    BY <1>10, Fields
  <2> QED
    BY <1>2, <1>8, <1>19, <2>1, <2>2, RcvOrdersHeard
<1>21. RcvStreams'
  <2>1. Value1 \notin ToSet(told) /\ Frame1 \notin ToSet(told) /\ Layer1 \notin ToSet(told)
    BY <1>10, Fields DEF Value1, Frame1, Layer1
  <2>2. ~Following'
    <3>1. CASE SndNode = Node1
      BY <1>9, <3>1 DEF Following, Node1
    <3>2. CASE SndNode # Node1
      <4>1. 1 < snd.life /\ 1 \in Lives
        BY <1>3, <3>2, OtherLives, Names DEF TypeOK
      <4>2. parent[Node1] = Nowhere
        BY <4>1 DEF IInv, SndEnds, Node1
      <4>3. parent'[Node1] = parent[Node1]
        BY <1>9, <3>2, RcvNames
      <4> QED
        BY <4>2, <4>3 DEF Following, Node1
    <3> QED
      BY <3>1, <3>2
  <2> QED
    BY <1>19, <2>1, <2>2, RcvStreamsHeard
<1>22. RcvInv'
  <2>1. \A y \in ToSet(told) : RcvTold(y)'
    BY <1>10 DEF RcvTold
  <2> QED
    BY <1>19, <1>20, <1>21, <2>1, RcvHeard
<1>23. /\ \A n \in nodeSubs'[S] : n = S \/ SndFinds(n)
       /\ tgSubs'[S] \subseteq snd.tg /\ layerSubs'[S] = {} /\ S \in open'
  BY <1>2, <1>3, <1>8 DEF IInv, SndQueues
<1> QED
  BY <1>7, <1>8, <1>9, <1>11, <1>12, <1>13, <1>14, <1>15, <1>17, <1>18, <1>22, <1>23, SndAsked

LEMMA SndCreatesNodeHolds ==
    ASSUME IInv, UNCHANGED <<snd, rcv>>, CreatesNode(S) PROVE IInv'
<1>1. PICK n, x : n = Told(S).node /\ x = Msg("nodeCreate", n, S)
  OBVIOUS
<1>2. /\ S \in open /\ up[S] # <<>> /\ Told(S).op = "nodeCreate"
      /\ up' = [up EXCEPT ![S] = Tail(@)]
      /\ parent' = [parent EXCEPT ![n] = S]
      /\ known' = [d \in Client |->
                      IF S \in nodeSubs[d] THEN known[d] \cup {n} ELSE known[d]]
      /\ Tell(Subscribers(nodeSubs, S), x)
      /\ UNCHANGED <<tgs, tags, tagSet, layers, layerSet,
                     nodeSubs, tgSubs, layerSubs, open>>
  BY <1>1 DEF CreatesNode, Takes
<1>3. /\ SndSent(Told(S)) /\ Told(S) \in Message /\ TypeOK /\ snd \in Context
      /\ SndScene' = SndScene /\ SndNode' = SndNode /\ snd' = snd /\ rcv' = rcv
      /\ \A k : SndFinds(k)' <=> SndFinds(k)
  BY <1>2, SndTaking DEF IInv, TypeOK, SndScene, SndNode, SndFinds
<1>4. /\ Told(S) = Msg("nodeCreate", n, NoArg) /\ n \in {SndScene, SndNode}
      /\ ~SndFinds(n) /\ x \notin Down
  <2>1. n \in {SndScene, SndNode} /\ Told(S).arg = NoArg /\ ~SndFinds(n) /\ x \notin Down
    BY <1>1, <1>2, <1>3 DEF SndSent
  <2> QED
    BY <1>1, <1>2, <1>3, <2>1 DEF Message, Msg
<1>5. /\ SndScene \in Node /\ SndNode \in Node /\ SndScene # SndNode /\ n \in Node
      /\ n \in Name /\ SndNode \in SenderNodes /\ S \in Name
      /\ S # Nowhere /\ S # SceneParent /\ S # SndScene
      /\ SndScene \notin {Nowhere, SceneParent}
  <2>1. /\ SndScene \in Node /\ SndNode \in Node /\ SndScene # SndNode
        /\ SndNode \in SenderNodes
        /\ \A k \in Node : k \notin {S, R, SceneParent, Nowhere}
    BY <1>3, SndNodes
  <2>2. S # Nowhere /\ S # SceneParent
    BY DEF S, Sender, Nowhere, SceneParent
  <2> QED
    BY <1>4, <2>1, <2>2 DEF Name, S
<1>6. ~snd.bound
  BY <1>4 DEF SndFinds, IInv, SndQueues
<1>7. x \in Message /\ x.op = "nodeCreate" /\ x.node = n /\ x.arg = S
  BY <1>1, <1>5, Messages, Fields DEF Op
<1>8. /\ Subscribers(nodeSubs, S) \in SUBSET Client
      /\ S \in Subscribers(nodeSubs, S) <=> S \in nodeSubs[S]
      /\ R \notin Subscribers(nodeSubs, S) /\ S \notin nodeSubs[R]
  <2>1. S \notin nodeSubs[R]
    <3>1. S \notin {R, SceneParent} /\ S \notin Node
      <4>1. S # R
        BY Clients
      <4> QED
        BY <1>3, <1>5, <4>1, SndNodes
    <3> QED
      BY <3>1 DEF IInv, RcvQueues
  <2> QED
    BY <2>1, Clients DEF Subscribers
<1>9. PICK msgs, told :
         /\ SndAsks(msgs) /\ up'[R] = up[R] /\ Added(down[R], told, down'[R])
         /\ \A y : y \in ToSet(msgs) <=> y = x /\ S \in Subscribers(nodeSubs, S)
         /\ \A y : y \in ToSet(told) <=> y = x /\ R \in Subscribers(nodeSubs, S)
  <2>1. PICK clients : clients = Subscribers(nodeSubs, S)
    OBVIOUS
  <2>2. clients \in SUBSET Client /\ Tell(clients, x)
    BY <1>2, <1>8, <2>1
  <2>3. \E msgs, told :
         /\ SndAsks(msgs) /\ up'[R] = up[R] /\ Added(down[R], told, down'[R])
         /\ \A y : y \in ToSet(msgs) <=> y = x /\ S \in clients
         /\ \A y : y \in ToSet(told) <=> y = x /\ R \in clients
    BY <1>2, <1>7, <2>2, SndTells
  <2> QED
    BY <2>1, <2>3
<1>10. /\ nodeSubs' = nodeSubs /\ tgSubs' = tgSubs /\ layerSubs' = layerSubs
       /\ open' = open /\ tgs' = tgs /\ tags' = tags
       /\ tagSet' = tagSet /\ layers' = layers /\ layerSet' = layerSet
       /\ known'[R] = known[R] /\ Subscriptions'
  BY <1>2, <1>3, <1>5, <1>8, Clients DEF TypeOK, Subscriptions
<1>11. /\ parent'[n] = S /\ \A k \in Node \ {n} : parent'[k] = parent[k]
       /\ Tree'
  BY <1>2, <1>3, <1>5, <1>10 DEF TypeOK, Tree
<1>12. /\ n = SndScene => S \in nodeSubs[S]
       /\ n = SndNode => snd.scene \/ Msg("nodeCreate", SndScene, S) \in Down
  BY <1>2, <1>4, <1>9 DEF IInv, SndBuilds, SndAsks, Taken
<1>13. ~Unknown
  BY <1>4, <1>12 DEF Unknown, IInv, SndEnds
<1>14. \A y \in ToSet(msgs) : SndTold(y)'
  BY <1>3, <1>4, <1>5, <1>7, <1>9 DEF SndTold, Greeting
<1>15. \A k : Msg("nodeCreate", k, NoArg) \in Up' => Msg("nodeCreate", k, S) \notin ToSet(msgs)
  <2>1. Msg("nodeCreate", n, NoArg) \notin Up'
    BY <1>4, <1>9 DEF IInv, SndBuilds, SndAsks, Taken, Up
  <2>2. \A k : Msg("nodeCreate", k, S) \in ToSet(msgs) => k = n
    BY <1>7, <1>9, Fields
  <2> QED
    BY <2>1, <2>2
<1>16. SndBuilds'
  <2>1. Told(S) # Msg("nodeSubscribe", S, NoArg)
    BY <1>4, Different
  <2>2. Told(S) = Msg("nodeCreate", SndScene, NoArg) =>
           Msg("nodeCreate", SndScene, S) \in ToSet(msgs)
    <3>1. ASSUME Told(S) = Msg("nodeCreate", SndScene, NoArg)
          PROVE  Msg("nodeCreate", SndScene, S) \in ToSet(msgs)
      <4>1. n = SndScene
        BY <1>4, <3>1, Different
      <4> QED
        BY <1>1, <1>8, <1>9, <1>12, <4>1
    <3> QED
      BY <3>1
  <2>3. Msg("nodeCreate", SndNode, S) \in ToSet(msgs) => n = SndNode
    BY <1>7, <1>9, Fields
  <2> QED
    BY <1>9, <1>10, <1>12, <2>1, <2>2, <2>3, SndBuildsKept
<1>17. Msg("tagCreate", SndNode, FrameTag) \notin ToSet(msgs)
  BY <1>7, <1>9, Fields
<1>18. SndLayers'
  BY <1>6, <1>9, <1>17, SndLayersKept
<1>19. Down' = Down \cup ToSet(msgs) /\ Up = {Told(S)} \cup Up'
  BY <1>9 DEF SndAsks, Added, Taken, Down, Up
<1>20. SndEnds'
  <2>1. \A l \in Lives :
          /\ parent'[Scene(l)] \in {Nowhere, S, SceneParent}
          /\ parent'[SenderNode(l)] \in {Nowhere, S, Scene(l)}
          /\ l > snd.life => parent'[Scene(l)] = Nowhere
                             /\ parent'[SenderNode(l)] = Nowhere
          /\ l < snd.life => parent'[Scene(l)] = SceneParent
                             /\ parent'[SenderNode(l)] = Nowhere
    <3>1. ASSUME NEW l \in Lives
          PROVE  /\ parent'[Scene(l)] = parent[Scene(l)]
                    \/ (l = snd.life /\ parent'[Scene(l)] = S)
                 /\ parent'[SenderNode(l)] = parent[SenderNode(l)]
                    \/ (l = snd.life /\ parent'[SenderNode(l)] = S)
                 /\ l = snd.life => ~(l > snd.life) /\ ~(l < snd.life)
      BY <1>3, <1>4, <1>11, OtherLives
    <3> QED
      BY <3>1 DEF IInv, SndEnds
  <2>2. parent'[SndScene] = SceneParent => snd.scene
    BY <1>5, <1>11 DEF IInv, SndEnds
  <2>3. parent'[SndNode] # SndScene
    BY <1>5, <1>6, <1>11 DEF IInv, SndEnds
  <2>4. snd.scene \/ Msg("nodeCreate", SndScene, S) \in Down' => parent'[SndScene] # Nowhere
    <3>1. Msg("nodeCreate", SndScene, S) \in ToSet(msgs) => n = SndScene
      BY <1>7, <1>9, Fields
    <3> QED
      BY <1>5, <1>11, <1>19, <3>1 DEF IInv, SndEnds
  <2>5. snd.scene =>
          \/ parent'[SndScene] = SceneParent
          \/ /\ Msg("nodeLink", SndScene, SceneParent) \in Up'
             /\ Precedes(up'[S], Msg("nodeLink", SndScene, SceneParent),
                                Signal("terminate"))
    <3>1. snd.scene => parent'[SndScene] = parent[SndScene]
      BY <1>4, <1>5, <1>11 DEF SndFinds
    <3>2. Told(S) # Msg("nodeLink", SndScene, SceneParent)
      BY <1>4, Different
    <3> QED
      BY <1>2, <1>9, <1>19, <3>1, <3>2 DEF IInv, SndEnds, SndAsks, Taken
  <2>6. Precedes(up'[S], Msg("nodeDestroy", SndNode, NoArg), Signal("terminate"))
    <3>1. Told(S) # Msg("nodeDestroy", SndNode, NoArg)
      BY <1>4, Different
    <3> QED
      BY <1>2, <1>6, <1>9, <3>1 DEF IInv, SndEnds, SndAsks, Taken
  <2> QED
    BY <1>2, <1>3, <1>10, <2>1, <2>2, <2>3, <2>4, <2>5, <2>6 DEF SndEnds
<1>21. SndStreams'
  <2>1. \A k \in Node : FrameTag \notin ToSet(tags[k])
    BY <1>6 DEF IInv, SndStreams
  <2>2. FrameTag \notin tagSet /\ layerSet = {}
    BY <1>3, <1>5, <2>1 DEF IInv, SndStreams, TypeOK, Tree
  <2>3. /\ Msg("layerCreate", SndNode, NoArg) \notin Up'
        /\ Msg("layerSet", SndNode, NoArg) \notin Up'
    BY <1>6, <1>19, Fields DEF IInv, SndQueues, SndSent
  <2>4. /\ Precedes(up'[S], Msg("tgCreate", SndNode, NoArg),
                            Msg("layerCreate", SndNode, NoArg))
        /\ Precedes(up'[S], Msg("tagSet", SndNode, FrameTag),
                            Msg("layerSet", SndNode, NoArg))
    BY <2>3, PrecedesNone DEF Up
  <2>5. ~snd.run /\ Msg("tagCreate", SndNode, FrameTag) \notin Down'
    <3>1. ~SndFinds(SndNode)
      BY <1>5, <1>6 DEF SndFinds
    <3> QED
      BY <1>6, <1>17, <1>19, <3>1, Fields DEF IInv, SndQueues, SndTold
  <2>6. layers' \subseteq tgs' /\ layers' \subseteq SenderNodes
    BY <1>10 DEF IInv, SndStreams
  <2> QED
    BY <1>3, <1>10, <2>1, <2>2, <2>4, <2>5, <2>6 DEF SndStreams
<1>22. RcvHears(told) /\ \A y : y \notin ToSet(told)
  BY <1>3, <1>8, <1>9, <1>10 DEF RcvHears
<1>23. RcvOrders'
  <2>1. parent'[Scene1] = SceneParent => parent[Scene1] = SceneParent
    BY <1>5, <1>11, RcvNames
  <2> QED
    BY <1>10, <1>22, <2>1, RcvOrdersHeard
<1>24. RcvStreams'
  <2>1. CASE n = Node1
    <3>1. SndNode = Node1 /\ snd.life = 1
      BY <1>3, <1>4, <2>1, OtherLives, RcvNames, SndNodes
    <3>2. Node1 \notin known[R]
      BY <1>6, <3>1 DEF IInv, RcvOrders
    <3>3. ~RcvFinds(Node1)
      BY <3>2, RcvNames DEF RcvFinds, IInv, RcvQueues
    <3>4. /\ Node1 \notin nodeSubs[R] /\ Node1 \notin tgSubs[R]
          /\ Node1 \notin layerSubs[R] /\ Node1 \notin rcv.tg
      BY <3>3, RcvNames DEF IInv, RcvQueues
    <3>5. FollowsLayer \notin RUp /\ RUp' = RUp
      BY <1>9, <3>3, Fields DEF IInv, RcvQueues, RcvSent, FollowsLayer, RUp
    <3>6. Precedes(up'[R], FollowsTagGroup, FollowsLayer)
      BY <3>5, PrecedesNone DEF RUp
    <3>7. /\ rcv.framed \/ Precedes(down'[R], Frame1, Value1)
          /\ FrameTag \in rcv.tag \/ Precedes(down'[R], Tag1, Frame1)
          /\ Node1 \in rcv.tg \/ Precedes(down'[R], TagGroup1, Layer1)
      BY <1>9, <1>22 DEF IInv, RcvStreams, Added
    <3> QED
      BY <1>3, <1>10, <3>4, <3>6, <3>7 DEF IInv, RcvStreams, Node1
  <2>2. CASE n # Node1
    <3>1. Following' <=> Following
      BY <1>10, <1>11, <2>2, RcvNames DEF Following
    <3> QED
      BY <1>10, <1>22, <3>1, RcvStreamsHeard
  <2> QED
    BY <2>1, <2>2
<1>25. RcvInv'
  BY <1>22, <1>23, <1>24, RcvHeard
<1> QED
  BY <1>9, <1>10, <1>11, <1>13, <1>14, <1>15, <1>16, <1>18, <1>20, <1>21, <1>25, SndAsked
     DEF IInv, SndQueues

(* Who follows the new parent is told of the link, or of the node.         *)
ToldOfLink(n, p, followers) ==
    [d \in Client |->
        down[d] \o When(d \in followers, Msg(IF n \in known[d] THEN "nodeLink"
                                             ELSE "nodeCreate", n, p))]

HearsOfLink(d, n, p, followers, msgs) ==
    /\ Added(down[d], msgs, down'[d]) /\ down'[d] \in Seq(Message)
    /\ \A y \in ToSet(msgs) :
          /\ d \in followers
          /\ y \in {Msg("nodeLink", n, p), Msg("nodeCreate", n, p)}
    /\ d \in followers /\ n \notin known[d] =>
          Msg("nodeCreate", n, p) \in ToSet(msgs)

LEMMA LinkTold ==
    ASSUME IInv, NEW n \in Name, NEW p \in Name, NEW followers,
           down' = ToldOfLink(n, p, followers), NEW d \in Client
    PROVE  \E msgs : HearsOfLink(d, n, p, followers, msgs)
<1>1. PICK x : x = Msg(IF n \in known[d] THEN "nodeLink" ELSE "nodeCreate", n, p)
  OBVIOUS
<1>2. /\ x \in {Msg("nodeLink", n, p), Msg("nodeCreate", n, p)}
      /\ n \notin known[d] => x = Msg("nodeCreate", n, p)
  BY <1>1
<1>3. x \in Message
  <2>1. "nodeLink" \in Op /\ "nodeCreate" \in Op
    BY DEF Op
  <2>2. Msg("nodeLink", n, p) \in Message /\ Msg("nodeCreate", n, p) \in Message
    BY <2>1, Messages
  <2> QED
    BY <1>2, <2>2
<1>4. PICK q : q = When(d \in followers, x)
  OBVIOUS
<1>5. /\ q \in Seq(Message)
      /\ d \in followers => ToSet(q) = {x}
      /\ d \notin followers => ToSet(q) = {}
  BY <1>3, <1>4, Conditional
<1>6. down'[d] = down[d] \o q /\ down[d] \in Seq(Message)
  BY <1>1, <1>4 DEF ToldOfLink, IInv, TypeOK, Queues
<1>7. Added(down[d], q, down'[d]) /\ down'[d] \in Seq(Message)
  BY <1>5, <1>6, AddedConcat
<1>8. \A y \in ToSet(q) : d \in followers /\ y = x
  BY <1>5
<1>9. d \in followers => x \in ToSet(q)
  BY <1>5
<1>10. HearsOfLink(d, n, p, followers, q)
  BY <1>2, <1>7, <1>8, <1>9 DEF HearsOfLink
<1> QED
  BY <1>10

LEMMA SndLinking ==
    ASSUME IInv, UNCHANGED <<snd, rcv>>, LinksNode(S),
           NEW n \in Name, NEW p \in Name, n = Told(S).node, p = Told(S).arg
    PROVE  \E msgs, told :
              /\ SndAsks(msgs) /\ RcvHears(told)
              /\ \A y \in ToSet(msgs) :
                    y \in {Msg("nodeLink", n, p), Msg("nodeCreate", n, p)}
                    /\ p \in nodeSubs[S]
              /\ \A y \in ToSet(told) :
                    y \in {Msg("nodeLink", n, p), Msg("nodeCreate", n, p)}
                    /\ p \in nodeSubs[R]
              /\ p \in nodeSubs[R] /\ n \notin known[R] =>
                    Msg("nodeCreate", n, p) \in ToSet(told)
<1>1. PICK followers : followers = Subscribers(nodeSubs, p)
  OBVIOUS
<1>2. /\ Takes(S, "nodeLink")
      /\ known' = [d \in Client |->
                      IF d \in followers THEN known[d] \cup {n} ELSE known[d]]
      /\ down' = ToldOfLink(n, p, followers)
      /\ UNCHANGED <<nodeSubs, tgSubs, layerSubs, open>>
  BY <1>1 DEF LinksNode, ToldOfLink
<1>3. \A d \in Client : d \in followers <=> p \in nodeSubs[d]
  BY <1>1 DEF Subscribers
<1>4. down' = ToldOfLink(n, p, followers) /\ S \in Client /\ R \in Client
  BY <1>2, Clients
<1>5. PICK msgs, told : /\ HearsOfLink(S, n, p, followers, msgs)
                        /\ HearsOfLink(R, n, p, followers, told)
  BY <1>4, LinkTold
<1>6. S \in open /\ up[S] # <<>> /\ up' = [up EXCEPT ![S] = Tail(@)]
  BY <1>2, SndRequest
<1>7. /\ up' \in [Client -> Seq(Message)]
      /\ Told(S) \in Message /\ SndSent(Told(S)) /\ Told(S) = Head(up[S])
      /\ Told(S) \in Up
      /\ Taken(up[S], up'[S]) /\ up'[R] = up[R]
  BY <1>6, SndTaking
<1>8. Queues'
  <2>1. down' \in [Client -> Seq(Message)]
    BY <1>4, <1>5, Clients DEF ToldOfLink, HearsOfLink
  <2> QED
    BY <1>7, <2>1 DEF Queues
<1>9. SndAsks(msgs)
  BY <1>5, <1>6, <1>7, <1>8 DEF SndAsks, HearsOfLink
<1>10. RcvHears(told)
  BY <1>2, <1>5, <1>7, Clients DEF RcvHears, HearsOfLink
<1> QED
  BY <1>3, <1>4, <1>5, <1>9, <1>10 DEF HearsOfLink

LEMMA SndLinksNodeHolds ==
    ASSUME IInv, UNCHANGED <<snd, rcv>>, LinksNode(S) PROVE IInv'
<1>1. PICK n, p : n = Told(S).node /\ p = Told(S).arg
  OBVIOUS
<1>2. /\ Takes(S, "nodeLink")
      /\ parent' = [parent EXCEPT ![n] = p]
      /\ known' = [d \in Client |->
                      IF d \in Subscribers(nodeSubs, p) THEN known[d] \cup {n}
                      ELSE known[d]]
      /\ UNCHANGED <<tgs, tags, tagSet, layers, layerSet,
                     nodeSubs, tgSubs, layerSubs, open>>
  BY <1>1 DEF LinksNode
<1>3. /\ S \in open /\ SndSent(Told(S)) /\ Told(S).op = "nodeLink"
      /\ Told(S) = Msg("nodeLink", n, p)
      /\ n \in Node => parent[n] # Nowhere
      /\ SndScene' = SndScene /\ SndNode' = SndNode /\ snd' = snd /\ rcv' = rcv
      /\ \A k : SndFinds(k)' <=> SndFinds(k)
      /\ SndScene \in Node /\ SndNode \in Node /\ SndScene # SndNode
      /\ SndNode \in SenderNodes /\ TypeOK /\ snd \in Context
  BY <1>1, <1>2, SndRequest DEF TypeOK
<1>4. \/ n = SndScene /\ p = SceneParent /\ snd.scene
      \/ n = SndNode /\ p = SndScene /\ snd.bound
  BY <1>3, Different DEF SndSent
<1>5. /\ n \in Node /\ n \in Name /\ p \in Name /\ p \notin {Nowhere, S} /\ parent[n] # Nowhere
      /\ SndScene \notin {Nowhere, SceneParent, S} /\ SndScene \in Scenes
  <2>1. /\ SndScene \in Scenes /\ \A k \in Node : k \notin {S, R, SceneParent, Nowhere}
    BY <1>3, SndNodes
  <2>2. SceneParent \notin {Nowhere, S} /\ SceneParent \in Name
    BY DEF S, Sender, Nowhere, SceneParent, Name
  <2> QED
    BY <1>3, <1>4, <2>1, <2>2 DEF Name
<1>6. PICK msgs, told :
              /\ SndAsks(msgs) /\ RcvHears(told)
              /\ \A y \in ToSet(msgs) :
                    y \in {Msg("nodeLink", n, p), Msg("nodeCreate", n, p)}
                    /\ p \in nodeSubs[S]
              /\ \A y \in ToSet(told) :
                    y \in {Msg("nodeLink", n, p), Msg("nodeCreate", n, p)}
                    /\ p \in nodeSubs[R]
              /\ p \in nodeSubs[R] /\ n \notin known[R] =>
                    Msg("nodeCreate", n, p) \in ToSet(told)
  BY <1>1, <1>5, SndLinking
<1>7. /\ nodeSubs' = nodeSubs /\ tgSubs' = tgSubs /\ layerSubs' = layerSubs
      /\ open' = open /\ tgs' = tgs /\ tags' = tags
      /\ tagSet' = tagSet /\ layers' = layers /\ layerSet' = layerSet
      /\ Subscriptions'
      /\ known'[R] = IF p \in nodeSubs[R] THEN known[R] \cup {n} ELSE known[R]
  BY <1>2, <1>3, <1>5, Clients DEF TypeOK, Subscriptions, Subscribers
<1>8. /\ parent'[n] = p /\ \A k \in Node \ {n} : parent'[k] = parent[k]
      /\ Tree'
  BY <1>2, <1>3, <1>5, <1>7 DEF TypeOK, Tree
<1>9. /\ \A y \in ToSet(msgs) : /\ y.op \in {"nodeLink", "nodeCreate"}
                                /\ y.node = n /\ y.arg = p
      /\ \A y \in ToSet(told) : /\ y.op \in {"nodeLink", "nodeCreate"}
                                /\ y.node = n /\ y.arg = p
  BY <1>6, Fields
<1>10. /\ \A k : Msg("nodeCreate", k, S) \notin ToSet(msgs)
       /\ Msg("tagCreate", SndNode, FrameTag) \notin ToSet(msgs)
  BY <1>5, <1>9, Fields
<1>11. \A y \in ToSet(msgs) : SndTold(y)'
  BY <1>5, <1>9 DEF SndTold, Greeting
<1>12. ~Unknown
  BY <1>4, <1>5 DEF Unknown
<1>13. /\ \A k \in Node : parent'[k] = Nowhere <=> parent[k] = Nowhere
       /\ Serving' <=> Serving
  <2>1. \A k \in Node : parent'[k] = Nowhere <=> parent[k] = Nowhere
    BY <1>5, <1>8
  <2> QED
    BY <1>3, <1>7, <2>1 DEF Serving
<1>14. SndBuilds'
  BY <1>3, <1>6, <1>7, <1>10, Different, SndBuildsKept
<1>15. SndLayers'
  <2>1. /\ Told(S) # Msg("layerCreate", SndNode, NoArg)
        /\ Told(S) # Msg("nodeSubscribe", SndNode, NoArg)
    BY <1>3, Different
  <2> QED
    BY <1>6, <1>7, <1>10, <1>13, <2>1, SndLayersKept
<1>16. Down' = Down \cup ToSet(msgs) /\ Up = {Told(S)} \cup Up'
  BY <1>6 DEF SndAsks, Added, Taken, Down, Up
<1>17. SndEnds'
  <2>1. \A l \in Lives :
          /\ parent'[Scene(l)] \in {Nowhere, S, SceneParent}
          /\ parent'[SenderNode(l)] \in {Nowhere, S, Scene(l)}
          /\ l > snd.life => parent'[Scene(l)] = Nowhere
                             /\ parent'[SenderNode(l)] = Nowhere
          /\ l < snd.life => parent'[Scene(l)] = SceneParent
                             /\ parent'[SenderNode(l)] = Nowhere
    <3>1. ASSUME NEW l \in Lives
          PROVE  /\ parent'[Scene(l)] = parent[Scene(l)]
                    \/ (l = snd.life /\ parent'[Scene(l)] = SceneParent)
                 /\ parent'[SenderNode(l)] = parent[SenderNode(l)]
                    \/ (l = snd.life /\ parent'[SenderNode(l)] = Scene(l))
                 /\ l = snd.life => ~(l > snd.life) /\ ~(l < snd.life)
      BY <1>3, <1>4, <1>8, OtherLives
    <3> QED
      BY <3>1 DEF IInv, SndEnds
  <2>2. parent'[SndScene] = SceneParent => snd.scene
    BY <1>3, <1>4, <1>8 DEF IInv, SndEnds
  <2>3. parent'[SndNode] = SndScene => snd.bound
    BY <1>3, <1>4, <1>8 DEF IInv, SndEnds
  <2>4. snd.scene \/ Msg("nodeCreate", SndScene, S) \in Down' => parent'[SndScene] # Nowhere
    BY <1>3, <1>10, <1>13, <1>16 DEF IInv, SndEnds
  <2>5. snd.scene =>
          \/ parent'[SndScene] = SceneParent
          \/ /\ Msg("nodeLink", SndScene, SceneParent) \in Up'
             /\ Precedes(up'[S], Msg("nodeLink", SndScene, SceneParent),
                                Signal("terminate"))
    <3>1. CASE n = SndScene
      BY <1>3, <1>4, <1>8, <3>1
    <3>2. CASE n # SndScene
      <4>1. Told(S) # Msg("nodeLink", SndScene, SceneParent)
        BY <1>3, <3>2, Different
      <4>2. parent'[SndScene] = parent[SndScene]
        BY <1>3, <1>8, <3>2
      <4> QED
        BY <1>3, <1>6, <1>16, <4>1, <4>2 DEF IInv, SndEnds, SndAsks, Taken
    <3> QED
      BY <3>1, <3>2
  <2>6. \/ parent'[SndNode] = Nowhere /\ snd.bound
        \/ Precedes(up'[S], Msg("nodeDestroy", SndNode, NoArg), Signal("terminate"))
    <3>1. Told(S) # Msg("nodeDestroy", SndNode, NoArg)
      BY <1>3, Different
    <3> QED
      BY <1>3, <1>6, <1>13, <3>1 DEF IInv, SndEnds, SndAsks, Taken
  <2> QED
    BY <1>3, <1>7, <2>1, <2>2, <2>3, <2>4, <2>5, <2>6 DEF SndEnds
<1>18. SndStreams'
  <2>1. /\ Told(S) # Msg("tgCreate", SndNode, NoArg)
        /\ Told(S) # Msg("tagSet", SndNode, FrameTag)
    BY <1>3, Different
  <2>2. Serving' =>
         /\ \/ SndNode \in tgs'
            \/ Precedes(up'[S], Msg("tgCreate", SndNode, NoArg),
                                Msg("layerCreate", SndNode, NoArg))
         /\ \/ FrameTag \in tagSet'
            \/ Precedes(up'[S], Msg("tagSet", SndNode, FrameTag),
                                Msg("layerSet", SndNode, NoArg))
    BY <1>6, <1>7, <1>13, <2>1, SndServes
  <2>3. \A k \in layerSet : k \in Node
    BY <1>3 DEF TypeOK, Tree
  <2> QED
    BY <1>3, <1>7, <1>10, <1>13, <1>16, <2>2, <2>3 DEF IInv, SndStreams
<1>19. Following' <=> Following
  BY <1>7, <1>13, RcvNames DEF Following
<1>20. RcvStreams'
  <2>1. Value1 \notin ToSet(told) /\ Frame1 \notin ToSet(told) /\ Layer1 \notin ToSet(told)
    BY <1>9, Fields DEF Value1, Frame1, Layer1
  <2> QED
    BY <1>6, <1>7, <1>19, <2>1, RcvStreamsHeard
<1>21. CASE n = SndScene /\ p = SceneParent
  <2>1. RcvOrders'
    <3>1. ASSUME Msg("nodeCreate", Scene(2), SceneParent) \in ToSet(told)
          PROVE  rcv.scene = Scene1 \/ Msg("nodeCreate", Scene1, SceneParent) \in RDown
      <4>1. SndScene = Scene(2) /\ SceneParent \in nodeSubs[R]
        BY <1>6, <1>9, <1>21, <3>1, Fields
      <4>2. 1 < snd.life /\ 1 \in Lives
        BY <1>3, <4>1, OtherLives, Names
      <4>3. parent[Scene1] = SceneParent
        BY <4>2 DEF IInv, SndEnds, Scene1
      <4> QED
        BY <4>1, <4>3 DEF IInv, RcvOrders
    <3>2. Scene1 \in known'[R] =>
              Scene1 \in known[R]
              \/ Msg("nodeCreate", Scene1, SceneParent) \in ToSet(told)
      BY <1>6, <1>7, <1>21
    <3>3. SceneParent \in nodeSubs[R] /\ parent'[Scene1] = SceneParent =>
              parent[Scene1] = SceneParent \/ Scene1 \in known'[R]
      BY <1>7, <1>8, <1>21, RcvNames
    <3>4. Node1 \in known'[R] => Node1 \in known[R]
      <4>1. n # Node1
        BY <1>5, <1>21, RcvNames
      <4> QED
        BY <1>7, <4>1
    <3> QED
      BY <1>6, <3>1, <3>2, <3>3, <3>4, RcvOrdersHeard
  <2>2. \A y \in ToSet(told) : RcvTold(y)'
    <3>1. n \notin SenderNodes
      BY <1>5, <1>21, RcvNames
    <3> QED
      BY <1>5, <1>9, <1>21, <3>1 DEF RcvTold
  <2> QED
    BY <1>6, <1>20, <2>1, <2>2, RcvHeard, <1>5, <1>7, <1>8, <1>10, <1>11, <1>12,
       <1>14, <1>15, <1>17, <1>18, SndAsked DEF IInv, SndQueues
<1>22. CASE n = SndNode /\ p = SndScene /\ snd.bound
  <2>1. RcvOrders'
    <3>1. Msg("nodeCreate", Scene(2), SceneParent) \notin ToSet(told)
      BY <1>5, <1>9, <1>22, Fields
    <3>2. n # Scene1
      BY <1>3, <1>22, OtherLives
    <3>3. Scene1 \in known'[R] => Scene1 \in known[R]
      BY <1>7, <3>2
    <3>4. parent'[Scene1] = parent[Scene1]
      BY <1>8, <3>2, RcvNames
    <3> QED
      BY <1>6, <1>22, <3>1, <3>3, <3>4, RcvOrdersHeard
  <2>2. \A y \in ToSet(told) : RcvTold(y)'
    <3>1. ASSUME SndScene \in nodeSubs[R]
          PROVE  /\ SndScene = Scene1 /\ rcv.scene = Scene1 /\ SndNode = Node1
                 /\ Node1 \in known'[R]
      <4>1. SndScene \notin {R, SceneParent}
        BY <1>3, SndNodes
      <4>2. RcvFinds(SndScene)
        BY <3>1, <4>1 DEF IInv, RcvQueues
      <4>3. SndScene # Node1
        BY <1>5, RcvNames
      <4>4. SndScene = Scene1 /\ rcv.scene = Scene1
        BY <1>5, <4>2, <4>3 DEF RcvFinds, IInv, RcvQueues
      <4>5. SndNode = Node1
        BY <1>3, <4>4, OtherLives
      <4> QED
        BY <1>7, <1>22, <3>1, <4>4, <4>5
    <3>2. n \notin Scenes
      BY <1>3, <1>22, SndNodes
    <3>3. ASSUME NEW y \in ToSet(told), y.op = "nodeCreate"
          PROVE  y = Msg("nodeCreate", Node1, Scene1) /\ rcv.scene = Scene1
                 /\ Node1 \in known'[R]
      BY <1>6, <1>22, <3>1, <3>3, Fields
    <3> QED
      BY <1>3, <1>5, <1>9, <3>2, <3>3 DEF RcvTold
  <2> QED
    BY <1>6, <1>20, <2>1, <2>2, RcvHeard, <1>5, <1>7, <1>8, <1>10, <1>11, <1>12,
       <1>14, <1>15, <1>17, <1>18, SndAsked DEF IInv, SndQueues
<1> QED
  BY <1>4, <1>21, <1>22

(* A sender does not subscribe to a layer.                                 *)
LEMMA SenderServedHolds ==
    ASSUME IInv, UNCHANGED <<snd, rcv>>, Serve(S) PROVE IInv'
<1>1. ~SubscribesLayer(S)
  <2>1. ASSUME NEW op, Takes(S, op), op = "layerSubscribe" PROVE FALSE
    <3>1. SndSent(Told(S)) /\ Told(S).op = op
      BY <2>1, SndRequest
    <3> QED
      BY <2>1, <3>1 DEF SndSent
  <2>2. ~Takes(S, "layerSubscribe")
    BY <2>1
  <2> QED
    BY <2>2, Zenon DEF SubscribesLayer
<1> QED
  BY <1>1, SndGreetsHolds, SndIgnoredHolds, SndTerminatesHolds,
     SndCreatesNodeHolds, SndLinksNodeHolds, SndSubscribesNodeHolds,
     SndCreatesTagGroupHolds, SndSubscribesTagGroupHolds, SndCreatesTagHolds,
     SndSetsTagHolds, SndCreatesLayerHolds, SndSetsLayerHolds,
     SndDestroysNodeHolds
     DEF Serve

LEMMA NextHolds == ASSUME IInv, [Next]_vars PROVE IInv'
<1>1. CASE Restarts
  BY <1>1, SenderActsHolds DEF Restarts
<1>2. CASE Serves
  <2>1. UNCHANGED <<snd, rcv>>
    BY <1>2 DEF Serves
  <2>2. PICK c \in Client : Serve(c)
    BY <1>2, Zenon DEF Serves
  <2>3. Serve(S) \/ Serve(R)
    BY <2>2, Clients
  <2> QED
    BY <2>1, <2>3, SenderServedHolds, ReceiverServedHolds
<1>3. CASE SenderActs
  BY <1>3, SenderActsHolds DEF SenderActs
<1>4. CASE ReceiverActs
  BY <1>4, ReceiverActsHolds DEF ReceiverActs
<1>5. CASE Interrupts
  BY <1>5, SenderActsHolds, ReceiverActsHolds DEF Interrupts
<1>6. CASE UNCHANGED vars
  <2>1. /\ up' = up /\ down' = down /\ UNCHANGED tree /\ UNCHANGED subs
        /\ snd' = snd /\ rcv' = rcv
    BY <1>6 DEF vars, serverVars, channels
  <2>2. /\ parent' = parent /\ tgs' = tgs /\ tags' = tags /\ tagSet' = tagSet
        /\ layers' = layers /\ layerSet' = layerSet
        /\ known' = known /\ nodeSubs' = nodeSubs /\ tgSubs' = tgSubs
        /\ layerSubs' = layerSubs /\ open' = open
    BY <2>1 DEF tree, subs
  <2>3. TypeOK'
    BY <2>1, <2>2 DEF IInv, TypeOK, Queues, Tree, Subscriptions
  <2>4. SndInv'
    BY <2>1, <2>2, SndUntouched DEF IInv, SndInv, SndView
  <2>5. RcvInv'
    BY <2>1, <2>2, RcvUntouched DEF IInv, RcvInv, RcvView
  <2> QED
    BY <2>3, <2>4, <2>5 DEF IInv, SndInv, RcvInv
<1> QED
  BY <1>1, <1>2, <1>3, <1>4, <1>5, <1>6 DEF Next

-----------------------------------------------------------------------------
(* The order of the commands is kept by the callbacks of both clients      *)
(* (client_particle_sender.c, client_particle_receiver.c), by whatever the *)
(* server does for them, by interruptions and by a restart.                *)
THEOREM SessionInvariant == Spec => []IInv
<1>1. Init => IInv
  BY InitHolds
<1>2. IInv /\ [Next]_vars => IInv'
  BY NextHolds
<1> QED
  BY <1>1, <1>2, PTL DEF Spec

(* What is on its way, what the server keeps and what the clients know     *)
(* stays well formed: names of nodes and tags, and commands of the         *)
(* interface, whichever callbacks of client_particle_sender.c and          *)
(* client_particle_receiver.c have run.                                    *)
THEOREM TypeCorrect == Spec => []TypeOK
<1>1. IInv => TypeOK
  BY DEF IInv
<1> QED
  BY <1>1, SessionInvariant, PTL

(* cb_receive_node_create and cb_receive_layer_create follow a pointer to  *)
(* the scene or the sender node without looking whether it is there: it    *)
(* always is.                                                              *)
THEOREM NoNullDerefHolds == Spec => []NoNullDeref
<1>1. IInv => NoNullDeref
  BY DEF IInv, SndQueues, RcvQueues, NoNullDeref
<1> QED
  BY <1>1, SessionInvariant, PTL

(* cb_receive_tag_create starts the clock, and verse_send_data then sends  *)
(* with ids of which that of the layer is not initialized before it has    *)
(* been received: all of them have been.                                   *)
THEOREM IdsKnownWhenRunningHolds == Spec => []IdsKnownWhenRunning
<1>1. IInv => IdsKnownWhenRunning
  BY DEF IInv, SndQueues, SndLayers, IdsKnownWhenRunning
<1> QED
  BY <1>1, SessionInvariant, PTL

(* cb_receive_layer_set_value stores a position under the last frame that  *)
(* cb_receive_tag_set_value has been given: there is one before the first  *)
(* position, for a receiver that comes early and for one that comes late.  *)
THEOREM FrameBeforeValueHolds == Spec => []FrameBeforeValue
<1>1. IInv => FrameBeforeValue
  BY DEF IInv, RcvStreams, FrameBeforeValue
<1> QED
  BY <1>1, SessionInvariant, PTL

(* The callbacks look a node up for each command about it and go on with   *)
(* what they find: both clients know every node they are told about.       *)
THEOREM OnlyKnownNodesHolds == Spec => []OnlyKnownNodes
<1>1. ASSUME IInv PROVE OnlyKnownNodes
  <2>1. down[S] \in Seq(Message) /\ down[R] \in Seq(Message)
    BY <1>1, Clients DEF IInv, TypeOK, Queues
  <2>2. ASSUME NEW i \in DOMAIN down[R],
               down[R][i].op \in {"tgCreate", "tagCreate", "tagSet",
                                  "layerCreate", "layerSet", "layerUnset"}
        PROVE  RcvFinds(down[R][i].node)
    <3>1. down[R][i] \in RDown
      BY DEF RDown, ToSet
    <3>2. RcvTold(down[R][i])
      BY <1>1, <3>1 DEF IInv, RcvQueues
    <3> QED
      BY <1>1, <2>2, <3>2 DEF RcvTold, IInv, RcvQueues
  <2>3. ASSUME NEW i \in DOMAIN down[S],
               down[S][i].op \in {"tgCreate", "tagCreate", "layerCreate"}
        PROVE  SndFinds(down[S][i].node)
    <3>1. down[S][i] \in Down
      BY DEF Down, ToSet
    <3>2. SndTold(down[S][i])
      BY <1>1, <3>1 DEF IInv, SndQueues
    <3> QED
      BY <2>3, <3>2 DEF SndTold
  <2> QED
    BY <2>2, <2>3 DEF OnlyKnownNodes, S, R
<1> QED
  BY <1>1, SessionInvariant, PTL

(* A receiver takes the first scene it is told of for its own, in          *)
(* cb_receive_node_create: it stays with that of the sender's first run    *)
(* and never follows what the sender does when it is started again.        *)
THEOREM FollowsFirstRunHolds == Spec => []FollowsFirstRun
<1>1. ASSUME IInv PROVE FollowsFirstRun
  <2>1. rcv.scene \in {Nowhere, Scene1} /\ rcv.bound \in {Nowhere, Node1}
    BY <1>1 DEF IInv, RcvQueues
  <2>2. \A l \in Lives \ {1} : l = 2
    BY Names
  <2>3. /\ Scene(2) \notin {Nowhere, Scene1}
        /\ SenderNode(2) \notin {Nowhere, Node1}
    BY Names DEF Nowhere, Scene1, Node1
  <2> QED
    BY <2>1, <2>2, <2>3 DEF FollowsFirstRun
<1> QED
  BY <1>1, SessionInvariant, PTL
=============================================================================
