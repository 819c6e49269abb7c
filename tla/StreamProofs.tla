---------------------------- MODULE StreamProofs ----------------------------
(***************************************************************************)
(* The way of the animation, for every animation of any number of          *)
(* particles and any number of commands on their way: what arrives is what *)
(* was sent, and what is drawn of it is right.  The first part is about    *)
(* the drawings of received data, classified with whatever frame the clock *)
(* showed; that a receiver with its threads has such data is the theorem   *)
(* AppearsAtomicHolds of ReceiverProofs.                                   *)
(***************************************************************************)
EXTENDS Stream, RefDataProofs, FiniteSetTheorems

Classes == {Data!Unreceived, Data!InTime, Data!Delayed, Data!Ahead}

(* The states pointed at are frames that have been received, or there are  *)
(* none.                                                                   *)
Pointed(p) ==
    \/ span[p] = Data!Nothing
    \/ /\ span[p].first \in Frame /\ span[p].last \in Frame
       /\ span[p].current \in Frame
       /\ hist[p][span[p].first] # Data!Unreceived
       /\ hist[p][span[p].last] # Data!Unreceived
       /\ hist[p][span[p].current] # Data!Unreceived

Received ==
    /\ DOMAIN span = Particle /\ span = [p \in Particle |-> span[p]]
    /\ hist \in [Particle -> [Frame -> Classes]]
    /\ \A p \in Particle : Pointed(p)

(* The modules of the received data and of the display speak of the same   *)
(* animation and of the same states.                                       *)
LEMMA SameFrames ==
    /\ Data!Frame = Frame /\ Data!ClockFrame = ClockFrame
    /\ Screen!Frame = Frame /\ Screen!ClockFrame = ClockFrame
    /\ Data!NoFrame = NoFrame /\ Screen!NoFrame = NoFrame
    /\ Data!NotStarted = NotStarted
  BY DEF Data!Frame, Frame, Data!ClockFrame, ClockFrame, Screen!Frame,
         Screen!ClockFrame, Data!NoFrame, Screen!NoFrame, NoFrame,
         Data!NotStarted, NotStarted

LEMMA SameClasses ==
    /\ Screen!Unreceived = Data!Unreceived /\ Screen!InTime = Data!InTime
    /\ Screen!Delayed = Data!Delayed /\ Screen!Ahead = Data!Ahead
    /\ Screen!Nothing = Data!Nothing
  BY DEF Screen!Unreceived, Data!Unreceived, Screen!InTime, Data!InTime,
         Screen!Delayed, Data!Delayed, Screen!Ahead, Data!Ahead,
         Screen!Nothing, Data!Nothing, Screen!Span, Data!Span,
         Screen!NoFrame, Data!NoFrame

LEMMA SameMinimum == \A s : Screen!Min(s) = Min(s)
  BY Zenon DEF Screen!Min, Min

LEMMA SameTrajectory ==
    ASSUME NEW traj
    PROVE  /\ Screen!BornFrame(traj) = BornFrame(traj)
           /\ Screen!DieFrame(traj) = DieFrame(traj)
           /\ \A f : Screen!StateAt(traj, f) = StateAt(traj, f)
           /\ Screen!Active = Active
<1>1. Screen!Moved(traj) = Moved(traj)
  BY SameFrames, Zenon DEF Screen!Moved, Moved
<1>2. (Screen!IsBorn(traj) <=> IsBorn(traj)) /\ Screen!Birth(traj) = Birth(traj)
  BY <1>1, SameMinimum, Zenon DEF Screen!IsBorn, IsBorn, Screen!Birth, Birth
<1>3. Screen!BornFrame(traj) = BornFrame(traj)
  BY <1>2, Zenon DEF Screen!BornFrame, BornFrame
<1>4. Screen!Halted(traj) = Halted(traj)
  BY <1>2, SameFrames, Zenon DEF Screen!Halted, Halted
<1>5. /\ Screen!Dies(traj) <=> Dies(traj)
      /\ Screen!Death(traj) = Death(traj)
  BY <1>2, <1>4, SameMinimum, Zenon DEF Screen!Dies, Dies, Screen!Death, Death
<1>6. \A f : Screen!StateAt(traj, f) = StateAt(traj, f)
  BY <1>2, <1>5, Zenon
  DEF Screen!StateAt, StateAt, Screen!Unborn, Unborn, Screen!Dead, Dead,
      Screen!Active, Active
<1>7. Screen!DieFrame(traj) = DieFrame(traj)
  BY <1>5, Zenon DEF Screen!DieFrame, DieFrame
<1> QED
  BY <1>3, <1>6, <1>7 DEF Screen!Active, Active

(* Whatever the clock showed, a position that comes is not unreceived.     *)
LEMMA ClassifyReceives ==
    ASSUME NEW d
    PROVE  Data!Classify(d) \in Classes \ {Data!Unreceived}
  BY DEF Data!Classify, Classes, Data!Unreceived, Data!InTime, Data!Delayed, Data!Ahead

(* A span that is widened consists of frames that were in it and the new.  *)
LEMMA WidenedFrames ==
    ASSUME NEW s, NEW f,
           NEW w, w = Data!Widened(s, f)
    PROVE  /\ w = Data!Span(w.first, w.last, w.current)
           /\ w.current = f
           /\ w.first \in {f, s.first} /\ w.last \in {f, s.last}
           /\ s = Data!Nothing => w.first = f /\ w.last = f
  BY DEF Data!Widened, Data!Span

LEMMA ReceivedNext == Received /\ [Data!Next]_(Data!vars) => Received'
<1> SUFFICES ASSUME Received, [Data!Next]_(Data!vars) PROVE Received'
  OBVIOUS
<1>1. CASE UNCHANGED <<span, hist>>
  BY <1>1 DEF Received, Pointed
<1>2. ASSUME NEW p \in Particle, NEW f \in Frame,
             NEW now \in ClockFrame \cup {NotStarted}, Data!Receive(p, f, now)
      PROVE  Received'
  <2> DEFINE w == Data!Widened(span[p], f)
             c == Data!Classify(now - f)
  <2>1. span' = [span EXCEPT ![p] = w] /\ hist' = [hist EXCEPT ![p][f] = c]
    BY <1>2 DEF Data!Receive
  <2>2. c \in Classes /\ c # Data!Unreceived
    BY ClassifyReceives
  <2>3. /\ w.current = f
        /\ w.first \in {f, span[p].first} /\ w.last \in {f, span[p].last}
        /\ span[p] = Data!Nothing => w.first = f /\ w.last = f
    BY WidenedFrames
  <2> HIDE DEF w, c
  <2>4. /\ hist' \in [Particle -> [Frame -> Classes]]
        /\ hist'[p][f] = c
        /\ \A g \in Frame : g # f => hist'[p][g] = hist[p][g]
        /\ \A q \in Particle : q # p => hist'[q] = hist[q]
    BY <2>1, <2>2 DEF Received
  <2>5. /\ DOMAIN span' = Particle /\ span' = [q \in Particle |-> span'[q]]
        /\ span'[p] = w
        /\ \A q \in Particle : q # p => span'[q] = span[q]
    BY <2>1 DEF Received
  <2>6. Pointed(p)'
    BY <2>2, <2>3, <2>4, <2>5 DEF Received, Pointed
  <2>7. \A q \in Particle : q # p => Pointed(q)'
    BY <2>4, <2>5 DEF Received, Pointed
  <2> QED
    BY <2>4, <2>5, <2>6, <2>7 DEF Received
<1>3. ASSUME NEW p \in Particle, Data!Forget(p)
      PROVE  Received'
  BY <1>3 DEF Data!Forget, Received, Pointed
<1> QED
  BY <1>1, <1>2, <1>3, SameFrames DEF Data!Next, Data!FrameNumber, Data!vars

(* A particle that is active at a frame has been born by then.             *)
LEMMA ActiveIsBorn ==
    ASSUME NEW traj, NEW now \in ClockFrame, StateAt(traj, now) = Active
    PROVE  BornFrame(traj) =< now
<1>1. IsBorn(traj) /\ ~(now < Birth(traj))
  BY DEF StateAt, Active, Unborn
<1>2. Birth(traj) \in Nat
  <2>1. Moved(traj) \in SUBSET Nat /\ Moved(traj) # {}
    BY <1>1, FramesAreNat DEF Moved, IsBorn
  <2> QED
    BY <2>1, MinIs DEF Birth
<1> QED
  BY <1>1, <1>2, FramesAssumption DEF BornFrame, ClockFrame

(* What is drawn of a particle, in each of its cases.                      *)
LEMMA SimpleIs ==
    ASSUME NEW p, NEW now, NEW at, at = span[p].current
    PROVE  LET red == {Screen!Mark("red", at)}
               born == BornFrame(Path[p])
           IN  /\ at = NoFrame =>
                     Screen!Simple(p, now) =
                        IF born =< now THEN {Screen!Mark("red", born)} ELSE {}
               /\ at # NoFrame /\ hist[p][at] \in {Data!InTime, Data!Ahead} =>
                     Screen!Simple(p, now) = {Screen!Mark("yellow", at)}
               /\ at # NoFrame /\ hist[p][at] = Data!Delayed =>
                     Screen!Simple(p, now) =
                        {Screen!Mark("white", now)} \cup
                        (IF at < DieFrame(Path[p]) - 1 THEN red ELSE {})
<1>1. /\ Screen!BornFrame(Path[p]) = BornFrame(Path[p])
      /\ Screen!DieFrame(Path[p]) = DieFrame(Path[p])
  BY SameTrajectory
<1>2. CASE at = NoFrame
  BY <1>1, <1>2, SameFrames DEF Screen!Simple
<1>3. CASE at # NoFrame
  BY <1>1, <1>3, SameFrames, SameClasses
  DEF Screen!Simple, Data!InTime, Data!Ahead, Data!Delayed, Data!Unreceived
<1> QED
  BY <1>2, <1>3

LEMMA LinesIs ==
    ASSUME NEW p, NEW now
    PROVE  Screen!Lines(p, now) =
              IF StateAt(Path[p], now) = Unborn \/ span[p] = Data!Nothing
              THEN {} ELSE span[p].last .. now - 1
  BY SameTrajectory, SameClasses DEF Screen!Lines, Screen!Unborn, Unborn

(* A red dot is at a state that has never been received.                   *)
LEMMA RedDots ==
    ASSUME Received, NEW p \in Particle, NEW now, NEW f \in Frame,
           Screen!Mark("red", f) \in Screen!Dots(p, now)
    PROVE  hist[p][f] = Data!Unreceived
<1>1. \E g : Screen!Mark("red", f) =
                Screen!Mark(CASE hist[p][g] = Data!Unreceived -> "red"
                              [] hist[p][g] = Data!Delayed    -> "orange"
                              [] hist[p][g] = Data!InTime     -> "green"
                              [] hist[p][g] = Data!Ahead      -> "none", g)
  BY SameClasses DEF Screen!Dots
<1>2. PICK g : Screen!Mark("red", f) =
                Screen!Mark(CASE hist[p][g] = Data!Unreceived -> "red"
                              [] hist[p][g] = Data!Delayed    -> "orange"
                              [] hist[p][g] = Data!InTime     -> "green"
                              [] hist[p][g] = Data!Ahead      -> "none", g)
  BY <1>1
<1>3. f = g
  BY <1>2 DEF Screen!Mark
<1>4. f \in Frame /\ hist[p][f] \in Classes
  BY DEF Received
<1> QED
  BY <1>2, <1>3, <1>4
  DEF Screen!Mark, Classes, Data!Unreceived, Data!InTime, Data!Delayed, Data!Ahead

(* No particle that flies is missing in a picture, and no picture          *)
(* contradicts itself, whenever it is drawn.                               *)
LEMMA DrawnWellOfReceived == Received => Screen!DrawnWell
<1> SUFFICES ASSUME Received, NEW p \in Particle, NEW now \in ClockFrame
             PROVE  Screen!Shown(p, now) /\ Screen!Coherent(p, now)
  BY SameFrames DEF Screen!DrawnWell
<1> DEFINE at == span[p].current
<1>1. at = NoFrame \/ (hist[p][at] \in Classes /\ hist[p][at] # Data!Unreceived)
  BY SameFrames DEF Received, Pointed, Data!Nothing, Data!Span
<1>2. /\ at = NoFrame =>
            Screen!Simple(p, now) =
               IF BornFrame(Path[p]) =< now
               THEN {Screen!Mark("red", BornFrame(Path[p]))} ELSE {}
      /\ at # NoFrame /\ hist[p][at] \in {Data!InTime, Data!Ahead} =>
            Screen!Simple(p, now) = {Screen!Mark("yellow", at)}
      /\ at # NoFrame /\ hist[p][at] = Data!Delayed =>
            Screen!Simple(p, now) =
               {Screen!Mark("white", now)} \cup
               (IF at < DieFrame(Path[p]) - 1
                THEN {Screen!Mark("red", at)} ELSE {})
  BY SimpleIs
<1>3. Screen!Shown(p, now)
  <2> SUFFICES ASSUME StateAt(Path[p], now) = Active
               PROVE  Screen!Simple(p, now) # {}
    BY SameTrajectory DEF Screen!Shown
  <2>1. CASE at = NoFrame
    BY <1>2, <2>1, ActiveIsBorn
  <2>2. CASE at # NoFrame
    BY <1>1, <1>2, <2>2 DEF Classes
  <2> QED
    BY <2>1, <2>2
<1>4. Screen!Coherent(p, now)
  <2> DEFINE lost == {f \in Frame : Screen!Mark("red", f) \in Screen!Dots(p, now)}
             line == Screen!Lines(p, now)
  <2>1. ASSUME NEW f \in lost PROVE hist[p][f] = Data!Unreceived
    BY <2>1, RedDots
  <2>2. ASSUME NEW f \in lost, Screen!Mark("yellow", f) \in Screen!Simple(p, now)
        PROVE  FALSE
    <3>1. /\ \A g : Screen!Mark("yellow", f) # Screen!Mark("red", g)
          /\ Screen!Mark("yellow", f) # Screen!Mark("white", now)
          /\ \A g : Screen!Mark("yellow", f) = Screen!Mark("yellow", g) => f = g
      BY DEF Screen!Mark
    <3>2. at # NoFrame
      BY <1>2, <2>2, <3>1
    <3>3. f = at
      <4>1. CASE hist[p][at] \in {Data!InTime, Data!Ahead}
        BY <1>2, <2>2, <3>1, <3>2, <4>1
      <4>2. CASE hist[p][at] = Data!Delayed
        BY <1>2, <2>2, <3>1, <3>2, <4>2
      <4> QED
        BY <1>1, <3>2, <4>1, <4>2 DEF Classes
    <3> QED
      BY <1>1, <2>1, <3>2, <3>3
  <2>3. ASSUME line # {} PROVE span[p].last \in line \ lost
    <3>1. span[p] # Data!Nothing /\ line = span[p].last .. now - 1
      BY <2>3, LinesIs
    <3>2. span[p].last \in Frame /\ hist[p][span[p].last] # Data!Unreceived
      BY <3>1 DEF Received, Pointed
    <3>3. span[p].last \in line
      BY <2>3, <3>1, <3>2, FramesAssumption DEF Frame, ClockFrame
    <3> QED
      BY <2>1, <3>2, <3>3
  <2> QED
    BY <2>2, <2>3, SameFrames DEF Screen!Coherent
<1> QED
  BY <1>3, <1>4

(* No particle that flies is missing in a picture, and no picture          *)
(* contradicts itself, whenever it is drawn: of every behaviour of the     *)
(* received data.                                                          *)
THEOREM DrawnWellAlways == Data!Spec => []Screen!DrawnWell
<1>1. Data!Init => Received
  BY SameFrames DEF Data!Init, Received, Pointed, Classes
<1> QED
  BY <1>1, DrawnWellOfReceived, ReceivedNext, PTL DEF Data!Spec

-----------------------------------------------------------------------------
(* The inductive invariant.                                                *)

(* The commands on their way.                                              *)
FrameCmds == {FrameCmd(f) : f \in ClockFrame}
SetCmds(p) == [kind : {"set"}, particle : {p}, frame : ClockFrame, kept : BOOLEAN]
About(p) == SetCmds(p) \cup {UnsetCmd(p)}
Command == FrameCmds \cup UNION {About(p) : p \in Particle}

(* What a command makes of what it is about.                               *)
Value(c) == IF c.kind = "unset" THEN NoFrame ELSE c.frame

(* No command before the i-th of a queue is of a class ...                 *)
NoneBefore(q, i, class) == \A j \in 1 .. i - 1 : q[j] \notin class

(* ... or the last one that is has a value.                                *)
LastBefore(q, i, class, v) ==
    \A j \in 1 .. i - 1 :
        q[j] \in class /\ (\A k \in j + 1 .. i - 1 : q[k] \notin class) => Value(q[j]) = v

(* When the i-th command is handled, the frame that was `base` when the    *)
(* queue was as it is has become v.                                        *)
FrameWhen(q, i, base, v) ==
    /\ LastBefore(q, i, FrameCmds, v)
    /\ NoneBefore(q, i, FrameCmds) => base = v

Types ==
    /\ sFrame \in ClockFrame \cup {NotStarted} /\ below \in BOOLEAN
    /\ ~below => sFrame # NotStarted
    /\ up \in Seq(Command) /\ down \in Seq(Command)
    /\ tag \in ClockFrame \cup {NotStarted}
    /\ layer \in [Particle -> ClockFrame \cup {NoFrame}]
    /\ sub \in {"none", "tag", "layer"}
    /\ rFrame \in ClockFrame \cup {NotStarted}
    /\ rStart \in ClockFrame \cup {NotStarted}
    /\ rpc \in {"wait", "frame", "set"} /\ rNow \in ClockFrame \cup {NotStarted}
    /\ rpc # "wait" => Told(rpc)
    /\ recFrame \in ClockFrame \cup {NotStarted}

(* Every position and deletion is handled under the frame it was sent for. *)
SentInOrder ==
    \A i \in DOMAIN up : up[i] \notin FrameCmds =>
        FrameWhen(up, i, tag, IF up[i].kind = "set" THEN up[i].frame ELSE 0)
PassedOnInOrder ==
    \A i \in DOMAIN down : down[i].kind = "set" /\ ~down[i].kept =>
        FrameWhen(down, i, recFrame, down[i].frame)

(* What is on its way to the receiver brings it to what the server has.    *)
FrameArrives ==
    sub # "none" => FrameWhen(down, Len(down) + 1, recFrame, tag)

Agrees(s, p, v) ==
    IF v = NoFrame THEN s = Data!Nothing
    ELSE s # Data!Nothing /\ Path[p][s.current] = Path[p][v]

PositionsArrive ==
    sub = "layer" => \A p \in Particle :
        /\ LastBefore(down, Len(down) + 1, About(p), layer[p])
        /\ NoneBefore(down, Len(down) + 1, About(p)) => Agrees(span[p], p, layer[p])

NotSubscribed ==
    /\ sub # "layer" => /\ \A i \in DOMAIN down : down[i] \in FrameCmds
                        /\ \A p \in Particle : span[p] = Data!Nothing
    /\ sub = "none" => down = <<>> /\ recFrame = NotStarted

Flies(p, f) == StateAt(Path[p], f) = Active

(* A frame number is followed, before the next one, by the position of     *)
(* every particle that flies.                                              *)
BatchesWhole ==
    \A i \in DOMAIN up, p \in Particle :
        up[i] \in FrameCmds /\ Flies(p, up[i].frame) =>
            \E j \in i + 1 .. Len(up) :
                /\ up[j] = SetCmd(p, up[i].frame)
                /\ \A k \in i + 1 .. j : up[k] \notin FrameCmds

(* The rest of the batch that the server is at.                            *)
StillComes(p) ==
    \E j \in DOMAIN up :
        up[j] = SetCmd(p, tag) /\ \A k \in 1 .. j : up[k] \notin FrameCmds

HasCome(p) ==
    /\ layer[p] = tag
    /\ sub = "layer" =>
          /\ \A j \in DOMAIN down :
                /\ down[j] \in About(p)
                /\ \A k \in j + 1 .. Len(down) : down[k] \notin About(p)
                => FrameWhen(down, j, recFrame, tag)
          /\ NoneBefore(down, Len(down) + 1, About(p)) => span[p].last >= tag

UpToDate ==
    \A p \in Particle : tag # NotStarted /\ Flies(p, tag) => StillComes(p) \/ HasCome(p)

IInv ==
    /\ Types /\ Received
    /\ SentInOrder /\ BatchesWhole
    /\ PassedOnInOrder /\ FrameArrives /\ PositionsArrive /\ NotSubscribed
    /\ UpToDate

-----------------------------------------------------------------------------
(* Commands and queues.                                                    *)

LEMMA Commands ==
    ASSUME NEW c \in Command
    PROVE  /\ c.kind \in {"frame", "set", "unset"}
           /\ c \in FrameCmds <=> c.kind = "frame"
           /\ c.kind = "frame" => c = FrameCmd(c.frame) /\ c.frame \in ClockFrame
           /\ c.kind # "frame" => c.particle \in Particle
           /\ c.kind = "set" => c.frame \in ClockFrame /\ c.kept \in BOOLEAN
           /\ \A p \in Particle :
                 c \in About(p) <=> c.kind # "frame" /\ c.particle = p
<1>1. CASE c \in FrameCmds
  <2>1. PICK f \in ClockFrame : c = FrameCmd(f)
    BY <1>1 DEF FrameCmds
  <2>2. c.kind = "frame" /\ c.frame = f
    BY <2>1 DEF FrameCmd
  <2>3. ASSUME NEW p \in Particle PROVE c \notin About(p)
    BY <2>2 DEF About, SetCmds, UnsetCmd
  <2> QED
    BY <1>1, <2>1, <2>2, <2>3
<1>2. ASSUME NEW q \in Particle, c \in About(q)
      PROVE  /\ c.kind \in {"set", "unset"} /\ c.particle = q
             /\ c.kind = "set" => c.frame \in ClockFrame /\ c.kept \in BOOLEAN
             /\ c \notin FrameCmds
             /\ \A p \in Particle : c \in About(p) <=> c.particle = p
  BY <1>2 DEF About, SetCmds, UnsetCmd, FrameCmds, FrameCmd
<1>3. CASE \E q \in Particle : c \in About(q)
  BY <1>2, <1>3
<1> QED
  BY <1>1, <1>3 DEF Command

LEMMA MadeCommands ==
    /\ \A f \in ClockFrame : FrameCmd(f) \in Command /\ FrameCmd(f) \in FrameCmds
    /\ \A p \in Particle, f \in ClockFrame :
          SetCmd(p, f) \in Command /\ SetCmd(p, f) \in About(p)
    /\ \A p \in Particle, f \in ClockFrame :
          [SetCmd(p, f) EXCEPT !.kept = TRUE] \in Command
    /\ \A p \in Particle : UnsetCmd(p) \in Command /\ UnsetCmd(p) \in About(p)
<1>1. \A f \in ClockFrame : FrameCmd(f) \in Command /\ FrameCmd(f) \in FrameCmds
  BY DEF FrameCmds, Command
<1>2. ASSUME NEW p \in Particle, NEW f \in ClockFrame
      PROVE  /\ SetCmd(p, f) \in About(p)
             /\ [SetCmd(p, f) EXCEPT !.kept = TRUE] \in About(p)
  BY DEF SetCmd, About, SetCmds
<1>3. \A p \in Particle : UnsetCmd(p) \in About(p)
  BY DEF About
<1>4. \A p \in Particle : About(p) \subseteq Command
  BY DEF Command
<1> QED
  BY <1>1, <1>2, <1>3, <1>4

LEMMA QueueTail ==
    ASSUME NEW q \in Seq(Command), q # <<>>
    PROVE  /\ Tail(q) \in Seq(Command) /\ Len(q) \in Nat \ {0}
           /\ Len(Tail(q)) = Len(q) - 1 /\ Head(q) = q[1] /\ q[1] \in Command
           /\ \A i \in 1 .. Len(q) - 1 : Tail(q)[i] = q[i + 1]
  OBVIOUS

LEMMA QueueConcat ==
    ASSUME NEW q \in Seq(Command), NEW s \in Seq(Command)
    PROVE  /\ q \o s \in Seq(Command) /\ Len(q) \in Nat /\ Len(s) \in Nat
           /\ Len(q \o s) = Len(q) + Len(s)
           /\ \A i \in 1 .. Len(q) : (q \o s)[i] = q[i]
           /\ \A i \in 1 .. Len(s) : (q \o s)[Len(q) + i] = s[i]
           /\ \A i \in Len(q) + 1 .. Len(q) + Len(s) : (q \o s)[i] = s[i - Len(q)]
  OBVIOUS

LEMMA QueueAppend ==
    ASSUME NEW q \in Seq(Command), NEW c \in Command
    PROVE  /\ Append(q, c) \in Seq(Command) /\ Len(q) \in Nat
           /\ Len(Append(q, c)) = Len(q) + 1
           /\ \A i \in 1 .. Len(q) : Append(q, c)[i] = q[i]
           /\ Append(q, c)[Len(q) + 1] = c
  OBVIOUS

(* When the first command of a queue has been handled ...                  *)
LEMMA BeforeTail ==
    ASSUME NEW q \in Seq(Command), q # <<>>, NEW class, NEW v,
           NEW i \in 1 .. Len(q), LastBefore(q, i + 1, class, v)
    PROVE  /\ LastBefore(Tail(q), i, class, v)
           /\ NoneBefore(Tail(q), i, class) =>
                 IF Head(q) \in class THEN Value(Head(q)) = v
                 ELSE NoneBefore(q, i + 1, class)
<1>1. /\ Len(q) \in Nat \ {0} /\ Head(q) = q[1]
      /\ \A j \in 1 .. Len(q) - 1 : Tail(q)[j] = q[j + 1]
  BY QueueTail
<1>2. LastBefore(Tail(q), i, class, v)
  <2> SUFFICES ASSUME NEW j \in 1 .. i - 1, Tail(q)[j] \in class,
                      \A k \in j + 1 .. i - 1 : Tail(q)[k] \notin class
               PROVE  Value(Tail(q)[j]) = v
    BY DEF LastBefore
  <2>1. j + 1 \in 1 .. (i + 1) - 1 /\ Tail(q)[j] = q[j + 1]
    BY <1>1
  <2>2. ASSUME NEW k \in (j + 1) + 1 .. (i + 1) - 1 PROVE q[k] \notin class
    <3>1. k - 1 \in j + 1 .. i - 1 /\ Tail(q)[k - 1] = q[k]
      BY <1>1
    <3> QED
      BY <3>1
  <2> QED
    BY <2>1, <2>2 DEF LastBefore
<1>3. ASSUME NoneBefore(Tail(q), i, class)
      PROVE  IF Head(q) \in class THEN Value(Head(q)) = v
             ELSE NoneBefore(q, i + 1, class)
  <2>1. ASSUME NEW k \in 2 .. (i + 1) - 1 PROVE q[k] \notin class
    <3>1. k - 1 \in 1 .. i - 1 /\ Tail(q)[k - 1] = q[k]
      BY <1>1
    <3> QED
      BY <1>3, <3>1 DEF NoneBefore
  <2>2. 1 \in 1 .. (i + 1) - 1 /\ 1 + 1 = 2
    OBVIOUS
  <2>3. CASE Head(q) \in class
    BY <1>1, <2>1, <2>2, <2>3 DEF LastBefore
  <2>4. CASE Head(q) \notin class
    BY <1>1, <2>1, <2>4 DEF NoneBefore
  <2> QED
    BY <2>3, <2>4
<1> QED
  BY <1>2, <1>3

LEMMA FrameWhenTail ==
    ASSUME NEW q \in Seq(Command), q # <<>>, NEW i \in 1 .. Len(q),
           NEW base, NEW next, NEW v, FrameWhen(q, i + 1, base, v),
           next = IF Head(q) \in FrameCmds THEN Head(q).frame ELSE base
    PROVE  FrameWhen(Tail(q), i, next, v)
<1>1. LastBefore(q, i + 1, FrameCmds, v)
  BY DEF FrameWhen
<1>2. /\ LastBefore(Tail(q), i, FrameCmds, v)
      /\ NoneBefore(Tail(q), i, FrameCmds) =>
            IF Head(q) \in FrameCmds THEN Value(Head(q)) = v
            ELSE NoneBefore(q, i + 1, FrameCmds)
  BY <1>1, BeforeTail
<1>3. Head(q) \in FrameCmds => Value(Head(q)) = Head(q).frame
  BY QueueTail, Commands DEF Value
<1> QED
  BY <1>2, <1>3 DEF FrameWhen

LEMMA FrameWhenFirst ==
    ASSUME NEW q, NEW base, NEW v
    PROVE  FrameWhen(q, 1, base, v) <=> base = v
  BY DEF FrameWhen, LastBefore, NoneBefore

(* ... and when others have been put behind it.                            *)
LEMMA BeforeConcat ==
    ASSUME NEW q \in Seq(Command), NEW s \in Seq(Command),
           NEW i \in 1 .. Len(q) + 1, NEW class, NEW v
    PROVE  /\ LastBefore(q, i, class, v) => LastBefore(q \o s, i, class, v)
           /\ NoneBefore(q \o s, i, class) => NoneBefore(q, i, class)
<1>1. Len(q) \in Nat /\ \A j \in 1 .. i - 1 : (q \o s)[j] = q[j]
  BY QueueConcat
<1>2. \A j \in 1 .. i - 1 : j + 1 .. i - 1 \subseteq 1 .. i - 1
  OBVIOUS
<1> QED
  BY <1>1, <1>2 DEF LastBefore, NoneBefore

LEMMA FrameWhenConcat ==
    ASSUME NEW q \in Seq(Command), NEW s \in Seq(Command),
           NEW i \in 1 .. Len(q) + 1, NEW base, NEW v, FrameWhen(q, i, base, v)
    PROVE  FrameWhen(q \o s, i, base, v)
  BY BeforeConcat DEF FrameWhen

LEMMA AppendIsConcat ==
    ASSUME NEW q \in Seq(Command), NEW c \in Command
    PROVE  Append(q, c) = q \o <<c>> /\ <<c>> \in Seq(Command)
  OBVIOUS

LEMMA LastAppended ==
    ASSUME NEW q \in Seq(Command), NEW c \in Command, NEW class, NEW n, n = Len(q) + 1
    PROVE  /\ c \in class => /\ LastBefore(Append(q, c), n + 1, class, Value(c))
                             /\ ~NoneBefore(Append(q, c), n + 1, class)
           /\ c \notin class =>
                 /\ \A v : LastBefore(q, n, class, v) =>
                              LastBefore(Append(q, c), n + 1, class, v)
                 /\ NoneBefore(Append(q, c), n + 1, class) => NoneBefore(q, n, class)
<1>1. /\ Len(q) \in Nat
      /\ \A i \in 1 .. Len(q) : Append(q, c)[i] = q[i]
      /\ Append(q, c)[Len(q) + 1] = c
  BY QueueAppend
<1>2. ASSUME c \in class
      PROVE  /\ LastBefore(Append(q, c), n + 1, class, Value(c))
             /\ ~NoneBefore(Append(q, c), n + 1, class)
  <2>1. n \in 1 .. (n + 1) - 1 /\ \A j \in 1 .. (n + 1) - 1 : j = n \/ n \in j + 1 .. (n + 1) - 1
    BY <1>1
  <2> QED
    BY <1>1, <1>2, <2>1 DEF LastBefore, NoneBefore
<1>3. ASSUME c \notin class, NEW v, LastBefore(q, n, class, v)
      PROVE  LastBefore(Append(q, c), n + 1, class, v)
  <2> SUFFICES ASSUME NEW j \in 1 .. (n + 1) - 1, Append(q, c)[j] \in class,
                      \A k \in j + 1 .. (n + 1) - 1 : Append(q, c)[k] \notin class
               PROVE  Value(Append(q, c)[j]) = v
    BY DEF LastBefore
  <2>1. j \in 1 .. n - 1 /\ Append(q, c)[j] = q[j]
    BY <1>1, <1>3
  <2>2. ASSUME NEW k \in j + 1 .. n - 1 PROVE q[k] \notin class
    <3>1. k \in j + 1 .. (n + 1) - 1 /\ Append(q, c)[k] = q[k]
      BY <1>1, <2>1
    <3> QED
      BY <3>1
  <2> QED
    BY <1>3, <2>1, <2>2 DEF LastBefore
<1>4. NoneBefore(Append(q, c), n + 1, class) => NoneBefore(q, n, class)
  BY <1>1 DEF NoneBefore
<1> QED
  BY <1>2, <1>3, <1>4

(* The particles in some order.                                            *)
LEMMA InSomeOrder ==
    ASSUME NEW T \in SUBSET Particle
    PROVE  /\ SetToSeq(T) \in Seq(T)
           /\ \A p \in T : \E i \in 1 .. Len(SetToSeq(T)) : SetToSeq(T)[i] = p
<1> DEFINE n == Cardinality(T)
           f == SetToSeq(T)
<1>1. IsFiniteSet(T)
  BY StreamAssumption, FS_Subset
<1>2. n \in Nat /\ ExistsBijection(1 .. n, T)
  BY <1>1, FS_CardinalityType
<1>3. \E g \in [1 .. n -> T] : IsInjective(g)
  BY <1>2 DEF ExistsBijection, Bijection, Injection
<1>4. f \in [1 .. n -> T] /\ IsInjective(f)
  BY <1>3 DEF SetToSeq
<1> HIDE DEF f
<1>5. f \in Surjection(1 .. n, T)
  <2>1. f \in Injection(1 .. n, T)
    BY <1>4 DEF Injection
  <2>2. Cardinality(1 .. n) = n
    <3>1. 1 \in Int /\ n \in Int
      BY <1>2
    <3>2. Cardinality(1 .. n) = IF 1 > n THEN 0 ELSE n - 1 + 1
      BY <3>1, FS_Interval
    <3> HIDE DEF n
    <3> QED
      BY <1>2, <3>2
  <2> QED
    BY <1>1, <2>1, <2>2, FS_Injection
<1> HIDE DEF n
<1>6. f \in Seq(T) /\ Len(f) = n
  BY <1>2, <1>4
<1>7. \A p \in T : \E i \in 1 .. n : f[i] = p
  BY <1>5 DEF Surjection
<1> QED
  BY <1>6, <1>7 DEF f

-----------------------------------------------------------------------------
(* The frame of a position, and what it makes of the received data.        *)

(* A position of the animation is found; when it is the one of the last    *)
(* frame number, it is that frame's.                                       *)
LEMMA FindRefFinds ==
    ASSUME NEW traj, NEW f \in Frame, NEW n \in ClockFrame \cup {NotStarted}
    PROVE  /\ FindRef(traj, n, traj[f]) \in Frame
           /\ traj[FindRef(traj, n, traj[f])] = traj[f]
           /\ f = n => FindRef(traj, n, traj[f]) = f
<1> DEFINE M == Matches(traj, traj[f])
           B == NoLater(traj, n, traj[f])
<1>1. f \in M /\ M \in SUBSET Frame /\ B \in SUBSET M
  BY DEF Matches, NoLater
<1>2. ASSUME B # {}
      PROVE  Max(B) \in B
  BY <1>1, <1>2, MaxIs
<1>3. Min(M) \in M
  BY <1>1, FramesAreNat, MinIs
<1>4. FindRef(traj, n, traj[f]) \in M
  BY <1>1, <1>2, <1>3 DEF FindRef
<1>5. ASSUME f = n PROVE FindRef(traj, n, traj[f]) = f
  <2>1. f \in Nat
    BY FramesAreNat
  <2>2. f \in B /\ \A y \in B : y =< f
    BY <1>1, <1>5, <2>1 DEF NoLater
  <2>3. \A y \in B : f >= y
    BY <1>1, <2>1, <2>2, FramesAreNat
  <2>4. Max(B) = f
    BY <1>1, <2>2, <2>3, MaxUnique
  <2> QED
    BY <2>2, <2>4 DEF FindRef
<1>6. FindRef(traj, n, traj[f]) \in Frame
  BY <1>1, <1>4
<1>7. traj[FindRef(traj, n, traj[f])] = traj[f]
  BY <1>4 DEF Matches
<1> QED
  BY <1>5, <1>6, <1>7

(* No particle flies at the frame of the deletions.                        *)
LEMMA NoneFliesAtZero ==
    ASSUME NEW p
    PROVE  ~Flies(p, 0)
<1>1. SUFFICES ASSUME Flies(p, 0) PROVE FALSE
  OBVIOUS
<1>2. IsBorn(Path[p]) /\ ~(0 < Birth(Path[p]))
  BY <1>1 DEF Flies, StateAt, Active, Unborn
<1>3. Moved(Path[p]) \in SUBSET Nat /\ Moved(Path[p]) # {}
  BY <1>2, FramesAreNat DEF Moved, IsBorn
<1>4. Birth(Path[p]) \in Moved(Path[p])
  BY <1>3, MinIs DEF Birth
<1>5. Birth(Path[p]) = 0
  BY <1>2, <1>3, <1>4
<1> QED
  BY <1>4, <1>5 DEF Moved

(* The receiver's callbacks do what ReceivedData promises.                 *)
StoredFrame ==
    FindRef(Path[Head(down).particle], recFrame,
            Path[Head(down).particle][Head(down).frame])

LEMMA HeadOfDown ==
    ASSUME Types, down # <<>>
    PROVE  /\ Head(down) \in Command /\ Head(down) = down[1] /\ 1 \in DOMAIN down
           /\ Len(down) \in Nat \ {0}
<1>1. down \in Seq(Command)
  BY DEF Types
<1> QED
  BY <1>1, QueueTail

LEMMA StoresPositionIs ==
    ASSUME Types, StoresPosition
    PROVE  /\ down # <<>> /\ Head(down).kind = "set"
           /\ Head(down).particle \in Particle /\ Head(down).frame \in ClockFrame
           /\ StoredFrame \in Frame
           /\ Path[Head(down).particle][StoredFrame] =
                 Path[Head(down).particle][Head(down).frame]
           /\ Head(down).frame = recFrame => StoredFrame = recFrame
           /\ Data!Receive(Head(down).particle, StoredFrame, rNow)
           /\ down' = Tail(down) /\ rNow' = NotStarted /\ rpc = "set" /\ rpc' = "wait"
           /\ UNCHANGED <<sClock, up, server, rClock>>
<1>1. Told("set") /\ recFrame \in ClockFrame \cup {NotStarted}
  BY DEF Types, StoresPosition
<1>2. down # <<>> /\ Head(down).kind = "set"
  BY <1>1 DEF Told
<1>3. Head(down).particle \in Particle /\ Head(down).frame \in ClockFrame
  BY <1>2, HeadOfDown, Commands
<1>4. /\ StoredFrame \in Frame
      /\ Path[Head(down).particle][StoredFrame] =
            Path[Head(down).particle][Head(down).frame]
      /\ Head(down).frame = recFrame => StoredFrame = recFrame
  BY <1>1, <1>3, FindRefFinds, ClockFrameIsFrame DEF StoredFrame
<1>5. StoredFrame # NoFrame
  BY <1>4, FramesAssumption DEF Frame, NoFrame
<1>6. Data!Receive(Head(down).particle, StoredFrame, rNow)
  BY <1>5 DEF StoresPosition, StoredFrame
<1> QED
  BY <1>2, <1>3, <1>4, <1>6 DEF StoresPosition

LEMMA ForgetsParticleIs ==
    ASSUME Types, ForgetsParticle
    PROVE  /\ down # <<>> /\ Head(down).kind = "unset"
           /\ Head(down).particle \in Particle
           /\ Data!Forget(Head(down).particle)
           /\ down' = Tail(down)
           /\ UNCHANGED <<sClock, up, server, rClock, rpc, rNow>>
<1>1. down # <<>> /\ Head(down).kind = "unset"
  BY DEF ForgetsParticle, Told
<1>2. Head(down).particle \in Particle
  BY <1>1, HeadOfDown, Commands
<1> QED
  BY <1>1, <1>2 DEF ForgetsParticle

LEMMA StoresFrameIs ==
    ASSUME Types, StoresFrame
    PROVE  /\ down # <<>> /\ Head(down).kind = "frame"
           /\ Head(down).frame \in ClockFrame
           /\ recFrame' = Head(down).frame /\ UNCHANGED <<span, hist>>
           /\ down' = Tail(down) /\ rpc' = "wait"
           /\ UNCHANGED <<sClock, up, server, rClock, rNow>>
<1>1. Told("frame")
  BY DEF Types, StoresFrame
<1>2. down # <<>> /\ Head(down).kind = "frame"
  BY <1>1 DEF Told
<1>3. Head(down).frame \in ClockFrame
  BY <1>2, HeadOfDown, Commands
<1> QED
  BY <1>2, <1>3 DEF StoresFrame, Data!FrameNumber

(* Every step that the receiver's data can see is one of theirs.           *)
LEMMA StepOfData == Types /\ [Next]_vars => [Data!Next]_(Data!vars)
<1> SUFFICES ASSUME Types, [Next]_vars PROVE [Data!Next]_(Data!vars)
  OBVIOUS
<1>1. CASE UNCHANGED data
  BY <1>1 DEF data, Data!vars
<1>2. CASE StoresFrame
  BY <1>2, StoresFrameIs, SameFrames DEF Data!Next, Data!FrameNumber
<1>3. CASE StoresPosition
  <2>1. /\ Head(down).particle \in Particle /\ StoredFrame \in Data!Frame
        /\ rNow \in Data!ClockFrame \cup {Data!NotStarted}
        /\ Data!Receive(Head(down).particle, StoredFrame, rNow)
    BY <1>3, StoresPositionIs, SameFrames DEF Types
  <2> QED
    BY <2>1 DEF Data!Next
<1>4. CASE ForgetsParticle
  BY <1>4, ForgetsParticleIs DEF Data!Next
<1>5. CASE SenderTicks \/ SenderSends \/ Serves \/ SubscribesTag \/ SubscribesLayer
  BY <1>1, <1>5
  DEF SenderTicks, SenderSends, Serves, SubscribesTag, SubscribesLayer
<1>6. CASE ReceiverTicks \/ StartsClock \/ ReadsClock
  BY <1>1, <1>6 DEF ReceiverTicks, StartsClock, ReadsClock
<1>7. CASE UNCHANGED vars
  BY <1>1, <1>7 DEF vars
<1> QED
  BY <1>2, <1>3, <1>4, <1>5, <1>6, <1>7 DEF Next

LEMMA ReceivedStep == Types /\ Received /\ [Next]_vars => Received'
  BY StepOfData, ReceivedNext

-----------------------------------------------------------------------------
(* What a batch is.                                                        *)

IsForEach(q, T, F) == q = [i \in DOMAIN SetToSeq(T) |-> F[SetToSeq(T)[i]]]

LEMMA ForEachIs ==
    ASSUME NEW q, NEW T, NEW F, IsForEach(q, T, F),
           T \in SUBSET Particle, F \in [T -> Command]
    PROVE  /\ q \in Seq(Command)
           /\ \A i \in 1 .. Len(q) : \E p \in T : q[i] = F[p]
           /\ \A p \in T : \E i \in 1 .. Len(q) : q[i] = F[p]
<1> DEFINE s == SetToSeq(T)
<1>1. s \in Seq(T) /\ \A p \in T : \E i \in 1 .. Len(s) : s[i] = p
  BY InSomeOrder
<1>2. q = [i \in DOMAIN s |-> F[s[i]]]
  BY DEF IsForEach
<1> HIDE DEF s
<1>3. /\ Len(s) \in Nat /\ DOMAIN s = 1 .. Len(s)
      /\ \A i \in 1 .. Len(s) : s[i] \in T
  BY <1>1
<1>4. \A i \in 1 .. Len(s) : F[s[i]] \in Command /\ q[i] = F[s[i]]
  BY <1>2, <1>3
<1>5. q \in Seq(Command) /\ Len(q) = Len(s)
  BY <1>2, <1>3, <1>4
<1>6. \A i \in 1 .. Len(q) : \E p \in T : q[i] = F[p]
  BY <1>3, <1>4, <1>5
<1>7. ASSUME NEW p \in T PROVE \E i \in 1 .. Len(q) : q[i] = F[p]
  <2>1. PICK i \in 1 .. Len(s) : s[i] = p
    BY <1>1
  <2>2. i \in 1 .. Len(q) /\ q[i] = F[p]
    BY <1>4, <1>5, <2>1
  <2> QED
    BY <2>2
<1> QED
  BY <1>5, <1>6, <1>7

LEMMA BatchIs ==
    ASSUME Types, sFrame # NotStarted
    PROVE  /\ Batch \in Seq(Command) /\ Len(Batch) \in Nat \ {0}
           /\ Batch[1] = FrameCmd(sFrame)
           /\ \A i \in 2 .. Len(Batch) :
                 /\ Batch[i].kind \in {"set", "unset"}
                 /\ Batch[i].kind = "set" => Batch[i].frame = sFrame
                 /\ Batch[i].kind = "unset" => sFrame = 0
           /\ \A p \in Particle : Flies(p, sFrame) =>
                 \E i \in 2 .. Len(Batch) : Batch[i] = SetCmd(p, sFrame)
<1> DEFINE Set(p) == SetCmd(p, sFrame)
           Flying == {p \in Particle : StateAt(Path[p], sFrame) = Active}
           first == <<FrameCmd(sFrame)>>
           values == ForEach(Set, Flying)
           rest == IF ~below /\ sFrame = 0 THEN ForEach(UnsetCmd, Particle)
                   ELSE <<>>
<1>1. sFrame \in ClockFrame
  BY DEF Types
<1>2. first \in Seq(Command) /\ Len(first) = 1 /\ first[1] = FrameCmd(sFrame)
  BY <1>1, MadeCommands
<1>3. /\ values \in Seq(Command)
      /\ \A i \in 1 .. Len(values) : \E p \in Flying : values[i] = Set(p)
      /\ \A p \in Flying : \E i \in 1 .. Len(values) : values[i] = Set(p)
  <2> DEFINE F == [p \in Flying |-> Set(p)]
  <2>1. \A p \in Flying : Set(p) \in Command
    BY <1>1, MadeCommands
  <2>2. values = [i \in DOMAIN SetToSeq(Flying) |-> Set(SetToSeq(Flying)[i])]
    BY DEF ForEach
  <2>3. Flying \in SUBSET Particle
    OBVIOUS
  <2> HIDE DEF Set, Flying, values
  <2>4. \A i \in DOMAIN SetToSeq(Flying) : SetToSeq(Flying)[i] \in Flying
    BY <2>3, InSomeOrder
  <2>5. IsForEach(values, Flying, F)
    BY <2>2, <2>4 DEF IsForEach
  <2>6. F \in [Flying -> Command]
    BY <2>1
  <2>7. \A p \in Flying : F[p] = Set(p)
    OBVIOUS
  <2> HIDE DEF F
  <2>8. /\ values \in Seq(Command)
        /\ \A i \in 1 .. Len(values) : \E p \in Flying : values[i] = F[p]
        /\ \A p \in Flying : \E i \in 1 .. Len(values) : values[i] = F[p]
    BY <2>3, <2>5, <2>6, ForEachIs
  <2> QED
    BY <2>7, <2>8
<1>4. /\ rest \in Seq(Command)
      /\ \A i \in 1 .. Len(rest) : sFrame = 0 /\ \E p \in Particle : rest[i] = UnsetCmd(p)
  <2>1. CASE ~below /\ sFrame = 0
    <3> DEFINE F == [p \in Particle |-> UnsetCmd(p)]
    <3>1. F \in [Particle -> Command] /\ \A p \in Particle : F[p] = UnsetCmd(p)
      BY MadeCommands
    <3>2. \A i \in DOMAIN SetToSeq(Particle) : SetToSeq(Particle)[i] \in Particle
      BY InSomeOrder
    <3>3. rest = [i \in DOMAIN SetToSeq(Particle) |-> UnsetCmd(SetToSeq(Particle)[i])]
      BY <2>1 DEF ForEach
    <3> HIDE DEF F, rest
    <3>4. IsForEach(rest, Particle, F)
      BY <3>1, <3>2, <3>3 DEF IsForEach
    <3>5. /\ rest \in Seq(Command)
          /\ \A i \in 1 .. Len(rest) : \E p \in Particle : rest[i] = F[p]
      BY <3>1, <3>4, ForEachIs
    <3> QED
      BY <2>1, <3>1, <3>5
  <2>2. CASE ~(~below /\ sFrame = 0)
    <3>1. rest = <<>>
      BY <2>2
    <3> HIDE DEF rest
    <3> QED
      BY <3>1
  <2> QED
    BY <2>1, <2>2
<1>5. Batch = (first \o values) \o rest
  BY DEF Batch
<1> HIDE DEF first, values, rest, Flying, Set
<1>6. /\ first \o values \in Seq(Command) /\ Len(values) \in Nat
      /\ Len(first \o values) = 1 + Len(values)
      /\ (first \o values)[1] = FrameCmd(sFrame)
      /\ \A i \in 2 .. 1 + Len(values) : (first \o values)[i] = values[i - 1]
  <2>1. /\ first \o values \in Seq(Command) /\ Len(values) \in Nat
        /\ Len(first \o values) = Len(first) + Len(values)
        /\ \A i \in 1 .. Len(first) : (first \o values)[i] = first[i]
        /\ \A i \in Len(first) + 1 .. Len(first) + Len(values) :
              (first \o values)[i] = values[i - Len(first)]
    BY <1>2, <1>3, QueueConcat
  <2> QED
    BY <1>2, <2>1
<1>7. /\ Batch \in Seq(Command) /\ Len(rest) \in Nat
      /\ Len(Batch) = 1 + Len(values) + Len(rest)
      /\ Batch[1] = FrameCmd(sFrame)
      /\ \A i \in 2 .. 1 + Len(values) : Batch[i] = values[i - 1]
      /\ \A i \in 2 + Len(values) .. Len(Batch) :
            Batch[i] = rest[i - (1 + Len(values))]
  <2> DEFINE q == first \o values
  <2>1. /\ q \o rest \in Seq(Command) /\ Len(rest) \in Nat
        /\ Len(q \o rest) = Len(q) + Len(rest)
        /\ \A i \in 1 .. Len(q) : (q \o rest)[i] = q[i]
        /\ \A i \in Len(q) + 1 .. Len(q) + Len(rest) :
              (q \o rest)[i] = rest[i - Len(q)]
    BY <1>4, <1>6, QueueConcat
  <2> HIDE DEF q
  <2>2. /\ Len(q) = 1 + Len(values) /\ q[1] = FrameCmd(sFrame)
        /\ \A i \in 2 .. 1 + Len(values) : q[i] = values[i - 1]
        /\ Batch = q \o rest
    BY <1>5, <1>6 DEF q
  <2> QED
    BY <1>6, <2>1, <2>2
<1>8. ASSUME NEW i \in 2 .. Len(Batch)
      PROVE  /\ Batch[i].kind \in {"set", "unset"}
             /\ Batch[i].kind = "set" => Batch[i].frame = sFrame
             /\ Batch[i].kind = "unset" => sFrame = 0
  <2>1. CASE i \in 2 .. 1 + Len(values)
    <3>1. i - 1 \in 1 .. Len(values) /\ Batch[i] = values[i - 1]
      BY <1>6, <1>7, <2>1
    <3>2. PICK p \in Flying : Batch[i] = Set(p)
      BY <1>3, <3>1
    <3> QED
      BY <3>2 DEF Set, SetCmd
  <2>2. CASE i \in 2 + Len(values) .. Len(Batch)
    <3>1. i - (1 + Len(values)) \in 1 .. Len(rest)
      BY <1>6, <1>7, <2>2
    <3>2. sFrame = 0 /\ \E p \in Particle : Batch[i] = UnsetCmd(p)
      BY <1>4, <1>7, <2>2, <3>1
    <3> QED
      BY <3>2 DEF UnsetCmd
  <2> QED
    BY <1>6, <1>7, <2>1, <2>2
<1>9. ASSUME NEW p \in Particle, Flies(p, sFrame)
      PROVE  \E i \in 2 .. Len(Batch) : Batch[i] = SetCmd(p, sFrame)
  <2>1. p \in Flying
    BY <1>9 DEF Flying, Flies
  <2>2. PICK i \in 1 .. Len(values) : values[i] = Set(p)
    BY <1>3, <2>1
  <2>3. i + 1 \in 2 .. 1 + Len(values) /\ i + 1 \in 2 .. Len(Batch)
    BY <1>6, <1>7
  <2>4. (i + 1) - 1 = i
    OBVIOUS
  <2>5. Batch[i + 1] = Set(p)
    BY <1>7, <2>2, <2>3, <2>4
  <2> QED
    BY <2>3, <2>5 DEF Set
<1>10. /\ Batch \in Seq(Command) /\ Len(Batch) \in Nat \ {0}
       /\ Batch[1] = FrameCmd(sFrame)
  BY <1>6, <1>7
<1> QED
  BY <1>8, <1>9, <1>10

-----------------------------------------------------------------------------
(* The receiver handles the first command.                                 *)

LEMMA HandlesInOrder ==
    ASSUME Types, PassedOnInOrder, FrameArrives,
           down # <<>>, down' = Tail(down), UNCHANGED <<tag, sub>>,
           recFrame' = IF Head(down) \in FrameCmds THEN Head(down).frame ELSE recFrame
    PROVE  PassedOnInOrder' /\ FrameArrives'
<1>1. /\ down \in Seq(Command) /\ Len(down) \in Nat \ {0}
      /\ Len(down') = Len(down) - 1
      /\ \A i \in 1 .. Len(down) - 1 : down'[i] = down[i + 1]
  <2>1. down \in Seq(Command)
    BY DEF Types
  <2> QED
    BY <2>1, QueueTail
<1>2. ASSUME NEW i \in 1 .. Len(down), NEW v, FrameWhen(down, i + 1, recFrame, v)
      PROVE  FrameWhen(down', i, recFrame', v)
  BY <1>1, <1>2, FrameWhenTail
<1>3. PassedOnInOrder'
  <2> SUFFICES ASSUME NEW i \in DOMAIN down', down'[i].kind = "set", ~down'[i].kept
               PROVE  FrameWhen(down', i, recFrame', down'[i].frame)
    BY DEF PassedOnInOrder
  <2>1. /\ i \in 1 .. Len(down) /\ i + 1 \in DOMAIN down
        /\ down'[i] = down[i + 1]
    BY <1>1
  <2>2. FrameWhen(down, i + 1, recFrame, down[i + 1].frame)
    BY <2>1 DEF PassedOnInOrder
  <2> QED
    BY <1>2, <2>1, <2>2
<1>4. FrameArrives'
  <2> SUFFICES ASSUME sub' # "none"
               PROVE  FrameWhen(down', Len(down') + 1, recFrame', tag')
    BY DEF FrameArrives
  <2>1. FrameWhen(down, Len(down) + 1, recFrame, tag)
    BY DEF FrameArrives
  <2>2. Len(down') + 1 = Len(down) /\ Len(down) \in 1 .. Len(down)
    BY <1>1
  <2> QED
    BY <1>2, <2>1, <2>2
<1> QED
  BY <1>3, <1>4

LEMMA HandlesPositions ==
    ASSUME Types, PositionsArrive,
           down # <<>>, down' = Tail(down), UNCHANGED <<layer, sub>>,
           sub = "layer" => \A p \in Particle :
              IF Head(down) \in About(p)
              THEN Agrees(span'[p], p, Value(Head(down)))
              ELSE span'[p] = span[p]
    PROVE  PositionsArrive'
<1> SUFFICES ASSUME sub = "layer", NEW p \in Particle
             PROVE  /\ LastBefore(down', Len(down') + 1, About(p), layer[p])
                    /\ NoneBefore(down', Len(down') + 1, About(p)) =>
                          Agrees(span'[p], p, layer[p])
  BY DEF PositionsArrive
<1>1. /\ down \in Seq(Command) /\ Len(down) \in 1 .. Len(down)
      /\ Len(down') + 1 = Len(down)
  <2>1. down \in Seq(Command)
    BY DEF Types
  <2>2. Len(down) \in Nat \ {0} /\ Len(down') = Len(down) - 1
    BY <2>1, QueueTail
  <2> QED
    BY <2>1, <2>2
<1>2. /\ LastBefore(down, Len(down) + 1, About(p), layer[p])
      /\ NoneBefore(down, Len(down) + 1, About(p)) => Agrees(span[p], p, layer[p])
  BY DEF PositionsArrive
<1>3. /\ LastBefore(Tail(down), Len(down), About(p), layer[p])
      /\ NoneBefore(Tail(down), Len(down), About(p)) =>
            IF Head(down) \in About(p) THEN Value(Head(down)) = layer[p]
            ELSE NoneBefore(down, Len(down) + 1, About(p))
  BY <1>1, <1>2, BeforeTail
<1> QED
  BY <1>1, <1>2, <1>3

LEMMA HandlesUpToDate ==
    ASSUME Types, PositionsArrive, UpToDate,
           down # <<>>, down' = Tail(down), UNCHANGED <<up, tag, layer, sub>>,
           recFrame' = IF Head(down) \in FrameCmds THEN Head(down).frame ELSE recFrame,
           sub = "layer" => \A p \in Particle :
              IF Head(down) \in About(p)
              THEN Value(Head(down)) = recFrame /\ recFrame # NotStarted =>
                      span'[p].last >= recFrame
              ELSE span'[p] = span[p]
    PROVE  UpToDate'
<1> SUFFICES ASSUME NEW p \in Particle, tag # NotStarted, Flies(p, tag), ~StillComes(p)
             PROVE  HasCome(p)'
  BY DEF UpToDate, StillComes, Flies
<1>1. HasCome(p)
  BY DEF UpToDate
<1>2. /\ down \in Seq(Command) /\ Len(down) \in Nat \ {0}
      /\ Len(down') = Len(down) - 1 /\ Head(down) = down[1]
      /\ \A i \in 1 .. Len(down) - 1 : down'[i] = down[i + 1]
      /\ DOMAIN down = 1 .. Len(down) /\ DOMAIN down' = 1 .. Len(down')
  <2>1. down \in Seq(Command)
    BY DEF Types
  <2> QED
    BY <2>1, QueueTail
<1>3. ASSUME sub = "layer", NEW j \in DOMAIN down', down'[j] \in About(p),
             \A k \in j + 1 .. Len(down') : down'[k] \notin About(p)
      PROVE  FrameWhen(down', j, recFrame', tag)
  <2>1. j + 1 \in DOMAIN down /\ down[j + 1] = down'[j] /\ j \in 1 .. Len(down)
    BY <1>2
  <2>2. ASSUME NEW k \in (j + 1) + 1 .. Len(down) PROVE down[k] \notin About(p)
    <3>1. k - 1 \in j + 1 .. Len(down') /\ down'[k - 1] = down[k]
      BY <1>2, <2>1
    <3> QED
      BY <1>3, <3>1
  <2>3. FrameWhen(down, j + 1, recFrame, tag)
    BY <1>1, <1>3, <2>1, <2>2 DEF HasCome
  <2> QED
    BY <1>2, <2>1, <2>3, FrameWhenTail
<1>4. ASSUME sub = "layer", NoneBefore(down', Len(down') + 1, About(p))
      PROVE  span'[p].last >= tag
  <2>1. /\ Len(down) \in 1 .. Len(down) /\ Len(down') + 1 = Len(down)
        /\ LastBefore(down, Len(down) + 1, About(p), layer[p])
    BY <1>2, <1>4 DEF PositionsArrive
  <2>2. IF Head(down) \in About(p) THEN Value(Head(down)) = layer[p]
        ELSE NoneBefore(down, Len(down) + 1, About(p))
    BY <1>2, <1>4, <2>1, BeforeTail
  <2>3. CASE Head(down) \notin About(p)
    BY <1>1, <1>4, <2>2, <2>3 DEF HasCome
  <2>4. CASE Head(down) \in About(p)
    <3>1. 1 \in DOMAIN down /\ down[1] \in About(p)
      BY <1>2, <2>4
    <3>2. ASSUME NEW k \in 1 + 1 .. Len(down) PROVE down[k] \notin About(p)
      <4>1. k - 1 \in 1 .. (Len(down') + 1) - 1 /\ down'[k - 1] = down[k]
        BY <1>2
      <4> QED
        BY <1>4, <4>1 DEF NoneBefore
    <3>3. FrameWhen(down, 1, recFrame, tag)
      BY <1>1, <1>4, <3>1, <3>2 DEF HasCome
    <3>4. recFrame = tag
      BY <3>3, FrameWhenFirst
    <3> QED
      BY <1>1, <1>4, <2>2, <2>4, <3>4 DEF HasCome
  <2> QED
    BY <2>3, <2>4
<1> QED
  BY <1>1, <1>3, <1>4 DEF HasCome

(* The parts of the invariant that the types leave.                        *)
Rest == /\ SentInOrder /\ BatchesWhole
        /\ PassedOnInOrder /\ FrameArrives /\ PositionsArrive /\ NotSubscribed
        /\ UpToDate

LEMMA RestUnchanged ==
    ASSUME Rest, UNCHANGED <<up, down, tag, layer, sub, recFrame, span>>
    PROVE  Rest'
<1>1. SentInOrder' /\ BatchesWhole'
  BY DEF Rest, SentInOrder, BatchesWhole
<1>2. PassedOnInOrder' /\ FrameArrives'
  BY DEF Rest, PassedOnInOrder, FrameArrives
<1>3. PositionsArrive' /\ NotSubscribed'
  BY DEF Rest, PositionsArrive, NotSubscribed
<1>4. UpToDate'
  BY DEF Rest, UpToDate, StillComes, HasCome
<1> QED
  BY <1>1, <1>2, <1>3, <1>4 DEF Rest

LEMMA HandlesSent ==
    ASSUME Rest, UNCHANGED <<up, tag>>
    PROVE  SentInOrder' /\ BatchesWhole'
  BY DEF Rest, SentInOrder, BatchesWhole

LEMMA TailOfFrames ==
    ASSUME Types, NotSubscribed, down # <<>>, down' = Tail(down), sub # "layer"
    PROVE  /\ Head(down) \in FrameCmds /\ sub # "none"
           /\ \A i \in DOMAIN down' : down'[i] \in FrameCmds
<1>1. down \in Seq(Command)
  BY DEF Types
<1>2. /\ Len(down) \in Nat \ {0} /\ Len(down') = Len(down) - 1
      /\ \A i \in 1 .. Len(down) - 1 : down'[i] = down[i + 1]
      /\ Head(down) = down[1] /\ DOMAIN down' = 1 .. Len(down')
      /\ DOMAIN down = 1 .. Len(down)
  BY <1>1, QueueTail
<1> QED
  BY <1>2 DEF NotSubscribed

LEMMA FrameStep == Types /\ Rest /\ StoresFrame => Rest'
<1> SUFFICES ASSUME Types, Rest, StoresFrame PROVE Rest'
  OBVIOUS
<1>1. /\ down # <<>> /\ Head(down).kind = "frame"
      /\ recFrame' = Head(down).frame /\ UNCHANGED span
      /\ down' = Tail(down) /\ UNCHANGED <<up, tag, layer, sub>>
  BY StoresFrameIs DEF server
<1>2. /\ Head(down) \in FrameCmds
      /\ \A p \in Particle : Head(down) \notin About(p)
  BY <1>1, HeadOfDown, Commands
<1>3. SentInOrder' /\ BatchesWhole'
  BY <1>1, HandlesSent
<1>4. PassedOnInOrder' /\ FrameArrives'
  BY <1>1, <1>2, HandlesInOrder DEF Rest
<1>5. PositionsArrive' /\ UpToDate'
  BY <1>1, <1>2, HandlesPositions, HandlesUpToDate DEF Rest
<1>6. NotSubscribed'
  BY <1>1, TailOfFrames DEF Rest, NotSubscribed
<1> QED
  BY <1>3, <1>4, <1>5, <1>6 DEF Rest

(* A position that is stored is the latest of its particle, and its state  *)
(* is in the particle's span.                                              *)
LEMMA ReceiveIs ==
    ASSUME Received, NEW p \in Particle, NEW f \in Frame, NEW now,
           Data!Receive(p, f, now)
    PROVE  /\ span'[p].current = f /\ span'[p].last \in Int /\ span'[p].last >= f
           /\ span'[p] # Data!Nothing
           /\ \A q \in Particle : q # p => span'[q] = span[q]
<1>1. /\ span' = [span EXCEPT ![p] = Data!Widened(span[p], f)]
      /\ DOMAIN span = Particle
  BY DEF Data!Receive, Received
<1>2. /\ span'[p] = Data!Widened(span[p], f)
      /\ \A q \in Particle : q # p => span'[q] = span[q]
  BY <1>1
<1>3. f \in Int /\ f # NoFrame
  BY FramesAssumption DEF Frame, NoFrame
<1>4. span[p] = Data!Nothing \/ span[p].last \in Int
  BY FramesAssumption DEF Received, Pointed, Frame
<1>5. span'[p].current = f /\ span'[p].last \in Int /\ span'[p].last >= f
  BY <1>2, <1>3, <1>4 DEF Data!Widened, Data!Span
<1>6. Data!Nothing.current = NoFrame
  BY SameFrames DEF Data!Nothing, Data!Span
<1> QED
  BY <1>2, <1>3, <1>5, <1>6

LEMMA PositionStep == Types /\ Received /\ Rest /\ StoresPosition => Rest'
<1> SUFFICES ASSUME Types, Received, Rest, StoresPosition PROVE Rest'
  OBVIOUS
<1> DEFINE c == Head(down)
<1>1. /\ down # <<>> /\ c.kind = "set"
      /\ c.particle \in Particle /\ c.frame \in ClockFrame
      /\ StoredFrame \in Frame
      /\ Path[c.particle][StoredFrame] = Path[c.particle][c.frame]
      /\ c.frame = recFrame => StoredFrame = recFrame
      /\ Data!Receive(c.particle, StoredFrame, rNow)
      /\ down' = Tail(down) /\ UNCHANGED <<up, tag, layer, sub>>
  BY StoresPositionIs DEF server
<1>2. UNCHANGED recFrame
  BY <1>1 DEF Data!Receive
<1>3. /\ c \notin FrameCmds
      /\ \A p \in Particle : c \in About(p) <=> p = c.particle
      /\ Value(c) = c.frame /\ Value(c) # NoFrame
  <2>1. c.frame # NoFrame
    BY <1>1, FramesAssumption DEF ClockFrame, NoFrame
  <2> QED
    BY <1>1, <2>1, HeadOfDown, Commands DEF Value
<1>4. /\ span'[c.particle].current = StoredFrame
      /\ span'[c.particle].last >= StoredFrame
      /\ span'[c.particle] # Data!Nothing
      /\ \A q \in Particle : q # c.particle => span'[q] = span[q]
  BY <1>1, ReceiveIs
<1>5. sub = "layer"
  BY <1>1, <1>3, TailOfFrames DEF Rest
<1>6. SentInOrder' /\ BatchesWhole'
  BY <1>1, HandlesSent
<1>7. PassedOnInOrder' /\ FrameArrives'
  BY <1>1, <1>2, <1>3, HandlesInOrder DEF Rest
<1>8. Agrees(span'[c.particle], c.particle, Value(c))
  BY <1>1, <1>3, <1>4 DEF Agrees
<1>9. PositionsArrive'
  <2>1. \A p \in Particle : IF c \in About(p) THEN Agrees(span'[p], p, Value(c))
                            ELSE span'[p] = span[p]
    BY <1>3, <1>4, <1>8
  <2> QED
    BY <1>1, <2>1, HandlesPositions DEF Rest
<1>10. UpToDate'
  <2>1. \A p \in Particle : IF c \in About(p)
                            THEN Value(c) = recFrame /\ recFrame # NotStarted =>
                                    span'[p].last >= recFrame
                            ELSE span'[p] = span[p]
    BY <1>1, <1>3, <1>4
  <2> QED
    BY <1>1, <1>2, <1>3, <2>1, HandlesUpToDate DEF Rest
<1>11. NotSubscribed'
  BY <1>1, <1>5 DEF NotSubscribed
<1> QED
  BY <1>6, <1>7, <1>9, <1>10, <1>11 DEF Rest

LEMMA ForgetStep == Types /\ Received /\ Rest /\ ForgetsParticle => Rest'
<1> SUFFICES ASSUME Types, Received, Rest, ForgetsParticle PROVE Rest'
  OBVIOUS
<1> DEFINE c == Head(down)
<1>1. /\ down # <<>> /\ c.kind = "unset" /\ c.particle \in Particle
      /\ Data!Forget(c.particle)
      /\ down' = Tail(down) /\ UNCHANGED <<up, tag, layer, sub>>
  BY ForgetsParticleIs DEF server
<1>2. UNCHANGED recFrame /\ span' = [span EXCEPT ![c.particle] = Data!Nothing]
  BY <1>1 DEF Data!Forget
<1>3. /\ c \notin FrameCmds
      /\ \A p \in Particle : c \in About(p) <=> p = c.particle
      /\ Value(c) = NoFrame
  BY <1>1, HeadOfDown, Commands DEF Value
<1>4. /\ span'[c.particle] = Data!Nothing
      /\ \A q \in Particle : q # c.particle => span'[q] = span[q]
  BY <1>1, <1>2 DEF Received
<1>5. sub = "layer"
  BY <1>1, <1>3, TailOfFrames DEF Rest
<1>6. SentInOrder' /\ BatchesWhole'
  BY <1>1, HandlesSent
<1>7. PassedOnInOrder' /\ FrameArrives'
  BY <1>1, <1>2, <1>3, HandlesInOrder DEF Rest
<1>8. Agrees(span'[c.particle], c.particle, Value(c))
  BY <1>3, <1>4 DEF Agrees
<1>9. PositionsArrive'
  <2>1. \A p \in Particle : IF c \in About(p) THEN Agrees(span'[p], p, Value(c))
                            ELSE span'[p] = span[p]
    BY <1>3, <1>4, <1>8
  <2> QED
    BY <1>1, <2>1, HandlesPositions DEF Rest
<1>10. UpToDate'
  <2>1. \A p \in Particle : IF c \in About(p)
                            THEN Value(c) = recFrame /\ recFrame # NotStarted =>
                                    span'[p].last >= recFrame
                            ELSE span'[p] = span[p]
    BY <1>3, <1>4 DEF NoFrame, NotStarted
  <2> QED
    BY <1>1, <1>2, <1>3, <2>1, HandlesUpToDate DEF Rest
<1>11. NotSubscribed'
  BY <1>1, <1>5 DEF NotSubscribed
<1> QED
  BY <1>6, <1>7, <1>9, <1>10, <1>11 DEF Rest

-----------------------------------------------------------------------------
(* The server takes the first command.                                     *)

LEMMA HeadOfUp ==
    ASSUME Types, Rest, up # <<>>
    PROVE  /\ Head(up) \in Command /\ up \in Seq(Command)
           /\ Head(up) = up[1] /\ Len(up) \in Nat \ {0}
           /\ Len(Tail(up)) = Len(up) - 1
           /\ \A i \in 1 .. Len(up) - 1 : Tail(up)[i] = up[i + 1]
           /\ Head(up).kind = "set" => Head(up).frame = tag
           /\ Head(up).kind = "unset" => tag = 0
<1>1. up \in Seq(Command)
  BY DEF Types
<1>2. /\ Head(up) = up[1] /\ up[1] \in Command /\ Len(up) \in Nat \ {0}
      /\ Len(Tail(up)) = Len(up) - 1
      /\ \A i \in 1 .. Len(up) - 1 : Tail(up)[i] = up[i + 1]
  BY <1>1, QueueTail
<1>3. ASSUME up[1] \notin FrameCmds
      PROVE  tag = IF up[1].kind = "set" THEN up[1].frame ELSE 0
  <2>1. 1 \in DOMAIN up
    BY <1>1, <1>2
  <2>2. FrameWhen(up, 1, tag, IF up[1].kind = "set" THEN up[1].frame ELSE 0)
    BY <1>3, <2>1 DEF Rest, SentInOrder
  <2> QED
    BY <2>2, FrameWhenFirst
<1>4. up[1].kind # "frame" => up[1] \notin FrameCmds
  BY <1>2, Commands
<1> QED
  BY <1>1, <1>2, <1>3, <1>4

LEMMA ServesInOrder ==
    ASSUME Types, Rest, up # <<>>, up' = Tail(up),
           tag' = IF Head(up) \in FrameCmds THEN Head(up).frame ELSE tag
    PROVE  SentInOrder' /\ BatchesWhole'
<1>1. /\ up \in Seq(Command) /\ Len(up) \in Nat \ {0}
      /\ Len(up') = Len(up) - 1
      /\ \A i \in 1 .. Len(up) - 1 : up'[i] = up[i + 1]
      /\ DOMAIN up' = 1 .. Len(up') /\ DOMAIN up = 1 .. Len(up)
  BY HeadOfUp
<1>2. SentInOrder'
  <2> SUFFICES ASSUME NEW i \in DOMAIN up', up'[i] \notin FrameCmds
               PROVE  FrameWhen(up', i, tag',
                                IF up'[i].kind = "set" THEN up'[i].frame ELSE 0)
    BY DEF SentInOrder
  <2>1. i \in 1 .. Len(up) /\ i + 1 \in DOMAIN up /\ up'[i] = up[i + 1]
    BY <1>1
  <2>2. FrameWhen(up, i + 1, tag,
                  IF up'[i].kind = "set" THEN up'[i].frame ELSE 0)
    BY <2>1 DEF Rest, SentInOrder
  <2> QED
    BY <1>1, <2>1, <2>2, FrameWhenTail
<1>3. BatchesWhole'
  <2> SUFFICES ASSUME NEW i \in DOMAIN up', NEW p \in Particle,
                      up'[i] \in FrameCmds, Flies(p, up'[i].frame)
               PROVE  \E j \in i + 1 .. Len(up') :
                         /\ up'[j] = SetCmd(p, up'[i].frame)
                         /\ \A k \in i + 1 .. j : up'[k] \notin FrameCmds
    BY DEF BatchesWhole, Flies
  <2>1. i + 1 \in DOMAIN up /\ up'[i] = up[i + 1]
    BY <1>1
  <2>2. PICK j \in (i + 1) + 1 .. Len(up) :
           /\ up[j] = SetCmd(p, up'[i].frame)
           /\ \A k \in (i + 1) + 1 .. j : up[k] \notin FrameCmds
    BY <2>1 DEF Rest, BatchesWhole
  <2>3. j - 1 \in i + 1 .. Len(up') /\ up'[j - 1] = up[j]
    BY <1>1
  <2>4. ASSUME NEW k \in i + 1 .. j - 1 PROVE up'[k] \notin FrameCmds
    <3>1. k + 1 \in (i + 1) + 1 .. j /\ up'[k] = up[k + 1]
      BY <1>1
    <3> QED
      BY <2>2, <3>1
  <2> QED
    BY <2>2, <2>3, <2>4
<1> QED
  BY <1>2, <1>3

(* A frame number brings the positions that it is followed by; they come   *)
(* until the server has taken them.                                        *)
LEMMA ServesStillComes ==
    ASSUME Types, Rest, up # <<>>, up' = Tail(up), NEW p \in Particle,
           tag' = IF Head(up) \in FrameCmds THEN Head(up).frame ELSE tag,
           IF Head(up) \in FrameCmds THEN Flies(p, tag')
           ELSE StillComes(p) /\ Head(up) # SetCmd(p, tag)
    PROVE  StillComes(p)'
<1>1. /\ up \in Seq(Command) /\ Len(up) \in Nat \ {0}
      /\ Len(up') = Len(up) - 1 /\ Head(up) = up[1]
      /\ \A i \in 1 .. Len(up) - 1 : up'[i] = up[i + 1]
      /\ DOMAIN up' = 1 .. Len(up') /\ DOMAIN up = 1 .. Len(up)
  BY HeadOfUp
<1>2. PICK j \in 2 .. Len(up) :
         up[j] = SetCmd(p, tag') /\ \A k \in 2 .. j : up[k] \notin FrameCmds
  <2>1. CASE Head(up) \in FrameCmds
    <3>1. 1 \in DOMAIN up /\ up[1] \in FrameCmds /\ Flies(p, up[1].frame)
      BY <1>1, <2>1
    <3>2. PICK j \in 1 + 1 .. Len(up) :
             /\ up[j] = SetCmd(p, up[1].frame)
             /\ \A k \in 1 + 1 .. j : up[k] \notin FrameCmds
      BY <3>1 DEF Rest, BatchesWhole
    <3> QED
      BY <1>1, <2>1, <3>2
  <2>2. CASE Head(up) \notin FrameCmds
    <3>1. PICK j \in DOMAIN up :
             up[j] = SetCmd(p, tag) /\ \A k \in 1 .. j : up[k] \notin FrameCmds
      BY <2>2 DEF StillComes
    <3>2. j \in 2 .. Len(up)
      BY <1>1, <2>2, <3>1
    <3> QED
      BY <2>2, <3>1, <3>2
  <2> QED
    BY <2>1, <2>2
<1>3. j - 1 \in DOMAIN up' /\ up'[j - 1] = SetCmd(p, tag')
  BY <1>1, <1>2
<1>4. ASSUME NEW k \in 1 .. j - 1 PROVE up'[k] \notin FrameCmds
  <2>1. k + 1 \in 2 .. j /\ up'[k] = up[k + 1]
    BY <1>1
  <2> QED
    BY <1>2, <2>1
<1> QED
  BY <1>3, <1>4 DEF StillComes

LEMMA PassesOn ==
    ASSUME Types, Rest, NEW c \in Command, down' = Append(down, c),
           UNCHANGED recFrame,
           c.kind = "set" /\ ~c.kept => c.frame = tag /\ sub # "none"
    PROVE  /\ PassedOnInOrder'
           /\ \A v : \A i \in 1 .. Len(down) + 1 :
                 FrameWhen(down, i, recFrame, v) => FrameWhen(down', i, recFrame, v)
<1>1. /\ down \in Seq(Command) /\ Len(down) \in Nat
      /\ Len(down') = Len(down) + 1 /\ DOMAIN down' = 1 .. Len(down')
      /\ DOMAIN down = 1 .. Len(down)
      /\ \A i \in 1 .. Len(down) : down'[i] = down[i]
      /\ down'[Len(down) + 1] = c
  <2>1. down \in Seq(Command)
    BY DEF Types
  <2> QED
    BY <2>1, QueueAppend
<1>2. ASSUME NEW i \in 1 .. Len(down) + 1, NEW v, FrameWhen(down, i, recFrame, v)
      PROVE  FrameWhen(down', i, recFrame, v)
  <2>1. down' = down \o <<c>> /\ <<c>> \in Seq(Command)
    BY <1>1, AppendIsConcat
  <2> QED
    BY <1>1, <1>2, <2>1, FrameWhenConcat
<1>3. PassedOnInOrder'
  <2> SUFFICES ASSUME NEW i \in DOMAIN down', down'[i].kind = "set", ~down'[i].kept
               PROVE  FrameWhen(down', i, recFrame, down'[i].frame)
    BY DEF PassedOnInOrder
  <2>1. CASE i \in DOMAIN down
    <3>1. FrameWhen(down, i, recFrame, down'[i].frame) /\ i \in 1 .. Len(down) + 1
      BY <1>1, <2>1 DEF Rest, PassedOnInOrder
    <3> QED
      BY <1>2, <3>1
  <2>2. CASE i = Len(down) + 1
    <3>1. FrameWhen(down, i, recFrame, tag) /\ tag = down'[i].frame
      BY <1>1, <2>2 DEF Rest, FrameArrives
    <3> QED
      BY <1>1, <1>2, <2>2, <3>1
  <2> QED
    BY <1>1, <2>1, <2>2
<1> QED
  BY <1>2, <1>3

LEMMA ServesFrame ==
    ASSUME Types, Rest, up # <<>>, up' = Tail(up), Head(up).kind = "frame",
           tag' = Head(up).frame,
           down' = IF sub = "none" THEN down ELSE Append(down, Head(up)),
           UNCHANGED <<layer, sub, recFrame, span>>
    PROVE  Rest'
<1> DEFINE c == Head(up)
           n == Len(down) + 1
<1>1. c \in Command /\ c \in FrameCmds /\ \A p \in Particle : c \notin About(p)
  BY HeadOfUp, Commands
<1>2. SentInOrder' /\ BatchesWhole'
  BY <1>1, ServesInOrder
<1>3. UpToDate'
  <2> SUFFICES ASSUME NEW p \in Particle, Flies(p, tag') PROVE StillComes(p)'
    BY DEF UpToDate, Flies
  <2> QED
    BY <1>1, ServesStillComes
<1>4. CASE sub = "none"
  BY <1>2, <1>3, <1>4
  DEF Rest, PassedOnInOrder, FrameArrives, PositionsArrive, NotSubscribed
<1>5. CASE sub # "none"
  <2>1. /\ down \in Seq(Command) /\ Len(down) \in Nat
        /\ Len(down') + 1 = n + 1 /\ DOMAIN down' = 1 .. n
        /\ \A i \in 1 .. n - 1 : down'[i] = down[i]
        /\ down'[n] = c
    <3>1. down \in Seq(Command)
      BY DEF Types
    <3> QED
      BY <1>1, <1>5, <3>1, QueueAppend
  <2>2. PassedOnInOrder'
    BY <1>1, <1>5, PassesOn
  <2>3. FrameArrives'
    <3>1. Value(c) = c.frame
      BY DEF Value
    <3>2. /\ LastBefore(down', n + 1, FrameCmds, c.frame)
          /\ ~NoneBefore(down', n + 1, FrameCmds)
      BY <1>1, <1>5, <2>1, <3>1, LastAppended
    <3> QED
      BY <2>1, <3>2 DEF FrameArrives, FrameWhen
  <2>4. PositionsArrive'
    <3> SUFFICES ASSUME sub = "layer", NEW p \in Particle
                 PROVE  /\ LastBefore(down', n + 1, About(p), layer[p])
                        /\ NoneBefore(down', n + 1, About(p)) =>
                              Agrees(span[p], p, layer[p])
      BY <2>1 DEF PositionsArrive
    <3>1. /\ LastBefore(down, n, About(p), layer[p])
          /\ NoneBefore(down, n, About(p)) => Agrees(span[p], p, layer[p])
      BY DEF Rest, PositionsArrive
    <3> QED
      BY <1>1, <1>5, <2>1, <3>1, LastAppended
  <2>5. NotSubscribed'
    <3>1. sub # "layer" => \A i \in DOMAIN down' : down'[i] \in FrameCmds
      BY <1>1, <2>1 DEF Rest, NotSubscribed
    <3> QED
      BY <1>5, <3>1 DEF Rest, NotSubscribed
  <2> QED
    BY <1>2, <1>3, <2>2, <2>3, <2>4, <2>5 DEF Rest
<1> QED
  BY <1>4, <1>5

LEMMA ServesValue ==
    ASSUME Types, Rest, up # <<>>, up' = Tail(up), Head(up).kind # "frame",
           layer' = [layer EXCEPT ![Head(up).particle] =
                        IF Head(up).kind = "set" THEN Head(up).frame ELSE NoFrame],
           down' = IF sub = "layer" THEN Append(down, Head(up)) ELSE down,
           UNCHANGED <<tag, sub, recFrame, span>>
    PROVE  Rest'
<1> DEFINE c == Head(up)
           n == Len(down) + 1
<1>1. /\ c \in Command /\ c \notin FrameCmds
      /\ c.particle \in Particle /\ c.kind \in {"set", "unset"}
      /\ \A p \in Particle : c \in About(p) <=> p = c.particle
      /\ c.kind = "set" => c.frame = tag
      /\ c.kind = "unset" => tag = 0
  BY HeadOfUp, Commands
<1>2. SentInOrder' /\ BatchesWhole'
  BY <1>1, ServesInOrder
<1>3. /\ layer'[c.particle] = Value(c)
      /\ \A p \in Particle : p # c.particle => layer'[p] = layer[p]
  BY <1>1 DEF Types, Value
<1>4. ASSUME NEW p \in Particle, tag # NotStarted, Flies(p, tag), p = c.particle
      PROVE  layer'[p] = tag
  BY <1>1, <1>3, <1>4, NoneFliesAtZero DEF Value
<1>5. ASSUME NEW p \in Particle, StillComes(p), p # c.particle
      PROVE  StillComes(p)'
  <2>1. c # SetCmd(p, tag)
    BY <1>5 DEF SetCmd
  <2> QED
    BY <1>1, <1>5, <2>1, ServesStillComes
<1>6. CASE sub # "layer"
  <2>1. UpToDate'
    <3> SUFFICES ASSUME NEW p \in Particle, tag # NotStarted, Flies(p, tag)
                 PROVE  StillComes(p)' \/ layer'[p] = tag
      BY <1>6 DEF UpToDate, HasCome, Flies
    <3>1. StillComes(p) \/ layer[p] = tag
      BY DEF Rest, UpToDate, HasCome
    <3> QED
      BY <1>3, <1>4, <1>5, <3>1
  <2>2. PassedOnInOrder' /\ FrameArrives'
    BY <1>6 DEF Rest, PassedOnInOrder, FrameArrives
  <2>3. PositionsArrive' /\ NotSubscribed'
    BY <1>6 DEF Rest, PositionsArrive, NotSubscribed
  <2> QED
    BY <1>2, <2>1, <2>2, <2>3 DEF Rest
<1>7. CASE sub = "layer"
  <2>1. /\ down \in Seq(Command) /\ Len(down) \in Nat /\ down' = Append(down, c)
        /\ Len(down') = n /\ DOMAIN down' = 1 .. n /\ DOMAIN down = 1 .. n - 1
        /\ \A i \in 1 .. n - 1 : down'[i] = down[i]
        /\ down'[n] = c
    <3>1. down \in Seq(Command)
      BY DEF Types
    <3> QED
      BY <1>1, <1>7, <3>1, QueueAppend
  <2>2. /\ PassedOnInOrder'
        /\ \A v : \A i \in 1 .. n :
              FrameWhen(down, i, recFrame, v) => FrameWhen(down', i, recFrame, v)
    BY <1>1, <1>7, <2>1, PassesOn
  <2>3. FrameWhen(down, n, recFrame, tag)
    BY <1>7 DEF Rest, FrameArrives
  <2>4. FrameArrives'
    <3>1. FrameWhen(down', n + 1, recFrame, tag)
      BY <1>1, <2>1, <2>3, LastAppended DEF FrameWhen
    <3> QED
      BY <2>1, <3>1 DEF FrameArrives
  <2>5. PositionsArrive'
    <3> SUFFICES ASSUME NEW p \in Particle
                 PROVE  /\ LastBefore(down', n + 1, About(p), layer'[p])
                        /\ NoneBefore(down', n + 1, About(p)) =>
                              Agrees(span[p], p, layer'[p])
      BY <2>1 DEF PositionsArrive
    <3>1. /\ LastBefore(down, n, About(p), layer[p])
          /\ NoneBefore(down, n, About(p)) => Agrees(span[p], p, layer[p])
      BY <1>7 DEF Rest, PositionsArrive
    <3>2. CASE p = c.particle
      BY <1>1, <1>3, <2>1, <3>2, LastAppended
    <3>3. CASE p # c.particle
      BY <1>1, <1>3, <2>1, <3>1, <3>3, LastAppended
    <3> QED
      BY <3>2, <3>3
  <2>6. UpToDate'
    <3> SUFFICES ASSUME NEW p \in Particle, tag # NotStarted, Flies(p, tag),
                        ~StillComes(p)'
                 PROVE  HasCome(p)'
      BY DEF UpToDate, Flies
    <3>1. CASE p = c.particle
      <4>1. layer'[p] = tag
        BY <1>4, <3>1
      <4>2. ASSUME NEW j \in DOMAIN down',
                   \A k \in j + 1 .. Len(down') : down'[k] \notin About(p)
            PROVE  FrameWhen(down', j, recFrame, tag)
        <5>1. n \notin j + 1 .. Len(down')
          BY <1>1, <2>1, <3>1, <4>2
        <5>2. j = n
          BY <2>1, <5>1
        <5> QED
          BY <2>1, <2>2, <2>3, <5>2
      <4>3. ~NoneBefore(down', Len(down') + 1, About(p))
        BY <1>1, <2>1, <3>1, LastAppended
      <4> QED
        BY <4>1, <4>2, <4>3 DEF HasCome
    <3>2. CASE p # c.particle
      <4>1. HasCome(p) /\ layer'[p] = tag
        BY <1>3, <1>5, <3>2 DEF Rest, UpToDate, HasCome
      <4>2. ASSUME NEW j \in DOMAIN down', down'[j] \in About(p),
                   \A k \in j + 1 .. Len(down') : down'[k] \notin About(p)
            PROVE  FrameWhen(down', j, recFrame, tag)
        <5>1. j \in DOMAIN down /\ j \in 1 .. n /\ down[j] \in About(p)
          BY <1>1, <2>1, <3>2, <4>2
        <5>2. \A k \in j + 1 .. Len(down) : down[k] \notin About(p)
          BY <2>1, <4>2, <5>1
        <5>3. FrameWhen(down, j, recFrame, tag)
          BY <1>7, <4>1, <5>1, <5>2 DEF HasCome
        <5> QED
          BY <2>2, <5>1, <5>3
      <4>3. NoneBefore(down', Len(down') + 1, About(p)) =>
               NoneBefore(down, Len(down) + 1, About(p))
        BY <1>1, <2>1, <3>2, LastAppended
      <4> QED
        BY <1>7, <4>1, <4>2, <4>3 DEF HasCome
    <3> QED
      BY <3>1, <3>2
  <2>7. NotSubscribed'
    BY <1>7 DEF NotSubscribed
  <2> QED
    BY <1>2, <2>2, <2>4, <2>5, <2>6, <2>7 DEF Rest
<1> QED
  BY <1>6, <1>7

LEMMA ServesStep == Types /\ Rest /\ Serves => Rest'
<1> SUFFICES ASSUME Types, Rest, Serves PROVE Rest'
  OBVIOUS
<1>1. up # <<>> /\ up' = Tail(up) /\ UNCHANGED <<sub, recFrame, span>>
  BY DEF Serves, data
<1>2. CASE Head(up).kind = "frame"
  BY <1>1, <1>2, ServesFrame DEF Serves
<1>3. CASE Head(up).kind # "frame"
  BY <1>1, <1>3, ServesValue DEF Serves
<1> QED
  BY <1>2, <1>3

-----------------------------------------------------------------------------
(* The receiver subscribes.                                                *)

LEMMA SubscribesTagStep == Types /\ Rest /\ SubscribesTag => Rest'
<1> SUFFICES ASSUME Types, Rest, SubscribesTag PROVE Rest'
  OBVIOUS
<1>1. /\ sub = "none" /\ sub' = "tag" /\ UNCHANGED <<up, tag, layer, recFrame, span>>
      /\ down' = IF tag # NotStarted THEN Append(down, FrameCmd(tag)) ELSE down
  BY DEF SubscribesTag, data
<1>2. down = <<>> /\ recFrame = NotStarted /\ \A p \in Particle : span[p] = Data!Nothing
  BY <1>1 DEF Rest, NotSubscribed
<1>3. SentInOrder' /\ BatchesWhole'
  BY <1>1, HandlesSent
<1>4. PositionsArrive' /\ UpToDate'
  BY <1>1 DEF Rest, PositionsArrive, UpToDate, StillComes, HasCome
<1>5. PassedOnInOrder' /\ FrameArrives' /\ NotSubscribed'
  <2>1. CASE tag = NotStarted
    <3>1. down' = <<>>
      BY <1>1, <1>2, <2>1
    <3> QED
      BY <1>1, <1>2, <2>1, <3>1, FrameWhenFirst
      DEF PassedOnInOrder, FrameArrives, NotSubscribed
  <2>2. CASE tag # NotStarted
    <3> DEFINE c == FrameCmd(tag)
    <3>1. c \in Command /\ c \in FrameCmds
      BY <2>2, MadeCommands DEF Types
    <3>2. c.kind = "frame" /\ Value(c) = tag
      BY DEF FrameCmd, Value
    <3> HIDE DEF c
    <3>3. /\ down \in Seq(Command) /\ down' = Append(down, c) /\ Len(down) = 0
      BY <1>1, <1>2, <2>2 DEF c
    <3>4. Len(down') = 1 /\ DOMAIN down' = {1} /\ down'[1] = c
      BY <1>2, <3>3
    <3>5. FrameWhen(down', 2, recFrame, tag)
      <4>1. 0 + 1 + 1 = 2 /\ Len(down) + 1 = 0 + 1
        BY <3>3
      <4> QED
        BY <3>1, <3>2, <3>3, <4>1, LastAppended DEF FrameWhen
    <3> QED
      BY <1>1, <1>2, <3>1, <3>2, <3>4, <3>5
      DEF PassedOnInOrder, FrameArrives, NotSubscribed
  <2> QED
    BY <2>1, <2>2
<1> QED
  BY <1>3, <1>4, <1>5 DEF Rest

(* Commands that are of another class leave the last one of a class.       *)
LEMMA FrameWhenOthers ==
    ASSUME NEW q \in Seq(Command), NEW s \in Seq(Command),
           \A i \in 1 .. Len(s) : s[i] \notin FrameCmds,
           NEW base, NEW v, FrameWhen(q, Len(q) + 1, base, v),
           NEW i \in Len(q) + 1 .. Len(q \o s) + 1
    PROVE  FrameWhen(q \o s, i, base, v)
<1>1. /\ Len(q) \in Nat /\ Len(s) \in Nat /\ Len(q \o s) = Len(q) + Len(s)
      /\ \A j \in 1 .. Len(q) : (q \o s)[j] = q[j]
      /\ \A j \in Len(q) + 1 .. Len(q) + Len(s) : (q \o s)[j] = s[j - Len(q)]
  BY QueueConcat
<1>2. ASSUME NEW j \in 1 .. i - 1, (q \o s)[j] \in FrameCmds
      PROVE  j \in 1 .. Len(q)
  <2>1. ASSUME j \notin 1 .. Len(q) PROVE FALSE
    <3>1. j - Len(q) \in 1 .. Len(s) /\ (q \o s)[j] = s[j - Len(q)]
      BY <1>1, <2>1
    <3> QED
      BY <1>2, <3>1
  <2> QED
    BY <2>1
<1>3. LastBefore(q \o s, i, FrameCmds, v)
  <2> SUFFICES ASSUME NEW j \in 1 .. i - 1, (q \o s)[j] \in FrameCmds,
                      \A k \in j + 1 .. i - 1 : (q \o s)[k] \notin FrameCmds
               PROVE  Value((q \o s)[j]) = v
    BY DEF LastBefore
  <2>1. j \in 1 .. (Len(q) + 1) - 1 /\ (q \o s)[j] = q[j]
    BY <1>1, <1>2
  <2>2. ASSUME NEW k \in j + 1 .. (Len(q) + 1) - 1 PROVE q[k] \notin FrameCmds
    <3>1. k \in j + 1 .. i - 1 /\ (q \o s)[k] = q[k]
      BY <1>1, <2>1
    <3> QED
      BY <3>1
  <2> QED
    BY <2>1, <2>2 DEF FrameWhen, LastBefore
<1>4. ASSUME NoneBefore(q \o s, i, FrameCmds) PROVE base = v
  <2>1. \A j \in 1 .. (Len(q) + 1) - 1 : j \in 1 .. i - 1 /\ (q \o s)[j] = q[j]
    BY <1>1
  <2> QED
    BY <1>4, <2>1 DEF FrameWhen, NoneBefore
<1> QED
  BY <1>3, <1>4 DEF FrameWhen

Kept(p) == [SetCmd(p, layer[p]) EXCEPT !.kept = TRUE]

(* What a new subscriber to the layer is told.                             *)
LEMMA SubscribesLayerTells ==
    ASSUME Types, SubscribesLayer
    PROVE  \E s \in Seq(Command) :
              /\ down' = down \o s
              /\ \A i \in 1 .. Len(s) : \E p \in Particle :
                    s[i] = Kept(p) /\ layer[p] # NoFrame
              /\ \A p \in Particle : layer[p] # NoFrame =>
                    \E i \in 1 .. Len(s) : s[i] = Kept(p)
<1> DEFINE T == {p \in Particle : layer[p] # NoFrame}
           F == [p \in T |-> Kept(p)]
           s == [i \in DOMAIN SetToSeq(T) |-> Kept(SetToSeq(T)[i])]
<1>1. down' = down \o s
  BY DEF SubscribesLayer, ForEach, Kept
<1>2. \A p \in T : Kept(p) \in Command
  <2>1. \A p \in T : layer[p] \in ClockFrame
    BY DEF Types
  <2> QED
    BY <2>1, MadeCommands DEF Kept
<1>3. \A i \in DOMAIN SetToSeq(T) : SetToSeq(T)[i] \in T
  <2>1. T \in SUBSET Particle
    OBVIOUS
  <2> HIDE DEF T
  <2> QED
    BY <2>1, InSomeOrder
<1>4. T \in SUBSET Particle
  OBVIOUS
<1> HIDE DEF T
<1>5. F \in [T -> Command]
  BY <1>2
<1>6. \A p \in T : F[p] = Kept(p)
  OBVIOUS
<1>7. IsForEach(s, T, F)
  BY <1>3, <1>6 DEF IsForEach
<1> HIDE DEF F, s
<1>8. /\ s \in Seq(Command)
      /\ \A i \in 1 .. Len(s) : \E p \in T : s[i] = F[p]
      /\ \A p \in T : \E i \in 1 .. Len(s) : s[i] = F[p]
  BY <1>4, <1>5, <1>7, ForEachIs
<1>9. /\ \A i \in 1 .. Len(s) : \E p \in Particle :
            s[i] = Kept(p) /\ layer[p] # NoFrame
      /\ \A p \in Particle : layer[p] # NoFrame =>
            \E i \in 1 .. Len(s) : s[i] = Kept(p)
  BY <1>6, <1>8 DEF T
<1> QED
  BY <1>1, <1>8, <1>9

LEMMA SubscribesLayerStep == Types /\ Rest /\ SubscribesLayer => Rest'
<1> SUFFICES ASSUME Types, Rest, SubscribesLayer PROVE Rest'
  OBVIOUS
<1>1. sub = "tag" /\ sub' = "layer" /\ UNCHANGED <<up, tag, layer, recFrame, span>>
  BY DEF SubscribesLayer, data
<1>2. PICK s \in Seq(Command) :
         /\ down' = down \o s
         /\ \A i \in 1 .. Len(s) : \E p \in Particle :
               s[i] = Kept(p) /\ layer[p] # NoFrame
         /\ \A p \in Particle : layer[p] # NoFrame =>
               \E i \in 1 .. Len(s) : s[i] = Kept(p)
  BY SubscribesLayerTells
<1>3. /\ down \in Seq(Command) /\ Len(down) \in Nat /\ Len(s) \in Nat
      /\ Len(down') = Len(down) + Len(s)
      /\ DOMAIN down' = 1 .. Len(down') /\ DOMAIN down = 1 .. Len(down)
      /\ \A i \in 1 .. Len(down) : down'[i] = down[i]
      /\ \A i \in 1 .. Len(s) : down'[Len(down) + i] = s[i]
      /\ \A i \in Len(down) + 1 .. Len(down') : down'[i] = s[i - Len(down)]
  <2>1. down \in Seq(Command)
    BY DEF Types
  <2> QED
    BY <1>2, <2>1, QueueConcat
<1>4. /\ \A i \in DOMAIN down : down[i] \in FrameCmds
      /\ \A p \in Particle : span[p] = Data!Nothing
  BY <1>1 DEF Rest, NotSubscribed
<1>5. /\ \A p \in Particle : /\ Kept(p).kind = "set" /\ Kept(p).kept = TRUE
                             /\ Kept(p).particle = p
                             /\ Value(Kept(p)) = layer[p]
      /\ \A p \in Particle : Kept(p) \notin FrameCmds
  BY DEF Kept, SetCmd, Value, FrameCmds, FrameCmd
<1>6. \A i \in 1 .. Len(s) : s[i] \notin FrameCmds
  BY <1>2, <1>5
<1>7. ASSUME NEW i \in Len(down) + 1 .. Len(down') + 1
      PROVE  FrameWhen(down', i, recFrame, tag)
  <2>1. FrameWhen(down, Len(down) + 1, recFrame, tag)
    BY <1>1 DEF Rest, FrameArrives
  <2> QED
    BY <1>2, <1>3, <1>6, <2>1, FrameWhenOthers
<1>8. ASSUME NEW p \in Particle, NEW i \in DOMAIN down', down'[i] \in About(p)
      PROVE  i \in Len(down) + 1 .. Len(down') /\ Value(down'[i]) = layer[p]
  <2>1. down[i] \in Command /\ down[i] \in FrameCmds => down[i] \notin About(p)
    BY Commands
  <2>2. i \in Len(down) + 1 .. Len(down')
    <3>1. CASE i \in 1 .. Len(down)
      <4>1. down[i] \in Command /\ down[i] \in FrameCmds /\ down'[i] = down[i]
        BY <1>3, <1>4, <3>1
      <4> QED
        BY <1>8, <2>1, <4>1
    <3> QED
      BY <1>3, <3>1
  <2>3. i - Len(down) \in 1 .. Len(s) /\ down'[i] = s[i - Len(down)]
    BY <1>3, <2>2
  <2>4. PICK q \in Particle : down'[i] = Kept(q)
    BY <1>2, <2>3
  <2>5. q = p
    BY <1>5, <1>8, <2>4 DEF About, SetCmds, UnsetCmd
  <2> QED
    BY <1>5, <2>2, <2>4, <2>5
<1>9. ASSUME NEW p \in Particle, layer[p] # NoFrame
      PROVE  ~NoneBefore(down', Len(down') + 1, About(p))
  <2>1. PICK i \in 1 .. Len(s) : s[i] = Kept(p)
    BY <1>2, <1>9
  <2>2. /\ Len(down) + i \in 1 .. (Len(down') + 1) - 1
        /\ down'[Len(down) + i] = Kept(p)
    BY <1>3, <2>1
  <2>3. s[i] \in Command
    BY <2>1
  <2>4. Kept(p) \in About(p)
    BY <1>5, <2>1, <2>3, Commands
  <2> QED
    BY <2>2, <2>4 DEF NoneBefore
<1>10. SentInOrder' /\ BatchesWhole'
  BY <1>1, HandlesSent
<1>11. PassedOnInOrder'
  <2> SUFFICES ASSUME NEW i \in DOMAIN down', down'[i].kind = "set", ~down'[i].kept
               PROVE  FALSE
    BY DEF PassedOnInOrder
  <2>1. CASE i \in 1 .. Len(down)
    <3>1. down[i] \in FrameCmds /\ down'[i] = down[i]
      BY <1>3, <1>4, <2>1
    <3> QED
      BY <3>1 DEF FrameCmds, FrameCmd
  <2>2. CASE i \in Len(down) + 1 .. Len(down')
    <3>1. i - Len(down) \in 1 .. Len(s) /\ down'[i] = s[i - Len(down)]
      BY <1>3, <2>2
    <3>2. PICK p \in Particle : s[i - Len(down)] = Kept(p)
      BY <1>2, <3>1
    <3>3. Kept(p).kept = TRUE
      BY <1>5
    <3> QED
      BY <3>1, <3>2, <3>3
  <2> QED
    BY <1>3, <2>1, <2>2
<1>12. FrameArrives'
  <2>1. Len(down') + 1 \in Len(down) + 1 .. Len(down') + 1
    BY <1>3
  <2>2. FrameWhen(down', Len(down') + 1, recFrame, tag)
    BY <1>7, <2>1
  <2> QED
    BY <1>1, <2>2 DEF FrameArrives
<1>13. PositionsArrive'
  <2> SUFFICES ASSUME NEW p \in Particle
               PROVE  /\ LastBefore(down', Len(down') + 1, About(p), layer[p])
                      /\ NoneBefore(down', Len(down') + 1, About(p)) =>
                            Agrees(span[p], p, layer[p])
    BY <1>1 DEF PositionsArrive
  <2>1. \A j \in 1 .. (Len(down') + 1) - 1 : j \in DOMAIN down'
    BY <1>3
  <2>2. LastBefore(down', Len(down') + 1, About(p), layer[p])
    BY <1>8, <2>1 DEF LastBefore
  <2> QED
    BY <1>4, <1>9, <2>2 DEF Agrees
<1>14. UpToDate'
  <2> SUFFICES ASSUME NEW p \in Particle, tag # NotStarted, Flies(p, tag),
                      ~StillComes(p)
               PROVE  HasCome(p)'
    BY <1>1 DEF UpToDate, StillComes, Flies
  <2>1. layer[p] = tag
    BY DEF Rest, UpToDate, HasCome
  <2>2. layer[p] # NoFrame
    BY <2>1 DEF NoFrame, NotStarted
  <2>3. \A j \in DOMAIN down' : down'[j] \in About(p) =>
           FrameWhen(down', j, recFrame, tag)
    <3> SUFFICES ASSUME NEW j \in DOMAIN down', down'[j] \in About(p)
                 PROVE  FrameWhen(down', j, recFrame, tag)
      OBVIOUS
    <3>1. j \in Len(down) + 1 .. Len(down')
      BY <1>8
    <3>2. j \in Len(down) + 1 .. Len(down') + 1
      BY <1>3, <3>1
    <3> QED
      BY <1>7, <3>2
  <2>4. ~NoneBefore(down', Len(down') + 1, About(p))
    BY <1>9, <2>2
  <2> QED
    BY <1>1, <2>1, <2>3, <2>4 DEF HasCome
<1>15. NotSubscribed'
  BY <1>1 DEF NotSubscribed
<1> QED
  BY <1>10, <1>11, <1>12, <1>13, <1>14, <1>15 DEF Rest

-----------------------------------------------------------------------------
(* The sender sends a batch.                                               *)

LEMMA SendsStep == Types /\ Rest /\ SenderSends => Rest'
<1> SUFFICES ASSUME Types, Rest, SenderSends PROVE Rest'
  OBVIOUS
<1> DEFINE s == Batch
           n == Len(up)
<1>1. /\ sFrame # NotStarted /\ up' = up \o s
      /\ UNCHANGED <<down, tag, layer, sub, recFrame, span>>
  BY DEF SenderSends, server, data
<1>2. /\ s \in Seq(Command) /\ Len(s) \in Nat \ {0}
      /\ s[1] = FrameCmd(sFrame)
      /\ \A i \in 2 .. Len(s) :
            /\ s[i].kind \in {"set", "unset"}
            /\ s[i].kind = "set" => s[i].frame = sFrame
            /\ s[i].kind = "unset" => sFrame = 0
      /\ \A p \in Particle : Flies(p, sFrame) =>
            \E i \in 2 .. Len(s) : s[i] = SetCmd(p, sFrame)
  BY <1>1, BatchIs
<1> HIDE DEF s
<1>3. s[1] \in FrameCmds /\ s[1].frame = sFrame /\ Value(s[1]) = sFrame
  <2>1. sFrame \in ClockFrame
    BY <1>1 DEF Types
  <2> QED
    BY <1>2, <2>1, MadeCommands DEF FrameCmd, Value
<1>4. ASSUME NEW i \in 2 .. Len(s) PROVE s[i] \notin FrameCmds
  <2>1. s[i] \in Command /\ s[i].kind # "frame"
    BY <1>2
  <2> QED
    BY <2>1, Commands
<1>5. /\ up \in Seq(Command) /\ n \in Nat
      /\ Len(up') = n + Len(s)
      /\ DOMAIN up' = 1 .. Len(up') /\ DOMAIN up = 1 .. n
      /\ \A i \in 1 .. n : up'[i] = up[i]
      /\ \A i \in 1 .. Len(s) : up'[n + i] = s[i]
      /\ \A i \in n + 1 .. n + Len(s) : up'[i] = s[i - n]
  <2>1. up \in Seq(Command)
    BY DEF Types
  <2> QED
    BY <1>1, <1>2, <2>1, QueueConcat
<1>6. up'[n + 1] = s[1] /\ n + 1 \in DOMAIN up'
  BY <1>2, <1>5
<1>7. ASSUME NEW i \in n + 2 .. n + Len(s)
      PROVE  i - n \in 2 .. Len(s) /\ up'[i] = s[i - n] /\ up'[i] \notin FrameCmds
  <2>1. i - n \in 2 .. Len(s) /\ up'[i] = s[i - n]
    BY <1>2, <1>5
  <2> QED
    BY <1>4, <2>1
<1>8. SentInOrder'
  <2> SUFFICES ASSUME NEW i \in DOMAIN up', up'[i] \notin FrameCmds
               PROVE  FrameWhen(up', i, tag,
                                IF up'[i].kind = "set" THEN up'[i].frame ELSE 0)
    BY <1>1 DEF SentInOrder
  <2>1. CASE i \in 1 .. n
    <3>1. /\ up'[i] = up[i] /\ i \in 1 .. n + 1
          /\ FrameWhen(up, i, tag, IF up'[i].kind = "set" THEN up'[i].frame ELSE 0)
      BY <1>5, <2>1 DEF Rest, SentInOrder
    <3> QED
      BY <1>1, <1>2, <1>5, <3>1, FrameWhenConcat
  <2>2. CASE i \in n + 1 .. n + Len(s)
    <3>1. i \in n + 2 .. n + Len(s)
      BY <1>3, <1>5, <1>6, <2>2
    <3>2. sFrame = IF up'[i].kind = "set" THEN up'[i].frame ELSE 0
      BY <1>2, <1>7, <3>1
    <3>3. n + 1 \in 1 .. i - 1 /\ up'[n + 1] \in FrameCmds
      BY <1>3, <1>5, <1>6, <3>1
    <3>4. LastBefore(up', i, FrameCmds, sFrame)
      <4> SUFFICES ASSUME NEW j \in 1 .. i - 1, up'[j] \in FrameCmds,
                          \A k \in j + 1 .. i - 1 : up'[k] \notin FrameCmds
                   PROVE  Value(up'[j]) = sFrame
        BY DEF LastBefore
      <4>1. ~(j < n + 1)
        BY <1>5, <3>3
      <4>2. j \notin n + 2 .. n + Len(s)
        BY <1>7
      <4>3. j = n + 1
        BY <1>2, <1>5, <3>1, <4>1, <4>2
      <4> QED
        BY <1>3, <1>6, <4>3
    <3>5. ~NoneBefore(up', i, FrameCmds)
      BY <3>3 DEF NoneBefore
    <3> QED
      BY <3>2, <3>4, <3>5 DEF FrameWhen
  <2> QED
    BY <1>2, <1>5, <2>1, <2>2
<1>9. BatchesWhole'
  <2> SUFFICES ASSUME NEW i \in DOMAIN up', NEW p \in Particle,
                      up'[i] \in FrameCmds, Flies(p, up'[i].frame)
               PROVE  \E j \in i + 1 .. Len(up') :
                         /\ up'[j] = SetCmd(p, up'[i].frame)
                         /\ \A k \in i + 1 .. j : up'[k] \notin FrameCmds
    BY DEF BatchesWhole, Flies
  <2>1. CASE i \in 1 .. n
    <3>1. i \in DOMAIN up /\ up'[i] = up[i]
      BY <1>5, <2>1
    <3>2. PICK j \in i + 1 .. Len(up) :
             /\ up[j] = SetCmd(p, up'[i].frame)
             /\ \A k \in i + 1 .. j : up[k] \notin FrameCmds
      BY <3>1 DEF Rest, BatchesWhole
    <3>3. j \in i + 1 .. Len(up') /\ \A k \in i + 1 .. j : up'[k] = up[k]
      BY <1>2, <1>5, <2>1
    <3>4. up'[j] = up[j]
      BY <3>3, <2>1
    <3> QED
      BY <3>2, <3>3, <3>4
  <2>2. CASE i \in n + 1 .. n + Len(s)
    <3>1. i = n + 1
      <4>1. i \notin n + 2 .. n + Len(s)
        BY <1>7
      <4> QED
        BY <1>2, <1>5, <2>2, <4>1
    <3>2. up'[i].frame = sFrame
      BY <1>3, <1>6, <3>1
    <3>3. PICK j \in 2 .. Len(s) : s[j] = SetCmd(p, sFrame)
      BY <1>2, <3>2
    <3>4. n + j \in i + 1 .. Len(up') /\ up'[n + j] = s[j]
      <4>1. j \in 1 .. Len(s) /\ n + j \in n + 2 .. n + Len(s)
        BY <1>2, <1>5
      <4>2. up'[n + j] = s[j]
        BY <1>5, <4>1
      <4> HIDE DEF n
      <4> QED
        BY <1>5, <3>1, <4>1, <4>2
    <3>5. ASSUME NEW k \in i + 1 .. n + j PROVE up'[k] \notin FrameCmds
      <4>1. k \in n + 2 .. n + Len(s)
        BY <1>2, <1>5, <3>1
      <4> QED
        BY <1>7, <4>1
    <3> QED
      BY <3>2, <3>3, <3>4, <3>5
  <2> QED
    BY <1>2, <1>5, <2>1, <2>2
<1>10. UpToDate'
  <2>1. ASSUME NEW p \in Particle, StillComes(p) PROVE StillComes(p)'
    <3>1. PICK j \in DOMAIN up :
             up[j] = SetCmd(p, tag) /\ \A k \in 1 .. j : up[k] \notin FrameCmds
      BY <2>1 DEF StillComes
    <3>2. j \in DOMAIN up' /\ up'[j] = up[j] /\ \A k \in 1 .. j : up'[k] = up[k]
      BY <1>2, <1>5
    <3> QED
      BY <1>1, <3>1, <3>2 DEF StillComes
  <2>2. ASSUME NEW p \in Particle, HasCome(p) PROVE HasCome(p)'
    BY <1>1, <2>2 DEF HasCome
  <2> QED
    BY <1>1, <2>1, <2>2 DEF Rest, UpToDate, Flies
<1>11. PassedOnInOrder' /\ FrameArrives'
  BY <1>1 DEF Rest, PassedOnInOrder, FrameArrives
<1>12. PositionsArrive' /\ NotSubscribed'
  BY <1>1 DEF Rest, PositionsArrive, NotSubscribed
<1> QED
  BY <1>8, <1>9, <1>10, <1>11, <1>12 DEF Rest

-----------------------------------------------------------------------------
(* The invariant, and the properties that follow from it.                  *)

LEMMA SuccessorShown ==
    ASSUME NEW f \in ClockFrame
    PROVE  Successor(f) \in ClockFrame
<1>1. f + 1 \in Nat /\ FrameCount - 1 \in Nat \ {0}
  BY FramesAssumption DEF ClockFrame
<1>2. PICK b \in Nat \ {0} : b = FrameCount - 1
  BY <1>1
<1>3. (f + 1) % b \in 0 .. b - 1
  BY <1>1, RemainderRange
<1>4. b - 1 = FrameCount - 2
  BY <1>2, FramesAssumption
<1> QED
  BY <1>2, <1>3, <1>4 DEF Successor, ClockFrame

LEMMA TypesStep == Types /\ [Next]_vars => Types'
<1> SUFFICES ASSUME Types, [Next]_vars PROVE Types'
  OBVIOUS
<1>1. 0 \in ClockFrame
  BY FramesAssumption DEF ClockFrame
<1>2. CASE SenderTicks
  <2>1. sFrame' \in ClockFrame /\ below' \in BOOLEAN
    BY <1>1, <1>2, SuccessorShown DEF Types, SenderTicks, NotStarted
  <2>2. sFrame' # NotStarted
    BY <2>1, FramesAssumption DEF ClockFrame, NotStarted
  <2>3. UNCHANGED <<up, server, down, rClock, rpc, rNow, data>>
    BY <1>2 DEF SenderTicks
  <2> QED
    BY <2>1, <2>2, <2>3 DEF Types, Told, server, rClock, data
<1>3. CASE SenderSends
  <2>1. sFrame # NotStarted /\ up' = up \o Batch
    BY <1>3 DEF SenderSends
  <2>2. up' \in Seq(Command)
    BY <2>1, BatchIs, QueueConcat DEF Types
  <2>3. UNCHANGED <<sClock, server, down, rClock, rpc, rNow, data>>
    BY <1>3 DEF SenderSends
  <2> QED
    BY <2>2, <2>3 DEF Types, Told, sClock, server, rClock, data
<1>4. CASE Serves
  <2>1. up # <<>> /\ up' = Tail(up) /\ UNCHANGED <<sClock, sub, rClock, rpc, rNow, data>>
    BY <1>4 DEF Serves
  <2>2. /\ Head(up) \in Command /\ up' \in Seq(Command)
        /\ Head(up).kind = "frame" => Head(up).frame \in ClockFrame
        /\ Head(up).kind = "set" => Head(up).frame \in ClockFrame
    BY <2>1, QueueTail, Commands DEF Types
  <2>3. down' = down \/ down' = Append(down, Head(up))
    BY <1>4 DEF Serves
  <2>4. down' \in Seq(Command) /\ (Told(rpc) => Told(rpc)')
    <3>1. CASE down' = down
      BY <2>1, <3>1 DEF Types, Told
    <3>2. CASE down' = Append(down, Head(up))
      BY <2>1, <2>2, <3>2 DEF Types, Told
    <3> QED
      BY <2>3, <3>1, <3>2
  <2>5. tag' \in ClockFrame \cup {NotStarted}
        /\ layer' \in [Particle -> ClockFrame \cup {NoFrame}]
    BY <1>4, <2>2 DEF Serves, Types
  <2> QED
    BY <2>1, <2>2, <2>4, <2>5 DEF Types, sClock, rClock, data
<1>5. CASE SubscribesTag
  <2>1. /\ sub' = "tag" /\ UNCHANGED <<sClock, up, tag, layer, rClock, rpc, rNow, data>>
        /\ down' = IF tag # NotStarted THEN Append(down, FrameCmd(tag)) ELSE down
    BY <1>5 DEF SubscribesTag
  <2>2. tag # NotStarted => FrameCmd(tag) \in Command
    BY MadeCommands DEF Types
  <2>3. down' \in Seq(Command) /\ (Told(rpc) => Told(rpc)')
    <3>1. CASE down' = down
      BY <2>1, <3>1 DEF Types, Told
    <3>2. CASE tag # NotStarted /\ down' = Append(down, FrameCmd(tag))
      BY <2>1, <2>2, <3>2 DEF Types, Told
    <3> QED
      BY <2>1, <3>1, <3>2
  <2> QED
    BY <2>1, <2>3 DEF Types, sClock, rClock, data
<1>6. CASE SubscribesLayer
  <2>1. sub' = "layer" /\ UNCHANGED <<sClock, up, tag, layer, rClock, rpc, rNow, data>>
    BY <1>6 DEF SubscribesLayer
  <2>2. PICK s \in Seq(Command) : down' = down \o s
    BY <1>6, SubscribesLayerTells
  <2>3. down' \in Seq(Command) /\ (Told(rpc) => Told(rpc)')
    <3>1. down' \in Seq(Command)
      BY <2>2, QueueConcat DEF Types
    <3>2. ASSUME down # <<>> PROVE down' # <<>> /\ Head(down') = Head(down)
      BY <2>2, <3>2 DEF Types
    <3> QED
      BY <2>1, <3>1, <3>2 DEF Told
  <2> QED
    BY <2>1, <2>3 DEF Types, sClock, rClock, data
<1>7. CASE ReceiverTicks
  <2>1. rFrame' \in ClockFrame /\ rStart' = NotStarted
    BY <1>1, <1>7, SuccessorShown DEF Types, ReceiverTicks
  <2>2. UNCHANGED <<sClock, up, server, down, rpc, rNow, data>>
    BY <1>7 DEF ReceiverTicks
  <2> QED
    BY <2>1, <2>2 DEF Types, Told, sClock, server, data
<1>8. CASE StartsClock
  <2>1. Told("frame") /\ rpc' = "frame" /\ UNCHANGED <<sClock, up, server, down, rFrame, rNow, data>>
    BY <1>8 DEF StartsClock
  <2>2. Head(down).frame \in ClockFrame
    BY <2>1, HeadOfDown, Commands DEF Told
  <2>3. rStart' \in ClockFrame \cup {NotStarted}
    BY <1>8, <2>2 DEF StartsClock, Types
  <2> QED
    BY <2>1, <2>3 DEF Types, Told, sClock, server, data
<1>9. CASE StoresFrame
  <2>1. down' \in Seq(Command)
    BY <1>9, StoresFrameIs, QueueTail DEF Types
  <2> QED
    BY <1>9, <2>1, StoresFrameIs DEF Types, sClock, server, rClock
<1>10. CASE ReadsClock
  BY <1>10 DEF ReadsClock, Types, Told, sClock, server, rClock, data
<1>11. CASE StoresPosition
  <2>1. down' \in Seq(Command)
    BY <1>11, StoresPositionIs, QueueTail DEF Types
  <2>2. UNCHANGED recFrame
    BY <1>11, StoresPositionIs DEF Data!Receive
  <2> QED
    BY <1>11, <2>1, <2>2, StoresPositionIs DEF Types, sClock, server, rClock
<1>12. CASE ForgetsParticle
  <2>1. down' \in Seq(Command)
    BY <1>12, ForgetsParticleIs, QueueTail DEF Types
  <2>2. UNCHANGED recFrame /\ rpc = "wait"
    BY <1>12, ForgetsParticleIs DEF Data!Forget, ForgetsParticle
  <2> QED
    BY <1>12, <2>1, <2>2, ForgetsParticleIs DEF Types, sClock, server, rClock
<1>13. CASE UNCHANGED vars
  BY <1>13 DEF vars, Types, Told, sClock, server, rClock, data
<1> QED
  BY <1>2, <1>3, <1>4, <1>5, <1>6, <1>7, <1>8, <1>9, <1>10, <1>11, <1>12, <1>13
  DEF Next

LEMMA RestStep == IInv /\ [Next]_vars => Rest'
<1> SUFFICES ASSUME IInv, [Next]_vars PROVE Rest'
  OBVIOUS
<1>1. Types /\ Received /\ Rest
  BY DEF IInv, Rest
<1>2. CASE UNCHANGED <<up, down, tag, layer, sub, recFrame, span>>
  BY <1>1, <1>2, RestUnchanged
<1>3. CASE SenderTicks \/ ReceiverTicks \/ StartsClock \/ ReadsClock \/ UNCHANGED vars
  BY <1>2, <1>3
  DEF SenderTicks, ReceiverTicks, StartsClock, ReadsClock, vars, server, data
<1>4. CASE SenderSends
  BY <1>1, <1>4, SendsStep
<1>5. CASE Serves
  BY <1>1, <1>5, ServesStep
<1>6. CASE SubscribesTag \/ SubscribesLayer
  BY <1>1, <1>6, SubscribesTagStep, SubscribesLayerStep
<1>7. CASE StoresFrame \/ StoresPosition \/ ForgetsParticle
  BY <1>1, <1>7, FrameStep, PositionStep, ForgetStep
<1> QED
  BY <1>3, <1>4, <1>5, <1>6, <1>7 DEF Next

LEMMA InitIInv == Init => IInv
<1> SUFFICES ASSUME Init PROVE IInv
  OBVIOUS
<1>1. /\ up = <<>> /\ down = <<>> /\ tag = NotStarted /\ sub = "none"
      /\ layer = [p \in Particle |-> NoFrame]
      /\ recFrame = NotStarted /\ span = [p \in Particle |-> Data!Nothing]
      /\ hist = [p \in Particle |-> [f \in Frame |-> Data!Unreceived]]
  BY SameFrames DEF Init, Data!Init
<1>2. Types
  BY <1>1 DEF Init, Types
<1>3. Received
  BY <1>1 DEF Received, Pointed, Classes
<1>4. SentInOrder /\ BatchesWhole /\ PassedOnInOrder
  BY <1>1 DEF SentInOrder, BatchesWhole, PassedOnInOrder
<1>5. FrameArrives /\ PositionsArrive /\ NotSubscribed /\ UpToDate
  BY <1>1 DEF FrameArrives, PositionsArrive, NotSubscribed, UpToDate
<1> QED
  BY <1>2, <1>3, <1>4, <1>5 DEF IInv

THEOREM StreamInvariant == Spec => []IInv
<1>1. IInv /\ [Next]_vars => IInv'
  <2> SUFFICES ASSUME IInv, [Next]_vars PROVE IInv'
    OBVIOUS
  <2>1. Types' /\ Received'
    BY TypesStep, ReceivedStep DEF IInv
  <2>2. Rest'
    BY RestStep
  <2> QED
    BY <2>1, <2>2 DEF IInv, Rest
<1> QED
  BY <1>1, InitIInv, PTL DEF Spec

(* The receiver's end of the stream keeps what ReceivedData promises, so   *)
(* the stream refines it.                                                  *)
THEOREM StreamReceives == Spec => Data!Spec
<1>1. Init => Data!Init
  BY DEF Init
<1>2. IInv => Types
  BY DEF IInv
<1> QED
  BY <1>1, <1>2, StreamInvariant, StepOfData, PTL DEF Spec, Data!Spec

(* Whenever the picture is drawn, every particle that flies is on it and   *)
(* it does not contradict itself.                                          *)
THEOREM DrawnWellNowHolds == Spec => []DrawnWellNow
<1>1. IInv => DrawnWellNow
  <2> SUFFICES ASSUME IInv, Drawn PROVE \A p \in Particle :
                  Screen!Shown(p, rFrame) /\ Screen!Coherent(p, rFrame)
    BY DEF DrawnWellNow
  <2>1. rFrame \in ClockFrame
    BY DEF IInv, Types, Drawn, NotStarted
  <2>2. Screen!DrawnWell
    BY DrawnWellOfReceived DEF IInv
  <2> QED
    BY <2>1, <2>2, SameFrames DEF Screen!DrawnWell
<1> QED
  BY <1>1, StreamInvariant, PTL

(* A receiver that nothing is on its way to has what the server has.       *)
LEMMA CaughtUpAgrees ==
    ASSUME IInv, CaughtUp
    PROVE  recFrame = tag /\ \A p \in Particle : Agrees(span[p], p, layer[p])
<1>1. sub = "layer" /\ Len(down) + 1 = 1
  BY DEF CaughtUp
<1>2. FrameWhen(down, 1, recFrame, tag)
  BY <1>1 DEF IInv, FrameArrives
<1>3. \A class : NoneBefore(down, 1, class)
  BY DEF NoneBefore
<1> QED
  BY <1>1, <1>2, <1>3, FrameWhenFirst DEF IInv, PositionsArrive

THEOREM InAgreementHolds == Spec => []InAgreement
<1>1. IInv => InAgreement
  BY CaughtUpAgrees DEF InAgreement, Agrees
<1> QED
  BY <1>1, StreamInvariant, PTL

(* When the clocks agree too, the receiver's picture is the sender's: what *)
(* is drawn of a flying particle is at its position, without a line.       *)
THEOREM InStepShownHolds == Spec => []InStepShown
<1>1. ASSUME IInv, CaughtUp, Drawn, rFrame = tag, NEW p \in Particle,
             StateAt(Path[p], tag) = Active
      PROVE  /\ Screen!Lines(p, rFrame) = {}
             /\ \A m \in Screen!Simple(p, rFrame) : Path[p][m.frame] = Path[p][tag]
  <2> DEFINE at == span[p].current
  <2>1. tag \in ClockFrame /\ tag # NotStarted /\ tag # NoFrame /\ tag \in Int
    BY <1>1, FramesAssumption DEF IInv, Types, Drawn, NotStarted, NoFrame, ClockFrame
  <2>2. up = <<>> /\ down = <<>> /\ sub = "layer"
    BY <1>1 DEF CaughtUp
  <2>3. ~StillComes(p)
    BY <2>2 DEF StillComes
  <2>4. HasCome(p)
    BY <1>1, <2>1, <2>3 DEF IInv, UpToDate, Flies
  <2>5. layer[p] = tag /\ span[p].last >= tag
    BY <2>2, <2>4 DEF HasCome, NoneBefore
  <2>6. Agrees(span[p], p, layer[p])
    BY <1>1, CaughtUpAgrees
  <2>7. span[p] # Data!Nothing /\ Path[p][at] = Path[p][tag]
    BY <2>1, <2>5, <2>6 DEF Agrees
  <2>8. /\ at \in Frame /\ span[p].last \in Int
        /\ hist[p][at] \in Classes /\ hist[p][at] # Data!Unreceived
    BY <1>1, <2>7, FramesAssumption DEF IInv, Received, Pointed, Frame
  <2>9. at # NoFrame
    BY <2>8, FramesAssumption DEF Frame, NoFrame
  <2>10. Screen!Lines(p, rFrame) = {}
    BY <1>1, <2>1, <2>5, <2>8, LinesIs
  <2>11. \A colour, f : Screen!Mark(colour, f).frame = f
    BY DEF Screen!Mark
  <2>12. CASE hist[p][at] \in {Data!InTime, Data!Ahead}
    <3>1. Screen!Simple(p, rFrame) = {Screen!Mark("yellow", at)}
      BY <2>9, <2>12, SimpleIs
    <3> QED
      BY <2>7, <2>10, <2>11, <3>1
  <2>13. CASE hist[p][at] = Data!Delayed
    <3>1. Screen!Simple(p, rFrame) =
             {Screen!Mark("white", rFrame)} \cup
             (IF at < DieFrame(Path[p]) - 1 THEN {Screen!Mark("red", at)} ELSE {})
      BY <2>9, <2>13, SimpleIs
    <3>2. \A m \in Screen!Simple(p, rFrame) :
             m = Screen!Mark("white", rFrame) \/ m = Screen!Mark("red", at)
      BY <3>1
    <3> QED
      BY <1>1, <2>7, <2>10, <2>11, <3>2
  <2> QED
    BY <2>8, <2>12, <2>13 DEF Classes
<1>2. IInv => InStepShown
  BY <1>1 DEF InStepShown
<1> QED
  BY <1>2, StreamInvariant, PTL

(* A position that the server passes on is attributed to the frame it was  *)
(* sent for.                                                               *)
THEOREM AttributedHolds == Spec => Attributed
<1>1. ASSUME IInv, [Next]_vars, rpc = "set", rpc' = "wait"
      PROVE  LET c == Head(down)
                 found == span'[c.particle].current IN
             /\ Path[c.particle][found] = Path[c.particle][c.frame]
             /\ c.kept \/ found = c.frame
  <2> DEFINE c == Head(down)
  <2>1. StoresPosition
    BY <1>1
    DEF Next, vars, SenderTicks, SenderSends, Serves, SubscribesTag,
        SubscribesLayer, ReceiverTicks, StartsClock, StoresFrame, ReadsClock,
        ForgetsParticle
  <2>2. /\ down # <<>> /\ c.kind = "set" /\ c.particle \in Particle
        /\ StoredFrame \in Frame
        /\ Path[c.particle][StoredFrame] = Path[c.particle][c.frame]
        /\ c.frame = recFrame => StoredFrame = recFrame
        /\ Data!Receive(c.particle, StoredFrame, rNow)
    BY <1>1, <2>1, StoresPositionIs DEF IInv
  <2>3. span'[c.particle].current = StoredFrame
    BY <1>1, <2>2, ReceiveIs DEF IInv
  <2>4. ASSUME ~c.kept PROVE c.frame = recFrame
    <3>1. c = down[1] /\ 1 \in DOMAIN down
      BY <1>1, <2>2, HeadOfDown DEF IInv
    <3>2. FrameWhen(down, 1, recFrame, down[1].frame)
      BY <1>1, <2>2, <2>4, <3>1 DEF IInv, PassedOnInOrder
    <3> QED
      BY <3>1, <3>2, FrameWhenFirst
  <2> QED
    BY <2>2, <2>3, <2>4
<1>2. IInv /\ [Next]_vars => [rpc = "set" /\ rpc' = "wait" =>
          LET c == Head(down)
              found == span'[c.particle].current IN
          /\ Path[c.particle][found] = Path[c.particle][c.frame]
          /\ c.kept \/ found = c.frame]_vars
  BY <1>1
<1> QED
  BY <1>2, StreamInvariant, PTL DEF Spec, Attributed
=============================================================================
