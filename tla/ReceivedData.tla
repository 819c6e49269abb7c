---------------------------- MODULE ReceivedData -----------------------------
(***************************************************************************)
(* What the callbacks of a receiving client promise to whoever looks at    *)
(* the received data: a frame number, a position or a deletion arrives all *)
(* at once.  Of each particle it is known which states of the animation    *)
(* the positions received since the last deletion span, which of them came *)
(* last, and how late each one came, in this cycle or an earlier one.      *)
(* Module Receiver, where these are pointers and fields that are stored    *)
(* one after the other between locks, implements it.                       *)
(***************************************************************************)
EXTENDS RefData

CONSTANT Particle

VARIABLES
    recFrame,  \* the last frame number received
    span,      \* of each particle: first, last and latest state received
    hist       \* of each state of each particle: whether and how late

vars == <<recFrame, span, hist>>

Unreceived == "unreceived"
InTime     == "intime"
Delayed    == "delay"
Ahead      == "ahead"

(* Due when the clock shows the state's frame or the next one.             *)
Classify(delay) == IF delay \in {0, 1} THEN InTime
                   ELSE IF delay > 1 THEN Delayed ELSE Ahead

Span(f, l, c) == [first |-> f, last |-> l, current |-> c]
Nothing == Span(NoFrame, NoFrame, NoFrame)

(* Mutant: a state of an earlier frame does not become the current one.    *)
WidenedForwards(s, f) ==
    IF s = Nothing THEN Span(f, f, f)
    ELSE Span(IF f < s.first THEN f ELSE s.first,
              IF f > s.last THEN f ELSE s.last,
              IF f > s.current THEN f ELSE s.current)

(* A span widened by a state.                                              *)
Widened(s, f) ==
    IF s = Nothing THEN Span(f, f, f)
    ELSE Span(IF f < s.first THEN f ELSE s.first,
              IF f > s.last THEN f ELSE s.last,
              f)

Init ==
    /\ recFrame = NotStarted
    /\ span = [p \in Particle |-> Nothing]
    /\ hist = [p \in Particle |->
                  [f \in Frame |-> Unreceived]]

FrameNumber ==
    /\ recFrame' \in ClockFrame
    /\ UNCHANGED <<span, hist>>

Receive(p, f, now) ==
    /\ span' = [span EXCEPT ![p] = Widened(span[p], f)]
    /\ hist' = [hist EXCEPT ![p][f] = Classify(now - f)]
    /\ UNCHANGED recFrame

Forget(p) ==
    /\ span' = [span EXCEPT ![p] = Nothing]
    /\ UNCHANGED <<recFrame, hist>>

Next ==
    \/ FrameNumber
    \/ \E p \in Particle :
          \/ \E f \in Frame, now \in ClockFrame \cup {NotStarted} :
                Receive(p, f, now)
          \/ Forget(p)

Spec == Init /\ [][Next]_vars
=============================================================================
