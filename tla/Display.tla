------------------------------ MODULE Display -------------------------------
(***************************************************************************)
(* What display_rec_particle_system (src/display_glut.c) puts on a         *)
(* receiver's screen, from the received data it has locked and the frame   *)
(* `now` it has read from the clock: of each particle marks, a colour at   *)
(* the position of a frame, and a line, the frames that it joins.          *)
(***************************************************************************)
EXTENDS ReceivedData

CONSTANT Path   \* the reference data: particles[p].states[f].pos

Mark(colour, f) == [colour |-> colour, frame |-> f]

(* display_rec_particle_simple, made in every visual style: the latest     *)
(* position in yellow; one that was late in red unless it is the particle's*)
(* last, and in white where it should be; a particle of which nothing has  *)
(* come in red where it was born.                                          *)
Simple(p, now) ==
    LET born == BornFrame(Path[p])
        at == span[p].current IN
    IF at = NoFrame
    THEN IF born =< now THEN {Mark("red", born)} ELSE {}
    ELSE CASE hist[p][at] \in {InTime, Ahead} -> {Mark("yellow", at)}
           [] hist[p][at] = Delayed ->
                 {Mark("white", now)} \cup
                 (IF at < DieFrame(Path[p]) - 1
                  THEN {Mark("red", at)} ELSE {})
           [] hist[p][at] = Unreceived -> {}

(* Mutant: the line goes on to the clock's frame itself.                   *)
LinesToNow(p, now) ==
    IF StateAt(Path[p], now) = Unborn \/ span[p] = Nothing THEN {}
    ELSE span[p].last .. now

(* Mutant: the line starts after the last state received.                  *)
LinesFromNext(p, now) ==
    IF StateAt(Path[p], now) = Unborn \/ span[p] = Nothing THEN {}
    ELSE span[p].last + 1 .. now - 1

(* display_rec_particle_lines: from the last state received to the clock's *)
(* frame, as far as it has fallen behind.                                  *)
Lines(p, now) ==
    IF StateAt(Path[p], now) = Unborn \/ span[p] = Nothing THEN {}
    ELSE span[p].last .. now - 1

(* display_rec_particle_dots: the history since birth.  A state that was   *)
(* received too early gets no dot.                                         *)
Dots(p, now) ==
    IF StateAt(Path[p], now) = Unborn THEN {}
    ELSE {Mark(CASE hist[p][f] = Unreceived -> "red"
                 [] hist[p][f] = Delayed    -> "orange"
                 [] hist[p][f] = InTime     -> "green"
                 [] hist[p][f] = Ahead      -> "none", f) :
             f \in BornFrame(Path[p]) .. now - 1}

-----------------------------------------------------------------------------

(* A particle that flies is on the screen, whatever has come of it, how    *)
(* late, and whatever was deleted: the drawing's cases leave none out.     *)
Shown(p, now) == StateAt(Path[p], now) = Active => Simple(p, now) # {}

(* The drawings of one picture do not contradict each other: neither the   *)
(* mark of the latest state nor the line that shows how far the particle   *)
(* has fallen behind is at a state that the history shows as lost.         *)
Coherent(p, now) ==
    LET lost == {f \in Frame : Mark("red", f) \in Dots(p, now)}
        line == Lines(p, now) IN
    /\ \A f \in lost : Mark("yellow", f) \notin Simple(p, now)
    /\ line # {} => span[p].last \in line \ lost

(* Both for whatever frame the clock shows.                                *)
DrawnWell ==
    \A p \in Particle, now \in ClockFrame : Shown(p, now) /\ Coherent(p, now)
=============================================================================
