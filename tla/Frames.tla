------------------------------- MODULE Frames -------------------------------
(***************************************************************************)
(* The animation clock's arithmetic (src/timer.c).  A `struct Timer` holds *)
(* two int16: tot_frame counts ticks since the clock was started, frame is *)
(* tot_frame cropped into the animation.  Both the sender's and the        *)
(* receiver's timer thread advance them in the same way.                   *)
(***************************************************************************)
EXTENDS Integers

CONSTANTS FrameCount, \* ctx->pd->frame_count
          Int16Max    \* the largest int16: 32767 in the build

(* The crop divides by frame_count - 1, so there are at least two frames;  *)
(* every frame number fits an int16.                                       *)
ASSUME FramesAssumption ==
    /\ FrameCount \in Nat /\ FrameCount >= 2
    /\ Int16Max \in Nat /\ FrameCount - 1 =< Int16Max

Int16 == -(Int16Max + 1) .. Int16Max

(* Frames of the reference data, and the ones the clock can show: the crop *)
(* is modulo frame_count - 1, so the last frame is never shown.            *)
Frame      == 0 .. FrameCount - 1
ClockFrame == 0 .. FrameCount - 2

NotStarted == -1   \* timer->frame and timer->tot_frame before the first tick

(* Mutant: the tick count sticks at its maximum.                           *)
NextTotSticks(tot) == IF tot = Int16Max THEN tot ELSE tot + 1

(* tot_frame++ on an int16: the increment wraps.                           *)
NextTot(tot) == IF tot = Int16Max THEN -(Int16Max + 1) ELSE tot + 1

(* "Crop frame to be in limit".                                            *)
FrameOf(tot) == IF tot < 0 THEN 0 ELSE tot % (FrameCount - 1)
=============================================================================
