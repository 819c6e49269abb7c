----------------------------- MODULE MCReceiver -----------------------------
(* Trajectories for the model checker: each particle rests at "a", is born *)
(* at frame 1, moves, and rests again from its death on.  "x" is a         *)
(* position of no frame, as of a sender that has loaded other data.        *)
EXTENDS Receiver

MCPosition == {"a", "b", "x"}

MCPath == [p \in Particle |->
              [f \in Frame |-> IF f = 0 THEN "a" ELSE "b"]]
=============================================================================
