------------------------------ MODULE MCStream ------------------------------
(* A trajectory for the model checker: the particle is born at frame 1,    *)
(* comes back there at frame 3 and rests at frame 4.                       *)
EXTENDS Stream

MCPosition == {"a", "b", "c"}

MCPath == [p \in Particle |->
              [f \in Frame |-> IF f = 0 THEN "a"
                               ELSE IF f = 2 THEN "c" ELSE "b"]]
=============================================================================
