------------------------------ MODULE MCSender ------------------------------
(* Trajectories for the model checker: particle 0 is born at frame 1, the  *)
(* others at frame 2; all rest from frame 3 on.                            *)
EXTENDS Sender

MCPosition == {"a", "b", "c"}

MCPath == [p \in Particle |->
              [f \in Frame |-> IF f = 0 \/ (p > 0 /\ f = 1) THEN "a"
                               ELSE IF f = 1 THEN "b" ELSE "c"]]
=============================================================================
