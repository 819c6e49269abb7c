------------------------------ MODULE RefData -------------------------------
(***************************************************************************)
(* The reference data of one particle (src/particle_data.c): a trajectory  *)
(* gives its position at every frame.  This module says what the loops of  *)
(* particle_data.c are meant to compute, without loops: the frame at which *)
(* the particle is born and dies, its state at a frame, and the frame to   *)
(* which a received position belongs.  PostProcess and FindRefState model  *)
(* the loops themselves.                                                   *)
(***************************************************************************)
EXTENDS Frames, FiniteSets, FiniteSetsExt

NoFrame == -1   \* a NULL state pointer

Reserved == "reserved"
Unborn   == "unborn"
Active   == "active"
Dead     == "dead"
ParticleState == {Reserved, Unborn, Active, Dead}

(* Frames at which the particle has left its initial position ...          *)
Moved(traj) == {f \in Frame : traj[f] # traj[0]}
IsBorn(traj) == Moved(traj) # {}
Birth(traj) == Min(Moved(traj))

(* ... and those, after birth, at which it did not move.                   *)
Halted(traj) == {f \in Frame : f > Birth(traj) /\ traj[f] = traj[f - 1]}
Dies(traj) == IsBorn(traj) /\ Halted(traj) # {}
Death(traj) == Min(Halted(traj))

StateAt(traj, f) ==
    IF ~IsBorn(traj) \/ f < Birth(traj) THEN Unborn
    ELSE IF Dies(traj) /\ f >= Death(traj) THEN Dead
    ELSE Active

(* born_frame and die_frame keep calloc's zero when there is no such frame *)
BornFrame(traj) == IF IsBorn(traj) THEN Birth(traj) ELSE 0
DieFrame(traj)  == IF Dies(traj) THEN Death(traj) ELSE 0

(* Frames whose position is pos, and the one find_ref_particle_state picks *)
(* when `frame` is the last frame number received: the latest that is not  *)
(* after it, else the earliest.                                            *)
Matches(traj, pos) == {f \in Frame : traj[f] = pos}
NoLater(traj, frame, pos) == {f \in Matches(traj, pos) : f =< frame}

FindRef(traj, frame, pos) ==
    IF NoLater(traj, frame, pos) # {} THEN Max(NoLater(traj, frame, pos))
    ELSE IF Matches(traj, pos) # {} THEN Min(Matches(traj, pos))
    ELSE NoFrame
=============================================================================
