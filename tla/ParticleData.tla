---------------------------- MODULE ParticleData ----------------------------
(***************************************************************************)
(* The loops of src/particle_data.c over one particle's reference data.    *)
(* post_process_ref_particle_data runs once, after loading: it finds when  *)
(* the particle is born and dies and gives each frame its state.  From     *)
(* then on find_ref_particle_state is called for every position received:  *)
(* it looks for the frame a position belongs to, at the last frame number  *)
(* received, then before it, then after it.  The particles are processed   *)
(* independently of each other; here is one with any trajectory.           *)
(***************************************************************************)
EXTENDS RefData

CONSTANT Position   \* the values pos[3] takes, compared by equality only

VARIABLES
    traj,      \* states[f].pos for every frame f
    state,     \* states[f].state
    bornFrame, \* born_frame
    dieFrame,  \* die_frame
    pc,        \* the loop that is running
    i,         \* its variable: `frame` in the first function, `i` in the other
    born,      \* particle_is_born
    dead,      \* particle_is_dead
    frame,     \* argument frame of find_ref_particle_state ...
    pos,       \* ... and pos
    ref        \* ref_state: the frame it points at, or NoFrame

particle == <<state, bornFrame, dieFrame, born, dead>>
args     == <<frame, pos>>
vars     == <<traj, particle, pc, i, args, ref>>

TypeOK ==
    /\ traj \in [Frame -> Position]
    /\ state \in [Frame -> ParticleState]
    /\ bornFrame \in Frame
    /\ dieFrame \in Frame
    /\ pc \in {"process", "ready", "at", "before", "after", "return"}
    /\ i \in -1 .. FrameCount
    /\ born \in BOOLEAN
    /\ dead \in BOOLEAN
    /\ frame \in Frame
    /\ pos \in Position
    /\ ref \in Frame \cup {NoFrame}

(* calloc leaves every state RESERVED and both frames 0.                   *)
Init ==
    /\ traj \in [Frame -> Position]
    /\ state = [f \in Frame |-> Reserved]
    /\ bornFrame = 0 /\ dieFrame = 0
    /\ pc = "process" /\ i = 0
    /\ born = FALSE /\ dead = FALSE
    /\ frame = 0 /\ pos = traj[0]
    /\ ref = NoFrame

-----------------------------------------------------------------------------
(* post_process_ref_particle_data: one iteration over the frames.          *)

(* Mutant: the position is compared with the first, not the previous one.  *)
HaltsAtStart(bornNow) == bornNow /\ ~dead /\ traj[i] = traj[0]

(* Mutant: every rest counts as a death, not only the first.               *)
HaltsAgain(bornNow) == bornNow /\ traj[i] = traj[i - 1]

Leaves == ~born /\ traj[i] # traj[0]
Halts(bornNow) == bornNow /\ ~dead /\ traj[i] = traj[i - 1]

Process ==
    /\ pc = "process" /\ i < FrameCount
    /\ born' = (born \/ Leaves)
    /\ bornFrame' = IF Leaves THEN i ELSE bornFrame
    /\ dead' = (dead \/ Halts(born'))
    /\ dieFrame' = IF Halts(born') THEN i ELSE dieFrame
    /\ state' = [state EXCEPT ![i] = IF ~born' THEN Unborn
                                     ELSE IF dead' THEN Dead
                                     ELSE Active]
    /\ i' = i + 1
    /\ UNCHANGED <<traj, pc, args, ref>>

ProcessEnds ==
    /\ pc = "process" /\ i = FrameCount
    /\ pc' = "ready"
    /\ UNCHANGED <<traj, particle, i, args, ref>>

-----------------------------------------------------------------------------
(* find_ref_particle_state, with any position of the data and any frame    *)
(* number that has been received.                                          *)

Call ==
    /\ pc \in {"ready", "return"}
    /\ frame' \in Frame /\ pos' \in Position
    /\ pc' = "at" /\ i' = frame' /\ ref' = NoFrame
    /\ UNCHANGED <<traj, particle>>

Return(f) == pc' = "return" /\ ref' = f /\ UNCHANGED i

(* Mutant: the later frames are searched first.                            *)
CompareAtAhead ==
    /\ pc = "at"
    /\ IF traj[frame] = pos
       THEN Return(frame)
       ELSE pc' = "after" /\ i' = frame /\ UNCHANGED ref
    /\ UNCHANGED <<traj, particle, args>>

(* Is it the position of the received frame?                               *)
CompareAt ==
    /\ pc = "at"
    /\ IF traj[frame] = pos
       THEN Return(frame)
       ELSE pc' = "before" /\ i' = frame /\ UNCHANGED ref
    /\ UNCHANGED <<traj, particle, args>>

(* "First, try to find delayed particle".                                  *)
SearchBefore ==
    /\ pc = "before" /\ i >= 0
    /\ IF traj[i] = pos
       THEN Return(i)
       ELSE i' = i - 1 /\ UNCHANGED <<pc, ref>>
    /\ UNCHANGED <<traj, particle, args>>

(* Mutant: the second loop starts one frame too far.                       *)
BeforeFailsSkips ==
    /\ pc = "before" /\ i < 0
    /\ pc' = "after" /\ i' = frame + 2
    /\ UNCHANGED <<traj, particle, args, ref>>

BeforeFails ==
    /\ pc = "before" /\ i < 0
    /\ pc' = "after" /\ i' = frame
    /\ UNCHANGED <<traj, particle, args, ref>>

(* "Then try to find too fast particle".                                   *)
SearchAfter ==
    /\ pc = "after" /\ i < FrameCount
    /\ IF traj[i] = pos
       THEN Return(i)
       ELSE i' = i + 1 /\ UNCHANGED <<pc, ref>>
    /\ UNCHANGED <<traj, particle, args>>

AfterFails ==
    /\ pc = "after" /\ i >= FrameCount
    /\ Return(NoFrame)
    /\ UNCHANGED <<traj, particle, args>>

Next == \/ Process \/ ProcessEnds
        \/ Call \/ CompareAt \/ SearchBefore \/ BeforeFails
        \/ SearchAfter \/ AfterFails

Spec == Init /\ [][Next]_vars

-----------------------------------------------------------------------------

(* post_process_ref_particle_data: one pass with two flags gives each      *)
(* frame the state of the reference definition, and born_frame and         *)
(* die_frame the first movement and the first rest after it.               *)
ProcessMatchesReference ==
    /\ \A f \in Frame : pc # "process" \/ f < i => state[f] = StateAt(traj, f)
    /\ pc # "process" => /\ bornFrame = BornFrame(traj)
                         /\ dieFrame = DieFrame(traj)

(* What the sender and the drawing rely on: a particle is ACTIVE exactly   *)
(* from born_frame to the frame before die_frame, where a die_frame that   *)
(* is still calloc's zero means that it never dies; and it is not ACTIVE   *)
(* at frame 0, whose position all frames are compared with.                *)
ActiveWindow ==
    pc # "process" =>
        \A f \in Frame :
            state[f] = Active <=>
                /\ 0 < bornFrame /\ bornFrame =< f
                /\ dieFrame > 0 => f < dieFrame

(* find_ref_particle_state returns the latest frame with this position     *)
(* that is not after the received one, else the earliest, else NULL.       *)
FindMatchesReference == pc = "return" => ref = FindRef(traj, frame, pos)

(* A particle that is never twice at one position while it is active, and  *)
(* then rests, if it dies, where it was last active.                       *)
SimplePath ==
    \A f, g \in Frame :
        state[f] = Active /\ traj[f] = traj[g]
            => f = g \/ (state[g] = Dead /\ f + 1 = dieFrame)

(* On such a path a position sent for an active frame f is attributed to f *)
(* however far the received frame number has run ahead or lags behind; the *)
(* last active position, where the dead particle rests, is attributed to f *)
(* as long as the received number is not after f, and to no earlier frame. *)
AttributedToSent ==
    pc = "return" /\ SimplePath =>
        \A f \in Frame :
            state[f] = Active /\ traj[f] = pos =>
                /\ ref >= f
                /\ f + 1 # dieFrame \/ frame =< f => ref = f
=============================================================================
