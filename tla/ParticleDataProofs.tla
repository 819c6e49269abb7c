------------------------- MODULE ParticleDataProofs -------------------------
(***************************************************************************)
(* For every trajectory, of any length: the pass over the frames computes  *)
(* what RefData defines by minima, and so do the three searches for the    *)
(* frame of a position.                                                    *)
(***************************************************************************)
EXTENDS ParticleData, RefDataProofs

(* After the frames below n the two flags tell whether the birth and the   *)
(* death have been passed, the two frame numbers where, and the states are *)
(* those of the reference.                                                 *)
Passed(n) ==
    /\ born <=> IsBorn(traj) /\ Birth(traj) < n
    /\ dead <=> Dies(traj) /\ Death(traj) < n
    /\ bornFrame = IF IsBorn(traj) /\ Birth(traj) < n THEN Birth(traj) ELSE 0
    /\ dieFrame = IF Dies(traj) /\ Death(traj) < n THEN Death(traj) ELSE 0
    /\ \A f \in Frame : f < n => state[f] = StateAt(traj, f)

ProcessDiscipline ==
    /\ state \in [Frame -> ParticleState]
    /\ pc = "process" => i \in 0 .. FrameCount /\ Passed(i)
    /\ pc # "process" => Passed(FrameCount)

(* What the searches have excluded so far.                                 *)
SearchDiscipline ==
    /\ frame \in Frame
    /\ pc = "before" =>
          /\ i \in -1 .. frame
          /\ \A f \in Frame : i < f /\ f =< frame => traj[f] # pos
    /\ pc = "after" =>
          /\ i \in Nat
          /\ \A f \in Frame : f < i \/ f =< frame => traj[f] # pos

IInv == ProcessDiscipline /\ SearchDiscipline /\ FindMatchesReference

-----------------------------------------------------------------------------

(* The birth is the first frame of a particle away from its initial        *)
(* position.                                                               *)
LEMMA BirthIs ==
    ASSUME IsBorn(traj)
    PROVE  /\ Birth(traj) \in Frame /\ Birth(traj) # 0
           /\ traj[Birth(traj)] # traj[0]
           /\ \A f \in Frame : traj[f] # traj[0] => Birth(traj) =< f
<1>1. Moved(traj) \in SUBSET Nat /\ Moved(traj) # {}
  BY FramesAreNat DEF Moved, IsBorn
<1>2. Birth(traj) \in Moved(traj) /\ \A f \in Moved(traj) : Birth(traj) =< f
  BY <1>1, MinIs DEF Birth
<1> QED
  BY <1>2 DEF Moved

(* The death is the first rest after the birth.                            *)
LEMMA DeathIs ==
    ASSUME Dies(traj)
    PROVE  /\ Death(traj) \in Frame /\ Death(traj) > Birth(traj)
           /\ traj[Death(traj)] = traj[Death(traj) - 1]
           /\ \A f \in Frame : f > Birth(traj) /\ traj[f] = traj[f - 1]
                                  => Death(traj) =< f
<1>1. Halted(traj) \in SUBSET Nat /\ Halted(traj) # {}
  BY FramesAreNat DEF Halted, Dies
<1>2. Death(traj) \in Halted(traj) /\ \A f \in Halted(traj) : Death(traj) =< f
  BY <1>1, MinIs DEF Death
<1> QED
  BY <1>2 DEF Halted

-----------------------------------------------------------------------------

(* One iteration of post_process_ref_particle_data.                        *)
LEMMA ProcessPasses ==
    ASSUME NEW n \in Frame, n = i, Passed(n), Process,
           state \in [Frame -> ParticleState]
    PROVE  Passed(n + 1)' /\ state' \in [Frame -> ParticleState]
<1>0. n \in Nat /\ traj' = traj /\ n + 1 \in Nat
  BY FramesAreNat DEF Process
<1>b. IsBorn(traj) => Birth(traj) \in Nat
  BY BirthIs, FramesAreNat
<1>d. /\ Dies(traj) => IsBorn(traj) /\ Death(traj) \in Nat
      /\ Dies(traj) => Death(traj) > Birth(traj)
  BY DeathIs, FramesAreNat DEF Dies
<1> DEFINE st == IF ~born' THEN Unborn ELSE IF dead' THEN Dead ELSE Active
<1>1. /\ born' <=> born \/ (~born /\ traj[n] # traj[0])
      /\ dead' <=> dead \/ (born' /\ ~dead /\ traj[n] = traj[n - 1])
  BY DEF Process, Leaves, Halts
<1>2. /\ bornFrame' = IF ~born /\ traj[n] # traj[0] THEN n ELSE bornFrame
      /\ dieFrame' = IF born' /\ ~dead /\ traj[n] = traj[n - 1] THEN n
                     ELSE dieFrame
  BY DEF Process, Leaves, Halts
<1>3. state' = [state EXCEPT ![n] = st]
  BY DEF Process
<1>4. st \in ParticleState /\ state' \in [Frame -> ParticleState]
  BY <1>3 DEF ParticleState
<1> HIDE DEF st
<1>5. ASSUME st = StateAt(traj, n)
      PROVE  \A f \in Frame : f < n + 1 => state'[f] = StateAt(traj, f)
  <2> SUFFICES ASSUME NEW f \in Frame, f < n + 1
               PROVE  state'[f] = StateAt(traj, f)
    OBVIOUS
  <2>1. f = n \/ f < n
    BY <1>0, FramesAreNat
  <2>2. CASE f = n
    BY <1>3, <1>5, <2>2
  <2>3. CASE f < n
    BY <1>0, <1>3, <2>3, FramesAreNat DEF Passed
  <2> QED
    BY <2>1, <2>2, <2>3
<1>6. CASE ~IsBorn(traj) \/ n < Birth(traj)
  <2>1. ~born /\ ~dead /\ bornFrame = 0 /\ dieFrame = 0
    <3>1. ~(IsBorn(traj) /\ Birth(traj) < n)
      BY <1>0, <1>6, <1>b
    <3>2. ~(Dies(traj) /\ Death(traj) < n)
      BY <1>0, <1>6, <1>b, <1>d
    <3> QED
      BY <3>1, <3>2 DEF Passed
  <2>2. traj[n] = traj[0]
    <3>1. CASE ~IsBorn(traj)
      BY <3>1 DEF IsBorn, Moved
    <3>2. CASE IsBorn(traj) /\ n < Birth(traj)
      <4>1. ~(Birth(traj) =< n)
        BY <1>0, <1>b, <3>2
      <4> QED
        BY <3>2, <4>1, BirthIs
    <3> QED
      BY <1>6, <3>1, <3>2
  <2>3. ~born' /\ ~dead' /\ bornFrame' = 0 /\ dieFrame' = 0
    BY <1>1, <1>2, <2>1, <2>2
  <2>4. st = StateAt(traj, n)
    BY <1>6, <2>3 DEF st, StateAt
  <2>5. ~(IsBorn(traj) /\ Birth(traj) < n + 1)
    BY <1>0, <1>6, <1>b
  <2>6. ~(Dies(traj) /\ Death(traj) < n + 1)
    BY <1>0, <1>6, <1>b, <1>d
  <2> QED
    BY <1>0, <1>4, <1>5, <2>3, <2>4, <2>5, <2>6 DEF Passed
<1>7. CASE IsBorn(traj) /\ n = Birth(traj)
  <2>1. /\ n # 0 /\ traj[n] # traj[0] /\ n - 1 \in Frame
        /\ ~(Dies(traj) /\ Death(traj) < n + 1)
    <3>1. n # 0 /\ traj[n] # traj[0]
      BY <1>7, BirthIs
    <3>2. n - 1 \in Frame
      BY <1>0, <3>1, FramesAssumption DEF Frame
    <3>3. Dies(traj) => Death(traj) > n /\ Death(traj) \in Nat
      BY <1>7, <1>d
    <3> QED
      BY <1>0, <3>1, <3>2, <3>3
  <2>2. traj[n - 1] = traj[0]
    <3>1. ~(n =< n - 1)
      BY <1>0
    <3> QED
      BY <1>7, <2>1, <3>1, BirthIs
  <2>3. ~born /\ ~dead /\ bornFrame = 0 /\ dieFrame = 0
    <3>1. ~(Birth(traj) < n)
      BY <1>0, <1>7
    <3>2. ~(Dies(traj) /\ Death(traj) < n)
      BY <1>0, <1>d, <2>1
    <3> QED
      BY <3>1, <3>2 DEF Passed
  <2>4. born' /\ ~dead' /\ bornFrame' = n /\ dieFrame' = 0
    BY <1>1, <1>2, <2>1, <2>2, <2>3
  <2>5. st = Active
    BY <2>4 DEF st
  <2>6. ~(n < Birth(traj)) /\ ~(Dies(traj) /\ n >= Death(traj))
    <3>1. Dies(traj) => Death(traj) > n /\ Death(traj) \in Nat
      BY <1>7, <1>d
    <3> QED
      BY <1>0, <1>7, <3>1
  <2>7. StateAt(traj, n) = Active
    BY <1>7, <2>6 DEF StateAt
  <2>8. IsBorn(traj) /\ Birth(traj) < n + 1
    BY <1>0, <1>7
  <2> QED
    BY <1>0, <1>4, <1>5, <1>7, <2>1, <2>4, <2>5, <2>7, <2>8 DEF Passed
<1>8. CASE IsBorn(traj) /\ Birth(traj) < n
  <2>0. Birth(traj) \in Nat /\ Birth(traj) < n + 1
    BY <1>0, <1>8, <1>b
  <2>1. born /\ bornFrame = Birth(traj)
    BY <1>8 DEF Passed
  <2>2. born' /\ bornFrame' = Birth(traj)
    BY <1>1, <1>2, <2>1
  <2>3. CASE Dies(traj) /\ Death(traj) < n
    <3>1. dead /\ dieFrame = Death(traj)
      BY <2>3 DEF Passed
    <3>2. dead' /\ dieFrame' = Death(traj)
      BY <1>1, <1>2, <3>1
    <3>3. /\ Death(traj) \in Nat /\ Death(traj) < n + 1 /\ n >= Death(traj)
          /\ ~(n < Birth(traj))
      BY <1>0, <1>8, <1>d, <2>0, <2>3
    <3>4. st = StateAt(traj, n)
      BY <1>8, <2>2, <2>3, <3>2, <3>3 DEF st, StateAt
    <3> QED
      BY <1>0, <1>4, <1>5, <1>8, <2>0, <2>2, <2>3, <3>2, <3>3, <3>4 DEF Passed
  <2>4. CASE ~(Dies(traj) /\ Death(traj) < n) /\ traj[n] = traj[n - 1]
    <3>1. ~dead
      BY <2>4 DEF Passed
    <3>2. dead' /\ dieFrame' = n
      BY <1>1, <1>2, <2>2, <2>4, <3>1
    <3>3. Dies(traj) /\ Death(traj) = n
      <4>1. n > Birth(traj)
        BY <1>0, <1>8, <2>0
      <4>2. n \in Halted(traj)
        BY <2>4, <4>1 DEF Halted
      <4>3. Dies(traj)
        BY <1>8, <4>2 DEF Dies
      <4>4. Death(traj) \in Nat /\ Death(traj) =< n
        BY <2>4, <4>1, <4>3, DeathIs, FramesAreNat
      <4> QED
        BY <1>0, <2>4, <4>3, <4>4
    <3>4. n >= Death(traj) /\ ~(n < Birth(traj)) /\ Death(traj) < n + 1
      BY <1>0, <1>8, <2>0, <3>3
    <3>5. st = StateAt(traj, n)
      BY <1>8, <2>2, <3>2, <3>3, <3>4 DEF st, StateAt
    <3> QED
      BY <1>0, <1>4, <1>5, <1>8, <2>0, <2>2, <3>2, <3>3, <3>4, <3>5 DEF Passed
  <2>5. CASE ~(Dies(traj) /\ Death(traj) < n) /\ traj[n] # traj[n - 1]
    <3>1. ~dead /\ dieFrame = 0
      BY <2>5 DEF Passed
    <3>2. ~dead' /\ dieFrame' = 0
      BY <1>1, <1>2, <2>5, <3>1
    <3>3. Dies(traj) => Death(traj) \in Nat /\ Death(traj) # n
      BY <2>5, DeathIs, FramesAreNat
    <3>4. /\ ~(Dies(traj) /\ Death(traj) < n + 1)
          /\ ~(Dies(traj) /\ n >= Death(traj))
      BY <1>0, <2>5, <3>3
    <3>5. ~(n < Birth(traj))
      BY <1>0, <1>8, <2>0
    <3>6. st = StateAt(traj, n)
      BY <1>8, <2>2, <3>2, <3>4, <3>5 DEF st, StateAt
    <3> QED
      BY <1>0, <1>4, <1>5, <1>8, <2>0, <2>2, <3>2, <3>4, <3>6 DEF Passed
  <2> QED
    BY <2>3, <2>4, <2>5
<1> QED
  BY <1>0, <1>6, <1>7, <1>8, <1>b

-----------------------------------------------------------------------------

(* Nothing has been passed before the first iteration.                     *)
LEMMA InitPassed == Init => ProcessDiscipline
<1> SUFFICES ASSUME Init PROVE ProcessDiscipline
  OBVIOUS
<1>1. /\ ~born /\ ~dead /\ bornFrame = 0 /\ dieFrame = 0
      /\ pc = "process" /\ i = 0
  BY DEF Init
<1>2. state \in [Frame -> ParticleState]
  BY DEF Init, ParticleState
<1>3. i \in 0 .. FrameCount
  BY <1>1, FramesAssumption
<1>4. \A f \in Frame : ~(f < 0)
  BY FramesAreNat
<1>5. ~(IsBorn(traj) /\ Birth(traj) < 0) /\ ~(Dies(traj) /\ Death(traj) < 0)
  BY <1>4, BirthIs, DeathIs
<1>6. Passed(0)
  BY <1>1, <1>4, <1>5 DEF Passed
<1> QED
  BY <1>1, <1>2, <1>3, <1>6 DEF ProcessDiscipline

(* The pass goes over all frames, and no search disturbs its result.       *)
LEMMA NextPassed == ProcessDiscipline /\ [Next]_vars => ProcessDiscipline'
<1> SUFFICES ASSUME ProcessDiscipline, [Next]_vars PROVE ProcessDiscipline'
  OBVIOUS
<1>1. CASE Process
  <2>1. /\ pc = "process" /\ pc' = "process" /\ i < FrameCount /\ i' = i + 1
        /\ i \in 0 .. FrameCount /\ Passed(i)
    BY <1>1 DEF Process, ProcessDiscipline
  <2>2. i \in Frame /\ i' \in 0 .. FrameCount
    BY <2>1, FramesAssumption DEF Frame
  <2>3. PICK n \in Frame : n = i
    BY <2>2
  <2>4. Passed(n + 1)' /\ state' \in [Frame -> ParticleState]
    BY <1>1, <2>1, <2>3, ProcessPasses DEF ProcessDiscipline
  <2> QED
    BY <2>1, <2>2, <2>3, <2>4 DEF ProcessDiscipline, Passed
<1>2. CASE ProcessEnds
  BY <1>2 DEF ProcessEnds, particle, args, ProcessDiscipline, Passed
<1>3. CASE pc # "process" /\ pc' # "process" /\ UNCHANGED <<traj, particle>>
  BY <1>3 DEF particle, ProcessDiscipline, Passed
<1>4. CASE UNCHANGED vars
  BY <1>4 DEF vars, particle, ProcessDiscipline, Passed
<1> QED
  BY <1>1, <1>2, <1>3, <1>4
  DEF Next, Call, CompareAt, SearchBefore, BeforeFails, SearchAfter,
      AfterFails, Return

-----------------------------------------------------------------------------

(* What FindRef is when one of the searches stops: a frame with the        *)
(* position before which the backward search found none, ...               *)
LEMMA FoundBefore ==
    ASSUME NEW n \in Frame, frame \in Frame, n =< frame, traj[n] = pos,
           \A f \in Frame : n < f /\ f =< frame => traj[f] # pos
    PROVE  FindRef(traj, frame, pos) = n
<1>1. /\ NoLater(traj, frame, pos) \in SUBSET Frame
      /\ n \in NoLater(traj, frame, pos)
  BY DEF NoLater, Matches
<1>2. ASSUME NEW f \in NoLater(traj, frame, pos) PROVE n >= f
  <2>1. f \in Frame /\ f =< frame /\ traj[f] = pos
    BY DEF NoLater, Matches
  <2>2. ~(n < f) /\ n \in Nat /\ f \in Nat
    BY <2>1, FramesAreNat
  <2> QED
    BY <2>2
<1>3. Max(NoLater(traj, frame, pos)) = n
  BY <1>1, <1>2, MaxUnique
<1> QED
  BY <1>1, <1>3 DEF FindRef

(* ... the first frame with the position after a failed backward search,   *)
LEMMA FoundAfter ==
    ASSUME NEW n \in Frame, frame \in Frame, traj[n] = pos,
           \A f \in Frame : f < n \/ f =< frame => traj[f] # pos
    PROVE  FindRef(traj, frame, pos) = n
<1>1. NoLater(traj, frame, pos) = {}
  BY DEF NoLater, Matches
<1>2. Matches(traj, pos) \in SUBSET Nat /\ n \in Matches(traj, pos)
  BY FramesAreNat DEF Matches
<1>3. ASSUME NEW f \in Matches(traj, pos) PROVE n =< f
  <2>1. f \in Frame /\ traj[f] = pos
    BY DEF Matches
  <2>2. ~(f < n) /\ n \in Nat /\ f \in Nat
    BY <2>1, FramesAreNat
  <2> QED
    BY <2>2
<1>4. Min(Matches(traj, pos)) = n
  BY <1>2, <1>3, MinUnique
<1> QED
  BY <1>1, <1>2, <1>4 DEF FindRef

(* ... or NULL when no frame has it.                                       *)
LEMMA FoundNowhere ==
    ASSUME \A f \in Frame : traj[f] # pos
    PROVE  FindRef(traj, frame, pos) = NoFrame
  BY DEF FindRef, NoLater, Matches

(* The searches of find_ref_particle_state exclude what they say, and stop *)
(* at the reference.                                                       *)
LEMMA NextSearch ==
    SearchDiscipline /\ FindMatchesReference /\ [Next]_vars
        => SearchDiscipline' /\ FindMatchesReference'
<1> SUFFICES ASSUME SearchDiscipline, FindMatchesReference, [Next]_vars
             PROVE  SearchDiscipline' /\ FindMatchesReference'
  OBVIOUS
<1> USE DEF args, particle
<1>0. frame \in Frame /\ frame \in Nat /\ \A f \in Frame : f \in Nat
  BY FramesAreNat DEF SearchDiscipline
<1>1. CASE Process
  BY <1>1 DEF Process, SearchDiscipline, FindMatchesReference
<1>2. CASE ProcessEnds
  BY <1>2 DEF ProcessEnds, SearchDiscipline, FindMatchesReference
<1>3. CASE Call
  BY <1>3 DEF Call, SearchDiscipline, FindMatchesReference
<1>4. CASE CompareAt
  <2>0. traj' = traj /\ frame' = frame /\ pos' = pos /\ pc = "at"
    BY <1>4 DEF CompareAt
  <2>1. CASE traj[frame] = pos
    <3>1. pc' = "return" /\ ref' = frame
      BY <1>4, <2>1 DEF CompareAt, Return
    <3>2. \A f \in Frame : frame < f /\ f =< frame => traj[f] # pos
      BY <1>0
    <3>3. FindRef(traj, frame, pos) = frame
      BY <1>0, <2>1, <3>2, FoundBefore
    <3> QED
      BY <1>0, <2>0, <3>1, <3>3 DEF SearchDiscipline, FindMatchesReference
  <2>2. CASE traj[frame] # pos
    <3>1. pc' = "before" /\ i' = frame
      BY <1>4, <2>2 DEF CompareAt
    <3>2. \A f \in Frame : frame < f /\ f =< frame => traj[f] # pos
      BY <1>0
    <3>3. i' \in -1 .. frame'
      BY <1>0, <2>0, <3>1
    <3> QED
      BY <1>0, <2>0, <3>1, <3>2, <3>3 DEF SearchDiscipline, FindMatchesReference
  <2> QED
    BY <2>1, <2>2
<1>5. CASE SearchBefore
  <2>0. /\ traj' = traj /\ frame' = frame /\ pos' = pos /\ pc = "before"
        /\ i \in -1 .. frame /\ i >= 0
        /\ \A f \in Frame : i < f /\ f =< frame => traj[f] # pos
    BY <1>5 DEF SearchBefore, SearchDiscipline
  <2>1. i \in Frame /\ i =< frame
    BY <1>0, <2>0, FramesAssumption DEF Frame
  <2>2. CASE traj[i] = pos
    <3>1. pc' = "return" /\ ref' = i
      BY <1>5, <2>2 DEF SearchBefore, Return
    <3>2. FindRef(traj, frame, pos) = i
      BY <1>0, <2>0, <2>1, <2>2, FoundBefore
    <3> QED
      BY <1>0, <2>0, <3>1, <3>2 DEF SearchDiscipline, FindMatchesReference
  <2>3. CASE traj[i] # pos
    <3>1. pc' = pc /\ i' = i - 1
      BY <1>5, <2>3 DEF SearchBefore
    <3>2. i' \in -1 .. frame
      BY <1>0, <2>1, <3>1
    <3>3. \A f \in Frame : i - 1 < f /\ f =< frame => traj[f] # pos
      <4> SUFFICES ASSUME NEW f \in Frame, i - 1 < f, f =< frame
                   PROVE  traj[f] # pos
        OBVIOUS
      <4>1. f = i \/ i < f
        BY <1>0, <2>1
      <4> QED
        BY <2>0, <2>3, <4>1
    <3> QED
      BY <1>0, <2>0, <3>1, <3>2, <3>3 DEF SearchDiscipline, FindMatchesReference
  <2> QED
    BY <2>2, <2>3
<1>6. CASE BeforeFails
  <2>0. /\ traj' = traj /\ frame' = frame /\ pos' = pos /\ pc = "before"
        /\ pc' = "after" /\ i' = frame /\ i \in -1 .. frame /\ i < 0
        /\ \A f \in Frame : i < f /\ f =< frame => traj[f] # pos
    BY <1>6 DEF BeforeFails, SearchDiscipline
  <2>1. \A f \in Frame : f < frame \/ f =< frame => traj[f] # pos
    <3> SUFFICES ASSUME NEW f \in Frame, f < frame \/ f =< frame
                 PROVE  traj[f] # pos
      OBVIOUS
    <3>1. i < f /\ f =< frame
      BY <1>0, <2>0
    <3> QED
      BY <2>0, <3>1
  <2> QED
    BY <1>0, <2>0, <2>1 DEF SearchDiscipline, FindMatchesReference
<1>7. CASE SearchAfter
  <2>0. /\ traj' = traj /\ frame' = frame /\ pos' = pos /\ pc = "after"
        /\ i \in Nat /\ i < FrameCount
        /\ \A f \in Frame : f < i \/ f =< frame => traj[f] # pos
    BY <1>7 DEF SearchAfter, SearchDiscipline
  <2>1. i \in Frame
    BY <2>0, FramesAssumption DEF Frame
  <2>2. CASE traj[i] = pos
    <3>1. pc' = "return" /\ ref' = i
      BY <1>7, <2>2 DEF SearchAfter, Return
    <3>2. FindRef(traj, frame, pos) = i
      BY <1>0, <2>0, <2>1, <2>2, FoundAfter
    <3> QED
      BY <1>0, <2>0, <3>1, <3>2 DEF SearchDiscipline, FindMatchesReference
  <2>3. CASE traj[i] # pos
    <3>1. pc' = pc /\ i' = i + 1
      BY <1>7, <2>3 DEF SearchAfter
    <3>2. \A f \in Frame : f < i + 1 \/ f =< frame => traj[f] # pos
      <4> SUFFICES ASSUME NEW f \in Frame, f < i + 1 \/ f =< frame
                   PROVE  traj[f] # pos
        OBVIOUS
      <4>1. f = i \/ f < i \/ f =< frame
        BY <1>0, <2>0
      <4> QED
        BY <2>0, <2>3, <4>1
    <3>3. i' \in Nat
      BY <2>0, <3>1
    <3> QED
      BY <1>0, <2>0, <3>1, <3>2, <3>3 DEF SearchDiscipline, FindMatchesReference
  <2> QED
    BY <2>2, <2>3
<1>8. CASE AfterFails
  <2>0. /\ traj' = traj /\ frame' = frame /\ pos' = pos
        /\ pc' = "return" /\ ref' = NoFrame
        /\ i \in Nat /\ i >= FrameCount
        /\ \A f \in Frame : f < i \/ f =< frame => traj[f] # pos
    BY <1>8 DEF AfterFails, Return, SearchDiscipline
  <2>1. \A f \in Frame : f < i
    BY <2>0, FramesAssumption DEF Frame
  <2>2. FindRef(traj, frame, pos) = NoFrame
    BY <2>0, <2>1, FoundNowhere
  <2> QED
    BY <1>0, <2>0, <2>2 DEF SearchDiscipline, FindMatchesReference
<1>9. CASE UNCHANGED vars
  BY <1>9 DEF vars, SearchDiscipline, FindMatchesReference
<1> QED
  BY <1>1, <1>2, <1>3, <1>4, <1>5, <1>6, <1>7, <1>8, <1>9 DEF Next

-----------------------------------------------------------------------------

(* The inductive invariant holds in every behaviour of the loops.          *)
THEOREM ParticleInvariant == Spec => []IInv
<1>1. Init => SearchDiscipline /\ FindMatchesReference
  BY FramesAssumption DEF Init, SearchDiscipline, FindMatchesReference, Frame
<1>2. Init => IInv
  BY <1>1, InitPassed DEF IInv
<1>3. IInv /\ [Next]_vars => IInv'
  BY NextPassed, NextSearch DEF IInv
<1> QED
  BY <1>2, <1>3, PTL DEF Spec

(* post_process_ref_particle_data computes the states and the frames of    *)
(* birth and death of the reference definition.                            *)
THEOREM ProcessCorrect == Spec => []ProcessMatchesReference
<1>1. IInv => ProcessMatchesReference
  <2> SUFFICES ASSUME IInv PROVE ProcessMatchesReference
    OBVIOUS
  <2>1. \A f \in Frame : f < FrameCount
    BY FramesAssumption DEF Frame
  <2>2. CASE pc = "process"
    BY <2>2 DEF IInv, ProcessDiscipline, Passed, ProcessMatchesReference
  <2>3. CASE pc # "process"
    <3>1. Passed(FrameCount)
      BY <2>3 DEF IInv, ProcessDiscipline
    <3>2. \A f \in Frame : state[f] = StateAt(traj, f)
      BY <2>1, <3>1 DEF Passed
    <3>3. bornFrame = BornFrame(traj)
      BY <2>1, <3>1, BirthIs DEF Passed, BornFrame
    <3>4. dieFrame = DieFrame(traj)
      BY <2>1, <3>1, DeathIs DEF Passed, DieFrame
    <3> QED
      BY <2>3, <3>2, <3>3, <3>4 DEF ProcessMatchesReference
  <2> QED
    BY <2>2, <2>3
<1> QED
  BY <1>1, ParticleInvariant, PTL

(* What the sender and the drawing read off the two frame numbers: the     *)
(* particle is ACTIVE exactly between them.                                *)
THEOREM ActiveWindowHolds == Spec => []ActiveWindow
<1>1. ProcessMatchesReference => ActiveWindow
  <2> SUFFICES ASSUME ProcessMatchesReference, pc # "process", NEW f \in Frame
               PROVE  state[f] = Active <=>
                          /\ 0 < bornFrame /\ bornFrame =< f
                          /\ dieFrame > 0 => f < dieFrame
    BY DEF ActiveWindow
  <2>1. /\ state[f] = StateAt(traj, f)
        /\ bornFrame = BornFrame(traj) /\ dieFrame = DieFrame(traj)
    BY DEF ProcessMatchesReference
  <2>2. f \in Nat
    BY FramesAreNat
  <2>3. /\ IsBorn(traj) => Birth(traj) \in Nat /\ Birth(traj) > 0
        /\ IsBorn(traj) => bornFrame = Birth(traj)
        /\ ~IsBorn(traj) => bornFrame = 0
    <3>1. IsBorn(traj) => Birth(traj) \in Nat /\ Birth(traj) # 0
      BY BirthIs, FramesAreNat
    <3> QED
      BY <2>1, <3>1 DEF BornFrame
  <2>4. /\ Dies(traj) => IsBorn(traj)
        /\ Dies(traj) => Death(traj) \in Nat /\ Death(traj) > Birth(traj)
        /\ Dies(traj) => dieFrame = Death(traj)
        /\ ~Dies(traj) => dieFrame = 0
    BY <2>1, DeathIs, FramesAreNat DEF Dies, DieFrame
  <2>5. StateAt(traj, f) = Active <=>
            /\ IsBorn(traj) /\ ~(f < Birth(traj))
            /\ ~(Dies(traj) /\ f >= Death(traj))
    BY DEF StateAt, Unborn, Active, Dead
  <2> QED
    BY <2>1, <2>2, <2>3, <2>4, <2>5
<1> QED
  BY <1>1, ProcessCorrect, PTL

(* find_ref_particle_state returns what the reference definition says, for *)
(* every trajectory, frame number and position.                            *)
THEOREM FindCorrect == Spec => []FindMatchesReference
<1>1. IInv => FindMatchesReference
  BY DEF IInv
<1> QED
  BY <1>1, ParticleInvariant, PTL

(* On a simple path a position sent for an active frame is attributed to   *)
(* that frame, but for the last one, where the dead particle rests.        *)
THEOREM AttributedToSentHolds == Spec => []AttributedToSent
<1>1. IInv /\ ProcessMatchesReference => AttributedToSent
  <2> SUFFICES ASSUME IInv, ProcessMatchesReference, pc = "return", SimplePath,
                      NEW f \in Frame, state[f] = Active, traj[f] = pos
               PROVE  /\ ref >= f
                      /\ f + 1 # dieFrame \/ frame =< f => ref = f
    BY DEF AttributedToSent
  <2>0. /\ f \in Nat /\ frame \in Frame /\ frame \in Nat
        /\ \A g \in Frame : g \in Nat
    BY FramesAreNat DEF IInv, SearchDiscipline
  <2>1. \A g \in Matches(traj, pos) : g = f \/ (g > f /\ f + 1 = dieFrame)
    <3> SUFFICES ASSUME NEW g \in Matches(traj, pos), g # f
                 PROVE  g > f /\ f + 1 = dieFrame
      OBVIOUS
    <3>1. g \in Frame /\ traj[g] = traj[f]
      BY DEF Matches
    <3>2. state[g] = Dead /\ f + 1 = dieFrame
      BY <3>1 DEF SimplePath
    <3>3. StateAt(traj, g) = Dead
      BY <3>1, <3>2 DEF ProcessMatchesReference
    <3>4. Dies(traj) /\ g >= Death(traj)
      BY <3>3 DEF StateAt, Unborn, Active, Dead
    <3>5. dieFrame = Death(traj)
      BY <3>4 DEF ProcessMatchesReference, DieFrame
    <3> QED
      BY <2>0, <3>1, <3>2, <3>4, <3>5
  <2>2. /\ f \in Matches(traj, pos) /\ Matches(traj, pos) \in SUBSET Frame
        /\ NoLater(traj, frame, pos) \in SUBSET Matches(traj, pos)
    BY DEF Matches, NoLater
  <2>3. ref = FindRef(traj, frame, pos)
    BY DEF IInv, FindMatchesReference
  <2>4. ref \in Matches(traj, pos)
    <3>1. CASE NoLater(traj, frame, pos) # {}
      <4>1. Max(NoLater(traj, frame, pos)) \in NoLater(traj, frame, pos)
        BY <2>2, <3>1, MaxIs
      <4> QED
        BY <2>2, <2>3, <3>1, <4>1 DEF FindRef
    <3>2. CASE NoLater(traj, frame, pos) = {}
      <4>1. Min(Matches(traj, pos)) \in Matches(traj, pos)
        BY <2>2, FramesAreNat, MinIs
      <4> QED
        BY <2>2, <2>3, <3>2, <4>1 DEF FindRef
    <3> QED
      BY <3>1, <3>2
  <2>5. ref >= f
    <3>1. ref = f \/ ref > f
      BY <2>1, <2>4
    <3>2. ref \in Nat
      BY <2>0, <2>2, <2>4
    <3> QED
      BY <2>0, <3>1, <3>2
  <2>6. CASE f + 1 # dieFrame
    BY <2>1, <2>4, <2>5, <2>6
  <2>7. CASE frame =< f
    <3>1. CASE NoLater(traj, frame, pos) # {}
      <4>1. Max(NoLater(traj, frame, pos)) \in NoLater(traj, frame, pos)
        BY <2>2, <3>1, MaxIs
      <4>2. ref \in Frame /\ ref =< frame
        BY <2>3, <3>1, <4>1 DEF FindRef, NoLater, Matches
      <4>3. ref \in Nat
        BY <2>0, <4>2
      <4> QED
        BY <2>0, <2>5, <2>7, <4>2, <4>3
    <3>2. CASE NoLater(traj, frame, pos) = {}
      <4>1. ASSUME NEW g \in Matches(traj, pos) PROVE f =< g
        <5>1. (g = f \/ g > f) /\ g \in Nat
          BY <2>0, <2>1, <2>2
        <5> QED
          BY <2>0, <5>1
      <4>2. Min(Matches(traj, pos)) = f
        BY <2>2, <4>1, FramesAreNat, MinUnique
      <4>3. ref = f
        BY <2>2, <2>3, <3>2, <4>2 DEF FindRef
      <4> QED
        BY <2>5, <4>3
    <3> QED
      BY <3>1, <3>2
  <2> QED
    BY <2>5, <2>6, <2>7
<1> QED
  BY <1>1, ParticleInvariant, ProcessCorrect, PTL
=============================================================================
