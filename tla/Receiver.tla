------------------------------ MODULE Receiver ------------------------------
(***************************************************************************)
(* The threads of a receiving client and the data they share: the timer    *)
(* thread (src/timer.c), the communication thread with the callbacks that  *)
(* receive the animation (src/client_particle_receiver.c) and the drawing  *)
(* thread (display_rec_particle_system, src/display_glut.c).  One sender   *)
(* is tracked (the program never creates another number than              *)
(* DEFAULT_SENDER_COUNT = 1), with its timer and its received data, each   *)
(* behind a mutex of its own.  A callback is split where another thread    *)
(* can come between its statements: at each lock, and at the stores that   *)
(* only the lock keeps together.                                           *)
(***************************************************************************)
EXTENDS RefData

CONSTANTS Particle,  \* ids of the particles
          Position,  \* positions, the particles' own and others
          Path,      \* the reference data: particles[p].states[f].pos
          SemMax,    \* SEM_VALUE_MAX: sem_post fails at it
          MaxBatch   \* bound: callbacks that one vrs_callback_update makes

ASSUME ReceiverAssumption ==
    /\ Path \in [Particle -> [Frame -> Position]]
    /\ SemMax \in Nat \ {0}
    /\ MaxBatch \in Nat

VARIABLES
    (* struct Timer, its mutex, and the semaphore the timer thread posts   *)
    run, tot, frame, timerLock, sem,
    (* struct ReceivedParticleData and its mutex; the three pointers of a  *)
    (* struct ReceivedParticle, and its array received_states              *)
    recFrame, first, last, current, hist, recLock,
    (* timer thread                                                        *)
    tpc,
    (* communication thread: callbacks left in this update, the command    *)
    (* being handled, locals current_frame and ref_state                   *)
    rpc, left, msg, curFrame, ref,
    (* drawing thread and its local current_frame                          *)
    dpc, dFrame

clock    == <<run, tot, frame>>
pointers == <<first, last, current>>
recData  == <<recFrame, pointers, hist>>
locks    == <<timerLock, recLock>>
locals   == <<left, msg, curFrame, ref>>
receiver == <<rpc, locals>>
display  == <<dpc, dFrame>>
vars == <<clock, sem, recData, locks, tpc, receiver, display>>

Free == "free"
Thread == {"timer", "receiver", "display"}

Unreceived == "unreceived"
InTime     == "intime"
Delayed    == "delay"
Ahead      == "ahead"

(* RECEIVED_STATE_* of an entry of received_states.  Its other two fields, *)
(* received_frame and delay, are stored and never read: received_frame is  *)
(* curFrame when the entry is filled in, delay how far that is after the   *)
(* entry's frame (current_frame is uint16, but its conversions to and from *)
(* int16 cancel).                                                          *)
Entry == {Unreceived, InTime, Delayed, Ahead}

(* Commands: the frame tag's value, an item of the particle layer set or   *)
(* unset, and whatever the callbacks print or ignore (another tag, another *)
(* layer, an unknown node).  A sender's frame tag only takes clock frames. *)
FrameMsg == [kind : {"frame"}, frame : ClockFrame]
SetMsg   == [kind : {"set"}, particle : Particle, pos : Position]
UnsetMsg == [kind : {"unset"}, particle : Particle]
OtherMsg == [kind : {"other"}]
NoMsg    == [kind |-> "other"]
Message  == FrameMsg \cup SetMsg \cup UnsetMsg \cup OtherMsg

FramePc == {"frameLockTimer", "frameStart", "frameLockRec", "frameStore"}
SetPc   == {"setLockTimer", "setReadFrame", "setLockRec",
            "setFind", "setPointers", "setDelay"}
UnsetPc == {"unsetLockRec", "unsetFirst", "unsetLast", "unsetCurrent"}

TypeOK ==
    /\ run \in {0, 1}
    /\ tot \in Int16
    /\ frame \in ClockFrame \cup {NotStarted}
    /\ timerLock \in Thread \cup {Free}
    /\ sem \in 0 .. SemMax
    /\ recFrame \in ClockFrame \cup {NotStarted}
    /\ first   \in [Particle -> Frame \cup {NoFrame}]
    /\ last    \in [Particle -> Frame \cup {NoFrame}]
    /\ current \in [Particle -> Frame \cup {NoFrame}]
    /\ hist \in [Particle -> [Frame -> Entry]]
    /\ recLock \in Thread \cup {Free}
    /\ tpc \in {"sleep", "tick", "post"}
    /\ rpc \in {"wait", "dispatch"} \cup FramePc \cup SetPc \cup UnsetPc
    /\ left \in 0 .. MaxBatch
    /\ msg \in Message
    /\ rpc \in FramePc => msg \in FrameMsg
    /\ rpc \in SetPc => msg \in SetMsg
    /\ rpc \in UnsetPc => msg \in UnsetMsg
    /\ curFrame \in ClockFrame \cup {NotStarted}
    /\ ref \in Frame \cup {NoFrame}
    /\ dpc \in {"idle", "lockTimer", "readFrame", "draw"}
    /\ dFrame \in ClockFrame \cup {NotStarted}

(* create_timer and create_received_particle_data.                         *)
Init ==
    /\ run = 0 /\ tot = NotStarted /\ frame = NotStarted
    /\ timerLock = Free
    /\ sem = 0
    /\ recFrame = -1
    /\ first   = [p \in Particle |-> NoFrame]
    /\ last    = [p \in Particle |-> NoFrame]
    /\ current = [p \in Particle |-> NoFrame]
    /\ hist = [p \in Particle |->
                  [f \in Frame |-> Unreceived]]
    /\ recLock = Free
    /\ tpc = "sleep"
    /\ rpc = "wait" /\ left = 0 /\ msg = NoMsg
    /\ curFrame = NotStarted /\ ref = NoFrame
    /\ dpc = "idle" /\ dFrame = NotStarted

-----------------------------------------------------------------------------
(* Mutexes.                                                                *)

LockTimer(t)   == timerLock = Free /\ timerLock' = t /\ UNCHANGED recLock
UnlockTimer(t) == timerLock' = Free /\ UNCHANGED recLock
LockRec(t)     == recLock = Free /\ recLock' = t /\ UNCHANGED timerLock
UnlockRec(t)   == recLock' = Free /\ UNCHANGED timerLock

-----------------------------------------------------------------------------
(* Timer thread: usleep, advance the clock under its mutex, sem_post.      *)

TimerLock ==
    /\ tpc = "sleep" /\ LockTimer("timer") /\ tpc' = "tick"
    /\ UNCHANGED <<clock, sem, recData, receiver, display>>

(* Mutant: the mutex is kept when the clock does not run.                  *)
TickLeaks ==
    /\ tpc = "tick" /\ tpc' = "post"
    /\ IF run = 1
       THEN /\ tot' = NextTot(tot) /\ frame' = FrameOf(tot')
            /\ UnlockTimer("timer")
       ELSE UNCHANGED <<tot, frame, locks>>
    /\ UNCHANGED <<run, sem, recData, receiver, display>>

(* Mutant: the frame, not run, tells whether the clock has been started.   *)
TickWhenShown ==
    /\ tpc = "tick" /\ tpc' = "post"
    /\ IF frame # NotStarted
       THEN tot' = NextTot(tot) /\ frame' = FrameOf(tot')
       ELSE UNCHANGED <<tot, frame>>
    /\ UnlockTimer("timer")
    /\ UNCHANGED <<run, sem, recData, receiver, display>>

Tick ==
    /\ tpc = "tick"
    /\ IF run = 1
       THEN /\ tot' = NextTot(tot)
            /\ frame' = FrameOf(tot')
       ELSE UNCHANGED <<tot, frame>>
    /\ UnlockTimer("timer") /\ tpc' = "post"
    /\ UNCHANGED <<run, sem, recData, receiver, display>>

Post ==
    /\ tpc = "post" /\ tpc' = "sleep"
    /\ sem' = IF sem < SemMax THEN sem + 1 ELSE sem
    /\ UNCHANGED <<clock, recData, locks, receiver, display>>

TimerThread == TimerLock \/ Tick \/ Post

-----------------------------------------------------------------------------
(* Communication thread: sem_wait, then vrs_callback_update, which calls a *)
(* callback for every command that has arrived.                            *)

SemWait ==
    /\ rpc = "wait" /\ sem > 0
    /\ sem' = sem - 1
    /\ rpc' = "dispatch" /\ left' \in 0 .. MaxBatch
    /\ UNCHANGED <<clock, recData, locks, tpc, msg, curFrame, ref, display>>

UpdateReturns ==
    /\ rpc = "dispatch" /\ left = 0 /\ rpc' = "wait"
    /\ UNCHANGED <<clock, sem, recData, locks, tpc, locals, display>>

(* The locals of a callback end with it.                                   *)
CallbackReturns ==
    /\ rpc' = "dispatch" /\ UNCHANGED left
    /\ msg' = NoMsg /\ curFrame' = NotStarted /\ ref' = NoFrame

Entrance(kind) == CASE kind = "frame" -> "frameLockTimer"
                    [] kind = "set"   -> "setLockTimer"
                    [] kind = "unset" -> "unsetLockRec"
                    [] kind = "other" -> "dispatch"

Callback ==
    /\ rpc = "dispatch" /\ left > 0 /\ left' = left - 1
    /\ \E m \in Message : msg' = m /\ rpc' = Entrance(m.kind)
    /\ UNCHANGED <<clock, sem, recData, locks, tpc, curFrame, ref, display>>

(* _frame_received: the first frame starts the clock.                      *)
FrameLockTimer ==
    /\ rpc = "frameLockTimer" /\ LockTimer("receiver") /\ rpc' = "frameStart"
    /\ UNCHANGED <<clock, sem, recData, tpc, locals, display>>

(* Mutant: frame 0 does not start the clock.                               *)
FrameStartNonzero ==
    /\ rpc = "frameStart" /\ rpc' = "frameLockRec"
    /\ IF run = 0 /\ msg.frame > 0
       THEN run' = 1 /\ tot' = msg.frame
       ELSE UNCHANGED <<run, tot>>
    /\ UnlockTimer("receiver")
    /\ UNCHANGED <<frame, sem, recData, tpc, locals, display>>

(* Mutant: every frame sets the clock.                                     *)
FrameStartAlways ==
    /\ rpc = "frameStart" /\ rpc' = "frameLockRec"
    /\ run' = 1 /\ tot' = msg.frame
    /\ UnlockTimer("receiver")
    /\ UNCHANGED <<frame, sem, recData, tpc, locals, display>>

FrameStart ==
    /\ rpc = "frameStart" /\ rpc' = "frameLockRec"
    /\ IF run = 0
       THEN run' = 1 /\ tot' = msg.frame
       ELSE UNCHANGED <<run, tot>>
    /\ UnlockTimer("receiver")
    /\ UNCHANGED <<frame, sem, recData, tpc, locals, display>>

(* Mutant: rec_frame is stored without its mutex.                          *)
FrameLockRecMissing ==
    /\ rpc = "frameLockRec" /\ rpc' = "frameStore"
    /\ UNCHANGED <<clock, sem, recData, locks, tpc, locals, display>>

FrameLockRec ==
    /\ rpc = "frameLockRec" /\ LockRec("receiver") /\ rpc' = "frameStore"
    /\ UNCHANGED <<clock, sem, recData, tpc, locals, display>>

FrameStore ==
    /\ rpc = "frameStore" /\ CallbackReturns
    /\ recFrame' = msg.frame
    /\ UnlockRec("receiver")
    /\ UNCHANGED <<clock, sem, pointers, hist, tpc, display>>

(* cb_receive_layer_set_value: the clock is read under its own mutex and   *)
(* released before the received data are locked.                           *)
SetLockTimer ==
    /\ rpc = "setLockTimer" /\ LockTimer("receiver") /\ rpc' = "setReadFrame"
    /\ UNCHANGED <<clock, sem, recData, tpc, locals, display>>

(* Mutant: the timer's mutex is held while the other is taken.             *)
SetReadFrameHolding ==
    /\ rpc = "setReadFrame" /\ rpc' = "setLockRec"
    /\ curFrame' = frame
    /\ UNCHANGED <<clock, sem, recData, locks, tpc, left, msg, ref, display>>

SetReadFrame ==
    /\ rpc = "setReadFrame" /\ rpc' = "setLockRec"
    /\ curFrame' = frame
    /\ UnlockTimer("receiver")
    /\ UNCHANGED <<clock, sem, recData, tpc, left, msg, ref, display>>

SetLockRec ==
    /\ rpc = "setLockRec" /\ LockRec("receiver") /\ rpc' = "setFind"
    /\ UNCHANGED <<clock, sem, recData, tpc, locals, display>>

(* Before any frame number has arrived rec_frame is -1 and the search      *)
(* compares with states[-1], memory before the array: it may match, and    *)
(* then the frame read there is arbitrary (one outside the array is not    *)
(* followed further), or not, and then the search runs upwards.            *)
Lookup(p, pos) ==
    IF recFrame >= 0 THEN {FindRef(Path[p], recFrame, pos)}
    ELSE {FindRef(Path[p], -1, pos)} \cup Frame

SetFind ==
    /\ rpc = "setFind"
    /\ \E f \in Lookup(msg.particle, msg.pos) :
          IF f # NoFrame
          THEN /\ ref' = f /\ rpc' = "setPointers"
               /\ UNCHANGED <<locks, left, msg, curFrame>>
          ELSE CallbackReturns /\ UnlockRec("receiver")
    /\ UNCHANGED <<clock, sem, recData, tpc, display>>

(* Mutant: the comparisons are the wrong way round.                        *)
SetPointersSwapped ==
    /\ rpc = "setPointers" /\ rpc' = "setDelay"
    /\ LET p == msg.particle IN
       /\ first' = [first EXCEPT ![p] =
             IF first[p] = NoFrame \/ first[p] < ref THEN ref ELSE first[p]]
       /\ last' = [last EXCEPT ![p] =
             IF first[p] = NoFrame \/ last[p] > ref THEN ref ELSE last[p]]
       /\ current' = [current EXCEPT ![p] = ref]
    /\ UNCHANGED <<clock, sem, recFrame, hist, locks, tpc, locals, display>>

SetPointers ==
    /\ rpc = "setPointers" /\ rpc' = "setDelay"
    /\ LET p == msg.particle IN
       /\ first' = [first EXCEPT ![p] =
             IF first[p] = NoFrame \/ first[p] > ref THEN ref ELSE first[p]]
       /\ last' = [last EXCEPT ![p] =
             IF first[p] = NoFrame \/ last[p] < ref THEN ref ELSE last[p]]
       /\ current' = [current EXCEPT ![p] = ref]
    /\ UNCHANGED <<clock, sem, recFrame, hist, locks, tpc, locals, display>>

Classify(delay) == IF delay \in {0, 1} THEN InTime
                   ELSE IF delay > 1 THEN Delayed ELSE Ahead

SetDelay ==
    /\ rpc = "setDelay" /\ CallbackReturns
    /\ hist' = [hist EXCEPT ![msg.particle][ref] = Classify(curFrame - ref)]
    /\ UnlockRec("receiver")
    /\ UNCHANGED <<clock, sem, recFrame, pointers, tpc, display>>

(* cb_receive_layer_unset_value: the pointers go, received_states stays.   *)
UnsetLockRec ==
    /\ rpc = "unsetLockRec" /\ LockRec("receiver") /\ rpc' = "unsetFirst"
    /\ UNCHANGED <<clock, sem, recData, tpc, locals, display>>

UnsetFirst ==
    /\ rpc = "unsetFirst" /\ rpc' = "unsetLast"
    /\ first' = [first EXCEPT ![msg.particle] = NoFrame]
    /\ UNCHANGED <<clock, sem, recFrame, last, current, hist, locks, tpc,
                   locals, display>>

UnsetLast ==
    /\ rpc = "unsetLast" /\ rpc' = "unsetCurrent"
    /\ last' = [last EXCEPT ![msg.particle] = NoFrame]
    /\ UNCHANGED <<clock, sem, recFrame, first, current, hist, locks, tpc,
                   locals, display>>

(* Mutant: the current state is forgotten.                                 *)
UnsetCurrentForgets ==
    /\ rpc = "unsetCurrent" /\ CallbackReturns
    /\ UnlockRec("receiver")
    /\ UNCHANGED <<clock, sem, recData, tpc, display>>

UnsetCurrent ==
    /\ rpc = "unsetCurrent" /\ CallbackReturns
    /\ current' = [current EXCEPT ![msg.particle] = NoFrame]
    /\ UnlockRec("receiver")
    /\ UNCHANGED <<clock, sem, recFrame, first, last, hist, tpc, display>>

FrameReceived == FrameLockTimer \/ FrameStart \/ FrameLockRec \/ FrameStore
LayerSetValue == \/ SetLockTimer \/ SetReadFrame \/ SetLockRec
                 \/ SetFind \/ SetPointers \/ SetDelay
LayerUnsetValue == UnsetLockRec \/ UnsetFirst \/ UnsetLast \/ UnsetCurrent

ReceiverThread == \/ SemWait \/ UpdateReturns \/ Callback
                  \/ FrameReceived \/ LayerSetValue \/ LayerUnsetValue

-----------------------------------------------------------------------------
(* Drawing thread: the received data are locked for the whole drawing, the *)
(* clock is read under its mutex inside.                                   *)

DrawLockRec ==
    /\ dpc = "idle" /\ LockRec("display") /\ dpc' = "lockTimer"
    /\ UNCHANGED <<clock, sem, recData, tpc, receiver, dFrame>>

DrawLockTimer ==
    /\ dpc = "lockTimer" /\ LockTimer("display") /\ dpc' = "readFrame"
    /\ UNCHANGED <<clock, sem, recData, tpc, receiver, dFrame>>

DrawReadFrame ==
    /\ dpc = "readFrame" /\ dpc' = "draw"
    /\ dFrame' = frame
    /\ UnlockTimer("display")
    /\ UNCHANGED <<clock, sem, recData, tpc, receiver>>

(* The particles are drawn from the received data and dFrame, if it is not *)
(* negative; nothing shared is written.  dFrame is dead from here on.      *)
Draw ==
    /\ dpc = "draw" /\ dpc' = "idle"
    /\ dFrame' = NotStarted
    /\ UnlockRec("display")
    /\ UNCHANGED <<clock, sem, recData, tpc, receiver>>

Drawing == DrawLockTimer \/ DrawReadFrame \/ Draw
DisplayThread == DrawLockRec \/ Drawing

-----------------------------------------------------------------------------

Next == TimerThread \/ ReceiverThread \/ DisplayThread

(* Every thread keeps running.  A thread that asks for a mutex again and   *)
(* again finds it free in the end gets it: each holder gives it back and   *)
(* sleeps (usleep, sem_wait, the redraw timer) before it asks again.  The  *)
(* window need not be redrawn for ever.                                    *)
Fairness == /\ SF_vars(TimerThread)
            /\ SF_vars(ReceiverThread)
            /\ SF_vars(Drawing)

Spec == Init /\ [][Next]_vars /\ Fairness

-----------------------------------------------------------------------------
(* Safety.                                                                 *)

(* The one nesting of the two mutexes is received data, then timer: no     *)
(* thread that holds the timer's mutex waits for the other.  The callbacks *)
(* need both and must give the first back before they ask for the second.  *)
NoCircularWait ==
    /\ timerLock = "receiver" => rpc \in {"frameStart", "setReadFrame"}
    /\ timerLock = "display" => dpc = "readFrame"
    /\ timerLock = "timer" => tpc = "tick"

(* Outside the callback that is changing them, the three pointers of a     *)
(* particle are set together, first and last enclose current, and each     *)
(* points at a state that has been received: a drawing dereferences them   *)
(* after testing only one.                                                 *)
PointersTogether ==
    recLock # "receiver" =>
        \A p \in Particle :
            \/ first[p] = NoFrame /\ last[p] = NoFrame /\ current[p] = NoFrame
            \/ /\ NoFrame < first[p]
               /\ first[p] =< current[p] /\ current[p] =< last[p]

PointersReceived ==
    recLock # "receiver" =>
        \A p \in Particle :
            \A f \in {first[p], last[p], current[p]} \ {NoFrame} :
                hist[p][f] # Unreceived

PointersSound == PointersTogether /\ PointersReceived

(* The two halves of _frame_received are under different mutexes: whoever  *)
(* sees a received frame finds the clock already running.                  *)
RunsBeforeFrame == recFrame >= 0 => run = 1

(* Once a drawing has begun to look, the received data do not change under *)
(* it until it is done.                                                    *)
DrawingIsolated == [][dpc # "idle" => UNCHANGED recData]_vars

(* A clock that shows frames follows the animation: with every change of   *)
(* its count it goes to the frame's successor, and from the last one to    *)
(* the first; where the int16 count wraps it stays at frame 0 until the    *)
(* count is positive again.  Frames received later do not set it anew.     *)
FollowsAnimation ==
    [][frame # NotStarted /\ (frame' # frame \/ tot' # tot) =>
           \/ frame' = (frame + 1) % (FrameCount - 1)
           \/ frame' = 0 /\ (tot < 0 \/ tot' < 0)]_vars

-----------------------------------------------------------------------------
(* What the callbacks implement.  A callback takes effect at once, when it *)
(* has found the state (SetFind) or got the mutex (UnsetLockRec); what it  *)
(* stores from then on is the effect it already had.                       *)

PointersOf(p) == [first |-> first[p], last |-> last[p], current |-> current[p]]

AbsSpan ==
    [p \in Particle |->
        IF rpc = "setPointers" /\ p = msg.particle
        THEN IF first[p] = NoFrame
             THEN [first |-> ref, last |-> ref, current |-> ref]
             ELSE [first |-> IF ref < first[p] THEN ref ELSE first[p],
                   last |-> IF ref > last[p] THEN ref ELSE last[p],
                   current |-> ref]
        ELSE IF rpc \in UnsetPc \ {"unsetLockRec"} /\ p = msg.particle
        THEN [first |-> NoFrame, last |-> NoFrame, current |-> NoFrame]
        ELSE PointersOf(p)]

AbsHist ==
    IF rpc \in {"setPointers", "setDelay"}
    THEN [hist EXCEPT ![msg.particle][ref] = Classify(curFrame - ref)]
    ELSE hist

Abs == INSTANCE ReceivedData WITH span <- AbsSpan, hist <- AbsHist

(* Whatever the other threads do in between, the received data change as   *)
(* if every callback were atomic, which is what the mutex is for.          *)
AppearsAtomic == Abs!Spec

-----------------------------------------------------------------------------
(* Liveness.                                                               *)

(* Whatever the other threads do with the mutexes, an update that has      *)
(* begun comes to its end.                                                 *)
UpdateEnds == rpc # "wait" ~> rpc = "wait"

(* Once the first frame has started the clock, it shows a frame.           *)
ClockTicks == run = 1 ~> frame # NotStarted
=============================================================================
