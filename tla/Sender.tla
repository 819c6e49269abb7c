------------------------------- MODULE Sender -------------------------------
(***************************************************************************)
(* The two threads of a sending client: the timer thread (src/timer.c),    *)
(* which advances the animation and posts a semaphore at every tick, and   *)
(* the main thread (src/client_particle_sender.c), which at every post     *)
(* handles what has arrived and sends the current frame to the server: its *)
(* number in a tag, the positions of the active particles in the items of  *)
(* a layer.  The commands of one frame leave one by one while the timer    *)
(* thread runs; the timer's mutex keeps them together.                     *)
(***************************************************************************)
EXTENDS RefData

CONSTANTS ParticleCount, \* pd->particle_count
          Position,
          Path,          \* the reference data: particles[p].states[f].pos
          LeadIn,        \* ticks before the first frame: 25
          SemMax         \* SEM_VALUE_MAX: sem_post fails at it

Particle == 0 .. ParticleCount - 1

ASSUME SenderAssumption ==
    /\ ParticleCount \in Nat
    /\ Path \in [Particle -> [Frame -> Position]]
    /\ LeadIn \in 1 .. Int16Max
    /\ SemMax \in Nat \ {0}

VARIABLES
    (* struct Timer, its mutex, and the semaphore                          *)
    run, tot, frame, timerLock, sem,
    (* timer thread                                                        *)
    tpc,
    (* main thread, its loop variable item_id, and whether ctx->sender has *)
    (* been set (cb_receive_node_create)                                   *)
    spc, item, bound,
    (* what the server was last told: the frame tag, and for each item of  *)
    (* the layer the frame whose position was set, NoFrame when unset      *)
    tag, layer

clock  == <<run, tot, frame>>
server == <<tag, layer>>
vars == <<clock, timerLock, sem, tpc, spc, item, bound, server>>

Free == "free"
Sending == {"frameTag", "values", "end", "unset"}

TypeOK ==
    /\ run \in {0, 1}
    /\ tot \in Int16
    /\ frame \in ClockFrame \cup {NotStarted}
    /\ timerLock \in {Free, "timer", "sender"}
    /\ sem \in 0 .. SemMax
    /\ tpc \in {"sleep", "tick", "post"}
    /\ spc \in {"wait", "update", "start", "lock"} \cup Sending
    /\ item \in 0 .. ParticleCount
    /\ bound \in BOOLEAN
    /\ tag \in ClockFrame \cup {NotStarted}
    /\ layer \in [Particle -> Frame \cup {NoFrame}]

Init ==
    /\ run = 0 /\ tot = NotStarted /\ frame = NotStarted
    /\ timerLock = Free /\ sem = 0
    /\ tpc = "sleep"
    /\ spc = "wait" /\ item = 0 /\ bound = FALSE
    /\ tag = NotStarted
    /\ layer = [p \in Particle |-> NoFrame]

Lock(t) == timerLock = Free /\ timerLock' = t
Unlock  == timerLock' = Free

-----------------------------------------------------------------------------
(* Timer thread: usleep, advance the clock under its mutex, sem_post.      *)

TimerLock ==
    /\ tpc = "sleep" /\ Lock("timer") /\ tpc' = "tick"
    /\ UNCHANGED <<clock, sem, spc, item, bound, server>>

Tick ==
    /\ tpc = "tick" /\ tpc' = "post"
    /\ IF run = 1
       THEN /\ tot' = NextTot(tot)
            /\ frame' = FrameOf(tot')
       ELSE UNCHANGED <<tot, frame>>
    /\ Unlock
    /\ UNCHANGED <<run, sem, spc, item, bound, server>>

Post ==
    /\ tpc = "post" /\ tpc' = "sleep"
    /\ sem' = IF sem < SemMax THEN sem + 1 ELSE sem
    /\ UNCHANGED <<clock, timerLock, spc, item, bound, server>>

TimerThread == TimerLock \/ Tick \/ Post

-----------------------------------------------------------------------------
(* Main thread: sem_wait, vrs_callback_update, verse_send_data.            *)

SemWait ==
    /\ spc = "wait" /\ sem > 0
    /\ sem' = sem - 1 /\ spc' = "update"
    /\ UNCHANGED <<clock, timerLock, tpc, item, bound, server>>

(* cb_receive_node_create: the sender node exists.                         *)
Bind ==
    /\ spc = "update" /\ ~bound /\ bound' = TRUE
    /\ UNCHANGED <<clock, timerLock, sem, tpc, spc, item, server>>

(* cb_receive_tag_create with the frame tag: the animation is started.     *)
StartLock ==
    /\ spc = "update" /\ bound /\ Lock("sender") /\ spc' = "start"
    /\ UNCHANGED <<clock, sem, tpc, item, bound, server>>

(* Mutant: the mutex is kept.                                              *)
StartLeaks ==
    /\ spc = "start" /\ spc' = "update"
    /\ run' = 1 /\ tot' = -LeadIn
    /\ UNCHANGED <<frame, timerLock, sem, tpc, item, bound, server>>

Start ==
    /\ spc = "start" /\ spc' = "update"
    /\ IF run = 0
       THEN run' = 1 /\ tot' = -LeadIn
       ELSE UNCHANGED <<run, tot>>
    /\ Unlock
    /\ UNCHANGED <<frame, sem, tpc, item, bound, server>>

UpdateReturns ==
    /\ spc = "update" /\ spc' = "lock"
    /\ UNCHANGED <<clock, timerLock, sem, tpc, item, bound, server>>

(* verse_send_data.                                                        *)
NoSender ==
    /\ spc = "lock" /\ ~bound /\ spc' = "wait"
    /\ UNCHANGED <<clock, timerLock, sem, tpc, item, bound, server>>

(* Mutant: the batch is sent without the mutex.                            *)
SendLockMissing ==
    /\ spc = "lock" /\ bound /\ spc' = "frameTag"
    /\ UNCHANGED <<clock, timerLock, sem, tpc, item, bound, server>>

SendLock ==
    /\ spc = "lock" /\ bound /\ Lock("sender") /\ spc' = "frameTag"
    /\ UNCHANGED <<clock, sem, tpc, item, bound, server>>

NotRunning ==
    /\ spc = "frameTag" /\ run = 0 /\ spc' = "wait"
    /\ Unlock
    /\ UNCHANGED <<clock, sem, tpc, item, bound, server>>

SendFrame ==
    /\ spc = "frameTag" /\ run = 1
    /\ IF frame \in Frame
       THEN tag' = frame /\ item' = 0 /\ spc' = "values"
       ELSE UNCHANGED <<tag, item>> /\ spc' = "end"
    /\ UNCHANGED <<clock, timerLock, sem, tpc, bound, layer>>

SendValue ==
    /\ spc = "values" /\ item < ParticleCount
    /\ layer' = IF StateAt(Path[item], frame) = Active
                THEN [layer EXCEPT ![item] = frame]
                ELSE layer
    /\ item' = item + 1
    /\ UNCHANGED <<clock, timerLock, sem, tpc, spc, bound, tag>>

ValuesSent ==
    /\ spc = "values" /\ item = ParticleCount /\ spc' = "end"
    /\ UNCHANGED <<clock, timerLock, sem, tpc, item, bound, server>>

(* "When animation is at the end, then "delete" particles".                *)
AtEnd == tot >= 0 /\ frame = 0

BeginUnset ==
    /\ spc = "end" /\ AtEnd /\ item' = 0 /\ spc' = "unset"
    /\ UNCHANGED <<clock, timerLock, sem, tpc, bound, server>>

SendUnset ==
    /\ spc = "unset" /\ item < ParticleCount
    /\ layer' = [layer EXCEPT ![item] = NoFrame]
    /\ item' = item + 1
    /\ UNCHANGED <<clock, timerLock, sem, tpc, spc, bound, tag>>

SendReturns ==
    /\ \/ spc = "end" /\ ~AtEnd
       \/ spc = "unset" /\ item = ParticleCount
    /\ spc' = "wait"
    /\ Unlock
    /\ UNCHANGED <<clock, sem, tpc, item, bound, server>>

SendData == \/ NoSender \/ SendLock \/ NotRunning \/ SendFrame \/ SendValue
            \/ ValuesSent \/ BeginUnset \/ SendUnset \/ SendReturns

SenderThread == \/ SemWait \/ Bind \/ StartLock \/ Start \/ UpdateReturns
                \/ SendData

Next == TimerThread \/ SenderThread

(* Both threads keep running, and each in the end gets the mutex when the  *)
(* other gives it back again and again, for the other sleeps in between.   *)
(* An update handles the finitely many commands that have arrived.         *)
Fairness == /\ SF_vars(TimerThread)
            /\ SF_vars(SenderThread)
            /\ SF_vars(UpdateReturns)

Spec == Init /\ [][Next]_vars /\ Fairness

-----------------------------------------------------------------------------

(* While no batch is on its way, the server has for every particle that is *)
(* active at the frame of the tag the position of that very frame: no tick *)
(* comes between the commands of a batch, and none is left out.            *)
LayerMatchesTag ==
    spc \notin Sending /\ tag # NotStarted =>
        \A p \in Particle : StateAt(Path[p], tag) = Active => layer[p] = tag

(* No position is ever sent for a frame where the particle is not active:  *)
(* the receiver can tell a position it gets from the resting ones.         *)
OnlyActiveSent ==
    \A p \in Particle :
        layer[p] # NoFrame => StateAt(Path[p], layer[p]) = Active

(* During the lead-in, and while the int16 tick count is negative after it *)
(* has wrapped, nothing is sent and nothing deleted: the layer stays.      *)
QuietBelowZero == [][tot < 0 => UNCHANGED layer]_vars

(* Doc of the unset loop ("When animation is at the end, then delete       *)
(* particles"): a particle that is not born yet at the frame last sent has *)
(* no position on the server, the one of the last cycle was deleted.       *)
DeletedAtEnd ==
    spc \notin Sending /\ tag # NotStarted =>
        \A p \in Particle : StateAt(Path[p], tag) = Unborn => layer[p] = NoFrame

(* A started animation shows every clock frame again and again, also after *)
(* the tick count has wrapped.                                             *)
Animates == \A f \in ClockFrame : run = 1 ~> frame = f

(* A started animation is sent: the semaphore loses no tick for good and   *)
(* the main thread gets the mutex.                                         *)
Streams == run = 1 ~> tag # NotStarted
=============================================================================
