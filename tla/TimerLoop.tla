----------------------------- MODULE TimerLoop ------------------------------
(***************************************************************************)
(* The pacing of timer_loop (src/timer.c): how long the thread sleeps      *)
(* between two ticks, and what it does when it is late.  Times are in      *)
(* units of usleep.  The loop only compares the time that has passed since *)
(* its start with counter periods, so the model keeps their difference     *)
(*    late = (current_tv - first_tv) - counter * Period                    *)
(* and time and counter may grow for ever.                                 *)
(***************************************************************************)
EXTENDS Integers

CONSTANTS Period,  \* ONE_SECOND / fps
          MaxLate  \* bound: the environment delays the thread up to this

VARIABLES late,
          delay,  \* the argument of usleep
          skew,   \* counter minus the ticks tot_frame has been advanced by
          pc,     \* "compute", "sleep" or "tick"
          calm    \* the environment has stopped delaying the thread

vars == <<late, delay, skew, pc, calm>>

TypeOK ==
    /\ late \in Int
    /\ delay \in Int
    /\ skew \in Int
    /\ pc \in {"compute", "sleep", "tick"}
    /\ calm \in BOOLEAN

Init == late = 0 /\ delay = 0 /\ skew = 0 /\ pc = "compute" /\ calm = FALSE

(* C's division truncates towards zero.                                    *)
CDiv(a, b) == IF a >= 0 THEN a \div b ELSE -((-a) \div b)

(* expected_tv - current_tv, when the thread looks at the time.            *)
Remaining == Period - late

(* The thread is delayed somewhere: the scheduler, usleep's overshoot, a   *)
(* wait for a timer's mutex.                                               *)
Lag ==
    /\ ~calm /\ late < MaxLate
    /\ late' = late + 1
    /\ UNCHANGED <<delay, skew, pc, calm>>

Calm == ~calm /\ calm' = TRUE /\ UNCHANGED <<late, delay, skew, pc>>

(* counter++ and sleep to the expected time ...                            *)
OnTime ==
    /\ pc = "compute" /\ Remaining > 0
    /\ delay' = Remaining
    /\ late' = late - Period /\ skew' = skew + 1
    /\ pc' = "sleep" /\ UNCHANGED calm

(* Mutant: the period is counted twice.                                    *)
TooLateTwice ==
    /\ pc = "compute" /\ Remaining =< 0
    /\ delay' = (-Remaining) % Period
    /\ LET add == 2 IN
       late' = late - add * Period /\ skew' = skew + add
    /\ pc' = "sleep" /\ UNCHANGED calm

(* Mutant: the counter skips the missed periods, the animation does not.   *)
TooLateCounted ==
    /\ pc = "compute" /\ Remaining =< 0
    /\ delay' = (-Remaining) % Period
    /\ LET add == 1 + (-Remaining) \div Period IN
       late' = late - add * Period /\ skew' = skew + add
    /\ pc' = "sleep" /\ UNCHANGED calm

(* Mutant: a late thread sleeps a whole period.                            *)
TooLateSleeps ==
    /\ pc = "compute" /\ Remaining =< 0
    /\ delay' = Period
    /\ LET add == 1 IN
       late' = late - add * Period /\ skew' = skew + add
    /\ pc' = "sleep" /\ UNCHANGED calm

(* ... or "crop delay and change counter and frame": the periods to add    *)
(* are computed from the delay that has just been cropped.                 *)
TooLate ==
    /\ pc = "compute" /\ Remaining =< 0
    /\ delay' = (-Remaining) % Period
    /\ LET add == 1 + CDiv(-delay', Period) IN
       late' = late - add * Period /\ skew' = skew + add
    /\ pc' = "sleep" /\ UNCHANGED calm

Sleep ==
    /\ pc = "sleep" /\ pc' = "tick"
    /\ late' = late + delay
    /\ UNCHANGED <<delay, skew, calm>>

(* A running timer's tot_frame advances, and the semaphore is posted.      *)
Tick ==
    /\ pc = "tick" /\ pc' = "compute"
    /\ skew' = skew - (IF delay > 0 THEN 1 ELSE 1 + CDiv(-delay, Period))
    /\ UNCHANGED <<late, delay, calm>>

Thread == OnTime \/ TooLate \/ Sleep \/ Tick
Next == Thread \/ Lag \/ Calm

Spec == Init /\ [][Next]_vars /\ WF_vars(Thread)

-----------------------------------------------------------------------------

(* No tick comes before its time, however the thread was delayed before:   *)
(* catching up never overshoots into running ahead.                        *)
NeverEarly == pc # "sleep" => late >= 0

(* The thread never sleeps for longer than a period.                       *)
SleepBounded == pc = "sleep" => delay \in 0 .. Period

(* The animation is advanced by as many frames as periods are counted.     *)
InStep == pc = "compute" => skew = 0

(* Once it is left alone the thread catches up and stays on time: each     *)
(* tick comes within its own period, and no period goes without a tick.    *)
CatchesUp == calm ~> [](pc = "compute" => late = 0)

(* Comment of the late branch ("crop delay and change counter and frame to *)
(* corresponding values"): a pass of a late thread leaves the counter at   *)
(* the value of the time, less than a period behind it.                    *)
CounterCorresponds == [][pc = "compute" /\ Remaining =< 0 /\ pc' = "sleep"
                            => late' < Period]_vars
=============================================================================
