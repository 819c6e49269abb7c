------------------------------ MODULE MCClient ------------------------------
(***************************************************************************)
(* The client's start and end, the reading of its directory, and the       *)
(* pacing of its timer thread, in one instance for TLC.  ClientMain knows  *)
(* the second as one step and the third without time, so a behaviour       *)
(* drives one of them, of those that the run asks for.                     *)
(***************************************************************************)
EXTENDS ClientMain, FiniteSets, TLC

CONSTANTS Part,  \* of "main", "load", "timer"
          File, Number, Size, Wrap, Period, MaxLate

(* The entries of a directory differ in nothing but what they are given.   *)
Entries == Permutations(File)

(* A directory is finite; sscanf and the header give ints.                 *)
ASSUME LoadAssumption ==
    /\ IsFiniteSet(File) /\ Number \subseteq Int /\ Size \subseteq Int
    /\ Wrap \in Nat \ {0}

(* fps is at most ONE_SECOND: otherwise the client crashes (ClientMain).   *)
ASSUME TimerAssumption == Period \in Nat \ {0} /\ MaxLate \in Nat

VARIABLES driven, files, number, size, changed, pc, left, maxCount, frameCount,
          particles, frames, states, unclosed,
          late, delay, skew, tpc, calm

D == INSTANCE LoadData WITH data <- files
T == INSTANCE TimerLoop WITH pc <- tpc

loadVars == <<files, number, size, changed, pc, left, maxCount, frameCount,
              particles, frames, states, unclosed>>
timerVars == <<late, delay, skew, tpc, calm>>

MainRests ==
    /\ type = "sender" /\ fps = 1 /\ directory = Null
    /\ main = "return" /\ timer = "none" /\ receiver = "none"
    /\ live = {} /\ pd = FALSE /\ first = Null
    /\ at = Null /\ run = FALSE
    /\ over = "exit" /\ failed = {} /\ misused = {}

LoadRests ==
    /\ files = {} /\ number = <<>> /\ size = <<>> /\ changed = FALSE
    /\ pc = "count" /\ left = {} /\ maxCount = 0 /\ frameCount = 0
    /\ particles = 0 /\ frames = 0 /\ states = <<>> /\ unclosed = {}

MCInit ==
    /\ T!Init /\ driven \in Part
    /\ \/ driven = "main" /\ Init /\ LoadRests
       \/ driven = "load" /\ D!Init /\ MainRests
       \/ driven = "timer" /\ MainRests /\ LoadRests

MCNext ==
    /\ UNCHANGED driven
    /\ \/ driven = "main" /\ Next /\ UNCHANGED <<loadVars, timerVars>>
       \/ driven = "load" /\ D!Next /\ UNCHANGED <<vars, timerVars>>
       \/ driven = "timer" /\ T!Next /\ UNCHANGED <<vars, loadVars>>

MCSpec == /\ MCInit /\ [][MCNext]_<<driven, vars, loadVars, timerVars>>
          /\ Fairness
          /\ WF_timerVars(driven = "timer" /\ T!Thread)

(* Nothing is written outside the arrays.                                  *)
WritesInside == D!WritesInside

(* Complete directories are loaded completely.                             *)
LoadsWhatIsThere == D!LoadsWhatIsThere

(* A bad file number costs a descriptor and a frame.                       *)
GapsAreRejected == D!GapsAreRejected

(* No tick of the clock is early.                                          *)
NeverEarly == T!NeverEarly

(* The animation advances with the periods that are counted.               *)
InStep == T!InStep

(* A timer thread that is left alone catches up.                           *)
CatchesUp == T!CatchesUp
=============================================================================
