---------------------------- MODULE ClientProofs ----------------------------
(***************************************************************************)
(* The start and end of a client, the reading of its directory, and the    *)
(* pacing of its timer thread, for all values of the constants: whoever    *)
(* crashes has a cause and freed memory is touched only after a failure;   *)
(* nothing is written outside the arrays, and what is there is loaded; no  *)
(* tick is early and no frame is lost, however long the thread is delayed. *)
(***************************************************************************)
EXTENDS MCClient, FiniteSetTheorems, TLAPS

-----------------------------------------------------------------------------
(* The start and end of a client.                                          *)

(* While these places of the main thread are reached pd, or the senders,   *)
(* have not been freed.                                                    *)
Started == {"connect", "stream", "startReceiver", "glut", "display"}
HasData == Started \cup {"startTimer", "freeData"}
HasSenders == HasData \cup {"freeReceived", "freeSenders"}
Cleaning == {"freeData", "freeReceived", "freeSenders", "clearList", "return"}

HeapDiscipline ==
    /\ main = "create" =>
          pd = (directory # Null) /\ (pd => "pd" \in live)
    /\ main \in HasData => "pd" \in live
    /\ main \in HasSenders => "senders" \in live
    /\ "received" \in live => type = "receiver"

ThreadDiscipline ==
    /\ receiver # "none" => main \in {"glut", "display"}
    /\ run => main \in {"stream", "glut", "display"}
    /\ timer # "none" =>
          main \in Started \/ failed \cap {"connection", "receiver"} # {}
    /\ main \in {"connect", "stream"} => type = "sender"
    /\ main \in Cleaning /\ type = "receiver" =>
          failed \cap {"timer", "receiver"} # {}

IInv ==
    /\ TypeOK
    /\ over = "no" => HeapDiscipline /\ ThreadDiscipline
    /\ MishapsHaveCauses

-----------------------------------------------------------------------------

(* The client has no objects yet.                                          *)
LEMMA InitHolds == Init => IInv
  BY ClientMainAssumption
  DEF Init, IInv, TypeOK, HeapDiscipline, ThreadDiscipline, HasData, HasSenders,
      Started, Cleaning, MishapsHaveCauses, CrashHasCause, FreedAfterFailure,
      Client, Thread, Object

(* Every step of a thread keeps the invariant.                             *)
LEMMA StepHolds == IInv /\ [Next]_vars => IInv'
<1> SUFFICES ASSUME IInv, [Next]_vars PROVE IInv'
  OBVIOUS
<1> USE ClientMainAssumption
    DEF IInv, TypeOK, HeapDiscipline, ThreadDiscipline, HasData, HasSenders,
        Started, Cleaning, MishapsHaveCauses, CrashHasCause, FreedAfterFailure,
        Client, Thread, Object, arguments, data, ends
<1>1. CASE Options
  BY <1>1 DEF Options, Main
<1>2. CASE BadOptions
  BY <1>2 DEF BadOptions, Main, Ends
<1>3. CASE ReadData
  BY <1>3 DEF ReadData, Main
<1>4. CASE CreateSenders
  <2>1. type = "receiver" /\ ~pd => directory = Null
    BY <1>4 DEF CreateSenders, Main
  <2>2. CASE type = "receiver" /\ ~pd
    BY <1>4, <2>1, <2>2 DEF CreateSenders, Main, Ends
  <2>3. CASE ~(type = "receiver" /\ ~pd)
    <3>1. over' = "no" /\ "senders" \in live' /\ live \subseteq live'
      BY <1>4, <2>3 DEF CreateSenders, Main
    <3>2. "received" \in live' => type = "receiver"
      BY <1>4, <2>3 DEF CreateSenders, Main
    <3>3. main' \in HasData => "pd" \in live'
      BY <1>4, <3>1 DEF CreateSenders, Main
    <3> QED
      BY <1>4, <2>3, <3>1, <3>2, <3>3 DEF CreateSenders, Main
  <2> QED
    BY <2>2, <2>3
<1>5. CASE StartTimer
  BY <1>5 DEF StartTimer, Main, AfterTimer
<1>6. CASE StartTimerFails
  BY <1>6 DEF StartTimerFails, Main, Fails
<1>7. CASE Connect
  BY <1>7 DEF Connect, Main
<1>8. CASE ConnectFails
  BY <1>8 DEF ConnectFails, Main, Fails
<1>9. CASE StartReceiver
  BY <1>9 DEF StartReceiver, Main
<1>10. CASE StartReceiverFails
  BY <1>10 DEF StartReceiverFails, Main, Fails
<1>11. CASE Display
  <2>1. fps = 0 => fps \notin 1 .. OneSecond
    BY DEF NoPeriod
  <2>2. CrashHasCause'
    BY <1>11, <2>1 DEF Display, Main, Ends
  <2>3. TypeOK'
    BY <1>11 DEF Display, Main, Ends
  <2>4. FreedAfterFailure'
    BY <1>11 DEF Display, Main, Ends
  <2>5. over' = "no" => HeapDiscipline' /\ ThreadDiscipline'
    BY <1>11 DEF Display, Main, Ends
  <2> QED
    BY <2>2, <2>3, <2>4, <2>5
<1>12. CASE Escape
  BY <1>12 DEF Escape, Main, Ends
<1>13. CASE FreeData
  BY <1>13 DEF FreeData, Main
<1>14. CASE FreeReceived
  BY <1>14 DEF FreeReceived, Main, Follows
<1>15. CASE FreeSenders
  BY <1>15 DEF FreeSenders, Main
<1>16. CASE ClearList
  BY <1>16 DEF ClearList, Main
<1>17. CASE Return
  BY <1>17 DEF Return, Main, Ends
<1>18. CASE ReceiverConnects
  BY <1>18 DEF ReceiverConnects
<1>19. CASE ReceiverConnectFails
  BY <1>19 DEF ReceiverConnectFails
<1>20. CASE RunTimer
  BY <1>20 DEF RunTimer, InSession
<1>21. CASE Terminate
  BY <1>21 DEF Terminate, InSession, Ends
<1>22. CASE Pace
  <2>1. NoPeriod => fps \notin 1 .. OneSecond
    BY DEF NoPeriod
  <2>2. CrashHasCause'
    BY <1>22, <2>1 DEF Pace, Timer, Ends
  <2>3. TypeOK'
    BY <1>22 DEF Pace, Timer, Ends
  <2>4. FreedAfterFailure'
    BY <1>22 DEF Pace, Timer, Ends
  <2>5. over' = "no" => HeapDiscipline' /\ ThreadDiscipline'
    BY <1>22 DEF Pace, Timer, Ends
  <2> QED
    BY <2>2, <2>3, <2>4, <2>5
<1>23. CASE First
  BY <1>23 DEF First, Timer
<1>24. CASE Tick
  BY <1>24 DEF Tick, Timer
<1>25. CASE NextSender
  BY <1>25 DEF NextSender, Timer, Follows
<1>26. CASE Post
  BY <1>26 DEF Post, Timer
<1>27. CASE UNCHANGED vars
  BY <1>27 DEF vars
<1> QED
  BY <1>1, <1>2, <1>3, <1>4, <1>5, <1>6, <1>7, <1>8, <1>9, <1>10, <1>11,
     <1>12, <1>13, <1>14, <1>15, <1>16, <1>17, <1>18, <1>19, <1>20,
     <1>21, <1>22, <1>23, <1>24, <1>25, <1>26, <1>27
  DEF Next, MainStep, TimerStep

(* The invariant holds of every reachable state.                           *)
THEOREM Invariant == Spec => []IInv
  BY InitHolds, StepHolds, PTL DEF Spec

(* The variables of the client keep their types.                           *)
THEOREM TypeCorrect == Spec => []TypeOK
<1>1. IInv => TypeOK
  BY DEF IInv
<1> QED
  BY Invariant, <1>1, PTL

(* No client crashes but of one of the four causes, and none touches freed *)
(* memory but after a failure, whatever the order of the threads' steps.   *)
THEOREM MishapsHaveCausesAlways == Spec => []MishapsHaveCauses
<1>1. IInv => MishapsHaveCauses
  BY DEF IInv
<1> QED
  BY Invariant, <1>1, PTL

-----------------------------------------------------------------------------
(* The reading of the directory.                                           *)

(* What the passes have to do with the files, while none has changed.      *)
Done == File \ left
Rejected == {f \in Done \cap files : D!BadNumber(f)}

LoadTypeOK ==
    /\ files \in SUBSET File /\ left \in SUBSET File
    /\ number \in [files -> Number] /\ size \in [files -> Size]
    /\ changed \in BOOLEAN
    /\ pc \in {"count", "fill", "loaded", "failed"}
    /\ maxCount \in Nat /\ frameCount \in Nat
    /\ particles \in Nat /\ frames \in Nat

Measured ==
    /\ pc \in {"count", "failed"} => DOMAIN states = {} /\ unclosed = {}
    /\ pc = "loaded" => left = {}
    /\ \A s \in DOMAIN states : s[2] \in 0 .. frames - 1 /\ s[1] \in Nat

Countable == \A f \in files : size[f] < Wrap

CountedSoFar ==
    pc = "count" /\ ~changed =>
        /\ frameCount = Cardinality(Done \cap files)
        /\ \A f \in Done \cap files : size[f] =< maxCount
        /\ Countable => maxCount < Wrap

FilledSoFar ==
    pc \in {"fill", "loaded"} /\ ~changed =>
        /\ frames = Cardinality(files) % Wrap
        /\ \A f \in files : size[f] =< maxCount
        /\ Countable => particles = maxCount
        /\ unclosed = Rejected
        /\ \A s \in DOMAIN states :
              /\ states[s] \in (Done \cap files) \ Rejected
              /\ s \in D!StatesOf(states[s])
        /\ \A f \in (Done \cap files) \ Rejected :
              D!StatesOf(f) \subseteq DOMAIN states

LoadInv == LoadTypeOK /\ Measured /\ CountedSoFar /\ FilledSoFar

(* LoadData counts as this module does.                                    *)
LEMMA Counting == \A s : D!Cardinality(s) = Cardinality(s)
  BY Zenon DEF D!Cardinality, Cardinality

(* The files that a pass has come to are finitely many.                    *)
LEMMA FinitelyMany ==
    ASSUME LoadInv
    PROVE  /\ IsFiniteSet(files) /\ IsFiniteSet(Done \cap files)
           /\ Cardinality(files) \in Nat
<1>1. IsFiniteSet(files)
  BY LoadAssumption, FS_Subset DEF LoadInv, LoadTypeOK
<1>2. IsFiniteSet(Done \cap files)
  BY <1>1, FS_Subset
<1> QED
  BY <1>1, <1>2, FS_CardinalityType

(* What a uint16 keeps of a number.                                        *)
LEMMA Uint16Keeps ==
    ASSUME NEW n \in Nat
    PROVE  /\ n % Wrap \in Nat /\ n \div Wrap \in Nat
           /\ n = Wrap * (n \div Wrap) + (n % Wrap)
           /\ n < Wrap => n % Wrap = n
<1>1. Wrap \in Nat \ {0}
  BY LoadAssumption
<1>2. \A m \in Nat, k \in Nat \ {0} :
         /\ m % k \in Nat /\ m \div k \in Nat
         /\ m = k * (m \div k) + (m % k)
         /\ m < k => m % k = m
  OBVIOUS
<1> QED
  BY <1>1, <1>2

LEMMA InitLoads == D!Init => LoadInv
<1> SUFFICES ASSUME D!Init PROVE LoadInv
  OBVIOUS
<1>1. Done = {} /\ DOMAIN states = {}
  BY DEF D!Init, D!NoStates, Done
<1>2. Done \cap files = {} /\ Cardinality({}) = 0
  BY <1>1, FS_EmptySet
<1>3. maxCount < Wrap /\ maxCount = 0
  BY LoadAssumption DEF D!Init
<1>4. LoadTypeOK
  BY DEF D!Init, LoadTypeOK
<1>5. Measured /\ FilledSoFar
  BY <1>1 DEF D!Init, Measured, FilledSoFar
<1>6. CountedSoFar
  BY <1>2, <1>3 DEF D!Init, CountedSoFar
<1> QED
  BY <1>4, <1>5, <1>6 DEF LoadInv

(* A file counts once, when the first pass comes to it.                    *)
LEMMA CountsFile ==
    ASSUME LoadInv, NEW f \in File, D!CountFile(f) PROVE LoadInv'
<1> USE LoadAssumption DEF D!CountFile, D!directory, D!counts, D!arrays
<1>1. /\ pc = "count" /\ pc' = "count" /\ f \in left /\ left' = left \ {f}
      /\ files' = files /\ number' = number /\ size' = size /\ changed' = changed
      /\ states' = states /\ unclosed' = unclosed
      /\ particles' = particles /\ frames' = frames
  OBVIOUS
<1>2. /\ Done' = Done \cup {f}
      /\ f \in files => (Done \cap files)' = (Done \cap files) \cup {f}
      /\ f \notin files => (Done \cap files)' = Done \cap files
      /\ f \notin Done \cap files
  BY <1>1 DEF Done, LoadInv, LoadTypeOK
<1>3. CASE f \in files
  <2>1. /\ frameCount' = frameCount + 1
        /\ maxCount' = IF size[f] > maxCount THEN size[f] ELSE maxCount
    BY <1>3
  <2>2. size[f] \in Int /\ maxCount \in Nat /\ frameCount \in Nat
    BY <1>3 DEF LoadInv, LoadTypeOK
  <2>3. maxCount' \in Nat /\ size[f] =< maxCount' /\ maxCount =< maxCount'
    BY <2>1, <2>2
  <2>4. frameCount' \in Nat
    BY <2>1, <2>2
  <2>5. Cardinality((Done \cap files)') = Cardinality(Done \cap files) + 1
    BY <1>2, <1>3, FinitelyMany, FS_AddElement
  <2>6. CountedSoFar'
    <3>1. ASSUME ~changed
          PROVE  /\ frameCount' = Cardinality((Done \cap files)')
                 /\ \A g \in (Done \cap files)' : size[g] =< maxCount'
                 /\ Countable => maxCount' < Wrap
      <4>1. /\ frameCount = Cardinality(Done \cap files)
            /\ \A g \in Done \cap files : size[g] =< maxCount
            /\ Countable => maxCount < Wrap
        BY <1>1, <3>1 DEF LoadInv, CountedSoFar
      <4>2. \A g \in Done \cap files : size[g] \in Int
        BY DEF LoadInv, LoadTypeOK
      <4>3. \A g \in Done \cap files : size[g] =< maxCount'
        BY <2>2, <2>3, <4>1, <4>2
      <4>4. Countable => maxCount' < Wrap
        BY <1>3, <2>1, <4>1 DEF Countable
      <4> QED
        BY <1>2, <1>3, <2>1, <2>3, <2>5, <4>1, <4>3, <4>4
    <3> QED
      BY <1>1, <3>1 DEF CountedSoFar, Done, Countable
  <2>7. LoadTypeOK'
    BY <1>1, <2>3, <2>4 DEF LoadInv, LoadTypeOK
  <2>8. Measured' /\ FilledSoFar'
    BY <1>1 DEF LoadInv, Measured, FilledSoFar
  <2> QED
    BY <2>6, <2>7, <2>8 DEF LoadInv
<1>4. CASE f \notin files
  <2>1. frameCount' = frameCount /\ maxCount' = maxCount
    BY <1>4
  <2>2. (Done \cap files)' = Done \cap files
    BY <1>2, <1>4
  <2>3. CountedSoFar'
    BY <1>1, <2>1, <2>2 DEF LoadInv, CountedSoFar, Countable
  <2>4. LoadTypeOK'
    BY <1>1, <2>1 DEF LoadInv, LoadTypeOK
  <2>5. Measured' /\ FilledSoFar'
    BY <1>1 DEF LoadInv, Measured, FilledSoFar
  <2> QED
    BY <2>3, <2>4, <2>5 DEF LoadInv
<1> QED
  BY <1>3, <1>4

(* The second pass finds the arrays as large as the first has measured.    *)
LEMMA AllocatesArrays == ASSUME LoadInv, D!Allocate PROVE LoadInv'
<1> USE DEF D!Allocate, D!directory, D!counts, D!Uint16
<1>1. /\ pc = "count" /\ pc' = "fill" /\ left = {} /\ left' = File
      /\ files' = files /\ number' = number /\ size' = size /\ changed' = changed
      /\ states' = states /\ unclosed' = unclosed
      /\ maxCount' = maxCount /\ frameCount' = frameCount
      /\ particles' = maxCount % Wrap /\ frames' = frameCount % Wrap
  OBVIOUS
<1>2. Done \cap files = files /\ Done' = {} /\ Rejected' = {}
  BY <1>1 DEF Done, Rejected, LoadInv, LoadTypeOK
<1>3. LoadTypeOK'
  <2>1. maxCount \in Nat /\ frameCount \in Nat
    BY DEF LoadInv, LoadTypeOK
  <2>2. particles' \in Nat /\ frames' \in Nat
    BY <1>1, <2>1, Uint16Keeps
  <2> QED
    BY <1>1, <2>2 DEF LoadInv, LoadTypeOK
<1>4. Measured' /\ CountedSoFar'
  BY <1>1 DEF LoadInv, Measured, CountedSoFar
<1>5. FilledSoFar'
  <2>1. DOMAIN states' = {} /\ unclosed' = {} /\ (Done \cap files)' = {}
    BY <1>1, <1>2 DEF LoadInv, Measured
  <2>2. ~changed => /\ frameCount = Cardinality(files)
                    /\ \A f \in files : size[f] =< maxCount
                    /\ Countable => maxCount < Wrap
    BY <1>1, <1>2 DEF LoadInv, CountedSoFar
  <2>3. maxCount < Wrap => particles' = maxCount
    BY <1>1, Uint16Keeps DEF LoadInv, LoadTypeOK
  <2>4. Countable' <=> Countable
    BY <1>1 DEF Countable
  <2> QED
    BY <1>1, <1>2, <2>1, <2>2, <2>3, <2>4 DEF FilledSoFar
<1> QED
  BY <1>3, <1>4, <1>5 DEF LoadInv

(* The second pass writes into the states of the frame of a file, or       *)
(* rejects it.                                                             *)
LEMMA FillsFile ==
    ASSUME LoadInv, NEW f \in File, D!FillFile(f) PROVE LoadInv'
<1> USE LoadAssumption DEF D!FillFile, D!directory, D!counts, D!arrays
<1>1. /\ pc = "fill" /\ pc' = "fill" /\ f \in left /\ left' = left \ {f}
      /\ files' = files /\ number' = number /\ size' = size /\ changed' = changed
      /\ maxCount' = maxCount /\ frameCount' = frameCount
      /\ particles' = particles /\ frames' = frames
  OBVIOUS
<1>2. /\ Done' = Done \cup {f} /\ f \notin Done
      /\ \A g : D!BadNumber(g)' <=> D!BadNumber(g)
      /\ \A g : D!StatesOf(g)' = D!StatesOf(g)
      /\ Countable' <=> Countable
  BY <1>1 DEF Done, LoadInv, LoadTypeOK, D!BadNumber, D!StatesOf, Countable
<1>3. LoadTypeOK' /\ CountedSoFar'
  BY <1>1 DEF LoadInv, LoadTypeOK, CountedSoFar
<1>4. CASE f \notin files
  <2>1. states' = states /\ unclosed' = unclosed
    BY <1>4
  <2>2. (Done \cap files)' = Done \cap files /\ Rejected' = Rejected
    BY <1>1, <1>2, <1>4 DEF Rejected
  <2>3. Measured'
    BY <1>1, <2>1 DEF LoadInv, Measured
  <2>4. FilledSoFar'
    BY <1>1, <1>2, <2>1, <2>2 DEF LoadInv, FilledSoFar
  <2> QED
    BY <1>3, <2>3, <2>4 DEF LoadInv
<1>5. CASE f \in files /\ D!BadNumber(f)
  <2>1. states' = states /\ unclosed' = unclosed \cup {f}
    BY <1>5
  <2>2. /\ (Done \cap files)' = (Done \cap files) \cup {f}
        /\ Rejected' = Rejected \cup {f}
    BY <1>1, <1>2, <1>5 DEF Rejected
  <2>3. Measured'
    BY <1>1, <2>1 DEF LoadInv, Measured
  <2>4. FilledSoFar'
    BY <1>1, <1>2, <2>1, <2>2 DEF LoadInv, FilledSoFar
  <2> QED
    BY <1>3, <2>3, <2>4 DEF LoadInv
<1>6. CASE f \in files /\ ~D!BadNumber(f)
  <2>1. /\ unclosed' = unclosed
        /\ DOMAIN states' = DOMAIN states \cup D!StatesOf(f)
        /\ \A s \in DOMAIN states' :
              states'[s] = IF s \in D!StatesOf(f) THEN f ELSE states[s]
    BY <1>6
  <2>2. /\ (Done \cap files)' = (Done \cap files) \cup {f}
        /\ Rejected' = Rejected /\ f \notin Rejected
    BY <1>1, <1>2, <1>6 DEF Rejected
  <2>3. /\ number[f] \in Int /\ size[f] \in Int /\ frames \in Nat
        /\ number[f] \in 1 .. frames
    BY <1>6 DEF LoadInv, LoadTypeOK, D!BadNumber
  <2>4. \A s \in D!StatesOf(f) : s[2] \in 0 .. frames - 1 /\ s[1] \in Nat
    BY <2>3 DEF D!StatesOf
  <2>5. Measured'
    BY <1>1, <2>1, <2>4 DEF LoadInv, Measured
  <2>6. FilledSoFar'
    <3>1. ASSUME ~changed
          PROVE  /\ frames = Cardinality(files) % Wrap
                 /\ \A g \in files : size[g] =< maxCount
                 /\ Countable => particles = maxCount
                 /\ unclosed = Rejected
      BY <1>1, <3>1 DEF LoadInv, FilledSoFar
    <3>2. ASSUME ~changed, NEW s \in DOMAIN states'
          PROVE  /\ states'[s] \in ((Done \cap files) \ Rejected)'
                 /\ s \in D!StatesOf(states'[s])
      <4>1. CASE s \in D!StatesOf(f)
        BY <1>1, <2>1, <2>2, <4>1
      <4>2. CASE s \notin D!StatesOf(f)
        <5>1. s \in DOMAIN states /\ states'[s] = states[s]
          BY <2>1, <3>2, <4>2
        <5>2. states[s] \in (Done \cap files) \ Rejected /\ s \in D!StatesOf(states[s])
          BY <1>1, <3>2, <5>1 DEF LoadInv, FilledSoFar
        <5> QED
          BY <2>2, <5>1, <5>2
      <4> QED
        BY <4>1, <4>2
    <3>3. ASSUME ~changed, NEW g \in ((Done \cap files) \ Rejected)'
          PROVE  D!StatesOf(g) \subseteq DOMAIN states'
      BY <1>1, <2>1, <2>2, <3>3 DEF LoadInv, FilledSoFar
    <3> QED
      BY <1>1, <1>2, <2>1, <2>2, <3>1, <3>2, <3>3 DEF FilledSoFar
  <2> QED
    BY <1>3, <2>5, <2>6 DEF LoadInv
<1> QED
  BY <1>4, <1>5, <1>6

(* The directory changes once, and is not what it was from then on.        *)
LEMMA ChangesFile ==
    ASSUME LoadInv, NEW f \in File, D!Change(f) PROVE LoadInv'
<1> USE LoadAssumption DEF D!Change, D!counts, D!arrays
<1>1. /\ changed' = TRUE /\ pc' = pc /\ left' = left /\ maxCount' = maxCount
      /\ frameCount' = frameCount /\ states' = states /\ unclosed' = unclosed
      /\ particles' = particles /\ frames' = frames
  OBVIOUS
<1>2. /\ files' \in SUBSET File /\ number' \in [files' -> Number]
      /\ size' \in [files' -> Size]
  <2>1. CASE f \notin files
    BY <2>1 DEF LoadInv, LoadTypeOK
  <2>2. CASE f \in files
    BY <2>2 DEF LoadInv, LoadTypeOK
  <2> QED
    BY <2>1, <2>2
<1>3. LoadTypeOK'
  BY <1>1, <1>2 DEF LoadInv, LoadTypeOK
<1> QED
  BY <1>1, <1>3 DEF LoadInv, Measured, CountedSoFar, FilledSoFar

LEMMA NextLoads == LoadInv /\ [D!Next]_D!vars => LoadInv'
<1> SUFFICES ASSUME LoadInv, [D!Next]_D!vars PROVE LoadInv'
  OBVIOUS
<1>1. ASSUME NEW f \in File, D!CountFile(f) \/ D!FillFile(f) \/ D!Change(f)
      PROVE  LoadInv'
  BY <1>1, CountsFile, FillsFile, ChangesFile
<1>2. CASE D!Allocate
  BY <1>2, AllocatesArrays
<1>3. CASE D!OpenFails \/ D!ReopenFails
  BY <1>3
  DEF D!OpenFails, D!ReopenFails, D!directory, D!counts, D!arrays, LoadInv,
      LoadTypeOK, Measured, CountedSoFar, FilledSoFar
<1>4. CASE D!Loaded
  <2>1. /\ Done' = Done /\ Rejected' = Rejected
        /\ \A g : D!StatesOf(g)' = D!StatesOf(g)
        /\ Countable' <=> Countable
    BY <1>4
    DEF D!Loaded, D!directory, D!arrays, Done, Rejected, D!BadNumber, D!StatesOf,
        Countable
  <2> QED
    BY <1>4, <2>1
    DEF D!Loaded, D!directory, D!counts, D!arrays, LoadInv, LoadTypeOK, Measured,
        CountedSoFar, FilledSoFar
<1>5. CASE UNCHANGED D!vars
  <2>1. /\ Done' = Done /\ Rejected' = Rejected
        /\ \A g : D!StatesOf(g)' = D!StatesOf(g)
        /\ Countable' <=> Countable
    BY <1>5
    DEF D!vars, D!directory, D!arrays, Done, Rejected, D!BadNumber, D!StatesOf,
        Countable
  <2> QED
    BY <1>5, <2>1
    DEF D!vars, D!directory, D!counts, D!arrays, LoadInv, LoadTypeOK, Measured,
        CountedSoFar, FilledSoFar
<1> QED
  BY <1>1, <1>2, <1>3, <1>4, <1>5 DEF D!Next

(* The invariant of the two passes.                                        *)
THEOREM LoadInvariant == D!Spec => []LoadInv
  BY InitLoads, NextLoads, PTL DEF D!Spec

(* read_ref_particle_data writes into no frame outside the arrays, and to  *)
(* no particle outside, unless a file has changed since it was measured or *)
(* has more particles than a uint16 counts.                                *)
THEOREM WritesInsideHolds == D!Spec => []WritesInside
<1>1. ASSUME LoadInv PROVE WritesInside
  <2>1. ASSUME NEW s \in DOMAIN states, D!Sound
        PROVE  s[1] \in 0 .. particles - 1
    <3>1. pc \in {"fill", "loaded"}
      BY <1>1, <2>1 DEF LoadInv, LoadTypeOK, Measured
    <3>2. /\ states[s] \in files /\ s \in D!StatesOf(states[s])
          /\ size[states[s]] =< particles
      BY <1>1, <2>1, <3>1 DEF LoadInv, FilledSoFar, D!Sound, Countable
    <3>3. size[states[s]] \in Int /\ particles \in Nat
      BY <1>1, <3>2, LoadAssumption DEF LoadInv, LoadTypeOK
    <3>4. s[1] \in 0 .. size[states[s]] - 1
      BY <3>2 DEF D!StatesOf
    <3> QED
      BY <3>2, <3>3, <3>4
  <2> QED
    BY <1>1, <2>1 DEF LoadInv, Measured, WritesInside, D!WritesInside
<1> QED
  BY <1>1, LoadInvariant, PTL

(* Files of frames 1 to n are loaded by read_ref_particle_data, each       *)
(* particle of each file into the state of its frame, whatever the orders  *)
(* of the two passes: all of them if a uint16 can count them, otherwise    *)
(* those of the frames that it counts.  The others are refused.            *)
THEOREM LoadsWhatIsThereHolds == D!Spec => []LoadsWhatIsThere
<1> DEFINE Loaded == {f \in files : number[f] =< Cardinality(files) % Wrap}
<1>1. ASSUME LoadInv, pc = "loaded", D!Numbered, D!Sound
      PROVE  /\ \A f \in files, p \in 0 .. maxCount - 1 :
                   LET s == <<p, number[f] - 1>> IN
                   IF f \in Loaded /\ p < size[f]
                   THEN s \in DOMAIN states /\ states[s] = f
                   ELSE s \notin DOMAIN states
             /\ unclosed = files \ Loaded
             /\ Cardinality(files) < Wrap => Loaded = files
  <2>1. /\ Done \cap files = files /\ number \in [files -> Int]
        /\ size \in [files -> Int] /\ maxCount \in Nat
    BY <1>1, LoadAssumption DEF LoadInv, LoadTypeOK, Measured, Done
  <2>2. /\ frames = Cardinality(files) % Wrap /\ ~changed
        /\ \A f \in files : number[f] \in 1 .. Cardinality(files)
    BY <1>1, Counting DEF LoadInv, FilledSoFar, D!Numbered, D!Sound
  <2>3. Rejected = files \ Loaded
    BY <2>1, <2>2 DEF Rejected, D!BadNumber
  <2>4. \A f, g \in files : number[f] = number[g] => f = g
    BY <1>1 DEF D!Numbered, D!Distinct
  <2>5. ASSUME NEW f \in files, NEW p \in Int, <<p, number[f] - 1>> \in DOMAIN states
        PROVE  /\ states[<<p, number[f] - 1>>] = f /\ p < size[f]
               /\ f \in Loaded
    <3>1. PICK s : s = <<p, number[f] - 1>>
      OBVIOUS
    <3>2. states[s] \in files \ Rejected /\ s \in D!StatesOf(states[s])
      BY <1>1, <2>1, <2>2, <2>5, <3>1 DEF LoadInv, FilledSoFar
    <3>3. PICK q \in 0 .. size[states[s]] - 1 : s = <<q, number[states[s]] - 1>>
      BY <3>2 DEF D!StatesOf
    <3>4. p = q /\ number[f] - 1 = number[states[s]] - 1
      BY <3>1, <3>3
    <3>5. number[f] = number[states[s]]
      BY <2>1, <3>2, <3>4
    <3>6. f = states[s]
      BY <2>4, <3>2, <3>5
    <3> QED
      BY <2>1, <2>3, <3>1, <3>2, <3>3, <3>4, <3>6
  <2>6. ASSUME NEW f \in Loaded, NEW p \in 0 .. maxCount - 1, p < size[f]
        PROVE  <<p, number[f] - 1>> \in DOMAIN states
    <3>1. <<p, number[f] - 1>> \in D!StatesOf(f)
      BY <2>1, <2>6 DEF D!StatesOf
    <3>2. D!StatesOf(f) \subseteq DOMAIN states
      BY <1>1, <2>1, <2>2, <2>3 DEF LoadInv, FilledSoFar
    <3> QED
      BY <3>1, <3>2
  <2>7. unclosed = files \ Loaded
    BY <1>1, <2>2, <2>3 DEF LoadInv, FilledSoFar
  <2>8. Cardinality(files) < Wrap => Loaded = files
    <3>1. Cardinality(files) \in Nat
      BY <1>1, FinitelyMany
    <3> QED
      BY <2>1, <2>2, <3>1, Uint16Keeps
  <2> QED
    BY <2>5, <2>6, <2>7, <2>8
<1>2. {f \in files : number[f] =< D!Uint16(D!Cardinality(files))} = Loaded
  BY Counting DEF D!Uint16
<1> HIDE DEF Loaded
<1>3. LoadInv => LoadsWhatIsThere
  BY <1>1, <1>2, Counting DEF LoadsWhatIsThere, D!LoadsWhatIsThere
<1> QED
  BY <1>3, LoadInvariant, PTL

(* Every file with a bad number, which read_ref_particle_data does not     *)
(* close, costs a frame without positions, for any number of files, except *)
(* the files that a uint16 cannot count.                                   *)
THEOREM GapsAreRejectedHolds == D!Spec => []GapsAreRejected
<1>1. ASSUME LoadInv, pc = "loaded", D!Distinct, ~changed,
             \A f \in files : size[f] > 0
      PROVE  Cardinality(unclosed) =
                Cardinality(D!Gaps) + Wrap * (Cardinality(files) \div Wrap)
  <2> DEFINE Good == files \ unclosed
             Frames == 0 .. frames - 1
             Filled == Frames \ D!Gaps
             place == [f \in Good |-> number[f] - 1]
  <2>1. /\ Done \cap files = files /\ number \in [files -> Int]
        /\ size \in [files -> Int] /\ frames \in Nat
    BY <1>1, LoadAssumption DEF LoadInv, LoadTypeOK, Measured, Done
  <2>2. /\ unclosed = Rejected /\ unclosed \subseteq files
        /\ frames = Cardinality(files) % Wrap
    BY <1>1 DEF LoadInv, FilledSoFar, Rejected
  <2>3. IsFiniteSet(files) /\ IsFiniteSet(unclosed)
    BY <1>1, <2>2, FinitelyMany, FS_Subset
  <2>4. IsFiniteSet(Frames) /\ Cardinality(Frames) = frames
    BY <2>1, FS_Interval
  <2>5. D!Gaps \subseteq Frames
    BY DEF D!Gaps
  <2>6. ASSUME NEW f \in Good PROVE number[f] - 1 \in Filled
    <3>1. number[f] \in 1 .. frames
      BY <2>1, <2>2 DEF Rejected, D!BadNumber
    <3>2. <<0, number[f] - 1>> \in D!StatesOf(f)
      BY <1>1, <2>1 DEF D!StatesOf
    <3>3. <<0, number[f] - 1>> \in DOMAIN states
      BY <1>1, <2>1, <2>2, <3>2 DEF LoadInv, FilledSoFar
    <3>4. number[f] - 1 \notin D!Gaps
      BY <3>3 DEF D!Gaps
    <3> QED
      BY <2>1, <3>1, <3>4
  <2>7. ASSUME NEW n \in Filled PROVE \E f \in Good : number[f] - 1 = n
    <3>1. PICK s \in DOMAIN states : s[2] = n
      BY DEF D!Gaps
    <3>2. states[s] \in Good /\ s \in D!StatesOf(states[s])
      BY <1>1, <2>1, <2>2 DEF LoadInv, FilledSoFar
    <3> QED
      BY <3>1, <3>2 DEF D!StatesOf
  <2>8. \A f, g \in Good : number[f] - 1 = number[g] - 1 => f = g
    BY <1>1, <2>1 DEF D!Distinct
  <2>9. place \in Bijection(Good, Filled)
    <3>1. place \in [Good -> Filled]
      BY <2>6
    <3>2. place \in Injection(Good, Filled)
      BY <2>8, <3>1 DEF Injection, IsInjective
    <3>3. place \in Surjection(Good, Filled)
      BY <2>7, <3>1 DEF Surjection
    <3> QED
      BY <3>2, <3>3 DEF Bijection
  <2>10. IsFiniteSet(Good) /\ IsFiniteSet(Filled) /\ IsFiniteSet(D!Gaps)
    BY <2>3, <2>4, <2>5, FS_Subset
  <2>11. Cardinality(Filled) = Cardinality(Good)
    BY <2>9, <2>10, FS_Bijection DEF ExistsBijection
  <2>12. /\ Cardinality(Good) \in Nat /\ Cardinality(Filled) \in Nat
         /\ Cardinality(unclosed) \in Nat /\ Cardinality(D!Gaps) \in Nat
    BY <2>3, <2>10, FS_CardinalityType
  <2>13. Cardinality(files) = Cardinality(Good) + Cardinality(unclosed)
    <3>1. files = Good \cup unclosed /\ Good \cap unclosed = {}
      BY <2>2
    <3>2. Cardinality(Good \cup unclosed)
             = Cardinality(Good) + Cardinality(unclosed) - Cardinality(Good \cap unclosed)
      BY <2>3, <2>10, FS_Union
    <3>3. Cardinality(Good \cap unclosed) = 0
      BY <3>1, FS_EmptySet
    <3> HIDE DEF Good
    <3> QED
      BY <2>12, <3>1, <3>2, <3>3
  <2>14. Cardinality(Frames) = Cardinality(Filled) + Cardinality(D!Gaps)
    <3>1. Frames = Filled \cup D!Gaps /\ Filled \cap D!Gaps = {}
      BY <2>5
    <3>2. Cardinality(Filled \cup D!Gaps)
             = Cardinality(Filled) + Cardinality(D!Gaps) - Cardinality(Filled \cap D!Gaps)
      BY <2>10, FS_Union
    <3>3. Cardinality(Filled \cap D!Gaps) = 0
      BY <3>1, FS_EmptySet
    <3> HIDE DEF Filled, Frames
    <3> QED
      BY <2>12, <3>1, <3>2, <3>3
  <2>15. /\ Cardinality(files) \in Nat
         /\ Wrap * (Cardinality(files) \div Wrap) \in Int
         /\ Cardinality(files) = Wrap * (Cardinality(files) \div Wrap) + frames
    <3>1. Cardinality(files) \in Nat
      BY <1>1, FinitelyMany
    <3> QED
      BY <2>2, <3>1, Uint16Keeps, LoadAssumption
  <2> HIDE DEF Good, Frames, Filled
  <2> QED
    BY <2>1, <2>4, <2>11, <2>12, <2>13, <2>14, <2>15
<1>2. LoadInv => GapsAreRejected
  BY <1>1, Counting, Zenon DEF GapsAreRejected, D!GapsAreRejected, D!Sound
<1> QED
  BY <1>2, LoadInvariant, PTL

-----------------------------------------------------------------------------
(* The pacing of the timer thread.  That no tick is early rests on what    *)
(* the thread still has to sleep, and that on the lag it had when it       *)
(* computed it.                                                            *)

(* The strengthening, one clause for each point of the loop.               *)
Pacing ==
    /\ tpc = "compute" => late >= 0 /\ skew = 0
    /\ tpc = "sleep" => late + delay \in Nat /\ delay \in 0 .. Period /\ skew = 1
    /\ tpc = "tick" => late >= 0 /\ delay \in 0 .. Period /\ skew = 1

TimerInv == T!TypeOK /\ Pacing

-----------------------------------------------------------------------------

(* A remainder of a positive period is shorter than it (the cropping of    *)
(* delay in timer_loop).                                                   *)
LEMMA Remainder ==
    ASSUME NEW a \in Nat, NEW b \in Nat \ {0}
    PROVE  a % b \in 0 .. b - 1
    OBVIOUS

(* What the thread is late by and what it still sleeps, added up.          *)
LEMMA NatSum == \A a, b \in Nat : a + b \in Nat
  OBVIOUS

(* The periods that both late branches add for a cropped delay are one.    *)
LEMMA OnePeriod ==
    ASSUME NEW a \in Int, NEW b \in Nat \ {0}, a \in 0 .. b - 1
    PROVE  1 + T!CDiv(-a, b) = 1
<1>1. a \div b = 0
  OBVIOUS
<1>2. 0 \div b = 0
  OBVIOUS
<1>3. CASE a = 0
  BY <1>2, <1>3 DEF T!CDiv
<1>4. CASE a > 0
  BY <1>1, <1>4 DEF T!CDiv
<1> QED
  BY <1>3, <1>4
-----------------------------------------------------------------------------

(* create_timer and the start of timer_loop establish the invariant.       *)
LEMMA InitPacing == T!Init => TimerInv
<1> SUFFICES ASSUME T!Init PROVE TimerInv
  OBVIOUS
<1>1. calm \in BOOLEAN
  BY DEF T!Init
<1> QED
  BY <1>1 DEF T!Init, TimerInv, T!TypeOK, Pacing

(* Every step of the thread, and every delay of it, preserves it.          *)
LEMMA NextPacing == TimerInv /\ [T!Next]_T!vars => TimerInv'
<1> SUFFICES ASSUME TimerInv, [T!Next]_T!vars PROVE TimerInv'
  OBVIOUS
<1> USE TimerAssumption
<1>1. CASE T!OnTime
  BY <1>1 DEF T!OnTime, T!Remaining, TimerInv, T!TypeOK, Pacing
<1>2. CASE T!TooLate
  <2>1. /\ late \in Int /\ late >= Period
        /\ tpc = "compute" /\ tpc' = "sleep"
        /\ skew = 0
    BY <1>2 DEF T!TooLate, T!Remaining, TimerInv, T!TypeOK, Pacing
  <2>2. delay' = (late - Period) % Period
    <3>1. -T!Remaining = late - Period
      BY <2>1 DEF T!Remaining
    <3> QED
      BY <1>2, <3>1 DEF T!TooLate
  <2>3. delay' \in 0 .. Period - 1
    BY <2>1, <2>2, Remainder
  <2>4. 1 + T!CDiv(-delay', Period) = 1
    BY <2>3, OnePeriod
  <2>5. late' = late - Period /\ skew' = skew + 1
    BY <1>2, <2>1, <2>4 DEF T!TooLate
  <2>6. late' \in Nat
    BY <2>1, <2>5
  <2>7. delay' \in Nat
    BY <2>3
  <2>8. delay' \in 0 .. Period
    BY <2>3
  <2>9. late' + delay' \in Nat
    BY <2>6, <2>7, NatSum
  <2>10. calm' \in BOOLEAN
    BY <1>2 DEF T!TooLate, TimerInv, T!TypeOK
  <2>11. skew' = 1
    BY <2>1, <2>5
  <2>12. late' \in Int /\ delay' \in Int /\ skew' \in Int
    BY <2>6, <2>7, <2>11
  <2> QED
    BY <2>1, <2>8, <2>9, <2>10, <2>11, <2>12 DEF TimerInv, T!TypeOK, Pacing
<1>3. CASE T!Sleep
  BY <1>3 DEF T!Sleep, TimerInv, T!TypeOK, Pacing
<1>4. CASE T!Tick
  <2>1. /\ tpc = "tick" /\ tpc' = "compute"
        /\ late' = late /\ delay' = delay /\ calm' = calm
        /\ late >= 0 /\ delay \in 0 .. Period /\ skew = 1
    BY <1>4 DEF T!Tick, TimerInv, Pacing
  <2>2. skew' = 0
    <3>1. CASE delay > 0
      BY <1>4, <2>1, <3>1 DEF T!Tick
    <3>2. CASE delay = 0
      <4>1. 1 + T!CDiv(-delay, Period) = 1
        BY <3>2, OnePeriod
      <4> QED
        BY <1>4, <2>1, <3>2, <4>1 DEF T!Tick
    <3> QED
      BY <2>1, <3>1, <3>2
  <2> QED
    BY <2>1, <2>2 DEF TimerInv, T!TypeOK, Pacing
<1>5. CASE T!Lag
  BY <1>5 DEF T!Lag, TimerInv, T!TypeOK, Pacing
<1>6. CASE T!Calm
  BY <1>6 DEF T!Calm, TimerInv, T!TypeOK, Pacing
<1>7. CASE UNCHANGED T!vars
  BY <1>7 DEF T!vars, TimerInv, T!TypeOK, Pacing
<1> QED
  BY <1>1, <1>2, <1>3, <1>4, <1>5, <1>6, <1>7 DEF T!Next, T!Thread

(* The inductive invariant holds in every behaviour of timer_loop.         *)
THEOREM PacingInvariant == T!Spec => []TimerInv
  BY InitPacing, NextPacing, PTL DEF T!Spec

(* No tick of timer_loop comes before its time, for every period and every *)
(* delay of the thread.                                                    *)
THEOREM NeverEarlyHolds == T!Spec => []NeverEarly
<1>1. TimerInv => NeverEarly
  BY DEF TimerInv, T!TypeOK, Pacing, NeverEarly, T!NeverEarly
<1> QED
  BY <1>1, PacingInvariant, PTL

(* The argument of usleep is never longer than a period, nor negative.     *)
THEOREM SleepBoundedHolds == T!Spec => []T!SleepBounded
<1>1. TimerInv => T!SleepBounded
  BY DEF TimerInv, Pacing, T!SleepBounded
<1> QED
  BY <1>1, PacingInvariant, PTL

(* timer_loop advances the animation by as many frames as it counts        *)
(* periods.                                                                *)
THEOREM InStepHolds == T!Spec => []InStep
<1>1. TimerInv => InStep
  BY DEF TimerInv, Pacing, InStep, T!InStep
<1> QED
  BY <1>1, PacingInvariant, PTL
=============================================================================
