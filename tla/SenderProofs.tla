---------------------------- MODULE SenderProofs ----------------------------
(***************************************************************************)
(* The safety of the sending client's threads, for every animation.  That  *)
(* a batch is of one frame rests on who holds the timer's mutex where, on  *)
(* what the clock shows, and on how far a batch has come at each point of  *)
(* verse_send_data: the parts of the inductive invariant.                  *)
(***************************************************************************)
EXTENDS Sender, RefDataProofs

(* The timer's mutex is held between lock and unlock: around the tick, the *)
(* start of the animation and a whole batch.                               *)
LockDiscipline ==
    /\ timerLock = "timer" <=> tpc = "tick"
    /\ timerLock = "sender" <=> spc = "start" \/ spc \in Sending

(* What the clock shows, once it runs, is the cropped number of ticks.     *)
ClockDiscipline == frame # NotStarted => run = 1 /\ frame = FrameOf(tot)

(* The items below n have the positions of the frame of the tag.           *)
SentBelow(n) ==
    tag # NotStarted =>
        \A p \in Particle :
            p < n /\ StateAt(Path[p], tag) = Active => layer[p] = tag

(* How far a batch has come.                                               *)
BatchDiscipline ==
    /\ spc = "values" => tag = frame /\ frame \in ClockFrame /\ SentBelow(item)
    /\ spc # "values" => SentBelow(ParticleCount)
    /\ spc = "end" /\ frame # NotStarted => tag = frame
    /\ spc = "unset" => AtEnd /\ tag = 0

-----------------------------------------------------------------------------

(* No trajectory is active at the frame all others are compared with.      *)
LEMMA NotActiveAtZero ==
    ASSUME NEW traj
    PROVE  StateAt(traj, 0) # Active
<1>1. CASE ~IsBorn(traj)
  BY <1>1 DEF StateAt, Unborn, Active
<1>2. CASE IsBorn(traj)
  <2>1. Moved(traj) \in SUBSET Nat /\ Moved(traj) # {}
    BY <1>2, FramesAreNat DEF Moved, IsBorn
  <2>2. Birth(traj) \in Moved(traj)
    BY <2>1, MinIs DEF Birth
  <2>3. Birth(traj) \in Nat /\ Birth(traj) # 0
    BY <2>1, <2>2 DEF Moved
  <2> QED
    BY <2>3 DEF StateAt, Unborn, Active
<1> QED
  BY <1>1, <1>2

(* Nobody holds the mutex when the threads are created.                    *)
LEMMA InitLock == Init => LockDiscipline
  BY DEF Init, LockDiscipline, Free, Sending

(* Every statement of the two threads keeps the discipline.                *)
LEMMA NextLock == LockDiscipline /\ [Next]_vars => LockDiscipline'
<1> SUFFICES ASSUME LockDiscipline, [Next]_vars PROVE LockDiscipline'
  OBVIOUS
<1> USE DEF clock, server, Free
<1>1. CASE TimerLock
  BY <1>1 DEF TimerLock, Lock, LockDiscipline, Sending
<1>2. CASE Tick
  BY <1>2 DEF Tick, Unlock, LockDiscipline, Sending
<1>3. CASE Post
  BY <1>3 DEF Post, LockDiscipline, Sending
<1>4. CASE SemWait
  BY <1>4 DEF SemWait, LockDiscipline, Sending
<1>5. CASE Bind
  BY <1>5 DEF Bind, LockDiscipline, Sending
<1>6. CASE StartLock
  BY <1>6 DEF StartLock, Lock, LockDiscipline, Sending
<1>7. CASE Start
  BY <1>7 DEF Start, Unlock, LockDiscipline, Sending
<1>8. CASE UpdateReturns
  BY <1>8 DEF UpdateReturns, LockDiscipline, Sending
<1>9. CASE NoSender
  BY <1>9 DEF NoSender, LockDiscipline, Sending
<1>10. CASE SendLock
  BY <1>10 DEF SendLock, Lock, LockDiscipline, Sending
<1>11. CASE NotRunning
  BY <1>11 DEF NotRunning, Unlock, LockDiscipline, Sending
<1>12. CASE SendFrame
  BY <1>12 DEF SendFrame, LockDiscipline, Sending
<1>13. CASE SendValue
  BY <1>13 DEF SendValue, LockDiscipline, Sending
<1>14. CASE ValuesSent
  BY <1>14 DEF ValuesSent, LockDiscipline, Sending
<1>15. CASE BeginUnset
  BY <1>15 DEF BeginUnset, LockDiscipline, Sending
<1>16. CASE SendUnset
  BY <1>16 DEF SendUnset, LockDiscipline, Sending
<1>17. CASE SendReturns
  BY <1>17 DEF SendReturns, Unlock, LockDiscipline, Sending
<1>18. CASE UNCHANGED vars
  BY <1>18 DEF vars, LockDiscipline, Sending
<1> QED
  BY <1>1, <1>2, <1>3, <1>4, <1>5, <1>6, <1>7, <1>8, <1>9, <1>10,
     <1>11, <1>12, <1>13, <1>14, <1>15, <1>16, <1>17, <1>18
  DEF Next, TimerThread, SenderThread, SendData

(* create_timer and the allocation of the client.                          *)
LEMMA InitType == Init => TypeOK
<1> SUFFICES ASSUME Init PROVE TypeOK
  OBVIOUS
<1>1. bound \in BOOLEAN
  BY DEF Init
<1> QED
  BY <1>1, FramesAssumption, SenderAssumption
  DEF Init, TypeOK, Int16, Free, NotStarted, NoFrame

(* Every statement of the two threads keeps the types.                     *)
LEMMA NextType == TypeOK /\ [Next]_vars => TypeOK'
<1> SUFFICES ASSUME TypeOK, [Next]_vars PROVE TypeOK'
  OBVIOUS
<1> USE DEF clock, server
<1>0. item \in Int /\ ParticleCount \in Nat /\ SemMax \in Nat
  BY SenderAssumption DEF TypeOK
<1>1. CASE TimerLock
  BY <1>1 DEF TimerLock, Lock, TypeOK, Sending
<1>2. CASE Tick
  <2>1. tot' \in Int16 /\ frame' \in ClockFrame \cup {NotStarted}
    <3>1. NextTot(tot) \in Int16
      BY NextTotRange DEF TypeOK
    <3>2. FrameOf(NextTot(tot)) \in ClockFrame
      BY <3>1, FrameOfRange DEF Int16
    <3> QED
      BY <1>2, <3>1, <3>2 DEF Tick, TypeOK
  <2> QED
    BY <1>2, <2>1 DEF Tick, Unlock, TypeOK, Sending
<1>3. CASE Post
  <2>1. sem' \in 0 .. SemMax
    BY <1>3, SenderAssumption DEF Post, TypeOK
  <2> QED
    BY <1>3, <2>1 DEF Post, TypeOK, Sending
<1>4. CASE SemWait
  <2>1. sem' \in 0 .. SemMax
    BY <1>4, SenderAssumption DEF SemWait, TypeOK
  <2> QED
    BY <1>4, <2>1 DEF SemWait, TypeOK, Sending
<1>5. CASE Bind
  <2>1. bound' \in BOOLEAN
    BY <1>5 DEF Bind
  <2> QED
    BY <1>5, <2>1 DEF Bind, TypeOK, Sending
<1>6. CASE StartLock
  BY <1>6 DEF StartLock, Lock, TypeOK, Sending
<1>7. CASE Start
  <2>1. tot' \in Int16 /\ run' \in {0, 1}
    BY <1>7, SenderAssumption, FramesAssumption DEF Start, TypeOK, Int16
  <2> QED
    BY <1>7, <2>1 DEF Start, Unlock, TypeOK, Sending
<1>8. CASE UpdateReturns
  BY <1>8 DEF UpdateReturns, TypeOK, Sending
<1>9. CASE NoSender
  BY <1>9 DEF NoSender, TypeOK, Sending
<1>10. CASE SendLock
  BY <1>10 DEF SendLock, Lock, TypeOK, Sending
<1>11. CASE NotRunning
  BY <1>11 DEF NotRunning, Unlock, TypeOK, Sending
<1>12. CASE SendFrame
  <2>1. tag' \in ClockFrame \cup {NotStarted} /\ item' \in 0 .. ParticleCount
    <3>1. CASE frame \in Frame
      BY <1>12, <1>0, <3>1, FramesAssumption
      DEF SendFrame, TypeOK, NotStarted, Frame
    <3>2. CASE frame \notin Frame
      BY <1>12, <3>2 DEF SendFrame, TypeOK
    <3> QED
      BY <3>1, <3>2
  <2> QED
    BY <1>12, <2>1 DEF SendFrame, TypeOK, Sending
<1>13. CASE SendValue
  <2>1. item' \in 0 .. ParticleCount
    BY <1>13, <1>0 DEF SendValue, TypeOK
  <2>2. layer' \in [Particle -> Frame \cup {NoFrame}]
    <3>1. frame \in Frame \cup {NoFrame}
      BY ClockFrameIsFrame DEF TypeOK, NotStarted, NoFrame
    <3> QED
      BY <1>13, <3>1 DEF SendValue, TypeOK
  <2> QED
    BY <1>13, <2>1, <2>2 DEF SendValue, TypeOK, Sending
<1>14. CASE ValuesSent
  BY <1>14 DEF ValuesSent, TypeOK, Sending
<1>15. CASE BeginUnset
  <2>1. item' \in 0 .. ParticleCount
    BY <1>15, <1>0 DEF BeginUnset
  <2> QED
    BY <1>15, <2>1 DEF BeginUnset, TypeOK, Sending
<1>16. CASE SendUnset
  <2>1. item' \in 0 .. ParticleCount
    BY <1>16, <1>0 DEF SendUnset, TypeOK
  <2>2. layer' \in [Particle -> Frame \cup {NoFrame}]
    BY <1>16 DEF SendUnset, TypeOK
  <2> QED
    BY <1>16, <2>1, <2>2 DEF SendUnset, TypeOK, Sending
<1>17. CASE SendReturns
  BY <1>17 DEF SendReturns, Unlock, TypeOK, Sending
<1>18. CASE UNCHANGED vars
  BY <1>18 DEF vars, TypeOK, Sending
<1> QED
  BY <1>1, <1>2, <1>3, <1>4, <1>5, <1>6, <1>7, <1>8, <1>9, <1>10,
     <1>11, <1>12, <1>13, <1>14, <1>15, <1>16, <1>17, <1>18
  DEF Next, TimerThread, SenderThread, SendData

(* The clock is not running when it is created.                            *)
LEMMA InitClock == Init => ClockDiscipline
  BY DEF Init, ClockDiscipline

(* Every statement keeps it showing the cropped ticks: the animation is    *)
(* started only when it does not run.                                      *)
LEMMA NextClock == TypeOK /\ ClockDiscipline /\ [Next]_vars => ClockDiscipline'
<1> SUFFICES ASSUME TypeOK, ClockDiscipline, [Next]_vars PROVE ClockDiscipline'
  OBVIOUS
<1> USE DEF clock, server
<1>1. CASE TimerLock
  BY <1>1 DEF TimerLock, Lock, ClockDiscipline
<1>2. CASE Tick
  BY <1>2 DEF Tick, Unlock, ClockDiscipline
<1>3. CASE Post
  BY <1>3 DEF Post, ClockDiscipline
<1>4. CASE SemWait
  BY <1>4 DEF SemWait, ClockDiscipline
<1>5. CASE Bind
  BY <1>5 DEF Bind, ClockDiscipline
<1>6. CASE StartLock
  BY <1>6 DEF StartLock, Lock, ClockDiscipline
<1>7. CASE Start
  <2>1. run' = 1 /\ (run = 1 => tot' = tot) /\ frame' = frame
    BY <1>7 DEF Start, TypeOK
  <2> QED
    BY <1>7, <2>1 DEF ClockDiscipline
<1>8. CASE UpdateReturns
  BY <1>8 DEF UpdateReturns, ClockDiscipline
<1>9. CASE NoSender
  BY <1>9 DEF NoSender, ClockDiscipline
<1>10. CASE SendLock
  BY <1>10 DEF SendLock, Lock, ClockDiscipline
<1>11. CASE NotRunning
  BY <1>11 DEF NotRunning, Unlock, ClockDiscipline
<1>12. CASE SendFrame
  BY <1>12 DEF SendFrame, ClockDiscipline
<1>13. CASE SendValue
  BY <1>13 DEF SendValue, ClockDiscipline
<1>14. CASE ValuesSent
  BY <1>14 DEF ValuesSent, ClockDiscipline
<1>15. CASE BeginUnset
  BY <1>15 DEF BeginUnset, ClockDiscipline
<1>16. CASE SendUnset
  BY <1>16 DEF SendUnset, ClockDiscipline
<1>17. CASE SendReturns
  BY <1>17 DEF SendReturns, Unlock, ClockDiscipline
<1>18. CASE UNCHANGED vars
  BY <1>18 DEF vars, ClockDiscipline
<1> QED
  BY <1>1, <1>2, <1>3, <1>4, <1>5, <1>6, <1>7, <1>8, <1>9, <1>10,
     <1>11, <1>12, <1>13, <1>14, <1>15, <1>16, <1>17, <1>18
  DEF Next, TimerThread, SenderThread, SendData

-----------------------------------------------------------------------------

(* Nothing has been sent at first.                                         *)
LEMMA InitBatch == Init => BatchDiscipline
  BY DEF Init, BatchDiscipline, SentBelow

(* Every statement keeps it: the timer thread stays out while a batch is   *)
(* under way, an active particle is not skipped, and the deletions come    *)
(* when no particle is active.                                             *)
LEMMA NextBatch ==
    TypeOK /\ LockDiscipline /\ ClockDiscipline /\ BatchDiscipline /\ [Next]_vars
        => BatchDiscipline'
<1> SUFFICES ASSUME TypeOK, LockDiscipline, ClockDiscipline, BatchDiscipline,
                    [Next]_vars
             PROVE  BatchDiscipline'
  OBVIOUS
<1> USE DEF clock, server
<1>0. /\ item \in Int /\ ParticleCount \in Nat
      /\ \A p \in Particle : p \in Int /\ p < ParticleCount
  BY SenderAssumption DEF TypeOK, Particle
<1>1. CASE TimerLock
  BY <1>1 DEF TimerLock, Lock, BatchDiscipline, SentBelow, AtEnd
<1>2. CASE Tick
  <2>1. spc \notin Sending
    BY <1>2 DEF Tick, LockDiscipline
  <2> QED
    BY <1>2, <2>1 DEF Tick, Unlock, Sending, BatchDiscipline, SentBelow, AtEnd
<1>3. CASE Post
  BY <1>3 DEF Post, BatchDiscipline, SentBelow, AtEnd
<1>4. CASE SemWait
  BY <1>4 DEF SemWait, BatchDiscipline, SentBelow, AtEnd
<1>5. CASE Bind
  BY <1>5 DEF Bind, BatchDiscipline, SentBelow, AtEnd
<1>6. CASE StartLock
  BY <1>6 DEF StartLock, Lock, BatchDiscipline, SentBelow, AtEnd
<1>7. CASE Start
  <2>1. spc = "start" /\ spc' = "update" /\ tag' = tag /\ layer' = layer
    BY <1>7 DEF Start
  <2> QED
    BY <2>1 DEF BatchDiscipline, SentBelow
<1>8. CASE UpdateReturns
  BY <1>8 DEF UpdateReturns, BatchDiscipline, SentBelow, AtEnd
<1>9. CASE NoSender
  BY <1>9 DEF NoSender, BatchDiscipline, SentBelow, AtEnd
<1>10. CASE SendLock
  BY <1>10 DEF SendLock, Lock, BatchDiscipline, SentBelow, AtEnd
<1>11. CASE NotRunning
  BY <1>11 DEF NotRunning, Unlock, BatchDiscipline, SentBelow, AtEnd
<1>12. CASE SendFrame
  <2>1. CASE frame \in Frame
    <3>1. spc' = "values" /\ tag' = frame /\ frame' = frame /\ item' = 0
      BY <1>12, <2>1 DEF SendFrame
    <3>2. frame \in ClockFrame
      BY <2>1, FramesAssumption DEF TypeOK, Frame, NotStarted
    <3>3. SentBelow(item)'
      BY <3>1, <1>0 DEF SentBelow, Particle
    <3> QED
      BY <3>1, <3>2, <3>3 DEF BatchDiscipline
  <2>2. CASE frame \notin Frame
    <3>1. /\ spc = "frameTag" /\ spc' = "end" /\ tag' = tag /\ layer' = layer
          /\ frame' = frame
      BY <1>12, <2>2 DEF SendFrame
    <3>2. frame = NotStarted
      BY <2>2, ClockFrameIsFrame DEF TypeOK
    <3> QED
      BY <3>1, <3>2 DEF BatchDiscipline, SentBelow
  <2> QED
    BY <2>1, <2>2
<1>13. CASE SendValue
  <2>1. /\ spc = "values" /\ spc' = "values" /\ item' = item + 1
        /\ tag' = tag /\ frame' = frame /\ tag = frame /\ frame \in ClockFrame
        /\ item < ParticleCount /\ SentBelow(item)
    BY <1>13 DEF SendValue, BatchDiscipline
  <2>2. item \in Particle
    BY <1>0, <2>1 DEF TypeOK, Particle
  <2>3. ASSUME NEW p \in Particle, p < item + 1, StateAt(Path[p], tag) = Active,
               tag # NotStarted
        PROVE  layer'[p] = tag
    <3>1. CASE p = item
      BY <1>13, <2>1, <2>2, <2>3, <3>1 DEF SendValue, TypeOK
    <3>2. CASE p # item
      <4>1. p < item
        BY <1>0, <2>3, <3>2
      <4>2. layer[p] = tag
        BY <2>1, <2>3, <4>1 DEF SentBelow
      <4> QED
        BY <1>13, <2>1, <3>2, <4>2 DEF SendValue, TypeOK
    <3> QED
      BY <3>1, <3>2
  <2>4. SentBelow(item)'
    BY <2>1, <2>3 DEF SentBelow
  <2> QED
    BY <2>1, <2>4 DEF BatchDiscipline
<1>14. CASE ValuesSent
  <2>1. /\ spc = "values" /\ spc' = "end" /\ item = ParticleCount
        /\ tag' = tag /\ layer' = layer /\ frame' = frame
    BY <1>14 DEF ValuesSent
  <2> QED
    BY <2>1 DEF BatchDiscipline, SentBelow
<1>15. CASE BeginUnset
  <2>1. /\ spc = "end" /\ spc' = "unset" /\ AtEnd /\ tag' = tag
        /\ layer' = layer /\ frame' = frame /\ tot' = tot
    BY <1>15 DEF BeginUnset
  <2>2. frame = 0 /\ frame # NotStarted
    BY <2>1 DEF AtEnd, NotStarted
  <2> QED
    BY <2>1, <2>2 DEF BatchDiscipline, SentBelow, AtEnd
<1>16. CASE SendUnset
  <2>1. /\ spc = "unset" /\ spc' = "unset" /\ tag' = tag
        /\ frame' = frame /\ tot' = tot /\ AtEnd /\ tag = 0
    BY <1>16 DEF SendUnset, BatchDiscipline
  <2>2. SentBelow(ParticleCount)'
    BY <2>1, NotActiveAtZero DEF SentBelow
  <2> QED
    BY <2>1, <2>2 DEF BatchDiscipline, AtEnd
<1>17. CASE SendReturns
  BY <1>17 DEF SendReturns, Unlock, BatchDiscipline, SentBelow, AtEnd
<1>18. CASE UNCHANGED vars
  BY <1>18 DEF vars, BatchDiscipline, SentBelow, AtEnd
<1> QED
  BY <1>1, <1>2, <1>3, <1>4, <1>5, <1>6, <1>7, <1>8, <1>9, <1>10,
     <1>11, <1>12, <1>13, <1>14, <1>15, <1>16, <1>17, <1>18
  DEF Next, TimerThread, SenderThread, SendData

(* Every statement keeps the layer free of positions of frames where the   *)
(* particle is not active.                                                 *)
LEMMA NextActive ==
    TypeOK /\ OnlyActiveSent /\ [Next]_vars => OnlyActiveSent'
<1> SUFFICES ASSUME TypeOK, OnlyActiveSent, [Next]_vars PROVE OnlyActiveSent'
  OBVIOUS
<1>1. CASE SendValue
  <2>1. CASE StateAt(Path[item], frame) = Active
    BY <1>1, <2>1 DEF SendValue, TypeOK, OnlyActiveSent
  <2>2. CASE StateAt(Path[item], frame) # Active
    BY <1>1, <2>2 DEF SendValue, OnlyActiveSent
  <2> QED
    BY <2>1, <2>2
<1>2. CASE SendUnset
  BY <1>2 DEF SendUnset, TypeOK, OnlyActiveSent
<1>3. CASE UNCHANGED layer
  BY <1>3 DEF OnlyActiveSent
<1> QED
  BY <1>1, <1>2, <1>3
  DEF Next, TimerThread, TimerLock, Tick, Post, SenderThread, SemWait, Bind,
      StartLock, Start, UpdateReturns, SendData, NoSender, SendLock, NotRunning,
      SendFrame, ValuesSent, BeginUnset, SendReturns, vars, server

-----------------------------------------------------------------------------

IInv == /\ TypeOK /\ LockDiscipline /\ ClockDiscipline
        /\ BatchDiscipline /\ OnlyActiveSent

(* The inductive invariant holds in every behaviour of the two threads.    *)
THEOREM SenderInvariant == Spec => []IInv
<1>1. Init => IInv
  <2>1. Init => OnlyActiveSent
    BY DEF Init, OnlyActiveSent
  <2> QED
    BY <2>1, InitType, InitLock, InitClock, InitBatch DEF IInv
<1>2. IInv /\ [Next]_vars => IInv'
  BY NextType, NextLock, NextClock, NextBatch, NextActive DEF IInv
<1> QED
  BY <1>1, <1>2, PTL DEF Spec

(* Every variable of the two threads keeps its type.                       *)
THEOREM TypeCorrect == Spec => []TypeOK
<1>1. IInv => TypeOK
  BY DEF IInv
<1> QED
  BY <1>1, SenderInvariant, PTL

(* Between two batches the server has the position of the tag's frame for  *)
(* every particle active there.                                            *)
THEOREM LayerMatchesTagHolds == Spec => []LayerMatchesTag
<1>1. IInv => LayerMatchesTag
  <2> SUFFICES ASSUME IInv PROVE LayerMatchesTag
    OBVIOUS
  <2>1. \A p \in Particle : p < ParticleCount
    BY SenderAssumption DEF Particle
  <2> QED
    BY <2>1 DEF IInv, BatchDiscipline, SentBelow, LayerMatchesTag, Sending
<1> QED
  BY <1>1, SenderInvariant, PTL

(* No position is sent for a frame where the particle is not active.       *)
THEOREM OnlyActiveSentHolds == Spec => []OnlyActiveSent
<1>1. IInv => OnlyActiveSent
  BY DEF IInv
<1> QED
  BY <1>1, SenderInvariant, PTL

(* While the tick count is negative the layer stays as it is.              *)
THEOREM QuietBelowZeroHolds == Spec => QuietBelowZero
<1>1. IInv /\ [Next]_vars => [tot < 0 => UNCHANGED layer]_vars
  <2> SUFFICES ASSUME IInv, Next, tot < 0 PROVE UNCHANGED layer
    BY DEF vars
  <2>1. CASE SendValue
    <3>1. frame = 0
      <4>1. frame # NotStarted
        BY <2>1, FramesAssumption
        DEF SendValue, IInv, BatchDiscipline, ClockFrame, NotStarted
      <4> QED
        BY <4>1 DEF IInv, ClockDiscipline, FrameOf
    <3> QED
      BY <2>1, <3>1, NotActiveAtZero DEF SendValue
  <2>2. CASE SendUnset
    <3>1. tot >= 0 /\ tot \in Int
      BY <2>2 DEF SendUnset, IInv, BatchDiscipline, AtEnd, TypeOK, Int16
    <3> QED
      BY <3>1
  <2> QED
    BY <2>1, <2>2
    DEF Next, TimerThread, TimerLock, Tick, Post, SenderThread, SemWait, Bind,
        StartLock, Start, UpdateReturns, SendData, NoSender, SendLock,
        NotRunning, SendFrame, ValuesSent, BeginUnset, SendReturns, server
<1> QED
  BY <1>1, SenderInvariant, PTL DEF Spec, QuietBelowZero
=============================================================================
