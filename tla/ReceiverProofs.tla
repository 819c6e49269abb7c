--------------------------- MODULE ReceiverProofs ---------------------------
(***************************************************************************)
(* The safety of the receiving client's threads, for every animation, set  *)
(* of particles and interleaving.  The inductive invariant has four parts: *)
(* the types; which thread holds which mutex at which of its points; when  *)
(* the clock has been started and what it shows; and what the pointers of  *)
(* a particle are at each point of the callbacks that change them.         *)
(***************************************************************************)
EXTENDS Receiver, RefDataProofs

(* A mutex is held between the statements that lock and unlock it, by the  *)
(* thread that is there; a waiting thread holds neither the timer's mutex  *)
(* nor, in the timer thread, the other.                                    *)
LockDiscipline ==
    /\ timerLock = "timer" <=> tpc = "tick"
    /\ timerLock = "receiver" <=> rpc \in {"frameStart", "setReadFrame"}
    /\ timerLock = "display" <=> dpc = "readFrame"
    /\ recLock = "receiver" <=>
          rpc \in {"frameStore", "setFind", "setPointers", "setDelay",
                  "unsetFirst", "unsetLast", "unsetCurrent"}
    /\ recLock = "display" <=> dpc # "idle"

(* Past its first half, _frame_received has started the clock; what the    *)
(* clock shows, once it runs, is the cropped number of ticks.              *)
ClockDiscipline ==
    /\ rpc \in {"frameLockRec", "frameStore"} => run = 1
    /\ recFrame >= 0 => run = 1
    /\ frame # NotStarted => run = 1 /\ frame = FrameOf(tot)

(* The pointers of particle p are all NULL, or in order.                   *)
Together(p) ==
    \/ first[p] = NoFrame /\ last[p] = NoFrame /\ current[p] = NoFrame
    \/ NoFrame < first[p] /\ first[p] =< current[p] /\ current[p] =< last[p]

(* They are in order but while cb_receive_layer_unset_value takes them     *)
(* away one by one.                                                        *)
PointersDiscipline ==
    /\ rpc \in {"setPointers", "setDelay"} => ref \in Frame
    /\ rpc = "unsetLast" => first[msg.particle] = NoFrame
    /\ rpc = "unsetCurrent" =>
          first[msg.particle] = NoFrame /\ last[msg.particle] = NoFrame
    /\ \A p \in Particle :
          \/ Together(p)
          \/ rpc \in {"unsetLast", "unsetCurrent"} /\ p = msg.particle

(* What they point at has been received, but for the state that the callback *)
(* is about to fill in.                                                    *)
HistoryDiscipline ==
    \A p \in Particle :
        \A f \in {first[p], last[p], current[p]} \ {NoFrame} :
            \/ hist[p][f] # Unreceived
            \/ rpc = "setDelay" /\ p = msg.particle /\ f = ref

-----------------------------------------------------------------------------

(* The callback that vrs_callback_update calls fits the command.           *)
LEMMA EntranceFits ==
    ASSUME NEW m \in Message
    PROVE  \/ m \in FrameMsg /\ Entrance(m.kind) = "frameLockTimer"
           \/ m \in SetMsg /\ Entrance(m.kind) = "setLockTimer"
           \/ m \in UnsetMsg /\ Entrance(m.kind) = "unsetLockRec"
           \/ m \in OtherMsg /\ Entrance(m.kind) = "dispatch"
<1>1. CASE m \in FrameMsg
  <2>1. m.kind = "frame"
    BY <1>1 DEF FrameMsg
  <2> QED
    BY <1>1, <2>1 DEF Entrance
<1>2. CASE m \in SetMsg
  <2>1. m.kind = "set"
    BY <1>2 DEF SetMsg
  <2> QED
    BY <1>2, <2>1 DEF Entrance
<1>3. CASE m \in UnsetMsg
  <2>1. m.kind = "unset"
    BY <1>3 DEF UnsetMsg
  <2> QED
    BY <1>3, <2>1 DEF Entrance
<1>4. CASE m \in OtherMsg
  <2>1. m.kind = "other"
    BY <1>4 DEF OtherMsg
  <2> QED
    BY <1>4, <2>1 DEF Entrance
<1> QED
  BY <1>1, <1>2, <1>3, <1>4 DEF Message

(* Nobody holds a mutex when the threads are created.                      *)
LEMMA InitLock == Init => LockDiscipline
  BY DEF Init, LockDiscipline, Free

(* Every statement of the three threads keeps the discipline: each lock is *)
(* given back on every path, by the thread that took it.                   *)
LEMMA NextLock == LockDiscipline /\ [Next]_vars => LockDiscipline'
<1> SUFFICES ASSUME LockDiscipline, [Next]_vars PROVE LockDiscipline'
  OBVIOUS
<1> USE DEF clock, pointers, recData, locks, locals, receiver, display, Free
<1>1. CASE TimerLock
  BY <1>1 DEF TimerLock, LockTimer, LockDiscipline
<1>2. CASE Tick
  BY <1>2 DEF Tick, UnlockTimer, LockDiscipline
<1>3. CASE Post
  BY <1>3 DEF Post, LockDiscipline
<1>4. CASE SemWait
  BY <1>4 DEF SemWait, LockDiscipline
<1>5. CASE UpdateReturns
  BY <1>5 DEF UpdateReturns, LockDiscipline
<1>6. CASE Callback
  <2>1. rpc' \in {"frameLockTimer", "setLockTimer", "unsetLockRec", "dispatch"}
    BY <1>6, EntranceFits DEF Callback
  <2> QED
    BY <1>6, <2>1 DEF Callback, LockDiscipline
<1>7. CASE FrameLockTimer
  BY <1>7 DEF FrameLockTimer, LockTimer, LockDiscipline
<1>8. CASE FrameStart
  BY <1>8 DEF FrameStart, UnlockTimer, LockDiscipline
<1>9. CASE FrameLockRec
  BY <1>9 DEF FrameLockRec, LockRec, LockDiscipline
<1>10. CASE FrameStore
  BY <1>10 DEF FrameStore, CallbackReturns, UnlockRec, LockDiscipline
<1>11. CASE SetLockTimer
  BY <1>11 DEF SetLockTimer, LockTimer, LockDiscipline
<1>12. CASE SetReadFrame
  BY <1>12 DEF SetReadFrame, UnlockTimer, LockDiscipline
<1>13. CASE SetLockRec
  BY <1>13 DEF SetLockRec, LockRec, LockDiscipline
<1>14. CASE SetFind
  BY <1>14 DEF SetFind, CallbackReturns, UnlockRec, LockDiscipline
<1>15. CASE SetPointers
  BY <1>15 DEF SetPointers, LockDiscipline
<1>16. CASE SetDelay
  BY <1>16 DEF SetDelay, CallbackReturns, UnlockRec, LockDiscipline
<1>17. CASE UnsetLockRec
  BY <1>17 DEF UnsetLockRec, LockRec, LockDiscipline
<1>18. CASE UnsetFirst
  BY <1>18 DEF UnsetFirst, LockDiscipline
<1>19. CASE UnsetLast
  BY <1>19 DEF UnsetLast, LockDiscipline
<1>20. CASE UnsetCurrent
  BY <1>20 DEF UnsetCurrent, CallbackReturns, UnlockRec, LockDiscipline
<1>21. CASE DrawLockRec
  BY <1>21 DEF DrawLockRec, LockRec, LockDiscipline
<1>22. CASE DrawLockTimer
  BY <1>22 DEF DrawLockTimer, LockTimer, LockDiscipline
<1>23. CASE DrawReadFrame
  BY <1>23 DEF DrawReadFrame, UnlockTimer, LockDiscipline
<1>24. CASE Draw
  BY <1>24 DEF Draw, UnlockRec, LockDiscipline
<1>25. CASE UNCHANGED vars
  BY <1>25 DEF vars, LockDiscipline
<1> QED
  BY <1>1, <1>2, <1>3, <1>4, <1>5, <1>6, <1>7, <1>8, <1>9, <1>10,
     <1>11, <1>12, <1>13, <1>14, <1>15, <1>16, <1>17, <1>18, <1>19,
     <1>20, <1>21, <1>22, <1>23, <1>24, <1>25
  DEF Next, TimerThread, ReceiverThread, FrameReceived, LayerSetValue,
      LayerUnsetValue, DisplayThread, Drawing

(* create_timer and create_received_particle_data.                         *)
LEMMA InitType == Init => TypeOK
  BY FramesAssumption, ReceiverAssumption
  DEF Init, TypeOK, Int16, ClockFrame, Frame, NotStarted, NoFrame, Thread,
      Entry, Message, OtherMsg, NoMsg, FramePc, SetPc, UnsetPc

(* A callback that has returned leaves no command behind.                  *)
LEMMA NoMsgIsMessage == NoMsg \in Message
  BY DEF NoMsg, Message, OtherMsg

(* The frame tag's value fits tot_frame.                                   *)
LEMMA CropFrames == ClockFrame \subseteq Int16
  BY FramesAssumption DEF ClockFrame, Int16

(* cb_receive_layer_set_value marks the state as received.                 *)
LEMMA Delays ==
    ASSUME NEW d
    PROVE  Classify(d) \in Entry \ {Unreceived}
  BY DEF Classify, Entry, Unreceived, InTime, Delayed, Ahead

(* The locals after a callback has returned.                               *)
LEMMA ReturnsType ==
    TypeOK /\ CallbackReturns =>
      /\ rpc' = "dispatch" /\ left' \in 0 .. MaxBatch
      /\ msg' \in Message
      /\ curFrame' \in ClockFrame \cup {NotStarted}
      /\ ref' \in Frame \cup {NoFrame}
  BY NoMsgIsMessage DEF TypeOK, CallbackReturns

(* Every statement of the three threads keeps the types.                   *)
LEMMA NextType == TypeOK /\ [Next]_vars => TypeOK'
<1> SUFFICES ASSUME TypeOK, [Next]_vars PROVE TypeOK'
  OBVIOUS
<1> USE DEF clock, pointers, recData, locks, locals, receiver, display, Free
<1>1. CASE TimerLock
  BY <1>1 DEF TimerLock, LockTimer, TypeOK, Thread, FramePc, SetPc, UnsetPc
<1>2. CASE Tick
  <2>1. tot' \in Int16 /\ frame' \in ClockFrame \cup {NotStarted}
    <3>1. NextTot(tot) \in Int16
      BY NextTotRange DEF TypeOK
    <3>2. FrameOf(NextTot(tot)) \in ClockFrame
      BY <3>1, FrameOfRange DEF Int16
    <3> QED
      BY <1>2, <3>1, <3>2 DEF Tick, TypeOK
  <2> QED
    BY <1>2, <2>1 DEF Tick, UnlockTimer, TypeOK, Thread, FramePc, SetPc,
       UnsetPc
<1>3. CASE Post
  <2>1. sem' \in 0 .. SemMax
    BY <1>3, ReceiverAssumption DEF Post, TypeOK
  <2> QED
    BY <1>3, <2>1 DEF Post, TypeOK, Thread, FramePc, SetPc, UnsetPc
<1>4. CASE SemWait
  <2>1. sem' \in 0 .. SemMax
    BY <1>4, ReceiverAssumption DEF SemWait, TypeOK
  <2> QED
    BY <1>4, <2>1 DEF SemWait, TypeOK, Thread, FramePc, SetPc, UnsetPc
<1>5. CASE UpdateReturns
  BY <1>5 DEF UpdateReturns, TypeOK, Thread, FramePc, SetPc, UnsetPc
<1>6. CASE Callback
  <2>1. left' \in 0 .. MaxBatch
    BY <1>6, ReceiverAssumption DEF Callback, TypeOK
  <2>2. PICK m \in Message : msg' = m /\ rpc' = Entrance(m.kind)
    BY <1>6 DEF Callback
  <2>3. \/ msg' \in FrameMsg /\ rpc' = "frameLockTimer"
        \/ msg' \in SetMsg /\ rpc' = "setLockTimer"
        \/ msg' \in UnsetMsg /\ rpc' = "unsetLockRec"
        \/ msg' \in OtherMsg /\ rpc' = "dispatch"
    BY <2>2, EntranceFits
  <2> QED
    BY <1>6, <2>1, <2>2, <2>3 DEF Callback, TypeOK, Thread, FramePc, SetPc,
       UnsetPc
<1>7. CASE FrameLockTimer
  BY <1>7 DEF FrameLockTimer, LockTimer, TypeOK, Thread, FramePc, SetPc,
     UnsetPc
<1>8. CASE FrameStart
  <2>1. run' \in {0, 1} /\ tot' \in Int16
    <3>1. msg.frame \in Int16
      BY <1>8, CropFrames DEF FrameStart, TypeOK, FramePc, FrameMsg
    <3> QED
      BY <1>8, <3>1 DEF FrameStart, TypeOK
  <2> QED
    BY <1>8, <2>1 DEF FrameStart, UnlockTimer, TypeOK, Thread, FramePc, SetPc,
       UnsetPc
<1>9. CASE FrameLockRec
  BY <1>9 DEF FrameLockRec, LockRec, TypeOK, Thread, FramePc, SetPc, UnsetPc
<1>10. CASE FrameStore
  <2>1. /\ rpc' = "dispatch" /\ left' \in 0 .. MaxBatch
        /\ msg' \in Message
        /\ curFrame' \in ClockFrame \cup {NotStarted}
        /\ ref' \in Frame \cup {NoFrame}
    BY <1>10, ReturnsType DEF FrameStore
  <2>2. recFrame' \in ClockFrame \cup {NotStarted}
    BY <1>10 DEF FrameStore, TypeOK, FramePc, FrameMsg
  <2> QED
    BY <1>10, <2>1, <2>2 DEF FrameStore, UnlockRec, TypeOK, Thread, FramePc,
       SetPc, UnsetPc
<1>11. CASE SetLockTimer
  BY <1>11 DEF SetLockTimer, LockTimer, TypeOK, Thread, FramePc, SetPc,
     UnsetPc
<1>12. CASE SetReadFrame
  BY <1>12 DEF SetReadFrame, UnlockTimer, TypeOK, Thread, FramePc, SetPc,
     UnsetPc
<1>13. CASE SetLockRec
  BY <1>13 DEF SetLockRec, LockRec, TypeOK, Thread, FramePc, SetPc, UnsetPc
<1>14. CASE SetFind
  <2>1. PICK f \in Lookup(msg.particle, msg.pos) :
          IF f # NoFrame
          THEN /\ ref' = f /\ rpc' = "setPointers"
               /\ UNCHANGED <<locks, left, msg, curFrame>>
          ELSE CallbackReturns /\ UnlockRec("receiver")
    BY <1>14 DEF SetFind
  <2>2. f \in Frame \cup {NoFrame}
    BY FindRefRange DEF Lookup
  <2>3. CASE f # NoFrame
    BY <1>14, <2>1, <2>2, <2>3 DEF SetFind, TypeOK, Thread, FramePc, SetPc,
       UnsetPc
  <2>4. CASE f = NoFrame
    <3>1. /\ rpc' = "dispatch" /\ left' \in 0 .. MaxBatch
          /\ msg' \in Message
          /\ curFrame' \in ClockFrame \cup {NotStarted}
          /\ ref' \in Frame \cup {NoFrame}
      BY <2>1, <2>4, ReturnsType
    <3>2. UnlockRec("receiver")
      BY <2>1, <2>4
    <3> QED
      BY <1>14, <3>1, <3>2 DEF SetFind, UnlockRec, TypeOK, Thread, FramePc,
         SetPc, UnsetPc
  <2> QED
    BY <2>3, <2>4
<1>15. CASE SetPointers
  <2>1. /\ first' \in [Particle -> Frame \cup {NoFrame}]
        /\ last' \in [Particle -> Frame \cup {NoFrame}]
        /\ current' \in [Particle -> Frame \cup {NoFrame}]
    BY <1>15 DEF SetPointers, TypeOK
  <2> QED
    BY <1>15, <2>1 DEF SetPointers, TypeOK, Thread, FramePc, SetPc, UnsetPc
<1>16. CASE SetDelay
  <2>1. /\ rpc' = "dispatch" /\ left' \in 0 .. MaxBatch
        /\ msg' \in Message
        /\ curFrame' \in ClockFrame \cup {NotStarted}
        /\ ref' \in Frame \cup {NoFrame}
    BY <1>16, ReturnsType DEF SetDelay
  <2>2. hist' \in [Particle -> [Frame -> Entry]]
    <3>1. Classify(curFrame - ref) \in Entry
      BY Delays
    <3> QED
      BY <1>16, <3>1 DEF SetDelay, TypeOK
  <2> QED
    BY <1>16, <2>1, <2>2 DEF SetDelay, UnlockRec, TypeOK, Thread, FramePc,
       SetPc, UnsetPc
<1>17. CASE UnsetLockRec
  BY <1>17 DEF UnsetLockRec, LockRec, TypeOK, Thread, FramePc, SetPc, UnsetPc
<1>18. CASE UnsetFirst
  <2>1. first' \in [Particle -> Frame \cup {NoFrame}]
    BY <1>18 DEF UnsetFirst, TypeOK
  <2> QED
    BY <1>18, <2>1 DEF UnsetFirst, TypeOK, Thread, FramePc, SetPc, UnsetPc
<1>19. CASE UnsetLast
  <2>1. last' \in [Particle -> Frame \cup {NoFrame}]
    BY <1>19 DEF UnsetLast, TypeOK
  <2> QED
    BY <1>19, <2>1 DEF UnsetLast, TypeOK, Thread, FramePc, SetPc, UnsetPc
<1>20. CASE UnsetCurrent
  <2>1. /\ rpc' = "dispatch" /\ left' \in 0 .. MaxBatch
        /\ msg' \in Message
        /\ curFrame' \in ClockFrame \cup {NotStarted}
        /\ ref' \in Frame \cup {NoFrame}
    BY <1>20, ReturnsType DEF UnsetCurrent
  <2>2. current' \in [Particle -> Frame \cup {NoFrame}]
    BY <1>20 DEF UnsetCurrent, TypeOK
  <2> QED
    BY <1>20, <2>1, <2>2 DEF UnsetCurrent, UnlockRec, TypeOK, Thread, FramePc,
       SetPc, UnsetPc
<1>21. CASE DrawLockRec
  BY <1>21 DEF DrawLockRec, LockRec, TypeOK, Thread, FramePc, SetPc, UnsetPc
<1>22. CASE DrawLockTimer
  BY <1>22 DEF DrawLockTimer, LockTimer, TypeOK, Thread, FramePc, SetPc,
     UnsetPc
<1>23. CASE DrawReadFrame
  BY <1>23 DEF DrawReadFrame, UnlockTimer, TypeOK, Thread, FramePc, SetPc,
     UnsetPc
<1>24. CASE Draw
  BY <1>24 DEF Draw, UnlockRec, TypeOK, Thread, FramePc, SetPc, UnsetPc
<1>25. CASE UNCHANGED vars
  BY <1>25 DEF vars, TypeOK, Thread, FramePc, SetPc, UnsetPc
<1> QED
  BY <1>1, <1>2, <1>3, <1>4, <1>5, <1>6, <1>7, <1>8, <1>9, <1>10,
     <1>11, <1>12, <1>13, <1>14, <1>15, <1>16, <1>17, <1>18, <1>19,
     <1>20, <1>21, <1>22, <1>23, <1>24, <1>25
  DEF Next, TimerThread, ReceiverThread, FrameReceived, LayerSetValue,
      LayerUnsetValue, DisplayThread, Drawing

-----------------------------------------------------------------------------

(* The clock is not running when it is created.                            *)
LEMMA InitClock == Init => ClockDiscipline
  BY DEF Init, ClockDiscipline, NotStarted

(* Every statement keeps the clock's discipline: _frame_received starts it *)
(* only when it does not run, and only then does tot_frame change without  *)
(* the frame.                                                              *)
LEMMA NextClock ==
    TypeOK /\ LockDiscipline /\ ClockDiscipline /\ [Next]_vars
        => ClockDiscipline'
<1> SUFFICES ASSUME TypeOK, LockDiscipline, ClockDiscipline, [Next]_vars
             PROVE  ClockDiscipline'
  OBVIOUS
<1> USE DEF clock, pointers, recData, locks, locals, receiver, display
<1>1. CASE TimerLock
  BY <1>1 DEF TimerLock, LockTimer, ClockDiscipline
<1>2. CASE Tick
  <2>1. CASE run = 1
    BY <1>2, <2>1 DEF Tick, UnlockTimer, ClockDiscipline
  <2>2. CASE run # 1
    BY <1>2, <2>2 DEF Tick, UnlockTimer, ClockDiscipline
  <2> QED
    BY <2>1, <2>2
<1>3. CASE Post
  BY <1>3 DEF Post, ClockDiscipline
<1>4. CASE SemWait
  BY <1>4 DEF SemWait, ClockDiscipline
<1>5. CASE UpdateReturns
  BY <1>5 DEF UpdateReturns, ClockDiscipline
<1>6. CASE Callback
  <2>1. rpc' \notin {"frameLockRec", "frameStore"}
    BY <1>6, EntranceFits DEF Callback
  <2> QED
    BY <1>6, <2>1 DEF Callback, ClockDiscipline
<1>7. CASE FrameLockTimer
  BY <1>7 DEF FrameLockTimer, LockTimer, ClockDiscipline
<1>8. CASE FrameStart
  <2>1. /\ run' = 1 /\ (run = 1 => tot' = tot)
        /\ frame' = frame /\ recFrame' = recFrame
    BY <1>8 DEF FrameStart, TypeOK
  <2> QED
    BY <1>8, <2>1 DEF FrameStart, ClockDiscipline
<1>9. CASE FrameLockRec
  BY <1>9 DEF FrameLockRec, LockRec, ClockDiscipline
<1>10. CASE FrameStore
  BY <1>10 DEF FrameStore, CallbackReturns, UnlockRec, ClockDiscipline
<1>11. CASE SetLockTimer
  BY <1>11 DEF SetLockTimer, LockTimer, ClockDiscipline
<1>12. CASE SetReadFrame
  BY <1>12 DEF SetReadFrame, UnlockTimer, ClockDiscipline
<1>13. CASE SetLockRec
  BY <1>13 DEF SetLockRec, LockRec, ClockDiscipline
<1>14. CASE SetFind
  BY <1>14 DEF SetFind, CallbackReturns, UnlockRec, ClockDiscipline
<1>15. CASE SetPointers
  BY <1>15 DEF SetPointers, ClockDiscipline
<1>16. CASE SetDelay
  BY <1>16 DEF SetDelay, CallbackReturns, UnlockRec, ClockDiscipline
<1>17. CASE UnsetLockRec
  BY <1>17 DEF UnsetLockRec, LockRec, ClockDiscipline
<1>18. CASE UnsetFirst
  BY <1>18 DEF UnsetFirst, ClockDiscipline
<1>19. CASE UnsetLast
  BY <1>19 DEF UnsetLast, ClockDiscipline
<1>20. CASE UnsetCurrent
  BY <1>20 DEF UnsetCurrent, CallbackReturns, UnlockRec, ClockDiscipline
<1>21. CASE DrawLockRec
  BY <1>21 DEF DrawLockRec, LockRec, ClockDiscipline
<1>22. CASE DrawLockTimer
  BY <1>22 DEF DrawLockTimer, LockTimer, ClockDiscipline
<1>23. CASE DrawReadFrame
  BY <1>23 DEF DrawReadFrame, UnlockTimer, ClockDiscipline
<1>24. CASE Draw
  BY <1>24 DEF Draw, UnlockRec, ClockDiscipline
<1>25. CASE UNCHANGED vars
  BY <1>25 DEF vars, ClockDiscipline
<1> QED
  BY <1>1, <1>2, <1>3, <1>4, <1>5, <1>6, <1>7, <1>8, <1>9, <1>10,
     <1>11, <1>12, <1>13, <1>14, <1>15, <1>16, <1>17, <1>18, <1>19,
     <1>20, <1>21, <1>22, <1>23, <1>24, <1>25
  DEF Next, TimerThread, ReceiverThread, FrameReceived, LayerSetValue,
      LayerUnsetValue, DisplayThread, Drawing

-----------------------------------------------------------------------------

(* No state has been received at first.                                    *)
LEMMA InitPointers == Init => PointersDiscipline /\ HistoryDiscipline
  BY DEF Init, PointersDiscipline, HistoryDiscipline, Together

(* Every statement keeps the order of the pointers.                        *)
LEMMA NextPointers ==
    TypeOK /\ PointersDiscipline /\ [Next]_vars => PointersDiscipline'
<1> SUFFICES ASSUME TypeOK, PointersDiscipline, [Next]_vars
             PROVE  PointersDiscipline'
  OBVIOUS
<1> USE DEF clock, pointers, recData, locks, locals, receiver, display
<1>1. CASE TimerLock
  BY <1>1 DEF TimerLock, LockTimer, PointersDiscipline, Together
<1>2. CASE Tick
  BY <1>2 DEF Tick, UnlockTimer, PointersDiscipline, Together
<1>3. CASE Post
  BY <1>3 DEF Post, PointersDiscipline, Together
<1>4. CASE SemWait
  BY <1>4 DEF SemWait, PointersDiscipline, Together
<1>5. CASE UpdateReturns
  BY <1>5 DEF UpdateReturns, PointersDiscipline, Together
<1>6. CASE Callback
  <2>1. rpc' \notin {"setPointers", "setDelay", "unsetLast", "unsetCurrent"}
    BY <1>6, EntranceFits DEF Callback
  <2> QED
    BY <1>6, <2>1 DEF Callback, PointersDiscipline, Together
<1>7. CASE FrameLockTimer
  BY <1>7 DEF FrameLockTimer, LockTimer, PointersDiscipline, Together
<1>8. CASE FrameStart
  BY <1>8 DEF FrameStart, UnlockTimer, PointersDiscipline, Together
<1>9. CASE FrameLockRec
  BY <1>9 DEF FrameLockRec, LockRec, PointersDiscipline, Together
<1>10. CASE FrameStore
  BY <1>10 DEF FrameStore, CallbackReturns, UnlockRec, PointersDiscipline,
     Together
<1>11. CASE SetLockTimer
  BY <1>11 DEF SetLockTimer, LockTimer, PointersDiscipline, Together
<1>12. CASE SetReadFrame
  BY <1>12 DEF SetReadFrame, UnlockTimer, PointersDiscipline, Together
<1>13. CASE SetLockRec
  BY <1>13 DEF SetLockRec, LockRec, PointersDiscipline, Together
<1>14. CASE SetFind
  <2>1. PICK f \in Lookup(msg.particle, msg.pos) :
          IF f # NoFrame
          THEN /\ ref' = f /\ rpc' = "setPointers"
               /\ UNCHANGED <<locks, left, msg, curFrame>>
          ELSE CallbackReturns /\ UnlockRec("receiver")
    BY <1>14 DEF SetFind
  <2>2. f \in Frame \cup {NoFrame}
    BY FindRefRange DEF Lookup
  <2>3. CASE f # NoFrame
    BY <1>14, <2>1, <2>2, <2>3 DEF SetFind, PointersDiscipline, Together
  <2>4. CASE f = NoFrame
    BY <1>14, <2>1, <2>4 DEF SetFind, CallbackReturns, PointersDiscipline,
       Together
  <2> QED
    BY <2>3, <2>4
<1>15. CASE SetPointers
  <2> DEFINE p == msg.particle
  <2>1. p \in Particle /\ ref \in Frame /\ Together(p)
    BY <1>15 DEF SetPointers, TypeOK, SetPc, SetMsg, PointersDiscipline
  <2>2. /\ first[p] \in Frame \cup {NoFrame} /\ last[p] \in Frame \cup {NoFrame}
        /\ first' = [first EXCEPT ![p] =
              IF first[p] = NoFrame \/ first[p] > ref THEN ref ELSE first[p]]
        /\ last' = [last EXCEPT ![p] =
              IF first[p] = NoFrame \/ last[p] < ref THEN ref ELSE last[p]]
        /\ current' = [current EXCEPT ![p] = ref]
        /\ p' = p /\ ref' = ref /\ rpc' = "setDelay"
    BY <1>15, <2>1 DEF SetPointers, TypeOK
  <2>3. Together(p)'
    <3>1. /\ first'[p] = IF first[p] = NoFrame \/ first[p] > ref
                         THEN ref ELSE first[p]
          /\ last'[p] = IF first[p] = NoFrame \/ last[p] < ref
                        THEN ref ELSE last[p]
          /\ current'[p] = ref
      BY <2>1, <2>2 DEF TypeOK
    <3>2. first[p] \in Int /\ last[p] \in Int /\ ref \in Int /\ NoFrame < ref
      BY <2>1, <2>2, FramesAssumption DEF Frame, NoFrame
    <3>3. NoFrame = -1
      BY DEF NoFrame
    <3> HIDE DEF p
    <3>4. /\ NoFrame < first'[p]
          /\ first'[p] =< current'[p] /\ current'[p] =< last'[p]
      BY <2>1, <3>1, <3>2, <3>3 DEF Together
    <3> QED
      BY <2>2, <3>4 DEF Together
  <2>4. \A q \in Particle : q # p => Together(q)'
    BY <1>15, <2>2 DEF SetPointers, TypeOK, PointersDiscipline, Together
  <2> QED
    BY <2>1, <2>2, <2>3, <2>4 DEF PointersDiscipline
<1>16. CASE SetDelay
  BY <1>16 DEF SetDelay, CallbackReturns, UnlockRec, PointersDiscipline,
     Together
<1>17. CASE UnsetLockRec
  BY <1>17 DEF UnsetLockRec, LockRec, PointersDiscipline, Together
<1>18. CASE UnsetFirst
  <2>1. msg.particle \in Particle
    BY <1>18 DEF UnsetFirst, TypeOK, UnsetPc, UnsetMsg
  <2> QED
    BY <1>18, <2>1 DEF UnsetFirst, TypeOK, PointersDiscipline, Together
<1>19. CASE UnsetLast
  <2>1. msg.particle \in Particle
    BY <1>19 DEF UnsetLast, TypeOK, UnsetPc, UnsetMsg
  <2> QED
    BY <1>19, <2>1 DEF UnsetLast, TypeOK, PointersDiscipline, Together
<1>20. CASE UnsetCurrent
  <2>1. msg.particle \in Particle
    BY <1>20 DEF UnsetCurrent, TypeOK, UnsetPc, UnsetMsg
  <2> QED
    BY <1>20, <2>1 DEF UnsetCurrent, CallbackReturns, TypeOK,
       PointersDiscipline,
                     Together
<1>21. CASE DrawLockRec
  BY <1>21 DEF DrawLockRec, LockRec, PointersDiscipline, Together
<1>22. CASE DrawLockTimer
  BY <1>22 DEF DrawLockTimer, LockTimer, PointersDiscipline, Together
<1>23. CASE DrawReadFrame
  BY <1>23 DEF DrawReadFrame, UnlockTimer, PointersDiscipline, Together
<1>24. CASE Draw
  BY <1>24 DEF Draw, UnlockRec, PointersDiscipline, Together
<1>25. CASE UNCHANGED vars
  BY <1>25 DEF vars, PointersDiscipline, Together
<1> QED
  BY <1>1, <1>2, <1>3, <1>4, <1>5, <1>6, <1>7, <1>8, <1>9, <1>10,
     <1>11, <1>12, <1>13, <1>14, <1>15, <1>16, <1>17, <1>18, <1>19,
     <1>20, <1>21, <1>22, <1>23, <1>24, <1>25
  DEF Next, TimerThread, ReceiverThread, FrameReceived, LayerSetValue,
      LayerUnsetValue, DisplayThread, Drawing

(* Every statement keeps what the pointers point at received.              *)
LEMMA NextHistory ==
    TypeOK /\ PointersDiscipline /\ HistoryDiscipline /\ [Next]_vars
        => HistoryDiscipline'
<1> SUFFICES ASSUME TypeOK, PointersDiscipline, HistoryDiscipline, [Next]_vars
             PROVE  HistoryDiscipline'
  OBVIOUS
<1> USE DEF clock, pointers, recData, locks, locals, receiver, display
<1>1. CASE TimerLock
  BY <1>1 DEF TimerLock, LockTimer, HistoryDiscipline
<1>2. CASE Tick
  BY <1>2 DEF Tick, UnlockTimer, HistoryDiscipline
<1>3. CASE Post
  BY <1>3 DEF Post, HistoryDiscipline
<1>4. CASE SemWait
  BY <1>4 DEF SemWait, HistoryDiscipline
<1>5. CASE UpdateReturns
  BY <1>5 DEF UpdateReturns, HistoryDiscipline
<1>6. CASE Callback
  BY <1>6 DEF Callback, Entrance, HistoryDiscipline
<1>7. CASE FrameLockTimer
  BY <1>7 DEF FrameLockTimer, LockTimer, HistoryDiscipline
<1>8. CASE FrameStart
  BY <1>8 DEF FrameStart, UnlockTimer, HistoryDiscipline
<1>9. CASE FrameLockRec
  BY <1>9 DEF FrameLockRec, LockRec, HistoryDiscipline
<1>10. CASE FrameStore
  BY <1>10 DEF FrameStore, CallbackReturns, UnlockRec, HistoryDiscipline
<1>11. CASE SetLockTimer
  BY <1>11 DEF SetLockTimer, LockTimer, HistoryDiscipline
<1>12. CASE SetReadFrame
  BY <1>12 DEF SetReadFrame, UnlockTimer, HistoryDiscipline
<1>13. CASE SetLockRec
  BY <1>13 DEF SetLockRec, LockRec, HistoryDiscipline
<1>14. CASE SetFind
  <2>1. rpc # "setDelay"
    BY <1>14 DEF SetFind
  <2> QED
    BY <1>14, <2>1 DEF SetFind, HistoryDiscipline
<1>15. CASE SetPointers
  <2> DEFINE p == msg.particle
  <2>1. p \in Particle /\ ref \in Frame
    BY <1>15 DEF SetPointers, TypeOK, SetPc, SetMsg, PointersDiscipline
  <2>2. /\ hist' = hist /\ p' = p /\ ref' = ref /\ rpc' = "setDelay"
        /\ rpc # "setDelay"
    BY <1>15 DEF SetPointers
  <2>3. /\ first'[p] \in {first[p], ref} /\ last'[p] \in {last[p], ref}
        /\ current'[p] = ref
    BY <1>15, <2>1 DEF SetPointers, TypeOK
  <2>4. \A q \in Particle \ {p} :
           /\ first'[q] = first[q] /\ last'[q] = last[q]
           /\ current'[q] = current[q]
    BY <1>15, <2>1 DEF SetPointers, TypeOK
  <2> HIDE DEF p
  <2>5. ASSUME NEW q \in Particle,
               NEW f \in {first'[q], last'[q], current'[q]} \ {NoFrame}
        PROVE  hist[q][f] # Unreceived \/ (q = p /\ f = ref)
    <3>1. CASE q = p
      BY <2>2, <2>3, <2>5, <3>1 DEF HistoryDiscipline
    <3>2. CASE q # p
      BY <2>2, <2>4, <2>5, <3>2 DEF HistoryDiscipline
    <3> QED
      BY <3>1, <3>2
  <2> USE DEF p
  <2> QED
    BY <2>2, <2>5 DEF HistoryDiscipline
<1>16. CASE SetDelay
  <2> DEFINE p == msg.particle
             e == Classify(curFrame - ref)
  <2>1. /\ p \in Particle /\ ref \in Frame
        /\ first' = first /\ last' = last /\ current' = current
        /\ rpc' # "setDelay"
        /\ hist' = [hist EXCEPT ![p][ref] = e]
    BY <1>16 DEF SetDelay, CallbackReturns, TypeOK, SetPc, SetMsg,
       PointersDiscipline
  <2>2. e # Unreceived
    BY Delays
  <2> HIDE DEF e, p
  <2>3. hist'[p][ref] = e
    BY <2>1 DEF TypeOK
  <2>4. \A q \in Particle, f \in Frame :
            q # p \/ f # ref => hist'[q][f] = hist[q][f]
    BY <2>1 DEF TypeOK
  <2>5. ASSUME NEW q \in Particle,
               NEW f \in {first[q], last[q], current[q]} \ {NoFrame}
        PROVE  hist'[q][f] # Unreceived
    <3>1. f \in Frame
      BY <2>5 DEF TypeOK
    <3>2. CASE q = p /\ f = ref
      BY <2>2, <2>3, <3>2
    <3>3. CASE q # p \/ f # ref
      BY <2>4, <2>5, <3>1, <3>3 DEF HistoryDiscipline, p
    <3> QED
      BY <3>2, <3>3
  <2> QED
    BY <2>1, <2>5 DEF HistoryDiscipline
<1>17. CASE UnsetLockRec
  BY <1>17 DEF UnsetLockRec, LockRec, HistoryDiscipline
<1>18. CASE UnsetFirst
  <2>1. msg.particle \in Particle
    BY <1>18 DEF UnsetFirst, TypeOK, UnsetPc, UnsetMsg
  <2> QED
    BY <1>18, <2>1 DEF UnsetFirst, TypeOK, HistoryDiscipline
<1>19. CASE UnsetLast
  <2>1. msg.particle \in Particle
    BY <1>19 DEF UnsetLast, TypeOK, UnsetPc, UnsetMsg
  <2> QED
    BY <1>19, <2>1 DEF UnsetLast, TypeOK, HistoryDiscipline
<1>20. CASE UnsetCurrent
  <2>1. msg.particle \in Particle
    BY <1>20 DEF UnsetCurrent, TypeOK, UnsetPc, UnsetMsg
  <2> QED
    BY <1>20, <2>1 DEF UnsetCurrent, CallbackReturns, TypeOK,
       HistoryDiscipline
<1>21. CASE DrawLockRec
  BY <1>21 DEF DrawLockRec, LockRec, HistoryDiscipline
<1>22. CASE DrawLockTimer
  BY <1>22 DEF DrawLockTimer, LockTimer, HistoryDiscipline
<1>23. CASE DrawReadFrame
  BY <1>23 DEF DrawReadFrame, UnlockTimer, HistoryDiscipline
<1>24. CASE Draw
  BY <1>24 DEF Draw, UnlockRec, HistoryDiscipline
<1>25. CASE UNCHANGED vars
  BY <1>25 DEF vars, HistoryDiscipline
<1> QED
  BY <1>1, <1>2, <1>3, <1>4, <1>5, <1>6, <1>7, <1>8, <1>9, <1>10,
     <1>11, <1>12, <1>13, <1>14, <1>15, <1>16, <1>17, <1>18, <1>19,
     <1>20, <1>21, <1>22, <1>23, <1>24, <1>25
  DEF Next, TimerThread, ReceiverThread, FrameReceived, LayerSetValue,
      LayerUnsetValue, DisplayThread, Drawing

-----------------------------------------------------------------------------

IInv == /\ TypeOK /\ LockDiscipline /\ ClockDiscipline
        /\ PointersDiscipline /\ HistoryDiscipline

(* The inductive invariant holds in every behaviour of the three threads.  *)
THEOREM ReceiverInvariant == Spec => []IInv
<1>1. Init => IInv
  BY InitType, InitLock, InitClock, InitPointers DEF IInv
<1>2. IInv /\ [Next]_vars => IInv'
  BY NextType, NextLock, NextClock, NextPointers, NextHistory DEF IInv
<1> QED
  BY <1>1, <1>2, PTL DEF Spec

(* Every variable of the three threads keeps its type.                     *)
THEOREM TypeCorrect == Spec => []TypeOK
<1>1. IInv => TypeOK
  BY DEF IInv
<1> QED
  BY <1>1, ReceiverInvariant, PTL

(* No thread waits for a mutex while it holds the timer's: the callbacks   *)
(* and the drawing cannot block each other for ever.                       *)
THEOREM NoCircularWaitHolds == Spec => []NoCircularWait
<1>1. IInv => NoCircularWait
  BY DEF IInv, LockDiscipline, NoCircularWait
<1> QED
  BY <1>1, ReceiverInvariant, PTL

(* Whoever sees a received frame number finds the clock running.           *)
THEOREM RunsBeforeFrameHolds == Spec => []RunsBeforeFrame
<1>1. IInv => RunsBeforeFrame
  BY DEF IInv, ClockDiscipline, RunsBeforeFrame
<1> QED
  BY <1>1, ReceiverInvariant, PTL

(* Whoever holds the received data's mutex, the callbacks apart, finds the *)
(* three pointers of each particle NULL or in order, and each of them at a *)
(* state that has been received.                                           *)
THEOREM PointersSoundHolds == Spec => []PointersSound
<1>1. IInv => PointersTogether
  BY DEF IInv, LockDiscipline, PointersDiscipline, PointersTogether, Together
<1>2. IInv => PointersReceived
  BY DEF IInv, LockDiscipline, HistoryDiscipline, PointersReceived
<1>3. IInv => PointersSound
  BY <1>1, <1>2 DEF PointersSound
<1> QED
  BY <1>3, ReceiverInvariant, PTL

(* Nothing changes the received data while they are being drawn.           *)
THEOREM DrawingIsolatedHolds == Spec => DrawingIsolated
<1>1. IInv /\ [Next]_vars => [dpc # "idle" => UNCHANGED recData]_vars
  <2> SUFFICES ASSUME IInv, Next, dpc # "idle" PROVE UNCHANGED recData
    BY DEF vars
  <2>1. rpc \notin {"frameStore", "setFind", "setPointers", "setDelay",
                   "unsetFirst", "unsetLast", "unsetCurrent"}
    BY DEF IInv, LockDiscipline
  <2> QED
    BY <2>1 DEF Next, TimerThread, TimerLock, Tick, Post, ReceiverThread,
       SemWait,
       UpdateReturns, Callback, FrameReceived, FrameLockTimer, FrameStart,
       FrameLockRec, FrameStore, LayerSetValue, SetLockTimer, SetReadFrame,
       SetLockRec, SetFind, SetPointers, SetDelay, LayerUnsetValue,
       UnsetLockRec, UnsetFirst, UnsetLast, UnsetCurrent, DisplayThread,
       DrawLockRec, Drawing, DrawLockTimer, DrawReadFrame, Draw, recData
<1> QED
  BY <1>1, ReceiverInvariant, PTL DEF Spec, DrawingIsolated

(* The frame shown never jumps but where the tick count wraps.             *)
THEOREM FollowsAnimationHolds == Spec => FollowsAnimation
<1> DEFINE A == frame # NotStarted /\ (frame' # frame \/ tot' # tot) =>
                    \/ frame' = (frame + 1) % (FrameCount - 1)
                    \/ frame' = 0 /\ (tot < 0 \/ tot' < 0)
<1>1. IInv /\ [Next]_vars => [A]_vars
  <2> SUFFICES ASSUME IInv, Next, frame # NotStarted,
                      frame' # frame \/ tot' # tot
               PROVE  \/ frame' = (frame + 1) % (FrameCount - 1)
                      \/ frame' = 0 /\ (tot < 0 \/ tot' < 0)
    BY DEF vars, clock
  <2>1. Tick
    BY DEF IInv, ClockDiscipline, Next, TimerThread, TimerLock, Tick, Post,
       ReceiverThread, SemWait,
       UpdateReturns, Callback, FrameReceived, FrameLockTimer, FrameStart,
       FrameLockRec, FrameStore, LayerSetValue, SetLockTimer, SetReadFrame,
       SetLockRec, SetFind, SetPointers, SetDelay, LayerUnsetValue,
       UnsetLockRec, UnsetFirst, UnsetLast, UnsetCurrent, DisplayThread,
       DrawLockRec, Drawing, DrawLockTimer, DrawReadFrame, Draw, clock
  <2>2. frame = FrameOf(tot) /\ tot \in Int16
    BY DEF IInv, ClockDiscipline, TypeOK
  <2>3. tot' = NextTot(tot) /\ frame' = FrameOf(NextTot(tot))
    BY <2>1 DEF Tick
  <2> QED
    BY <2>2, <2>3, FrameOfNext
<1> QED
  BY <1>1, ReceiverInvariant, PTL DEF Spec, FollowsAnimation

-----------------------------------------------------------------------------
(* The callbacks implement ReceivedData.  Between the step at which one    *)
(* takes effect and its end, what it still has to store is in the mapping. *)

Storing == {"setPointers", "setDelay", "unsetFirst", "unsetLast",
            "unsetCurrent"}

(* Steps of the other threads are stutters ...                             *)
LEMMA OthersStutter ==
    UNCHANGED <<recData, receiver>> => UNCHANGED Abs!vars
  BY DEF Abs!vars, AbsSpan, AbsHist, PointersOf, recData, pointers, receiver,
     locals

(* ... and so are those of the callbacks that have no effect to finish.    *)
LEMMA IdleStutters ==
    UNCHANGED recData /\ rpc \notin Storing /\ rpc' \notin Storing
       => UNCHANGED Abs!vars
<1> SUFFICES ASSUME UNCHANGED recData, rpc \notin Storing,
                    rpc' \notin Storing
             PROVE  UNCHANGED Abs!vars
  OBVIOUS
<1>1. AbsSpan = [p \in Particle |-> PointersOf(p)] /\ AbsHist = hist
  BY DEF AbsSpan, AbsHist, Storing, UnsetPc
<1>2. AbsSpan' = [p \in Particle |-> PointersOf(p)'] /\ AbsHist' = hist'
  BY DEF AbsSpan, AbsHist, Storing, UnsetPc
<1> QED
  BY <1>1, <1>2 DEF Abs!vars, PointersOf, recData, pointers

(* A frame number arrives.                                                 *)
LEMMA FrameStoreArrives == IInv /\ FrameStore => Abs!FrameNumber
<1> SUFFICES ASSUME IInv, FrameStore PROVE Abs!FrameNumber
  OBVIOUS
<1>1. rpc \notin Storing /\ rpc' \notin Storing
  BY DEF FrameStore, CallbackReturns, Storing
<1>2. AbsSpan = [p \in Particle |-> PointersOf(p)] /\ AbsHist = hist
  BY <1>1 DEF AbsSpan, AbsHist, Storing, UnsetPc
<1>3. AbsSpan' = [p \in Particle |-> PointersOf(p)'] /\ AbsHist' = hist'
  BY <1>1 DEF AbsSpan, AbsHist, Storing, UnsetPc
<1>4. UNCHANGED <<AbsSpan, AbsHist>>
  BY <1>2, <1>3 DEF FrameStore, PointersOf, pointers
<1>5. recFrame' \in ClockFrame
  BY DEF IInv, TypeOK, FrameStore, FramePc, FrameMsg
<1> QED
  BY <1>4, <1>5 DEF Abs!FrameNumber, ClockFrame, Abs!ClockFrame

(* A position takes effect when its state has been found.                  *)
LEMMA SetFindReceives ==
    IInv /\ SetFind => Abs!Next \/ UNCHANGED Abs!vars
<1> SUFFICES ASSUME IInv, SetFind PROVE Abs!Next \/ UNCHANGED Abs!vars
  OBVIOUS
<1> DEFINE p == msg.particle
<1>1. UNCHANGED recData /\ rpc \notin Storing
  BY DEF SetFind, Storing
<1>2. CASE rpc' = "dispatch"
  BY <1>1, <1>2, IdleStutters DEF Storing
<1>3. CASE rpc' = "setPointers" /\ ref' # NoFrame
  <2>1. p \in Particle /\ p' = p /\ curFrame' = curFrame
    BY <1>3 DEF SetFind, CallbackReturns, IInv, TypeOK, SetPc, SetMsg
  <2>2. ref' \in Frame /\ curFrame \in ClockFrame \cup {NotStarted}
    BY <1>3, NextType DEF IInv, TypeOK, Next, ReceiverThread, LayerSetValue
  <2>3. AbsSpan = [q \in Particle |-> PointersOf(q)] /\ AbsHist = hist
    BY <1>1 DEF AbsSpan, AbsHist, Storing, UnsetPc
  <2>4. PointersOf(p) = Abs!Nothing <=> first[p] = NoFrame
    BY <2>1 DEF IInv, PointersDiscipline, Together, Storing, SetFind,
       PointersOf, Abs!Nothing, Abs!Span, Abs!NoFrame, NoFrame
  <2>5. AbsSpan' = [AbsSpan EXCEPT ![p] = Abs!Widened(AbsSpan[p], ref')]
    <3> DEFINE wide ==
          IF first[p] = NoFrame
          THEN [first |-> ref', last |-> ref', current |-> ref']
          ELSE [first |-> IF ref' < first[p] THEN ref' ELSE first[p],
                last |-> IF ref' > last[p] THEN ref' ELSE last[p],
                current |-> ref']
    <3>1. AbsSpan' = [q \in Particle |-> IF q = p THEN wide
                                         ELSE PointersOf(q)]
      BY <1>1, <1>3, <2>1 DEF AbsSpan, PointersOf, recData, pointers, UnsetPc
    <3>2. wide = Abs!Widened(PointersOf(p), ref')
      BY <2>4 DEF Abs!Widened, Abs!Span, PointersOf
    <3> HIDE DEF wide, p
    <3> QED
      BY <2>1, <2>3, <3>1, <3>2
  <2>6. AbsHist' = [AbsHist EXCEPT ![p][ref'] = Abs!Classify(curFrame - ref')]
    BY <1>1, <1>3, <2>1, <2>3
    DEF AbsHist, recData, Classify, InTime, Delayed, Ahead,
        Abs!Classify, Abs!InTime, Abs!Delayed, Abs!Ahead
  <2>7. Abs!Receive(p, ref', curFrame)
    BY <1>1, <2>5, <2>6 DEF Abs!Receive, recData
  <2> QED
    BY <2>1, <2>2, <2>7
    DEF Abs!Next, Frame, ClockFrame, NotStarted,
        Abs!Frame, Abs!ClockFrame, Abs!NotStarted
<1> QED
  BY <1>2, <1>3 DEF SetFind, CallbackReturns

(* Storing what it has found changes nothing any more.                     *)
LEMMA SetPointersStutters ==
    IInv /\ SetPointers => UNCHANGED Abs!vars
<1> SUFFICES ASSUME IInv, SetPointers PROVE UNCHANGED Abs!vars
  OBVIOUS
<1> DEFINE p == msg.particle
<1>1. p \in Particle /\ p' = p /\ ref' = ref /\ curFrame' = curFrame
      /\ hist' = hist /\ recFrame' = recFrame /\ msg' = msg
  BY DEF SetPointers, IInv, TypeOK, SetPc, SetMsg, locals
<1>2. /\ rpc = "setPointers" /\ rpc' = "setDelay"
      /\ first[p] \in Frame \cup {NoFrame} /\ last[p] \in Frame \cup {NoFrame}
  BY <1>1 DEF SetPointers, IInv, TypeOK
<1>3. AbsHist' = AbsHist
  BY <1>1, <1>2 DEF AbsHist
<1>4. \A q \in Particle : PointersOf(q)' =
          IF q = p
          THEN IF first[p] = NoFrame
               THEN [first |-> ref, last |-> ref, current |-> ref]
               ELSE [first |-> IF ref < first[p] THEN ref ELSE first[p],
                     last |-> IF ref > last[p] THEN ref ELSE last[p],
                     current |-> ref]
          ELSE PointersOf(q)
  BY <1>1, <1>2 DEF SetPointers, PointersOf, IInv, TypeOK
<1>5. AbsSpan' = [q \in Particle |-> PointersOf(q)']
  BY <1>2 DEF AbsSpan, UnsetPc
<1>6. AbsSpan' = AbsSpan
  BY <1>2, <1>4, <1>5 DEF AbsSpan, UnsetPc
<1> QED
  BY <1>1, <1>3, <1>6 DEF Abs!vars

LEMMA SetDelayStutters ==
    IInv /\ SetDelay => UNCHANGED Abs!vars
<1> SUFFICES ASSUME IInv, SetDelay PROVE UNCHANGED Abs!vars
  OBVIOUS
<1>1. /\ rpc = "setDelay" /\ rpc' = "dispatch"
      /\ recFrame' = recFrame /\ UNCHANGED pointers
      /\ hist' = [hist EXCEPT ![msg.particle][ref] = Classify(curFrame - ref)]
  BY DEF SetDelay, CallbackReturns
<1>2. AbsHist' = AbsHist
  BY <1>1 DEF AbsHist
<1>3. AbsSpan' = AbsSpan
  BY <1>1 DEF AbsSpan, PointersOf, pointers, UnsetPc
<1> QED
  BY <1>1, <1>2, <1>3 DEF Abs!vars

(* A deletion takes effect when it has got the mutex.                      *)
LEMMA UnsetLockRecForgets ==
    IInv /\ UnsetLockRec => Abs!Next
<1> SUFFICES ASSUME IInv, UnsetLockRec PROVE Abs!Next
  OBVIOUS
<1> DEFINE p == msg.particle
<1>1. /\ rpc = "unsetLockRec" /\ rpc' = "unsetFirst" /\ msg' = msg
      /\ recFrame' = recFrame /\ UNCHANGED pointers /\ hist' = hist
  BY DEF UnsetLockRec, recData, locals
<1>2. p \in Particle
  BY <1>1 DEF IInv, TypeOK, UnsetPc, UnsetMsg
<1>3. AbsHist' = AbsHist
  BY <1>1 DEF AbsHist
<1>4. AbsSpan = [q \in Particle |-> PointersOf(q)]
  BY <1>1 DEF AbsSpan
<1>5. AbsSpan' = [q \in Particle |->
                     IF q = p THEN Abs!Nothing ELSE PointersOf(q)]
  BY <1>1 DEF AbsSpan, PointersOf, pointers, UnsetPc, Abs!Nothing, Abs!Span,
     Abs!NoFrame, NoFrame
<1>6. AbsSpan' = [AbsSpan EXCEPT ![p] = Abs!Nothing]
  BY <1>4, <1>5
<1> QED
  BY <1>1, <1>2, <1>3, <1>6 DEF Abs!Next, Abs!Forget

(* Taking the pointers away one by one changes nothing any more.           *)
LEMMA UnsetStutters ==
    IInv /\ (UnsetFirst \/ UnsetLast \/ UnsetCurrent) => UNCHANGED Abs!vars
<1> SUFFICES ASSUME IInv, UnsetFirst \/ UnsetLast \/ UnsetCurrent
             PROVE  UNCHANGED Abs!vars
  OBVIOUS
<1> DEFINE p == msg.particle
           gone == [first |-> NoFrame, last |-> NoFrame, current |-> NoFrame]
<1>1. /\ rpc \in UnsetPc \ {"unsetLockRec"}
      /\ rpc' \in {"unsetLast", "unsetCurrent", "dispatch"}
      /\ recFrame' = recFrame /\ hist' = hist
  BY DEF UnsetFirst, UnsetLast, UnsetCurrent, CallbackReturns, UnsetPc
<1>2. p \in Particle
  BY <1>1 DEF IInv, TypeOK, UnsetPc, UnsetMsg
<1>3. AbsHist' = AbsHist
  BY <1>1 DEF AbsHist, UnsetPc
<1>4. AbsSpan = [q \in Particle |-> IF q = p THEN gone ELSE PointersOf(q)]
  BY <1>1 DEF AbsSpan, UnsetPc
<1>5. \A q \in Particle \ {p} : PointersOf(q)' = PointersOf(q)
  BY <1>2 DEF UnsetFirst, UnsetLast, UnsetCurrent, PointersOf, IInv, TypeOK
<1>6. AbsSpan' = [q \in Particle |-> IF q = p THEN gone ELSE PointersOf(q)']
  <2>1. CASE UnsetCurrent
    <3>1. \A q \in Particle : q = p => PointersOf(q)' = gone
      BY <1>2, <2>1 DEF UnsetCurrent, PointersOf, IInv, TypeOK,
         PointersDiscipline
    <3>2. rpc' = "dispatch"
      BY <2>1 DEF UnsetCurrent, CallbackReturns
    <3>3. AbsSpan' = [q \in Particle |-> PointersOf(q)']
      BY <3>2 DEF AbsSpan, UnsetPc
    <3> HIDE DEF gone, p
    <3> QED
      BY <3>1, <3>3
  <2>2. CASE UnsetFirst \/ UnsetLast
    <3>1. rpc' \in {"unsetLast", "unsetCurrent"} /\ msg' = msg
      BY <2>2 DEF UnsetFirst, UnsetLast, locals
    <3> QED
      BY <3>1 DEF AbsSpan, UnsetPc
  <2> QED
    BY <2>1, <2>2
<1>7. AbsSpan' = AbsSpan
  BY <1>4, <1>5, <1>6
<1> QED
  BY <1>1, <1>3, <1>7 DEF Abs!vars

(* Whatever the threads do between its statements, every callback changes  *)
(* the received data at once or not at all.                                *)
THEOREM AppearsAtomicHolds == Spec => AppearsAtomic
<1>1. Init => Abs!Init
  BY DEF Init, Abs!Init, AbsSpan, AbsHist, PointersOf, UnsetPc, Unreceived,
     NotStarted, NoFrame, Frame, Abs!Nothing, Abs!Span, Abs!NoFrame,
     Abs!NotStarted, Abs!Frame, Abs!Unreceived
<1>2. IInv /\ [Next]_vars => [Abs!Next]_(Abs!vars)
  <2> SUFFICES ASSUME IInv, [Next]_vars
               PROVE  Abs!Next \/ UNCHANGED Abs!vars
    OBVIOUS
  <2>1. CASE TimerThread \/ DisplayThread \/ UNCHANGED vars
    BY <2>1, OthersStutter
    DEF TimerThread, TimerLock, Tick, Post, DisplayThread, DrawLockRec,
        Drawing, DrawLockTimer, DrawReadFrame, Draw, vars
  <2>2. CASE SemWait \/ UpdateReturns
    BY <2>2, IdleStutters DEF SemWait, UpdateReturns, Storing
  <2>3. CASE Callback
    <3>1. rpc' \in {"frameLockTimer", "setLockTimer", "unsetLockRec",
                    "dispatch"}
      BY <2>3, EntranceFits DEF Callback
    <3> QED
      BY <2>3, <3>1, IdleStutters DEF Callback, Storing
  <2>4. CASE FrameLockTimer \/ FrameStart \/ FrameLockRec
    BY <2>4, IdleStutters
    DEF FrameLockTimer, FrameStart, FrameLockRec, Storing
  <2>5. CASE FrameStore
    BY <2>5, FrameStoreArrives DEF Abs!Next
  <2>6. CASE SetLockTimer \/ SetReadFrame \/ SetLockRec
    BY <2>6, IdleStutters DEF SetLockTimer, SetReadFrame, SetLockRec, Storing
  <2>7. CASE SetFind
    BY <2>7, SetFindReceives
  <2>8. CASE SetPointers \/ SetDelay
    BY <2>8, SetPointersStutters, SetDelayStutters
  <2>9. CASE UnsetLockRec
    BY <2>9, UnsetLockRecForgets
  <2>10. CASE UnsetFirst \/ UnsetLast \/ UnsetCurrent
    BY <2>10, UnsetStutters
  <2> QED
    BY <2>1, <2>2, <2>3, <2>4, <2>5, <2>6, <2>7, <2>8, <2>9, <2>10
    DEF Next, ReceiverThread, FrameReceived, LayerSetValue, LayerUnsetValue
<1> QED
  BY <1>1, <1>2, ReceiverInvariant, PTL DEF Spec, AppearsAtomic, Abs!Spec
=============================================================================
