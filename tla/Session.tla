------------------------------ MODULE Session -------------------------------
(***************************************************************************)
(* A sending and a receiving client on one server: who connects first,     *)
(* when a client is interrupted, and whether a sender that has been is     *)
(* started again, is open.                                                 *)
(***************************************************************************)
EXTENDS SenderSession, ReceiverSession

vars == <<serverVars, snd, rcv>>

Init == ServerInit /\ SenderInit /\ ReceiverInit

Serves == (\E c \in Client : Serve(c)) /\ UNCHANGED <<snd, rcv>>
SenderActs == SenderStep /\ UNCHANGED rcv
ReceiverActs == ReceiverStep /\ UNCHANGED snd

(* Bounds: when the sender is started again the receiver has not been      *)
(* interrupted, and afterwards neither is.                                 *)
Interrupts == /\ snd.life = 1
              /\ \/ SndInterrupt /\ UNCHANGED rcv
                 \/ RcvInterrupt /\ UNCHANGED snd
Restarts == SndRestarts /\ ~rcv.interrupted /\ UNCHANGED rcv

Next == Restarts \/ Serves \/ SenderActs \/ ReceiverActs \/ Interrupts

(* Both clients keep calling vrs_callback_update, driven by their timers,  *)
(* and the server serves both; as long as one of the three has something   *)
(* to do, something is done.  None of them can go on for ever alone.       *)
Fairness == WF_vars(Serves \/ SenderActs \/ ReceiverActs)

Spec == Init /\ [][Next]_vars /\ Fairness

-----------------------------------------------------------------------------

(* No callback follows a NULL pointer: the scene node exists when a sender *)
(* node is announced, and the node when its layer is.  The code relies on  *)
(* the order in which it makes its requests.                               *)
NoNullDeref == snd.phase # "crashed" /\ rcv.phase # "crashed"

(* When the clock runs, the ids that verse_send_data puts into its         *)
(* commands have been received: the layer was requested before the tag     *)
(* that starts the clock.                                                  *)
IdsKnownWhenRunning ==
    snd.run => /\ snd.bound /\ snd.layer
               /\ SndNode \in snd.tg /\ FrameTag \in snd.tag

(* A receiver, early or late, gets a frame number before it gets the first *)
(* position to look up.                                                    *)
FrameBeforeValue == ~rcv.strayed

(* Commands only come for nodes that the client has in its table.          *)
OnlyKnownNodes ==
    /\ \A i \in DOMAIN down[Receiver] :
          down[Receiver][i].op \in {"tgCreate", "tagCreate", "tagSet",
                                    "layerCreate", "layerSet", "layerUnset"}
             => RcvFinds(down[Receiver][i].node)
    /\ \A i \in DOMAIN down[Sender] :
          down[Sender][i].op \in {"tgCreate", "tagCreate", "layerCreate"}
             => SndFinds(down[Sender][i].node)

(* Unless one of them is interrupted, the sender's frames reach the        *)
(* receiver's clock, whoever came first.                                   *)
ReceiverStarts == <>(rcv.run \/ rcv.interrupted \/ snd.interrupted)

(* What a sender that is started again sends no receiver follows, early or *)
(* late: the scene of its first run, which stays on the server without a   *)
(* sender node, is announced first, and the receiver keeps to it.          *)
FollowsFirstRun ==
    \A l \in Lives \ {1} : rcv.scene # Scene(l) /\ rcv.bound # SenderNode(l)

(* An interrupted client ends.                                             *)
InterruptEnds ==
    /\ snd.interrupted ~> snd.phase \in {"exited", "killed"}
    /\ rcv.interrupted ~> rcv.phase = "exited"

(* Comment where the handler is installed ("The handle_signal function     *)
(* will try to terminate connection"): SIGINT does not kill the client.    *)
InterruptTerminates == snd.phase # "killed"
=============================================================================
