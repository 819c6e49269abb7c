------------------------------- MODULE Stream -------------------------------
(***************************************************************************)
(* The way of the animation from a sender's clock to a receiver's screen:  *)
(* the sender (src/client_particle_sender.c) sends frames as its clock     *)
(* ticks, the server keeps the last values and passes them on in order,    *)
(* the receiver (src/client_particle_receiver.c), which may come late,     *)
(* looks the positions up and compares them with a clock of its own.       *)
(*                                                                         *)
(* A batch is sent at once and a callback is split only where it leaves    *)
(* one mutex for the other: Sender!LayerMatchesTag says that no tick comes *)
(* into a batch, Receiver!AppearsAtomic that nobody sees half a callback.  *)
(* A position on its way is the frame it was sent for, and whether it is   *)
(* one the server had kept, which only a property asks; two of them are    *)
(* the same to the receiver if their positions are (FindRef).              *)
(***************************************************************************)
EXTENDS RefData, Sequences, SequencesExt

CONSTANTS Particle, Position,
          Path,      \* the reference data, which both clients have loaded
          MaxFlight  \* bound: commands on their way when a batch is sent

ASSUME StreamAssumption ==
    /\ Path \in [Particle -> [Frame -> Position]]
    /\ IsFiniteSet(Particle)
    /\ MaxFlight \in Nat

VARIABLES
    (* the sender's clock, which runs: its frame, and whether its count of *)
    (* ticks is negative; commands to the server                           *)
    sFrame, below, up,
    (* the server: value of the frame tag, items of the layer, what the    *)
    (* receiver has subscribed to; commands to the receiver                *)
    tag, layer, sub, down,
    (* the receiver's clock: its frame and, from its start to its first    *)
    (* tick, the frame it was started with; the callback the receiver is   *)
    (* in and its local current_frame                                      *)
    rFrame, rStart, rpc, rNow,
    (* the receiver's data, as in ReceivedData                             *)
    recFrame, span, hist

sClock == <<sFrame, below>>
server == <<tag, layer, sub>>
rClock == <<rFrame, rStart>>
data   == <<recFrame, span, hist>>
vars == <<sClock, up, server, down, rClock, rpc, rNow, data>>

Data   == INSTANCE ReceivedData
Screen == INSTANCE Display

FrameCmd(f)  == [kind |-> "frame", frame |-> f]
SetCmd(p, f) == [kind |-> "set", particle |-> p, frame |-> f, kept |-> FALSE]
UnsetCmd(p)  == [kind |-> "unset", particle |-> p]

Init ==
    /\ sFrame = NotStarted /\ below = TRUE
    /\ up = <<>> /\ down = <<>>
    /\ tag = NotStarted /\ layer = [p \in Particle |-> NoFrame] /\ sub = "none"
    /\ rFrame = NotStarted /\ rStart = NotStarted
    /\ rpc = "wait" /\ rNow = NotStarted
    /\ Data!Init

-----------------------------------------------------------------------------
(* The sender.                                                             *)

Successor(f) == (f + 1) % (FrameCount - 1)

(* timer_loop, without the count of ticks: the frame goes to its successor *)
(* or, when the count wraps from its maximum below zero, to 0, where it    *)
(* stays as long as the count is negative, as it is before the first frame.*)
Wraps(f) == f = FrameOf(Int16Max)

SenderTicks ==
    /\ \/ below /\ sFrame' = 0 /\ below' \in BOOLEAN
       \/ ~below /\ sFrame' = Successor(sFrame) /\ UNCHANGED below
       \/ ~below /\ Wraps(sFrame) /\ sFrame' = 0 /\ below' = TRUE
    /\ UNCHANGED <<up, server, down, rClock, rpc, rNow, data>>

(* One command of a kind for each of the particles.                        *)
ForEach(Cmd(_), particles) ==
    LET seq == SetToSeq(particles) IN [i \in DOMAIN seq |-> Cmd(seq[i])]

(* Mutant: the positions leave before the frame number.                    *)
BatchValuesFirst ==
    LET Set(p) == SetCmd(p, sFrame)
        Flying == {p \in Particle : StateAt(Path[p], sFrame) = Active} IN
    ForEach(Set, Flying) \o <<FrameCmd(sFrame)>>
        \o (IF ~below /\ sFrame = 0
            THEN ForEach(UnsetCmd, Particle) ELSE <<>>)

(* verse_send_data: the frame number, the positions of the active          *)
(* particles and, at the end of the animation, the deletions.              *)
Batch ==
    LET Set(p) == SetCmd(p, sFrame)
        Flying == {p \in Particle : StateAt(Path[p], sFrame) = Active} IN
    <<FrameCmd(sFrame)>> \o ForEach(Set, Flying)
        \o (IF ~below /\ sFrame = 0
            THEN ForEach(UnsetCmd, Particle) ELSE <<>>)

SenderSends ==
    /\ sFrame # NotStarted
    /\ Len(up) + Len(down) =< MaxFlight
    /\ up' = up \o Batch
    /\ UNCHANGED <<sClock, server, down, rClock, rpc, rNow, data>>

-----------------------------------------------------------------------------
(* The server: it keeps the value and passes the command on.               *)

Serves ==
    /\ up # <<>> /\ up' = Tail(up)
    /\ LET c == Head(up) IN
       CASE c.kind = "frame" ->
               /\ tag' = c.frame /\ UNCHANGED layer
               /\ down' = IF sub = "none" THEN down ELSE Append(down, c)
         [] OTHER ->
               /\ layer' = [layer EXCEPT ![c.particle] =
                               IF c.kind = "set" THEN c.frame ELSE NoFrame]
               /\ down' = IF sub = "layer" THEN Append(down, c) ELSE down
               /\ UNCHANGED tag
    /\ UNCHANGED <<sClock, sub, rClock, rpc, rNow, data>>

(* The receiver subscribes to the tag group first, then to the layer, and  *)
(* is told the values they have.                                           *)
SubscribesTag ==
    /\ sub = "none" /\ sub' = "tag"
    /\ down' = IF tag # NotStarted THEN Append(down, FrameCmd(tag)) ELSE down
    /\ UNCHANGED <<sClock, up, tag, layer, rClock, rpc, rNow, data>>

SubscribesLayer ==
    /\ sub = "tag" /\ sub' = "layer"
    /\ LET Value(p) == [SetCmd(p, layer[p]) EXCEPT !.kept = TRUE] IN
       down' = down \o ForEach(Value, {p \in Particle : layer[p] # NoFrame})
    /\ UNCHANGED <<sClock, up, tag, layer, rClock, rpc, rNow, data>>

-----------------------------------------------------------------------------
(* The receiver.                                                           *)

(* The same loop.                                                          *)
ReceiverTicks ==
    /\ \/ rStart # NotStarted /\ rFrame' = Successor(rStart)
       \/ rFrame # NotStarted /\ rFrame' = Successor(rFrame)
       \/ rFrame # NotStarted /\ Wraps(rFrame) /\ rFrame' = 0
    /\ rStart' = NotStarted
    /\ UNCHANGED <<sClock, up, server, down, rpc, rNow, data>>

Told(kind) == down # <<>> /\ Head(down).kind = kind

(* _frame_received, the half under the timer's mutex.                      *)
StartsClock ==
    /\ rpc = "wait" /\ Told("frame") /\ rpc' = "frame"
    /\ rStart' = IF rFrame = NotStarted /\ rStart = NotStarted
                 THEN Head(down).frame ELSE rStart
    /\ UNCHANGED <<sClock, up, server, down, rFrame, rNow, data>>

(* Its other half.                                                         *)
StoresFrame ==
    /\ rpc = "frame" /\ rpc' = "wait"
    /\ Data!FrameNumber /\ recFrame' = Head(down).frame
    /\ down' = Tail(down)
    /\ UNCHANGED <<sClock, up, server, rClock, rNow>>

(* cb_receive_layer_set_value reads the clock ...                          *)
ReadsClock ==
    /\ rpc = "wait" /\ Told("set") /\ rpc' = "set"
    /\ rNow' = rFrame
    /\ UNCHANGED <<sClock, up, server, down, rClock, data>>

(* ... and stores the state that it finds.                                 *)
StoresPosition ==
    /\ rpc = "set" /\ rpc' = "wait"
    /\ LET p == Head(down).particle
           f == FindRef(Path[p], recFrame, Path[p][Head(down).frame]) IN
       IF f # NoFrame THEN Data!Receive(p, f, rNow) ELSE UNCHANGED data
    /\ down' = Tail(down) /\ rNow' = NotStarted
    /\ UNCHANGED <<sClock, up, server, rClock>>

(* cb_receive_layer_unset_value.                                           *)
ForgetsParticle ==
    /\ rpc = "wait" /\ Told("unset")
    /\ Data!Forget(Head(down).particle)
    /\ down' = Tail(down)
    /\ UNCHANGED <<sClock, up, server, rClock, rpc, rNow>>

Next ==
    \/ SenderTicks \/ SenderSends
    \/ Serves \/ SubscribesTag \/ SubscribesLayer
    \/ ReceiverTicks \/ StartsClock \/ StoresFrame
    \/ ReadsClock \/ StoresPosition \/ ForgetsParticle

Spec == Init /\ [][Next]_vars

-----------------------------------------------------------------------------
(* Properties.                                                             *)

(* A position that the server passes on is attributed to the frame it was  *)
(* sent for, although the trajectory may come to the same place more than  *)
(* once and however far the receiver's clock is from the sender's.  (One   *)
(* that the server had kept may be older than the tag's frame and is then  *)
(* taken for the particle's latest visit to the place.)                    *)
Attributed ==
    [][rpc = "set" /\ rpc' = "wait" =>
          LET c == Head(down)
              found == span'[c.particle].current IN
          /\ Path[c.particle][found] = Path[c.particle][c.frame]
          /\ c.kept \/ found = c.frame]_vars

(* A receiver to which nothing is on its way has what the server has: the  *)
(* frame number, which particles have a position, and their positions.     *)
CaughtUp == sub = "layer" /\ up = <<>> /\ down = <<>>

InAgreement ==
    CaughtUp =>
        /\ recFrame = tag
        /\ \A p \in Particle :
              /\ layer[p] = NoFrame <=> span[p] = Data!Nothing
              /\ layer[p] # NoFrame =>
                    Path[p][span[p].current] = Path[p][layer[p]]

(* "Display particle system only in situation, when animation was started" *)
Drawn == rFrame >= 0

(* A particle that flies at the frame shown is on the screen, and one      *)
(* picture does not contradict itself (see Display).                       *)
DrawnWellNow ==
    Drawn => \A p \in Particle : /\ Screen!Shown(p, rFrame)
                                /\ Screen!Coherent(p, rFrame)

(* When the two clocks agree and nothing is on its way the receiver's      *)
(* picture is the sender's: a flying particle is at its one position, and  *)
(* no line says that it is behind.                                         *)
InStepShown ==
    CaughtUp /\ Drawn /\ rFrame = tag =>
        \A p \in Particle :
            StateAt(Path[p], tag) = Active =>
                /\ Screen!Lines(p, rFrame) = {}
                /\ \A m \in Screen!Simple(p, rFrame) :
                      Path[p][m.frame] = Path[p][tag]
=============================================================================
