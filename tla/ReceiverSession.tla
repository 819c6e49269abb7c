-------------------------- MODULE ReceiverSession ---------------------------
(***************************************************************************)
(* The session of the receiving client (src/client_particle_receiver.c):   *)
(* how its callbacks find the scene on the server and follow it down to    *)
(* the frame tag and the layer of particles.                               *)
(***************************************************************************)
EXTENDS VerseServer

VARIABLE rcv   \* the client's context

(* As in SenderSession, but scene and bound are the nodes that the client  *)
(* has in its table; framed: rec_frame holds a received frame; strayed: a  *)
(* position was looked up before that, in states[-1].                      *)
ReceiverInit ==
    rcv = [phase |-> "new", scene |-> Nowhere, bound |-> Nowhere, tg |-> {},
           tag |-> {}, layer |-> FALSE, run |-> FALSE, framed |-> FALSE,
           strayed |-> FALSE, interrupted |-> FALSE]

RcvOn(op) == rcv.phase = "on" /\ Received(Receiver, op)
RcvMsg == Head(down[Receiver])
(* A NULL pointer is followed.                                             *)
RcvCrashes == rcv' = [rcv EXCEPT !.phase = "crashed"] /\ Handled(Receiver, <<>>)
RcvReturns == Handled(Receiver, <<>>) /\ UNCHANGED rcv

RcvFinds(n) == n \in {rcv.scene, rcv.bound}

(* particle_receiver_loop: vrs_send_connect_request.                       *)
RcvConnects ==
    /\ rcv.phase = "new" /\ rcv' = [rcv EXCEPT !.phase = "on"]
    /\ Send(Receiver, <<Signal("connect")>>)

(* cb_receive_user_authenticate.                                           *)
RcvAuthenticates ==
    /\ \/ RcvOn("askName") /\ Handled(Receiver, <<Signal("name")>>)
       \/ RcvOn("askPassword") /\ Handled(Receiver, <<Signal("password")>>)
    /\ UNCHANGED rcv

(* cb_receive_connect_accept.                                              *)
RcvAccepted ==
    /\ RcvOn("accept")
    /\ Handled(Receiver, <<Msg("nodeSubscribe", Receiver, NoArg),
                           Msg("nodeSubscribe", SceneParent, NoArg)>>)
    /\ UNCHANGED rcv

(* Mutant: every scene replaces the one before.                            *)
RcvSceneCreatedLatest ==
    /\ RcvOn("nodeCreate") /\ RcvMsg.node \in Scenes
    /\ rcv' = [rcv EXCEPT !.scene = RcvMsg.node]
    /\ Handled(Receiver, <<Msg("nodeSubscribe", RcvMsg.node, NoArg)>>)

(* cb_receive_node_create: the first scene, and in it one sender node.     *)
RcvSceneCreated ==
    /\ RcvOn("nodeCreate") /\ RcvMsg.node \in Scenes
    /\ IF rcv.scene = Nowhere /\ RcvMsg.arg = SceneParent
       THEN /\ rcv' = [rcv EXCEPT !.scene = RcvMsg.node]
            /\ Handled(Receiver, <<Msg("nodeSubscribe", RcvMsg.node, NoArg)>>)
       ELSE RcvReturns

(* Mutant: the node does not get into the lookup table.                    *)
RcvSenderCreatedUnlisted ==
    /\ RcvOn("nodeCreate") /\ RcvMsg.node \in SenderNodes
    /\ Handled(Receiver, <<Msg("nodeSubscribe", RcvMsg.node, NoArg)>>)
    /\ UNCHANGED rcv

(* The parent is compared with particle_scene_node->node_id.               *)
RcvSenderCreated ==
    /\ RcvOn("nodeCreate") /\ RcvMsg.node \in SenderNodes
    /\ IF rcv.scene = Nowhere THEN RcvCrashes
       ELSE IF RcvMsg.arg = rcv.scene /\ rcv.bound = Nowhere
       THEN /\ rcv' = [rcv EXCEPT !.bound = RcvMsg.node]
            /\ Handled(Receiver, <<Msg("nodeSubscribe", RcvMsg.node, NoArg)>>)
       ELSE RcvReturns

(* Mutant: the tag group is not subscribed.                                *)
RcvTagGroupCreatedOnly ==
    /\ RcvOn("tgCreate")
    /\ rcv' = [rcv EXCEPT !.tg = @ \cup {RcvMsg.node}]
    /\ Handled(Receiver, <<>>)

(* cb_receive_taggroup_create.                                             *)
RcvTagGroupCreated ==
    /\ RcvOn("tgCreate")
    /\ LET n == RcvMsg.node IN
       IF RcvFinds(n)
       THEN /\ rcv' = [rcv EXCEPT !.tg = @ \cup {n}]
            /\ Handled(Receiver, <<Msg("tgSubscribe", n, NoArg)>>)
       ELSE RcvReturns

(* cb_receive_tag_create.                                                  *)
RcvTagCreated ==
    /\ RcvOn("tagCreate")
    /\ LET n == RcvMsg.node IN
       rcv' = IF RcvFinds(n) /\ n \in rcv.tg
              THEN [rcv EXCEPT !.tag = @ \cup {RcvMsg.arg}] ELSE rcv
    /\ Handled(Receiver, <<>>)

(* cb_receive_tag_set_value: a frame starts the clock and is remembered.   *)
RcvTagSet ==
    /\ RcvOn("tagSet")
    /\ rcv' = IF /\ RcvMsg.node = rcv.bound
                 /\ rcv.bound \in rcv.tg
                 /\ RcvMsg.arg = FrameTag /\ FrameTag \in rcv.tag
              THEN [rcv EXCEPT !.run = TRUE, !.framed = TRUE] ELSE rcv
    /\ Handled(Receiver, <<>>)

(* cb_receive_layer_create does not test what lu_find returns.             *)
RcvLayerCreated ==
    /\ RcvOn("layerCreate")
    /\ IF RcvFinds(RcvMsg.node)
       THEN /\ rcv' = [rcv EXCEPT !.layer = TRUE]
            /\ Handled(Receiver, <<Msg("layerSubscribe", RcvMsg.node, NoArg)>>)
       ELSE RcvCrashes

(* cb_receive_layer_set_value looks the position up at rec_frame.          *)
RcvLayerSet ==
    /\ RcvOn("layerSet")
    /\ rcv' = IF RcvFinds(RcvMsg.node)
              THEN [rcv EXCEPT !.strayed = @ \/ ~rcv.framed] ELSE rcv
    /\ Handled(Receiver, <<>>)

(* cb_receive_layer_unset_value changes nothing that is modelled here, the *)
(* others have an empty body.                                              *)
RcvIgnores ==
    /\ RcvOn("layerUnset") \/ RcvOn("nodeDestroy")
    /\ RcvReturns

(* cb_receive_connect_terminate: exit.                                     *)
RcvTerminated ==
    /\ RcvOn("terminate") /\ rcv' = [rcv EXCEPT !.phase = "exited"]
    /\ Handled(Receiver, <<>>)

(* handle_signal, and the default that it restores.                        *)
RcvInterrupt ==
    /\ rcv.phase = "on"
    /\ IF rcv.interrupted
       THEN /\ rcv' = [rcv EXCEPT !.phase = "exited"]
            /\ UNCHANGED serverVars
       ELSE /\ rcv' = [rcv EXCEPT !.interrupted = TRUE]
            /\ Send(Receiver, <<Signal("terminate")>>)

ReceiverStep ==
    \/ RcvConnects \/ RcvAuthenticates \/ RcvAccepted
    \/ RcvSceneCreated \/ RcvSenderCreated
    \/ RcvTagGroupCreated \/ RcvTagCreated \/ RcvTagSet
    \/ RcvLayerCreated \/ RcvLayerSet \/ RcvIgnores \/ RcvTerminated
=============================================================================
