--------------------------- MODULE SenderSession ----------------------------
(***************************************************************************)
(* The session of the sending client (src/client_particle_sender.c): how   *)
(* its callbacks build the scene on the server, and what has to be known   *)
(* before frames are sent.  The callbacks run one at a time in the main    *)
(* thread; only the signal handler can come between them.                  *)
(***************************************************************************)
EXTENDS VerseServer

CONSTANTS SceneTags,  \* tags of the scene: count of senders
          OtherTags,  \* the sender node's tags besides the frame: count of
                      \* particles, id and position of the sender
          MaxFrames   \* bound: batches that verse_send_data sends

ASSUME SenderSessionAssumption ==
    /\ SceneTags \in Seq(STRING) /\ OtherTags \in Seq(STRING)
    /\ FrameTag \notin ToSet(SceneTags) \cup ToSet(OtherTags)
    /\ MaxFrames \in Nat

VARIABLE snd   \* the client's context

(* phase: "new", then "on" until it "exited" or "crashed".  scene, bound:  *)
(* ctx->verse.particle_scene_node and ctx->sender->sender_node are not     *)
(* NULL (a node is in the lookup table from then on).  tg, tag, layer: ids *)
(* that have been received; before, those of tag group and tag are -1 and  *)
(* that of the layer is not initialized.  life: the run of the program.    *)
Life(l) ==
    [life |-> l, phase |-> "new", scene |-> FALSE, bound |-> FALSE, tg |-> {},
     tag |-> {}, layer |-> FALSE, run |-> FALSE, sent |-> 0,
     interrupted |-> FALSE]
SenderInit == snd = Life(1)

SndScene == Scene(snd.life)
SndNode == SenderNode(snd.life)

SndOn(op) == snd.phase = "on" /\ Received(Sender, op)
SndMsg == Head(down[Sender])
(* A NULL pointer is followed.                                             *)
SndCrashes == snd' = [snd EXCEPT !.phase = "crashed"] /\ Handled(Sender, <<>>)
SndReturns == Handled(Sender, <<>>) /\ UNCHANGED snd

SndFinds(n) == (n = SndScene /\ snd.scene) \/ (n = SndNode /\ snd.bound)

(* particle_sender_loop: vrs_send_connect_request.                         *)
SndConnects ==
    /\ snd.phase = "new" /\ snd' = [snd EXCEPT !.phase = "on"]
    /\ Send(Sender, <<Signal("connect")>>)

(* cb_receive_user_authenticate.                                           *)
SndAuthenticates ==
    /\ \/ SndOn("askName") /\ Handled(Sender, <<Signal("name")>>)
       \/ SndOn("askPassword") /\ Handled(Sender, <<Signal("password")>>)
    /\ UNCHANGED snd

(* Mutant: the sender node is requested before the scene.                  *)
SndAcceptedSwapped ==
    /\ SndOn("accept")
    /\ Handled(Sender, <<Msg("nodeSubscribe", Sender, NoArg),
                         Msg("nodeCreate", SndNode, NoArg),
                         Msg("nodeCreate", SndScene, NoArg)>>)
    /\ UNCHANGED snd

(* cb_receive_connect_accept.                                              *)
SndAccepted ==
    /\ SndOn("accept")
    /\ Handled(Sender, <<Msg("nodeSubscribe", Sender, NoArg),
                         Msg("nodeCreate", SndScene, NoArg),
                         Msg("nodeCreate", SndNode, NoArg)>>)
    /\ UNCHANGED snd

(* cb_receive_node_create, for a node under the client's avatar.           *)
SndSceneCreated ==
    /\ SndOn("nodeCreate") /\ SndMsg.node \in Scenes
    /\ IF SndMsg.arg = Sender /\ ~snd.scene
       THEN /\ snd' = [snd EXCEPT !.scene = TRUE]
            /\ Handled(Sender, <<Msg("nodeLink", SndScene, SceneParent),
                                 Msg("nodeSubscribe", SndScene, NoArg),
                                 Msg("tgCreate", SndScene, NoArg)>>)
       ELSE SndReturns

(* The list of sender nodes is read through particle_scene_node.           *)
SndSenderCreated ==
    /\ SndOn("nodeCreate") /\ SndMsg.node \in SenderNodes
    /\ IF SndMsg.arg # Sender \/ snd.bound THEN SndReturns
       ELSE IF ~snd.scene THEN SndCrashes
       ELSE /\ snd' = [snd EXCEPT !.bound = TRUE]
            /\ Handled(Sender, <<Msg("nodeSubscribe", SndNode, NoArg),
                                 Msg("nodeLink", SndNode, SndScene),
                                 Msg("tgCreate", SndNode, NoArg),
                                 Msg("layerCreate", SndNode, NoArg)>>)

(* cb_receive_taggroup_create.                                             *)
CreateTags(n) ==
    LET names == IF n \in Scenes THEN SceneTags ELSE <<FrameTag>> \o OtherTags
    IN  [i \in DOMAIN names |-> Msg("tagCreate", n, names[i])]

(* Mutant: the clock starts with the tag group.                            *)
SndTagGroupCreatedStarts ==
    /\ SndOn("tgCreate")
    /\ LET n == SndMsg.node IN
       IF SndFinds(n)
       THEN /\ snd' = [snd EXCEPT !.tg = @ \cup {n}, !.run = TRUE]
            /\ Handled(Sender, <<Msg("tgSubscribe", n, NoArg)>> \o CreateTags(n))
       ELSE SndReturns

SndTagGroupCreated ==
    /\ SndOn("tgCreate")
    /\ LET n == SndMsg.node IN
       IF SndFinds(n)
       THEN /\ snd' = [snd EXCEPT !.tg = @ \cup {n}]
            /\ Handled(Sender, <<Msg("tgSubscribe", n, NoArg)>> \o CreateTags(n))
       ELSE SndReturns

(* cb_receive_tag_create: the frame tag starts the clock, the other tags   *)
(* of the sender node get their values.                                    *)
SndTagCreated ==
    /\ SndOn("tagCreate")
    /\ LET n == SndMsg.node
           t == SndMsg.arg IN
       IF SndFinds(n) /\ n \in snd.tg
       THEN /\ snd' = [snd EXCEPT !.tag = @ \cup {t}, !.run = @ \/ t = FrameTag]
            /\ Handled(Sender, When(t \in ToSet(OtherTags),
                                    Msg("tagSet", n, t)))
       ELSE SndReturns

(* cb_receive_layer_create does not test what lu_find returns.             *)
SndLayerCreated ==
    /\ SndOn("layerCreate")
    /\ IF SndFinds(SndMsg.node)
       THEN snd' = [snd EXCEPT !.layer = TRUE] /\ Handled(Sender, <<>>)
       ELSE SndCrashes

(* cb_receive_connect_terminate: exit.                                     *)
SndTerminated ==
    /\ SndOn("terminate") /\ snd' = [snd EXCEPT !.phase = "exited"]
    /\ Handled(Sender, <<>>)

(* The callbacks that only have an empty body.                             *)
SndIgnores ==
    /\ SndOn("nodeLink") \/ SndOn("nodeDestroy")
    /\ SndReturns

(* Mutant: the positions leave before the frame.                           *)
SndDataValuesFirst ==
    /\ snd.phase = "on" /\ snd.bound /\ snd.run /\ snd.sent < MaxFrames
    /\ snd' = [snd EXCEPT !.sent = @ + 1]
    /\ Send(Sender, <<Msg("layerSet", SndNode, NoArg),
                      Msg("tagSet", SndNode, FrameTag)>>)

(* verse_send_data of a running clock: the frame, then the positions of    *)
(* the active particles or, at frame 0, the deletions, or neither.         *)
SndData ==
    /\ snd.phase = "on" /\ snd.bound /\ snd.run /\ snd.sent < MaxFrames
    /\ snd' = [snd EXCEPT !.sent = @ + 1]
    /\ \E items \in {<<>>, <<Msg("layerSet", SndNode, NoArg)>>,
                     <<Msg("layerUnset", SndNode, NoArg)>>} :
          Send(Sender, <<Msg("tagSet", SndNode, FrameTag)>> \o items)

(* Mutant: the connection is not terminated.                               *)
SndInterruptDestroys ==
    /\ snd.phase = "on" /\ ~snd.interrupted /\ snd.bound
    /\ snd' = [snd EXCEPT !.interrupted = TRUE]
    /\ Send(Sender, <<Msg("nodeDestroy", SndNode, NoArg)>>)

(* handle_signal reads ctx->sender->sender_node->node_id.  The handler is  *)
(* reset to the default, so a second SIGINT ends the process.              *)
SndInterrupt ==
    /\ snd.phase = "on"
    /\ IF snd.interrupted
       THEN /\ snd' = [snd EXCEPT !.phase = "exited"]
            /\ UNCHANGED serverVars
       ELSE /\ snd' = [snd EXCEPT !.interrupted = TRUE,
                                  !.phase = IF snd.bound THEN @ ELSE "killed"]
            /\ Send(Sender, IF snd.bound
                            THEN <<Msg("nodeDestroy", SndNode, NoArg),
                                   Signal("terminate")>>
                            ELSE <<>>)

(* The program is started again when its session has ended.                *)
SndRestarts ==
    /\ snd.phase = "exited" /\ snd.life < MaxLives
    /\ snd' = Life(snd.life + 1)
    /\ Reconnects(Sender)

SenderStep ==
    \/ SndConnects \/ SndAuthenticates \/ SndAccepted
    \/ SndSceneCreated \/ SndSenderCreated
    \/ SndTagGroupCreated \/ SndTagCreated \/ SndLayerCreated
    \/ SndTerminated \/ SndIgnores \/ SndData
=============================================================================
