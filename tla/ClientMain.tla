----------------------------- MODULE ClientMain -----------------------------
(***************************************************************************)
(* How a client starts and ends (main in src/client.c): the directory is   *)
(* read, the list of senders and the threads are created; when something   *)
(* fails the client's data are freed, while the threads that run already   *)
(* go on.  Here a thread's step is what it does to these data; LoadData,   *)
(* TimerLoop, Sender and Receiver are about the rest.                      *)
(***************************************************************************)
EXTENDS Integers

CONSTANTS
    Fps,         \* values of the option -f
    OneSecond,   \* ONE_SECOND, in microseconds
    FrameCounts, \* numbers of data files in a directory
    Null         \* the NULL pointer, and a directory that cannot be read

ASSUME ClientMainAssumption ==
    /\ Fps \subseteq Nat
    /\ FrameCounts \subseteq Nat
    /\ OneSecond \in Nat \ {0}
    /\ Null \notin Nat \cup {"senders"}

VARIABLES
    type, fps, directory, \* the arguments of the program (constant)
    main,      \* where the main thread is
    timer,     \* where the timer thread is, "none" when there is none
    receiver,  \* the same of the receiver thread
    live,      \* the objects on the heap: "pd", the "senders" in the list
               \*   and their "received" data
    pd,        \* ctx->pd, TRUE when it is not NULL
    first,     \* ctx->senders.first
    at,        \* `sender` in timer_loop
    run,       \* run of the sender's timer
    over,      \* "no", or how the process has ended
    failed,    \* what could not be done
    misused    \* which thread has followed a pointer to which freed object

arguments == <<type, fps, directory>>
data == <<live, pd, first>>
ends == <<over, failed, misused>>
vars == <<arguments, main, timer, receiver, data, at, run, ends>>

Client == {"sender", "receiver"}
Thread == {"main", "timer"}
Object == {"pd", "senders", "received"}

TypeOK ==
    /\ type \in Client /\ fps \in Fps /\ directory \in FrameCounts \cup {Null}
    /\ main \in {"options", "read", "create", "startTimer", "connect", "stream",
                "startReceiver", "glut", "display", "freeData", "freeReceived",
                "freeSenders", "clearList", "return"}
    /\ timer \in {"none", "pace", "first", "tick", "next", "post"}
    /\ receiver \in {"none", "connect", "stream", "returned"}
    /\ live \subseteq Object
    /\ pd \in BOOLEAN /\ run \in BOOLEAN
    /\ first \in {"senders", Null} /\ at \in {"senders", Null}
    /\ over \in {"no", "exit", "crash"}
    /\ failed \subseteq {"timer", "connection", "receiver"}
    /\ misused \subseteq Thread \X Object

Init ==
    /\ type \in Client /\ fps \in Fps /\ directory \in FrameCounts \cup {Null}
    /\ main = "options" /\ timer = "none" /\ receiver = "none"
    /\ live = {} /\ pd = FALSE /\ first = Null
    /\ at = Null /\ run = FALSE
    /\ over = "no" /\ failed = {} /\ misused = {}

-----------------------------------------------------------------------------

Ends(how) == over' = how /\ UNCHANGED <<failed, misused>>
Main(from, to) == over = "no" /\ main = from /\ main' = to
Fails(what) == failed' = failed \cup {what} /\ UNCHANGED <<over, misused>>

(* `thread` follows a pointer to an object.                                *)
Follows(thread, object) ==
    misused' = IF object \in live THEN misused
               ELSE misused \cup {<<thread, object>>}

(* The options, and the number of arguments.                               *)
Options ==
    /\ Main("options", "read")
    /\ UNCHANGED <<arguments, timer, receiver, data, at, run, ends>>

BadOptions ==
    /\ Main("options", "options") /\ Ends("exit")
    /\ UNCHANGED <<arguments, timer, receiver, data, at, run>>

(* read_ref_particle_data.                                                 *)
ReadData ==
    /\ Main("read", "create")
    /\ pd' = (directory # Null)
    /\ live' = IF directory = Null THEN live ELSE live \cup {"pd"}
    /\ UNCHANGED <<arguments, timer, receiver, first, at, run, ends>>

(* create_senders and lu_table_create.  A receiver's senders get arrays of *)
(* the size that pd gives, and pd is tested only afterwards.               *)
CreateSenders ==
    /\ Main("create", IF pd THEN "startTimer" ELSE "freeReceived")
    /\ IF type = "receiver" /\ ~pd
       THEN Ends("crash") /\ UNCHANGED <<live, first>>
       ELSE /\ live' = live \cup {"senders"} \cup
                       (IF type = "receiver" THEN {"received"} ELSE {})
            /\ first' = "senders" /\ UNCHANGED ends
    /\ UNCHANGED <<arguments, timer, receiver, pd, at, run>>

(* pthread_create of the timer thread.                                     *)
AfterTimer == IF type = "sender" THEN "connect" ELSE "startReceiver"

(* Mutant: only a sender has the thread.                                   *)
StartTimerOfSender ==
    /\ Main("startTimer", AfterTimer)
    /\ timer' = IF type = "sender" THEN "pace" ELSE "none"
    /\ UNCHANGED <<arguments, receiver, data, at, run, ends>>

StartTimer ==
    /\ Main("startTimer", AfterTimer)
    /\ timer' = "pace"
    /\ UNCHANGED <<arguments, receiver, data, at, run, ends>>

StartTimerFails ==
    /\ Main("startTimer", "freeData") /\ Fails("timer")
    /\ UNCHANGED <<arguments, timer, receiver, data, at, run>>

(* particle_sender_loop, which comes back only when the request fails.     *)
Connect ==
    /\ Main("connect", "stream")
    /\ UNCHANGED <<arguments, timer, receiver, data, at, run, ends>>

ConnectFails ==
    /\ Main("connect", "freeData") /\ Fails("connection")
    /\ UNCHANGED <<arguments, timer, receiver, data, at, run>>

(* pthread_create of the receiver thread.                                  *)
StartReceiver ==
    /\ Main("startReceiver", "glut") /\ receiver' = "connect"
    /\ UNCHANGED <<arguments, timer, data, at, run, ends>>

StartReceiverFails ==
    /\ Main("startReceiver", "freeData") /\ Fails("receiver")
    /\ UNCHANGED <<arguments, timer, receiver, data, at, run>>

(* glut_init sets a timer of 1000/fps; the display loop never returns.     *)
Display ==
    /\ Main("glut", "display")
    /\ IF fps = 0 THEN Ends("crash") ELSE UNCHANGED ends
    /\ UNCHANGED <<arguments, timer, receiver, data, at, run>>

(* The key ESC.                                                            *)
Escape ==
    /\ Main("display", "display") /\ Ends("exit")
    /\ UNCHANGED <<arguments, timer, receiver, data, at, run>>

-----------------------------------------------------------------------------
(* clean_client_ctx, in the order of its statements.  ctx->sender is NULL  *)
(* wherever it is called, so no timer is freed and no thread is stopped.   *)

FreeData ==
    /\ Main("freeData", "freeReceived")
    /\ live' = live \ {"pd"} /\ pd' = FALSE
    /\ UNCHANGED <<arguments, timer, receiver, first, at, run, ends>>

(* free_received_particle_data looks up the number of particles in pd.     *)
FreeReceived ==
    /\ Main("freeReceived", "freeSenders")
    /\ IF "received" \in live THEN Follows("main", "pd") ELSE UNCHANGED misused
    /\ live' = live \ {"received"}
    /\ UNCHANGED <<arguments, timer, receiver, pd, first, at, run>>
    /\ UNCHANGED <<over, failed>>

(* v_list_free: the items, then the base.                                  *)
FreeSenders ==
    /\ Main("freeSenders", "clearList")
    /\ live' = live \ {"senders"}
    /\ UNCHANGED <<arguments, timer, receiver, pd, first, at, run, ends>>

ClearList ==
    /\ Main("clearList", "return") /\ first' = Null
    /\ UNCHANGED <<arguments, timer, receiver, live, pd, at, run, ends>>

(* main returns, which ends the other threads.                             *)
Return ==
    /\ Main("return", "return") /\ Ends("exit")
    /\ UNCHANGED <<arguments, timer, receiver, data, at, run>>

-----------------------------------------------------------------------------
(* The session: particle_sender_loop in the main thread of a sender,       *)
(* particle_receiver_loop in the receiver thread.                          *)

ReceiverConnects ==
    /\ over = "no" /\ receiver = "connect" /\ receiver' = "stream"
    /\ UNCHANGED <<arguments, main, timer, data, at, run, ends>>

ReceiverConnectFails ==
    /\ over = "no" /\ receiver = "connect" /\ receiver' = "returned"
    /\ UNCHANGED <<arguments, main, timer, data, at, run, ends>>

InSession == over = "no" /\ (main = "stream" \/ receiver = "stream")

(* The callbacks start the timer.                                          *)
RunTimer ==
    /\ InSession /\ run' = TRUE
    /\ UNCHANGED <<arguments, main, timer, receiver, data, at, ends>>

(* Mutant: the main thread leaves its loop and frees the client's data.    *)
TerminateReturns ==
    /\ InSession
    /\ IF main = "stream" THEN main' = "freeData" /\ UNCHANGED ends
                          ELSE Ends("exit") /\ UNCHANGED main
    /\ UNCHANGED <<arguments, timer, receiver, data, at, run>>

(* cb_receive_connect_terminate calls exit.                                *)
Terminate ==
    /\ InSession /\ Ends("exit")
    /\ UNCHANGED <<arguments, main, timer, receiver, data, at, run>>

-----------------------------------------------------------------------------
(* timer_loop.                                                             *)

Timer(from, to) == over = "no" /\ timer = from /\ timer' = to

(* The period is ONE_SECOND/fps; a period of 0 divides in the branch of a  *)
(* late thread, which it always takes.                                     *)
NoPeriod == fps = 0 \/ fps > OneSecond

Pace ==
    /\ Timer("pace", "first")
    /\ IF NoPeriod THEN Ends("crash") ELSE UNCHANGED ends
    /\ UNCHANGED <<arguments, main, receiver, data, at, run>>

First ==
    /\ Timer("first", IF first = Null THEN "post" ELSE "tick")
    /\ at' = first
    /\ UNCHANGED <<arguments, main, receiver, data, run, ends>>

(* sender->timer and, when it runs, pd->frame_count.  frame_count - 1 is   *)
(* the divisor, unless tot_frame is negative.                              *)
Tick ==
    /\ Timer("tick", "next")
    /\ misused' = misused
          \cup (IF "senders" \in live THEN {} ELSE {<<"timer", "senders">>})
          \cup (IF run /\ "pd" \notin live THEN {<<"timer", "pd">>} ELSE {})
    /\ over' \in IF run /\ directory = 1 THEN {"no", "crash"} ELSE {"no"}
    /\ UNCHANGED <<arguments, main, receiver, data, at, run, failed>>

(* sender->next: there is one sender.                                      *)
NextSender ==
    /\ Timer("next", "post") /\ Follows("timer", "senders") /\ at' = Null
    /\ UNCHANGED <<arguments, main, receiver, data, run, over, failed>>

(* sem_post.                                                               *)
Post ==
    /\ Timer("post", "pace")
    /\ UNCHANGED <<arguments, main, receiver, data, at, run, ends>>

-----------------------------------------------------------------------------

MainStep ==
    \/ Options \/ BadOptions \/ ReadData \/ CreateSenders
    \/ StartTimer \/ StartTimerFails \/ Connect \/ ConnectFails
    \/ StartReceiver \/ StartReceiverFails \/ Display
    \/ FreeData \/ FreeReceived \/ FreeSenders \/ ClearList \/ Return

TimerStep == Pace \/ First \/ Tick \/ NextSender \/ Post

Next ==
    \/ MainStep \/ TimerStep
    \/ Escape \/ ReceiverConnects \/ ReceiverConnectFails
    \/ RunTimer \/ Terminate

(* The operating system runs both threads.                                 *)
Fairness == WF_vars(MainStep) /\ WF_vars(TimerStep)

Spec == Init /\ [][Next]_vars /\ Fairness

-----------------------------------------------------------------------------

(* The process dies of one of four causes only: a receiver whose directory *)
(* cannot be read, a frequency of 0 or with a period below a microsecond,  *)
(* and a single data file.                                                 *)
CrashHasCause ==
    over = "crash" => \/ type = "receiver" /\ directory = Null
                      \/ fps \notin 1 .. OneSecond
                      \/ directory = 1

(* Freed memory is touched only by a clean-up after a failure: by the main *)
(* thread of a receiver that looks pd's size up, and by the timer thread,  *)
(* which walks the senders, but never comes to pd there.                   *)
FreedAfterFailure ==
    /\ <<"main", "pd">> \in misused =>
          type = "receiver" /\ failed \cap {"timer", "receiver"} # {}
    /\ <<"timer", "senders">> \in misused =>
          failed \cap {"connection", "receiver"} # {}
    /\ misused \subseteq {<<"main", "pd">>, <<"timer", "senders">>}

MishapsHaveCauses == CrashHasCause /\ FreedAfterFailure

(* A client that is started ends, or its clock ticks for ever.             *)
StartsOrEnds == <>(over # "no") \/ []<>(timer = "post")
=============================================================================
