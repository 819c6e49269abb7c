# A TLA+ development of Verse Particles

Verse Particles streams a particle animation through a Verse server.  A
*sender* and any number of *receivers* load the same reference data from a
directory; the sender plays the animation and, at every tick, tells the server
the frame number (a tag) and the positions of the particles that are active (the
items of a layer).  A receiver does not display what it gets as it is: it runs
a clock of its own, looks up to which frame each received position belongs and
shows how late it is.

The modules here model the program at the level of its threads, mutexes,
callbacks and loops; TLC checks them on small instances and TLAPS proves the
safety of the central ones for all instances.

## 1. The system

| Component | State | Operations | Where |
|---|---|---|---|
| Animation clock, `src/timer.c` | `run`, `tot_frame`, `frame` (int16) of each `struct Timer`, its mutex; `delay`, `counter` of the loop; the semaphore `timer_sem` | `create_timer`, `timer_loop`: compute how long to sleep, sleep, advance every running timer, `sem_post` | `Frames`, `TimerLoop`, thread `TimerThread` of `Sender` and `Receiver` |
| Reference data, `src/particle_data.c` | positions per particle and frame, state of each frame, `born_frame`, `die_frame` | `read_ref_particle_data`, `post_process_ref_particle_data`, `find_ref_particle_state`, release | `RefData` (what is meant), `ParticleData` (the loops), `LoadData` (the directory), release in `ClientMain` |
| Received data, `src/particle_data.c` | `rec_frame`; per particle the first, last and current received state and the array of received states; a mutex | `create_received_particle_data`, the stores of the receiver's callbacks, release | `Receiver`, abstractly `ReceivedData`; release in `ClientMain` |
| Sending client, `src/client_particle_sender.c` | the ids it has been told, `ctx->sender`, the clock | callbacks that build the scene, `verse_send_data`, the loop on the semaphore, the SIGINT handler | `Sender` (the stream), `SenderSession` (the session) |
| Receiving client, `src/client_particle_receiver.c` | the same, and the received data | callbacks that find the scene and receive the stream, the loop on the semaphore, the SIGINT handler | `Receiver` (the stream), `ReceiverSession` (the session) |
| Node lookup table, `src/lu_table.c` | an array of (id, node) and a count | create, add, find, remove | `LookupTable`, abstractly `NodeMap` |
| Scene and sender nodes | allocation of the records above | create | fields of `SenderSession`, `ReceiverSession` |
| Display, `src/display_glut.c` | view, input, screen-casts; reads of the received data | `display_rec_particle_system` and GLUT callbacks | its locking and reads in `Receiver`, what it draws of a particle in `Display` |
| Start and end, `src/client.c`, `src/sender.c` | which data are allocated, which threads run, the list of senders | `main`, `create_senders`, `clean_client_ctx` | `ClientMain` |
| Lists, arrays, hash arrays, `src/list.c` (not in `src/CMakeLists.txt`) | links of the items; array of entries with a chain of unused ones; buckets with chains of collisions; a mutex each for the last two | add, insert, remove, free, count, find, init | `VList`, `VArray`, `VHashArray`; abstractly `ItemList`, `KeyedList` |
| Vectors and colours, `src/math_lib.c` | none | floating-point formulas | not modelled |
| Verse server and libverse | node tree, subscriptions, one ordered connection per client | | external, `VerseServer` |

**How they interact.**  A sending client has two threads: the timer thread and
the main thread, which waits on the semaphore, calls `vrs_callback_update` (which
makes one callback for every command that has arrived) and then
`verse_send_data`.  A receiving client has three: the timer thread, the
communication thread (semaphore, `vrs_callback_update`) and the GLUT thread
that draws.  They share a `struct Timer` behind its mutex and a `struct
ReceivedParticleData` behind another; the drawing takes both, nested, the
callbacks take one after the other.  `main` starts the threads after it has
read the data and made the senders, and frees both when a thread cannot be
created or the connection fails - whether or not other threads run by then.
The two clients only meet at the server.

**What is hard in it** is listed with its lines in `PROJECT.json` under
`hazards`: a nesting of the two mutexes that must not be reversed; an update of
six fields that a drawing must not see half done; two critical sections where a
tick or a drawing comes in between; the clock's value used after its mutex has
been given back; an int16 that wraps after 32767 ticks; a loop that has to
catch up after a delay without running ahead; a search that is called before it
has a frame to start from; an order of announcements on which the callbacks
rely without testing; an interrupt between any two callbacks; a sender that is
started again while its old scene is still on the server; a clean-up while
another thread goes on; a directory that another program writes to between the
two passes over it; a chain of unused entries that ends behind its array; a
chain of collisions whose first cell cannot be freed.

**What makes each part correct.**  The timer never ticks early, never sleeps for
longer than a period and catches up.  The clock shows the frames one after the
other, whatever the wrap.  A batch of commands is of one frame and contains every
active particle.  A drawing sees the received data in a state between two callbacks,
and everything it points at has been received.  The loops over the reference data
compute the first movement, the first rest after it, and the frame of a position,
and every file is loaded into its frame and nothing else. A client that cannot go on
ends; it dies of bad input only in the ways listed. The containers hold what was put
in and not removed, in order.  The lookup table never answers with another id's
node. The callbacks of both clients find what they rely on, whoever connects first.

## 2. The modules

Every definition's lines are in `PROJECT.json` under `map`.

* **`Frames`** - the arithmetic of the two int16 of a timer: `NextTot` is the
  wrapping increment, `FrameOf` the crop modulo `frame_count - 1` (so the last
  frame is never shown) with 0 for negative counts.
* **`TimerLoop`** - the pacing of `timer_loop`.  Times enter only through
  `late`, how far real time is ahead of `counter` periods; the environment may
  delay the thread anywhere (`Lag`) until it leaves it alone (`Calm`).
* **`RefData`** - what the reference data mean: birth, death, `StateAt` and
  `FindRef`, by minima and maxima of sets of frames.  **`ParticleData`** - the
  loops of `particle_data.c`, one iteration an action, for one particle.
* **`LoadData`** - `read_ref_particle_data`: two passes over the directory, in
  any order each, one file an action.  The first counts in ints (`maxCount`,
  `frameCount`); `Allocate` stores them into the uint16 fields of `pd` (`particles`,
  `frames`), which give the arrays their sizes and bound the frame numbers, while the
  second pass writes as many particles as a header says.  While the passes run another
  program may make one file particle data or let it grow (`Change`).  A write outside
  the arrays is remembered in `states` and the pass goes on; what it destroys is not
  modelled, so the properties of complete directories assume that there is none.
* **`ClientMain`** - `main`: reading, allocation, start of the threads, their
  failures, and `clean_client_ctx` statement by statement while the timer thread
  walks the senders.  `live` are the objects on the heap and `misused` remembers
  who has followed a pointer to one that was freed; a NULL pointer or a division
  by zero ends the process (`over = "crash"`).  The rest of what the threads do is
  in the other modules.
* **`Receiver`** - the three threads of a receiver.  One action is what a thread
  does between two points where another one can come in; `tpc`, `rpc` and `dpc`
  are those points.  A callback that fills in several fields under the mutex
  (`SetPointers`, `SetDelay`, `UnsetFirst` ...) is split there too, so that a
  missing lock shows.  `Lookup` has the values that `states[-1]`, memory before
  the array, may make the search return.
  `Abs` maps it to **`ReceivedData`**, in which a frame number, a position or a
  deletion arrives at once: a callback takes effect when it has found the state
  (`SetFind`) or got the mutex (`UnsetLockRec`), and what it stores after that is
  in the mapping already.
* **`Display`** - what `display_rec_particle_simple`, `_lines` and `_dots` draw of a
  particle of `ReceivedData`: marks (a colour and a frame) and the frames a line
  joins.
* **`Stream`** - the sender's clock, the server's values, the receiver's clock and
  its received data, end to end.  A batch is one action and a callback of the
  receiver at most two (the clock is read under one mutex and used under the
  other): `Sender!LayerMatchesTag` and `Receiver!AppearsAtomic` say that this is
  all that can be seen.  The tick counts are left out, and the clocks go as
  `FollowsAnimation` says.  A command with `kept` is one that a late subscriber is
  told.
* **`Sender`** - the two threads of a sender.  `verse_send_data` sends one
  command an action; `tag` and `layer` are what the server was last told.
* **`NodeMap`**, **`LookupTable`** - the abstract map, in which every id has a place
  and an addition is refused exactly when its place is taken, and the array with
  `id % size`.
* **`ItemList`**, **`VList`** - a sequence, and the doubly linked list that
  implements it: every function of `list.c` assigns its links in `VList`.
  `call` is a history variable that names the operation, so that the refinement
  compares each call with the operation it should be.
* **`VArray`** - the array with indices.  Two things in it are not what a reader
  expects, and both are in the model: when the array grows the end of its chain is
  written one entry behind it (`outside`), and a removed entry is not chained to
  the unused ones, so that a later addition may be put behind the array
  (`undefined`).
* **`KeyedList`**, **`VHashArray`** - what a hash array promises, and the array of
  chains.  The two hash functions are sums of words over the bytes of the key, with
  `Radix` values of a byte instead of 256: `v_hash_func_uint32` reads bytes behind a
  key that is not made of whole words, and the refinement holds where it does not
  (`WholeKey`).
* **`SequenceParts`** - the four operators of `SequencesExt` that the containers are
  made of; with the rest of that module, once for each INSTANCE, the proofs would
  take three times as long.
* **`VerseServer`**, **`SenderSession`**, **`ReceiverSession`**, **`Session`** -
  the session: one ordered queue each way between a client and the server, one
  action per callback, per command the server takes, per interrupt.  `Scene(l)`
  and `SenderNode(l)` are the nodes that the l-th run of the sender creates; when
  a run's session has ended the program may be started again (`SndRestarts`).  A NULL
  pointer that a callback follows leads to the phase `crashed`.
* `MC...` modules give the constants that a `.cfg` cannot write; `MCClient` and
  `MCContainers` put modules that share no state into one instance, of which a
  behaviour drives one (`driven`).  `...Proofs` modules hold the theorems.

Mutant definitions (`... Mutant: ...` in a comment) are variants of an action as
a plausible bug would have it; no specification uses them.

**Abstractions.**  A position is a model value compared by equality (the code
compares three floats for equality).  A node id is the node.  A frame number keeps
its width through `Int16Max`, which is small in the runs so that the wrap happens.
There is one sender: `create_senders` makes `DEFAULT_SENDER_COUNT = 1` and the
option `-n` is never handled.  The particles of the reference data are processed
independently, so `ParticleData` has one.  A file that starts with `BPHYSICS` has a
complete header.  The list inside the array and the hash array is a sequence there
(see `VList`), and their functions are one action each, as they hold their mutex
throughout.  In `ClientMain` an object is whole or freed, and the
number of frames read is any of `FrameCounts`: 0 is what no file gives, or 65536.  In `Session` both clients
log in as the same user, as they do with the same credentials; nodes of other users
are ignored by both clients' callbacks.  The tables of both clients take every node
that is announced: `lu_add_item` refuses an id only if it collides with a stored one
(`ImplementsMap`), and the ids of a session's few nodes are assumed not to collide
in 10000 slots; the callbacks do not look whether they were refused.  The sender is
started again only when its former run has ended in order, with the server's answer;
a run that was killed, and whose connection the server may still hold, is not
modelled.  What is printed is left out.

## 3. The runs

| Run | Question | Instance, and why it is enough |
|---|---|---|
| `particle_data` | do the loops compute what `RefData` says, for every trajectory and call? | all trajectories of five frames over four positions: born late, never, at the end; resting once, twice, never; returning to a former position |
| `client` | what does a client die of, which freed memory does it touch, does it end or tick; is the pacing of the clock safe under any delay, and does it catch up? | no readable directory, none, one or two data files; frequencies 0, 25 and one whose period is below a microsecond; both types of client.  A period of five units, delays up to four periods: on time, late by less than, exactly and more than a period |
| `load` | is every frame loaded that the directory has, what is refused, and when is something written outside the arrays? | four files with every combination of frame numbers from 0 to 4, of sizes 1, 2 and 4 and of readability, one of which changes at any moment; a uint16 counts to 2 (`Wrap`), so that two files fit, three leave no frame and four leave one, and four particles leave one.  The files may be permuted (symmetry), as no temporal property is checked |
| `timer_counter` | does a late pass bring the counter to the time's value? (it does not) | the clock of `client` |
| `receiver` | are the three threads safe under every interleaving and sequence of callbacks? | three frames, one particle (the callbacks of different particles touch disjoint fields), ticks that wrap at 2; a position of no frame included.  `AppearsAtomic` is the refinement of `ReceivedData` |
| `receiver_live` | does each update end, and does a started clock show a frame? | two frames |
| `sender` | are batches whole, and is a started animation shown and sent for ever? | two particles born at different frames, lead-in of 2 ticks, wrap at 5 |
| `sender_delete` | are the particles deleted at the end of every cycle? (not if the tick is missed) | the same |
| `stream` | does the receiver end up with what the server has, is a position attributed to the frame it was sent for, and is the picture right? | one particle that comes back to a place and dies, clock frames 0 to 3 (so that a position can be in time, delayed or ahead), clocks that drift apart without bound, a subscription at any moment |
| `containers` | does each container implement what its users may take it for? | table of three slots with six ids, each slot contested, one id 65535; list of three items, so that one can be first, last and between; array of four items, which grows twice; hash array of two or four chains with three buckets, all colliding, keys of two to four bytes |
| `session` | do the callbacks find what they rely on, and do the frames arrive, whoever comes first and whenever they are interrupted; what does a receiver see of a sender that is started again? | both clients, one batch (a batch more repeats the same commands), two runs of the sender |
| `session_interrupt` | does SIGINT always terminate the connection? (not before the sender node exists) | the same |

Bounds: `MaxLate` (delay of the timer thread), `SemMax` (the code's `SEM_VALUE_MAX`,
small so that posts are lost), `MaxBatch` (callbacks of one update), `MaxFrames`
(batches a session sends), `MaxLives` (runs of the sender; the receiver is not
interrupted before the second, nor anyone in it: without this bound, in
`Session!Interrupts` and `Session!Restarts`, the run would not end in time),
`MaxLength` (of the array), `Wrap` (the code's 65536: values of a uint16), `Radix`,
`KeySize`, `Bucket` and `Cell` (the hash array; chains are as long as there are
buckets), `Change` at most once.  `MaxFlight` (commands on their way when a batch is
sent) is 0 in `stream`: the sender's clock ticks on while a batch is on its way, so
frames are skipped and the lag is arbitrary, and since the connection keeps the
order, a longer queue only adds to that lag. `Receiver` with three frames does not
reach the classification "delayed" (a delay above 1 needs a fourth); `Stream` does,
and the theorems cover it.

The fields `delay` and `received_frame` of a received state are stored and read
nowhere in the program; the models keep the classification, which is what the
drawing reads.  (Between the first frame number and the next tick the clock
still shows -1, and a position that is handled then is classified as ahead.)

**Fairness.**  Threads of one process keep running.  A thread that asks for a mutex
again and again gets it in the end (strong fairness in `Sender` and `Receiver`):
every holder gives it back and then sleeps - in `usleep`, in `sem_wait`, or until
the next redraw - before it asks again.  The main thread's `vrs_callback_update`
returns (`SF_vars(UpdateReturns)` in `Sender`): it handles the finitely many
commands that have arrived.  A window need not be redrawn for ever.  In `TimerLoop`
the thread runs (weak fairness), and catching up is only claimed once the
environment has stopped delaying it.  In `Session` the clients and the server go on
as long as any of them has something to do; nobody has to start a sender again.  In
`ClientMain` the main and the timer thread run (weak fairness of each; the timer
thread waits for no more than a mutex that its holders give back, the main thread
for nothing until it is in its loop), so a client ends or its clock ticks for ever,
whatever fails.

**Findings** (details in `PROJECT.json`): deletions depend on one tick; a late
pass adds one period whatever was missed; SIGINT before the sender node exists
follows a NULL pointer.

**Also shown by properties that hold**, since no document says otherwise: frames of
a sender that is started again reach no receiver (`FollowsFirstRun`); a receiver
whose directory cannot be read, the options `-f 0` and `-f` above a million, and a
single data file kill the process, and nothing else in `ClientMain` does; a failed
connection leaves the timer thread in freed senders, and a receiver that cannot
create a thread reads the freed reference data (`MishapsHaveCauses`); a file that
grows between the passes is written past the particles, never past the frames
(`WritesInside`), and so are, with no file changed, more than 65535 particles, as
the arrays are allocated for the rest modulo 65536; of more than 65535 files those
that a uint16 cannot count are refused (`LoadsWhatIsThere`, `GapsAreRejected`); the
array may be written behind its end once an item was removed (`FoundAtIndex`); a
failed addition leaves the hash array's mutex locked.

## 4. What is proved

TLAPS checks these for every value of the constants - any number of frames,
particles and ids, any trajectory, any semaphore bound.  The assumptions are the
`ASSUME`s of the modules: at least two frames that fit an int16 (the code divides by
`frame_count - 1`; `ClientMain` has what happens with fewer), a positive period, a
positive table size, finitely many particles, `NULL` no node, a uint16 with at least
one value (`Wrap`).

* **`RefDataProofs`** - lemmas: the crop lands in the animation and goes from a
  frame to its successor (`FrameOfNext`, by division with remainder); minima and
  maxima of sets of frames exist (well-foundedness of the naturals); `FindRef`
  returns a frame or NULL.
* **`ParticleDataProofs`** - `ProcessCorrect`, `ActiveWindowHolds`,
  `FindCorrect`, `AttributedToSentHolds`.  The invariant says, after the first n
  frames, that the flags mean "birth (death) before n", and for the searches
  which frames have been excluded; that a minimum has been found follows from
  what lies before it.
* **`ReceiverProofs`** - all safety properties of the run, and `TypeCorrect`.  Inductive
  invariant: types; who holds which mutex at which point; the clock shows the
  cropped tick count; the shape of the pointers at every point of the callbacks.
  `PointersSound` alone is not inductive: while a callback clears the
  pointers one by one they are out of order, and only the mutex hides it.
  `AppearsAtomicHolds` is the refinement: one lemma for each kind of step, of which
  only `FrameStore`, `SetFind` and `UnsetLockRec` are steps of `ReceivedData`.
* **`StreamProofs`** - first `DrawnWellAlways`: every behaviour of `ReceivedData`, drawn
  at any frame, shows the particles that fly, and its drawings agree.  With
  `AppearsAtomicHolds` this is so for the threads of a receiver, and with
  `StreamReceives` for the stream.  Then all properties of `Stream`: `InAgreement`,
  `DrawnWellNow`, `InStepShown`, `Attributed`, for any animation, number of particles
  and commands on their way.  The inductive invariant is about the two queues.
  `FrameWhen` says which frame number will be the last one received when the i-th
  command is handled: the one that each position was sent for (`SentInOrder`,
  `PassedOnInOrder`), and the server's at the end (`FrameArrives`).
  `PositionsArrive`: the last command about a particle makes of it what the server
  has, and if there is none the receiver has it.  `UpToDate`: a particle that flies at
  the server's frame is on the server, and received under that frame, unless its
  position is among the rest of the batch; for that a batch has to be whole
  (`BatchesWhole`), and no particle flies at frame 0, where the deletions come.
* **`SenderProofs`** - `LayerMatchesTag`, and `OnlyActiveSent` and `QuietBelowZero`,
  which are only proved.  That a batch is of one
  frame needs the mutex (no tick inside a batch), how far the batch has come,
  and that no trajectory is active at frame 0, where the deletions are sent.
* **`ContainersProofs`** - the lookup table, the array, the list and the hash array.
  The table: the count (`CountExact`), and every operation is one of `NodeMap`'s
  under `map[id] = Lookup(id)` and `Place[id] = Hash(id)` (`ImplementsMap`): that
  nothing but a collision is refused needs the exact count and that every stored id
  is in its slot (`Placed`).  The array: `FoundAtIndex`.  Its inductive invariant
  (`ArrayInv`) says that, until something is put behind the array, the list and the
  entries in use are the same items, each once, and that from `first_free_index` on
  nothing is used and each entry leads to the next; only an array from which nothing
  was ever removed has all its unused entries there.  The list: that the links of
  some sequence without repetitions are what the pointers are (`ListInv`) is kept by
  every operation, at both ends and in the middle; then `WalksAgree`, and
  `ImplementsItemList` under `items = Contents`.  What the walks meet is proved by
  induction on their length, which is also how the equation of the recursive
  function `Nth` is known to have a solution.  The hash array: `ChainsExact` and, as
  long as the hash is one of the key (`WholeKey`, which `v_hash_func_uint16` always
  satisfies: `HashOfKey`), `ImplementsKeyedList`.  Its inductive invariant
  (`HashInv`) has for every index the nodes of its chain and the places of their
  buckets in the list, which rise along the chain and are all those with that hash;
  every cell is in a chain.  Since a bucket has one hash and is once in the list,
  chains have nothing in common (`ChainsApart`) and a walk ends (`ChainIs`), so that
  an addition behind the last node or a removal in the middle leaves every other
  chain as it was (`Moves`), while the places behind a removed one move by one
  (`Shift`).  The first place in the chain with the key is then the first of the
  list (`LeastMatch`).  That the hashes are numbers below the length needs that a
  sum of natural numbers over a set is one (`SumIsNat`).  The assumption
  `ContainersAssumption`: finitely many items in a list and finitely many cells,
  `NULL` is none of them, a cell is no index, bytes are below `Radix`, a key has at
  least one byte (with none the functions return -1, which the callers do not test),
  and behind it there is memory for as many bytes as the hash functions read.
* **`ClientProofs`** - the three parts of `MCClient`.  Of the clock, `NeverEarly`,
  `SleepBounded`, `InStep`: that a tick is not early rests on what is left to sleep,
  that on the lag when it was computed.  Of the reading, `WritesInside`,
  `LoadsWhatIsThere`, `GapsAreRejected`, for any set of files and any change: no
  entry lies outside the frames (`Measured`); as long as no file has changed, the
  first pass has counted the frames and the longest of the files it has been through
  (`CountedSoFar`); after it `frames` is the remainder of the one, `particles` is the
  other if a uint16 can count it, and a file that has been through and was not refused
  has all its entries and each entry is of such a file (`FilledSoFar`).
  Of `main`, `MishapsHaveCauses` and the types: the invariant says what is on the
  heap at each point of the main thread, that the clean-up has a cause in `failed`
  once a thread runs, and that a timer thread that still runs then has a timer that
  does not (no session was reached), so it never follows `ctx->pd`.
* **`SessionProofs`** - all safety properties of `Session`: `NoNullDeref`,
  `IdsKnownWhenRunning`, `FrameBeforeValue`, `OnlyKnownNodes`, `FollowsFirstRun`
  and `TypeCorrect`, for any particles, number of frames and number of runs of the
  sender.  None of them is about the order of commands, and each rests on it: a
  callback finds an id because the command that brought it came first.  So the
  inductive invariant says, for every command in a queue, what stands before it or
  has been handled already (a node before what is in it, a tag group before its
  tags, the frame's tag before the positions): `SndQueues` and `RcvQueues` which
  commands there can be, `SndBuilds`, `SndLayers` and `RcvOrders` their order,
  `SndStreams` and `RcvStreams` the frames, `SndEnds` what a terminated run leaves
  behind.

**Only model-checked**: everything that must eventually happen (liveness needs
fairness and ENABLED, out of the prover's reach): `Animates`, `Streams`,
`UpdateEnds`, `ClockTicks`, `CatchesUp`, `ReceiverStarts`, `InterruptEnds`,
`StartsOrEnds`.  Every safety property and refinement that a passing run checks is a
theorem as well.  No RECURSIVE operator is used, so every module can be proved
about.  Induction over data of arbitrary size is an invariant of the loop that goes
over it, or, for what no loop of the model computes (the walks of the list, minima
of sets of frames), taken from the well-foundedness of the naturals, applied to a
set.

## 5. The plan

Done, in this order: `Frames`, `RefData`, `ParticleData`, `Receiver`, `Sender`,
`TimerLoop`, `NodeMap`/`LookupTable`, the session modules, `LoadData`,
`ReceivedData`, `Display`, `Stream`, `ClientMain`, `VList`, `VArray`,
`VHashArray`, the restart of a sender; theorems for all of them.

What is left: view and input of the display.

## 6. Not modelled

The parsing of the options (one step that accepts or refuses them), all of the
display but the received particles (grid, texts, camera, mouse, window: pure
presentation, and the sending of the view is a TODO in the source), screen-casts,
`math_lib.c` (floating-point formulas), printing, `reset_received_particle_data`
(called nowhere), the network's losses (below the Verse protocol, which delivers in
order; `bin/tc_set.sh` only sets them up for measurements), allocation failures
except those that the hash array and the array handle.

The server is not in the repository.  `VerseServer` has what the clients rely
on: commands of one connection arrive in order; an object's changes go to its
subscribers; a new subscriber is told first what there is, tag groups before
layers.  The last is an assumption: a server that told layers first would
let a late receiver get positions before the first frame number.  So are two more
about a sender's end: what it has created stays, except what it destroys, and a
new subscriber is told of nodes in the order of their creation.
