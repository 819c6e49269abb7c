------------------------------ MODULE LoadData ------------------------------
(***************************************************************************)
(* read_ref_particle_data (src/particle_data.c): the directory is read     *)
(* twice, in any order each time.  The first pass counts the data files    *)
(* and finds the largest number of particles, which give the arrays their  *)
(* sizes as far as a uint16 can hold them; the second fills the arrays in, *)
(* each file at the frame in its name.  A file that cannot be opened is    *)
(* passed over like one that is not particle data; while the passes run,   *)
(* one file may become particle data, or grow.                             *)
(***************************************************************************)
EXTENDS Integers, FiniteSets

CONSTANTS File,    \* entries of the directory
          Number,  \* what sscanf leaves in `frame` for a name
          Size,    \* particle_count in a header, an int
          Wrap     \* how many values a uint16 has: 65536

VARIABLES
    data,      \* the files that can be read as particle data
    number,    \* of each of them the frame in its name ...
    size,      \* ... and its number of particles
    changed,   \* the directory is not what it was at first
    pc, left,  \* the pass, and the entries it has not come to yet
    maxCount, frameCount,  \* the ints that the first pass counts with
    particles, frames,     \* the uint16 of pd: the sizes of the arrays
    states,    \* the states <<particle, frame>> filled in, and from which file
    unclosed   \* files whose descriptor has not been closed

directory == <<data, number, size, changed>>
counts == <<maxCount, frameCount>>
arrays == <<particles, frames>>
vars == <<directory, pc, left, counts, arrays, states, unclosed>>

(* What is left of an int that is not negative when a uint16 is assigned.  *)
Uint16(n) == n % Wrap

NoStates == [s \in {} |-> {}]

Init ==
    /\ data \in SUBSET File
    /\ number \in [data -> Number] /\ size \in [data -> Size]
    /\ changed = FALSE
    /\ pc = "count" /\ left = File
    /\ maxCount = 0 /\ frameCount = 0
    /\ particles = 0 /\ frames = 0
    /\ states = NoStates
    /\ unclosed = {}

-----------------------------------------------------------------------------

(* Another program writes to the directory.                                *)
Change(f) ==
    /\ ~changed /\ pc \in {"count", "fill"} /\ changed' = TRUE
    /\ \/ /\ f \notin data /\ data' = data \cup {f}
          /\ \E k \in Number, n \in Size :
                /\ number' = [g \in data' |-> IF g = f THEN k ELSE number[g]]
                /\ size' = [g \in data' |-> IF g = f THEN n ELSE size[g]]
       \/ /\ f \in data
          /\ \E n \in Size : n > size[f] /\ size' = [size EXCEPT ![f] = n]
          /\ UNCHANGED <<data, number>>
    /\ UNCHANGED <<pc, left, counts, arrays, states, unclosed>>

(* The directory cannot be opened.                                         *)
OpenFails ==
    /\ pc = "count" /\ left = File /\ pc' = "failed"
    /\ UNCHANGED <<directory, left, counts, arrays, states, unclosed>>

(* Mutant: the last file gives the number of particles.                    *)
CountFileLast(f) ==
    /\ pc = "count" /\ f \in left /\ left' = left \ {f}
    /\ IF f \in data
       THEN maxCount' = size[f] /\ frameCount' = frameCount + 1
       ELSE UNCHANGED counts
    /\ UNCHANGED <<directory, pc, arrays, states, unclosed>>

(* The first pass.                                                         *)
CountFile(f) ==
    /\ pc = "count" /\ f \in left /\ left' = left \ {f}
    /\ IF f \in data
       THEN /\ maxCount' = IF size[f] > maxCount THEN size[f] ELSE maxCount
            /\ frameCount' = frameCount + 1
       ELSE UNCHANGED counts
    /\ UNCHANGED <<directory, pc, arrays, states, unclosed>>

(* The ints are stored into the fields of pd, the arrays are allocated     *)
(* from these, the directory is opened again.                              *)
Allocate ==
    /\ pc = "count" /\ left = {}
    /\ particles' = Uint16(maxCount) /\ frames' = Uint16(frameCount)
    /\ pc' = "fill" /\ left' = File
    /\ UNCHANGED <<directory, counts, states, unclosed>>

(* It cannot be: what has been allocated is freed again.                   *)
ReopenFails ==
    /\ pc = "count" /\ left = {} /\ pc' = "failed"
    /\ UNCHANGED <<directory, left, counts, arrays, states, unclosed>>

(* Mutant: the last frame is taken for a bad one.                          *)
BadNumberLast(f) == number[f] >= frames \/ number[f] < 1

BadNumber(f) == number[f] > frames \/ number[f] < 1

(* Mutant: the first frame has the index of its number.                    *)
StatesOfShifted(f) == {<<p, number[f]>> : p \in 0 .. size[f] - 1}

StatesOf(f) == {<<p, number[f] - 1>> : p \in 0 .. size[f] - 1}

(* The second pass: as many particles as the header says are written, and  *)
(* the frame is compared with what pd holds.  A bad frame number goes on   *)
(* to the next entry at once, past the close.                              *)
FillFile(f) ==
    /\ pc = "fill" /\ f \in left /\ left' = left \ {f}
    /\ IF f \notin data THEN UNCHANGED <<states, unclosed>>
       ELSE IF BadNumber(f)
       THEN unclosed' = unclosed \cup {f} /\ UNCHANGED states
       ELSE /\ states' = [s \in DOMAIN states \cup StatesOf(f) |->
                             IF s \in StatesOf(f) THEN f ELSE states[s]]
            /\ UNCHANGED unclosed
    /\ UNCHANGED <<directory, pc, counts, arrays>>

(* ... and the states are post-processed (ParticleData).                   *)
Loaded ==
    /\ pc = "fill" /\ left = {} /\ pc' = "loaded"
    /\ UNCHANGED <<directory, left, counts, arrays, states, unclosed>>

Next == \/ \E f \in File : CountFile(f) \/ FillFile(f) \/ Change(f)
        \/ OpenFails \/ Allocate \/ ReopenFails \/ Loaded

Spec == Init /\ [][Next]_vars

-----------------------------------------------------------------------------

(* Frames of the arrays that no file has filled in: all their states keep  *)
(* calloc's zeroes.                                                        *)
Gaps == {n \in 0 .. frames - 1 : \A s \in DOMAIN states : s[2] # n}

Distinct == \A f, g \in data : number[f] = number[g] => f = g
Numbered == Distinct /\ \A f \in data : number[f] \in 1 .. Cardinality(data)

(* The files are what they were, and a uint16 can count their particles.   *)
Sound == ~changed /\ \A f \in data : size[f] < Wrap

(* Whatever the numbers in the names and however many files there are, no  *)
(* frame outside the arrays is written; and no particle outside, unless a  *)
(* file has changed since the first pass has measured it, or has more      *)
(* particles than the field of pd can count.                               *)
WritesInside ==
    \A s \in DOMAIN states : /\ s[2] \in 0 .. frames - 1
                             /\ Sound => s[1] \in 0 .. particles - 1

(* Files of frames 1 to n are loaded, each particle of each file into the  *)
(* state of its frame, whatever the orders of the passes: all of them and  *)
(* no descriptor left open if a uint16 can count them, otherwise those of  *)
(* the frames that it counts, and the others are refused.                  *)
LoadsWhatIsThere ==
    pc = "loaded" /\ Numbered /\ Sound =>
        LET loaded == {f \in data : number[f] =< Uint16(Cardinality(data))} IN
        /\ \A f \in data, p \in 0 .. maxCount - 1 :
              LET s == <<p, number[f] - 1>> IN
              IF f \in loaded /\ p < size[f]
              THEN s \in DOMAIN states /\ states[s] = f
              ELSE s \notin DOMAIN states
        /\ unclosed = data \ loaded
        /\ Cardinality(data) < Wrap => loaded = data

(* Otherwise the price of every file with a bad number is a descriptor and *)
(* a frame without positions: gaps in the numbering cost the last frames   *)
(* and leave as many of the others empty.  Only the files that a uint16    *)
(* cannot count, a multiple of 65536, cost no frame but a descriptor each. *)
GapsAreRejected ==
    pc = "loaded" /\ Distinct /\ Sound /\ (\A f \in data : size[f] > 0) =>
        Cardinality(unclosed) =
            Cardinality(Gaps) + Wrap * (Cardinality(data) \div Wrap)
=============================================================================
