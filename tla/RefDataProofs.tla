--------------------------- MODULE RefDataProofs ----------------------------
(***************************************************************************)
(* Facts about the clock's arithmetic and about the reference data that    *)
(* the proofs of the other modules rest on: where the frame numbers lie,   *)
(* that the first and the last frame of a set exist and what they are, and *)
(* what FindRef and StateAt return.                                        *)
(***************************************************************************)
EXTENDS RefData, TLAPS, WellFoundedInduction

(* The crop of timer_loop yields a frame number below frame_count - 1.     *)
LEMMA RemainderRange ==
    ASSUME NEW a \in Nat, NEW b \in Nat \ {0}
    PROVE  a % b \in 0 .. b - 1
    OBVIOUS

(* The frame that timer_loop stores is one of the animation.              *)
LEMMA FrameOfRange ==
    ASSUME NEW n \in Int
    PROVE  FrameOf(n) \in ClockFrame
<1>1. FrameCount - 1 \in Nat \ {0}
  BY FramesAssumption
<1>2. CASE n < 0
  BY <1>2, FramesAssumption DEF FrameOf, ClockFrame
<1>3. CASE ~(n < 0)
  <2>1. n \in Nat
    BY <1>3
  <2>2. n % (FrameCount - 1) \in 0 .. (FrameCount - 1) - 1
    BY <1>1, <2>1, RemainderRange
  <2> QED
    BY <1>1, <1>3, <2>2, FramesAssumption DEF FrameOf, ClockFrame
<1> QED
  BY <1>2, <1>3

(* Division with remainder: a number is a multiple plus its remainder, ... *)
LEMMA Euclid ==
    ASSUME NEW a \in Nat, NEW b \in Nat \ {0}, NEW q \in Int, NEW r \in Int,
           q = a \div b, r = a % b
    PROVE  a = b * q + r
    OBVIOUS

(* ... and what it leaves is what was added to a multiple.                 *)
LEMMA RemainderUnique ==
    ASSUME NEW q \in Int, NEW b \in Nat \ {0}, NEW r \in 0 .. b - 1
    PROVE  (b * q + r) % b = r
    OBVIOUS

(* Counting one more tick and cropping is the same as cropping, going to   *)
(* the next frame and cropping again: the clock does not jump.             *)
LEMMA RemainderNext ==
    ASSUME NEW a \in Nat, NEW b \in Nat \ {0}
    PROVE  (a + 1) % b = ((a % b) + 1) % b
<1>1. PICK q \in Int, r \in Int : q = a \div b /\ r = a % b
  OBVIOUS
<1>2. a = b * q + r
  BY <1>1, Euclid
<1>3. r \in 0 .. b - 1
  BY <1>1, RemainderRange
<1>4. CASE r + 1 < b
  <2>1. r + 1 \in 0 .. b - 1
    BY <1>3, <1>4
  <2>2. a + 1 = b * q + (r + 1)
    BY <1>2
  <2>3. (b * q + (r + 1)) % b = r + 1
    BY <2>1, RemainderUnique
  <2>4. (a + 1) % b = r + 1
    BY <2>2, <2>3
  <2>5. (b * 0 + (r + 1)) % b = r + 1
    BY <2>1, RemainderUnique
  <2>6. (r + 1) % b = r + 1
    BY <2>1, <2>5
  <2> QED
    BY <1>1, <2>4, <2>6
<1>5. CASE r + 1 = b
  <2>1. a + 1 = b * (q + 1) + 0
    BY <1>2, <1>5
  <2>2. (b * (q + 1) + 0) % b = 0
    BY RemainderUnique
  <2>3. (b * 1 + 0) % b = 0
    BY RemainderUnique
  <2>4. (r + 1) % b = 0
    BY <1>5, <2>3
  <2>5. (a + 1) % b = 0
    BY <2>1, <2>2
  <2> QED
    BY <1>1, <2>4, <2>5
<1> QED
  BY <1>3, <1>4, <1>5

(* One tick of timer_loop advances the frame by one, and from the last one *)
(* shown to the first, but for the ticks that a wrapped count is negative. *)
LEMMA FrameOfNext ==
    ASSUME NEW n \in Int16
    PROVE  \/ FrameOf(NextTot(n)) = (FrameOf(n) + 1) % (FrameCount - 1)
           \/ FrameOf(NextTot(n)) = 0 /\ NextTot(n) < 0
           \/ FrameOf(NextTot(n)) = 0 /\ n < 0
<1>1. FrameCount - 1 \in Nat \ {0}
  BY FramesAssumption
<1>2. CASE n >= 0 /\ n # Int16Max
  <2>1. n \in Nat /\ n + 1 \in Nat
    BY <1>2, FramesAssumption DEF Int16
  <2>2. (n + 1) % (FrameCount - 1) =
         ((n % (FrameCount - 1)) + 1) % (FrameCount - 1)
    BY <1>1, <2>1, RemainderNext
  <2>3. /\ FrameOf(n) = n % (FrameCount - 1)
        /\ FrameOf(NextTot(n)) = (n + 1) % (FrameCount - 1)
    BY <1>2, <2>1 DEF FrameOf, NextTot
  <2> QED
    BY <2>2, <2>3
<1>3. CASE n = Int16Max
  BY <1>3, FramesAssumption DEF FrameOf, NextTot
<1>4. CASE n < -1
  BY <1>4, FramesAssumption DEF FrameOf, NextTot, Int16
<1>5. CASE n = -1
  <2>1. 0 \in 0 .. (FrameCount - 1) - 1
    BY FramesAssumption
  <2>2. ((FrameCount - 1) * 0 + 0) % (FrameCount - 1) = 0
    BY <1>1, <2>1, RemainderUnique
  <2>3. 0 % (FrameCount - 1) = 0
    BY <1>1, <2>2
  <2> QED
    BY <1>5, <2>3, FramesAssumption DEF FrameOf, NextTot
<1> QED
  BY <1>2, <1>3, <1>4, <1>5 DEF Int16

(* tot_frame stays an int16.                                               *)
LEMMA NextTotRange ==
    ASSUME NEW n \in Int16
    PROVE  NextTot(n) \in Int16
  BY FramesAssumption DEF NextTot, Int16

(* What the clock shows is a frame of the reference data.                  *)
LEMMA ClockFrameIsFrame == ClockFrame \subseteq Frame
  BY FramesAssumption DEF ClockFrame, Frame

-----------------------------------------------------------------------------

(* Every set of frames that is not empty has a first and a last one.       *)
LEMMA LeastExists ==
    ASSUME NEW S \in SUBSET Nat, S # {}
    PROVE  \E x \in S : \A y \in S : x =< y
<1>1. \E x \in S : \A y \in S : ~(<<y, x>> \in OpToRel(<, Nat))
  BY WFMin, NatLessThanWellFounded
<1>2. PICK x \in S : \A y \in S : ~(<<y, x>> \in OpToRel(<, Nat))
  BY <1>1
<1>3. ASSUME NEW y \in S PROVE x =< y
  <2>1. ~(y < x)
    BY <1>2, <1>3 DEF OpToRel
  <2> QED
    BY <2>1
<1> QED
  BY <1>3

(* The last one is the first one counted from above.                       *)
LEMMA GreatestExists ==
    ASSUME NEW n \in Nat, NEW S \in SUBSET (0 .. n), S # {}
    PROVE  \E x \in S : \A y \in S : x >= y
<1> DEFINE T == {n - s : s \in S}
<1>1. T \in SUBSET Nat /\ T # {}
  <2>1. \A s \in S : n - s \in Nat
    <3> SUFFICES ASSUME NEW s \in S PROVE n - s \in Nat
      OBVIOUS
    <3>1. s \in Int /\ 0 =< s /\ s =< n
      OBVIOUS
    <3> QED
      BY <3>1
  <2> QED
    BY <2>1
<1>2. PICK t \in T : \A u \in T : t =< u
  BY <1>1, LeastExists
<1>3. PICK x \in S : t = n - x
  OBVIOUS
<1>4. ASSUME NEW y \in S PROVE x >= y
  <2>1. n - x =< n - y
    BY <1>2, <1>3
  <2> QED
    BY <2>1
<1> QED
  BY <1>4

-----------------------------------------------------------------------------

(* Min and Max of a set of frames, and how to recognise them: Min is the   *)
(* first frame of the set.                                                 *)
LEMMA MinIs ==
    ASSUME NEW S \in SUBSET Nat, S # {}
    PROVE  Min(S) \in S /\ \A y \in S : Min(S) =< y
  BY LeastExists DEF Min

(* A frame of the set that is before all others is its minimum.            *)
LEMMA MinUnique ==
    ASSUME NEW S \in SUBSET Nat, NEW x \in S, \A y \in S : x =< y
    PROVE  Min(S) = x
<1>1. Min(S) \in S /\ \A y \in S : Min(S) =< y
  BY MinIs
<1>2. Min(S) =< x /\ x =< Min(S)
  BY <1>1
<1>3. x \in Nat /\ Min(S) \in Nat
  BY <1>1
<1> QED
  BY <1>2, <1>3

(* Frames are counted from zero.                                           *)
LEMMA FramesAreNat == Frame \in SUBSET Nat
  BY FramesAssumption DEF Frame

(* The last frame of a set.                                                *)
LEMMA MaxIs ==
    ASSUME NEW S \in SUBSET Frame, S # {}
    PROVE  Max(S) \in S /\ \A y \in S : Max(S) >= y
<1>1. FrameCount - 1 \in Nat /\ S \in SUBSET (0 .. FrameCount - 1)
  BY FramesAssumption DEF Frame
<1>2. \E x \in S : \A y \in S : x >= y
  BY <1>1, GreatestExists
<1> QED
  BY <1>2 DEF Max

(* A frame of the set that is after all others is its maximum.             *)
LEMMA MaxUnique ==
    ASSUME NEW S \in SUBSET Frame, NEW x \in S, \A y \in S : x >= y
    PROVE  Max(S) = x
<1>1. Max(S) \in S /\ \A y \in S : Max(S) >= y
  BY MaxIs
<1>2. Max(S) >= x /\ x >= Max(S)
  BY <1>1
<1>3. x \in Nat /\ Max(S) \in Nat
  BY <1>1, FramesAreNat
<1> QED
  BY <1>2, <1>3

-----------------------------------------------------------------------------

(* find_ref_particle_state returns a state of the array or NULL, for every *)
(* frame number and position.                                              *)
LEMMA FindRefRange ==
    ASSUME NEW traj, NEW n, NEW p
    PROVE  FindRef(traj, n, p) \in Frame \cup {NoFrame}
<1>1. NoLater(traj, n, p) \in SUBSET Frame /\ Matches(traj, p) \in SUBSET Frame
  BY DEF NoLater, Matches
<1>2. CASE NoLater(traj, n, p) # {}
  <2>1. Max(NoLater(traj, n, p)) \in Frame
    BY <1>1, <1>2, MaxIs
  <2> QED
    BY <1>2, <2>1 DEF FindRef
<1>3. CASE NoLater(traj, n, p) = {} /\ Matches(traj, p) # {}
  <2>1. Min(Matches(traj, p)) \in Frame
    BY <1>1, <1>3, MinIs, FramesAreNat
  <2> QED
    BY <1>3, <2>1 DEF FindRef
<1>4. CASE NoLater(traj, n, p) = {} /\ Matches(traj, p) = {}
  BY <1>4 DEF FindRef
<1> QED
  BY <1>2, <1>3, <1>4
=============================================================================
