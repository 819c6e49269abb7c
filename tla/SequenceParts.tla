---------------------------- MODULE SequenceParts ---------------------------
(***************************************************************************)
(* The few operators of SequencesExt that the containers are made of, as   *)
(* they are defined there.  A proof about an INSTANCE has every definition *)
(* that comes with it to carry: SequencesExt and all that it extends, once *)
(* more for each of the containers and what they implement.                *)
(***************************************************************************)
EXTENDS Integers, Sequences

ToSet(s) == {s[i] : i \in DOMAIN s}
Last(s) == s[Len(s)]
InsertAt(s, i, e) == SubSeq(s, 1, i - 1) \o <<e>> \o SubSeq(s, i, Len(s))
RemoveAt(s, i) == SubSeq(s, 1, i - 1) \o SubSeq(s, i + 1, Len(s))
=============================================================================
