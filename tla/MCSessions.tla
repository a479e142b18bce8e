----------------------------- MODULE MCSessions -----------------------------
(***************************************************************************)
(* A bounded instance of Sessions: two sessions, so that one runs while    *)
(* the other is distilled, and two overlapping backfill goroutines.        *)
(***************************************************************************)
EXTENDS Sessions, TLC
CONSTANTS s1, s2, s3, w1, w2

SessionSymmetry == Permutations(Workers) \cup Permutations(Ids)

\* Bound: the user talks in one of the sessions only.
OneTalked == \A s, t \in Ids : history[s] > 0 /\ history[t] > 0 => s = t
TalkSpec == Init /\ [][Next /\ OneTalked']_vars
=============================================================================
