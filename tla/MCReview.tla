------------------------------- MODULE MCReview -------------------------------
(* Two processes and two reviewers who decide on one suggestion, with         *)
(* confidences below the threshold and on it.  Suggestions meet in the log    *)
(* only, so one of them is enough.                                            *)
EXTENDS Review, TLC
CONSTANTS s1, r1, r2, p1, p2
MCConfidences == {84, 85}
Symmetry == Permutations({r1, r2}) \cup Permutations({p1, p2})
===============================================================================
