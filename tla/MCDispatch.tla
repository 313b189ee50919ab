------------------------------ MODULE MCDispatch ------------------------------
(* One reviewer, two processes that may both be at work for him, two roles    *)
(* that may each give him the permission, and one suggestion.                 *)
EXTENDS Dispatch, TLC
CONSTANTS r1, p1, p2, reviewer, admin
LowConfidences == {84}
Symmetry == Permutations({p1, p2}) \cup Permutations({reviewer, admin})
===============================================================================
