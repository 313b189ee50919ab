------------------------------ MODULE MCMatching ------------------------------
(* Floats with a mantissa of six bits, counted in units of 1/256.  Scores at, *)
(* just below and away from the threshold; up to four rules.                  *)
EXTENDS Matching
CONSTANTS v1, v2

Precision == 6
MCOne == 256
\* The distance of neighbouring floats around a / b.
Grid(a, b) ==
    LET fits == {e \in 0..10 : a < b * 2^(Precision + e)}
    IN  2^(CHOOSE e \in fits : \A f \in fits : e <= f)
\* Round half to even.
MCRound(a, b) ==
    LET g == Grid(a, b)
        down == a \div (b * g)
        left == a - down * b * g
    IN  IF 2 * left > b * g \/ (2 * left = b * g /\ down % 2 = 1) THEN (down + 1) * g ELSE down * g
MCThreshold == MCRound(85 * 256, 100)
MCScores == {0, MCRound(1, 10) , 128, MCThreshold - 4, MCThreshold, 256}
MCPayloads == {[inputs |-> "list", outputs |-> "list", rules |-> "list", count |-> n] : n \in {0, 3, 4}}
              \cup {[inputs |-> "none", outputs |-> "none", rules |-> "none", count |-> 0]}
===============================================================================
