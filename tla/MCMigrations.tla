----------------------------- MODULE MCMigrations -----------------------------
(* Three processes with a command each, one of which may die, on every        *)
(* database that earlier commands can have left.                              *)
EXTENDS Migrations, TLC
CONSTANTS p1, p2, p3
Symmetry == Permutations({p1, p2, p3})
===============================================================================
