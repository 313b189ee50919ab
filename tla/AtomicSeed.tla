------------------------------ MODULE AtomicSeed ------------------------------
(***************************************************************************)
(* What scripts/seed_dev.py promises ("Idempotent - safe to re-run;        *)
(* existing rows are left in place"): the table contents change in one     *)
(* step, from whatever they were to that plus every seed row, and only     *)
(* where some process runs in development mode.                            *)
(***************************************************************************)
CONSTANTS Full,     \* the seed rows
          Initial   \* the contents a database may start with
VARIABLES stored, development

Init == stored \in Initial /\ development \in BOOLEAN

SeedAll == /\ development
           /\ ~(Full \subseteq stored)
           /\ stored' = stored \cup Full
           /\ UNCHANGED development

Spec == Init /\ [][SeedAll]_<<stored, development>>
===============================================================================
