--------------------------- MODULE AtomicMigrations ---------------------------
(***************************************************************************)
(* What the migration commands promise together: the database has one      *)
(* origin at a time, every command takes it from one state to another at   *)
(* once, and only tables of the revision are ever dropped.                 *)
(***************************************************************************)
VARIABLES origin,   \* who made the tables: "none", "revision", "sql" or "orm"
          guarded,  \* they carry the unique key and the append-only trigger
          stamped   \* Alembic takes its revision for applied
vars == <<origin, guarded, stamped>>

Init == /\ origin \in {"none", "revision", "sql", "orm"} /\ guarded \in BOOLEAN
        /\ origin = "sql" => guarded
        /\ origin \in {"none", "revision"} => ~guarded
        /\ stamped = (origin = "revision")

Upgrade == origin = "none" /\ origin' = "revision" /\ ~guarded' /\ stamped'
Downgrade == origin = "revision" /\ origin' = "none" /\ ~guarded' /\ ~stamped'
CreateAll == origin = "none" /\ origin' = "orm" /\ ~guarded' /\ UNCHANGED stamped
RunSql == /\ origin \in {"none", "orm"} /\ guarded'
          /\ origin' = IF origin = "none" THEN "sql" ELSE "orm"
          /\ UNCHANGED stamped

Next == Upgrade \/ Downgrade \/ CreateAll \/ RunSql
Spec == Init /\ [][Next]_vars
===============================================================================
