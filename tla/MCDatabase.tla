------------------------------ MODULE MCDatabase ------------------------------
(* A row or two of each table; the values of unique columns that matter.      *)
EXTENDS Database, Schema, TLC
CONSTANTS u1, u2, t1, v1, v2, i1, i2, s1, a1, k1, k2

Owner == (u1 :> "users") @@ (u2 :> "users") @@ (t1 :> "templates") @@
         (v1 :> "template_versions") @@ (v2 :> "template_versions") @@
         (i1 :> "ingested_rows") @@ (i2 :> "ingested_rows") @@
         (s1 :> "suggestions") @@ (a1 :> "audit_logs")
Restricted(rows) == [r \in rows |-> Owner[r]]

\* Two values of the columns that tell users and ingested rows apart, one of
\* every other column.
ValuesOf(c) == IF c \in {"email", "source_row_hash"} THEN {k1, k2} ELSE {k1}
Allowed(table, rows, c) ==
    IF c \in DOMAIN table.fk THEN {x \in rows : Owner[x] = table.fk[c].to} \cup {NULL}
    ELSE ValuesOf(c)
ContentsOf(table, rows) ==
    LET columns == DOMAIN table.fk \cup table.required \cup UNION table.unique
    IN  {f \in [columns -> UNION {Allowed(table, rows, c) : c \in columns}] :
            \A c \in columns : f[c] \in Allowed(table, rows, c)}
ContentsIn(schema, rows) == [r \in rows |-> ContentsOf(schema[Owner[r]], rows)]

PipelineRows == {u1, u2, t1, v1, i1, i2, s1, a1}
PipelineTableOf == Restricted(PipelineRows)
PipelineContents == ContentsIn(SqlSchema, PipelineRows)

AlembicRows == {u1, t1, v1, v2, i1, s1, a1}
AlembicTableOf == Restricted(AlembicRows)
AlembicContents == ContentsIn(AlembicSchema, AlembicRows)
===============================================================================
