------------------------------- MODULE Database -------------------------------
(***************************************************************************)
(* What the statements of the program may do to the rows of a database     *)
(* that was created from one of the descriptions in module Schema.  The    *)
(* schema is a parameter.  A row is a function from its columns to a row   *)
(* it references, a value, or NULL.  A statement that violates a           *)
(* constraint raises and changes nothing, so it is no step here.           *)
(***************************************************************************)

CONSTANTS Tables,   \* table name -> its description (module Schema)
          Rows,     \* the identities rows may have
          TableOf,  \* row identity -> table name
          Contents, \* row identity -> the contents a statement may give it
          NULL

ASSUME TablesAssumption ==
    \A t \in DOMAIN Tables : \A c \in DOMAIN Tables[t].fk :
        Tables[t].fk[c].onDelete \in {"CASCADE", "RESTRICT", "SET_NULL"}
ASSUME RowsAssumption == /\ TableOf \in [Rows -> DOMAIN Tables]
                         /\ NULL \notin Rows
Fk(r) == Tables[TableOf[r]].fk
Columns(r) == DOMAIN Fk(r) \cup Tables[TableOf[r]].required \cup UNION Tables[TableOf[r]].unique
ASSUME ContentsAssumption ==
    /\ DOMAIN Contents = Rows
    /\ \A r \in Rows : \A content \in Contents[r] : content = [c \in Columns(r) |-> content[c]]

VARIABLE db   \* the rows there are -> their contents

\* x references y through column c.
Refers(x, c, y) == c \in DOMAIN Fk(x) /\ db[x][c] = y
RefersBy(action, x, y) == \E c \in DOMAIN Fk(x) : Refers(x, c, y) /\ Fk(x)[c].onDelete = action

ForeignKeysHold(r, content) ==
    \A c \in DOMAIN Fk(r) : \/ content[c] = NULL
                            \/ content[c] \in DOMAIN db /\ TableOf[content[c]] = Fk(r)[c].to
RequiredGiven(r, content) == \A c \in Tables[TableOf[r]].required : content[c] # NULL

\* Two rows agree on a unique key; NULL equals nothing.
Clash(key, one, other) == \A c \in key : one[c] # NULL /\ one[c] = other[c]
KeysFree(r, content) ==
    \A x \in DOMAIN db \ {r} : \A key \in Tables[TableOf[r]].unique :
        TableOf[x] = TableOf[r] => ~Clash(key, content, db[x])

Admissible(r, content) == /\ ForeignKeysHold(r, content)
                          /\ RequiredGiven(r, content)
                          /\ KeysFree(r, content)

Protected(r) == Tables[TableOf[r]].appendOnly

Init == db = [r \in {} |-> NULL]

Insert(r, content) == /\ r \notin DOMAIN db
                      /\ Admissible(r, content)
                      /\ db' = [x \in DOMAIN db \cup {r} |-> IF x = r THEN content ELSE db[x]]

Update(r, content) == /\ r \in DOMAIN db /\ ~Protected(r)
                      /\ Admissible(r, content)
                      /\ db' = [db EXCEPT ![r] = content]

\* The rows that ON DELETE CASCADE deletes when y is deleted.
Taken == [y \in DOMAIN db |-> {z \in DOMAIN db : RefersBy("CASCADE", z, y)}]

\* r and everything the cascade takes with it: the rows that are in every set
\* closed under the cascade that holds what r itself takes.
Doomed(r) ==
    LET taken == Taken
        takable == UNION {taken[y] : y \in DOMAIN db}
        closed == {S \in SUBSET takable : \A y \in S \cup {r} : taken[y] \subseteq S}
    IN  {r} \cup {x \in takable : \A S \in closed : x \in S}

\* The columns that ON DELETE SET NULL clears.
Cleared(x, gone) == {c \in DOMAIN Fk(x) : Fk(x)[c].onDelete = "SET_NULL" /\ db[x][c] \in gone}

\* A reference with ON DELETE RESTRICT leads into gone.
Restrains(gone) == \E x \in DOMAIN db, y \in gone : RefersBy("RESTRICT", x, y)

Delete(r) ==
    LET gone == Doomed(r)
        kept == DOMAIN db \ gone
    IN  /\ r \in DOMAIN db
        /\ ~Restrains(gone)
        /\ \A x \in DOMAIN db : Protected(x) => x \notin gone /\ Cleared(x, gone) = {}
        /\ \A x \in kept : Cleared(x, gone) \cap Tables[TableOf[x]].required = {}
        /\ db' = [x \in kept |-> [c \in DOMAIN db[x] |->
                                    IF c \in Cleared(x, gone) THEN NULL ELSE db[x][c]]]

Next == \E r \in Rows : \/ \E content \in Contents[r] : Insert(r, content) \/ Update(r, content)
                        \/ Delete(r)

Spec == Init /\ [][Next]_db

-------------------------------------------------------------------------------
TypeOK == /\ DOMAIN db \subseteq Rows
          /\ \A r \in DOMAIN db : /\ DOMAIN db[r] = Columns(r)
                                  /\ db[r] = [c \in Columns(r) |-> db[r][c]]

AuditRows == {r \in DOMAIN db : TableOf[r] = "audit_logs"}

\* README.md:29-31, "The DB rejects UPDATE/DELETE on the audit log": no statement,
\* and no foreign-key action of a statement on another table, changes an audit row.
AuditAppendOnly ==
    [][\A a \in AuditRows : a \in DOMAIN db' /\ db'[a] = db[a]]_db

\* 001_initial.sql:119 with 128-138.  ON DELETE SET NULL would have to update
\* audit rows, which the trigger rejects: whoever an audit row names stays.
ActorsStay ==
    [][\A a \in AuditRows, u \in DOMAIN db : RefersBy("SET_NULL", a, u) => u \in DOMAIN db']_db

Work == {"templates", "template_versions", "ingested_rows", "suggestions", "audit_logs"}

\* 001_initial.sql:44-119, where CASCADE is declared between users and their sessions
\* and roles, and between the tables of the pipeline, but not from one to the other:
\* whatever a DELETE of a user sets off, no template, ingested row, suggestion or
\* audit entry goes with him.
WorkOutlivesUsers ==
    [][\A u \in DOMAIN db \ DOMAIN db' : TableOf[u] = "users" =>
          \A x \in DOMAIN db \ DOMAIN db' : TableOf[x] \notin Work]_db
===============================================================================
