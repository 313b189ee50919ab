----------------------------- MODULE TablesProofs -----------------------------
(***************************************************************************)
(* What the schemas of the repository guarantee, for every set of rows and *)
(* every contents: what a trigger on the audit log keeps in place, and     *)
(* what the deletion of a user leaves alone.  And how the program comes to *)
(* know its tables, for every set of modules that import one another:      *)
(* which classes end up in the metadata.                                   *)
(***************************************************************************)
EXTENDS Database, Schema, Imports, SequenceTheorems, TLAPS

\* The cascade is complete: what references a doomed row is doomed itself.
LEMMA DoomedIsClosed ==
    ASSUME NEW r \in DOMAIN db, NEW y \in Doomed(r), y \in DOMAIN db,
           NEW x \in DOMAIN db, RefersBy("CASCADE", x, y)
    PROVE  x \in Doomed(r)
  <1> DEFINE takable == UNION {Taken[z] : z \in DOMAIN db}
             closed == {S \in SUBSET takable : \A z \in S \cup {r} : Taken[z] \subseteq S}
  <1>1. x \in Taken[y] /\ x \in takable
    BY DEF Taken
  <1>2. Doomed(r) = {r} \cup {z \in takable : \A S \in closed : z \in S}
    BY DEF Doomed
  <1>3. ASSUME NEW S \in closed PROVE x \in S
    BY <1>1, <1>2
  <1> HIDE DEF takable, closed
  <1> QED
    BY <1>1, <1>2, <1>3

LEMMA DoomedAreRows ==
    ASSUME NEW r \in DOMAIN db PROVE Doomed(r) \subseteq DOMAIN db /\ r \in Doomed(r)
  <1> DEFINE takable == UNION {Taken[z] : z \in DOMAIN db}
             closed == {S \in SUBSET takable : \A z \in S \cup {r} : Taken[z] \subseteq S}
  <1>1. takable \subseteq DOMAIN db
    BY DEF Taken
  <1>2. Doomed(r) = {r} \cup {z \in takable : \A S \in closed : z \in S}
    BY DEF Doomed
  <1> HIDE DEF takable, closed
  <1> QED
    BY <1>1, <1>2

\* What a DELETE leaves of a row that stays.
LEMMA AfterDelete ==
    ASSUME TypeOK, NEW r \in Rows, Delete(r), NEW x \in DOMAIN db'
    PROVE  /\ r \in DOMAIN db /\ x \in DOMAIN db /\ x \notin Doomed(r)
           /\ DOMAIN db' = DOMAIN db \ Doomed(r)
           /\ db'[x] = [c \in Columns(x) |->
                            IF c \in Cleared(x, Doomed(r)) THEN NULL ELSE db[x][c]]
  <1>1. /\ r \in DOMAIN db
        /\ db' = [z \in DOMAIN db \ Doomed(r) |->
                    [c \in DOMAIN db[z] |-> IF c \in Cleared(z, Doomed(r)) THEN NULL ELSE db[z][c]]]
    BY DEF Delete
  <1>2. x \in DOMAIN db \ Doomed(r) /\ DOMAIN db' = DOMAIN db \ Doomed(r)
    BY <1>1
  <1>3. DOMAIN db[x] = Columns(x)
    BY <1>2 DEF TypeOK
  <1> QED
    BY <1>1, <1>2, <1>3

LEMMA AfterInsert ==
    ASSUME NEW r \in Rows, NEW content \in Contents[r], Insert(r, content)
    PROVE  /\ r \notin DOMAIN db /\ DOMAIN db' = DOMAIN db \cup {r}
           /\ db'[r] = content /\ \A x \in DOMAIN db : db'[x] = db[x]
           /\ content = [c \in Columns(r) |-> content[c]]
  BY ContentsAssumption DEF Insert

LEMMA AfterUpdate ==
    ASSUME NEW r \in Rows, NEW content \in Contents[r], Update(r, content)
    PROVE  /\ r \in DOMAIN db /\ DOMAIN db' = DOMAIN db
           /\ db'[r] = content /\ \A x \in DOMAIN db \ {r} : db'[x] = db[x]
           /\ content = [c \in Columns(r) |-> content[c]]
  BY ContentsAssumption DEF Update

\* INSERT and UPDATE alike: the row has the new contents, the others stay.
Written(r, content) ==
    /\ DOMAIN db \subseteq DOMAIN db' /\ DOMAIN db' = DOMAIN db \cup {r}
    /\ db'[r] = content /\ \A x \in DOMAIN db \ {r} : db'[x] = db[x]
    /\ content = [c \in Columns(r) |-> content[c]]
    /\ Admissible(r, content)

LEMMA Writes ==
    ASSUME NEW r \in Rows, NEW content \in Contents[r], Insert(r, content) \/ Update(r, content)
    PROVE  Written(r, content)
  BY AfterInsert, AfterUpdate DEF Written, Insert, Update

-------------------------------------------------------------------------------
LEMMA TypeStep == ASSUME TypeOK, [Next]_db PROVE TypeOK'
  <1>1. ASSUME NEW r \in Rows, NEW content \in Contents[r], Insert(r, content) \/ Update(r, content)
        PROVE  TypeOK'
    <2>1. Written(r, content)
      BY <1>1, Writes
    <2>2. ASSUME NEW x \in DOMAIN db' PROVE x \in Rows /\ db'[x] = [c \in Columns(x) |-> db'[x][c]]
      BY <2>1 DEF Written, TypeOK
    <2> QED
      BY <2>2 DEF TypeOK, Columns, Fk
  <1>2. ASSUME NEW r \in Rows, Delete(r) PROVE TypeOK'
    <2>1. ASSUME NEW x \in DOMAIN db' PROVE x \in Rows /\ db'[x] = [c \in Columns(x) |-> db'[x][c]]
      BY <1>2, AfterDelete DEF TypeOK
    <2> QED
      BY <2>1 DEF TypeOK, Columns, Fk
  <1>3. CASE UNCHANGED db
    BY <1>3 DEF TypeOK, Columns, Fk
  <1> QED
    BY <1>1, <1>2, <1>3 DEF Next

\* Every reference leads to a row of the right table.
ReferencesHold ==
    \A x \in DOMAIN db : \A c \in DOMAIN Fk(x) :
        db[x][c] = NULL \/ (db[x][c] \in DOMAIN db /\ TableOf[db[x][c]] = Fk(x)[c].to)

LEMMA ReferencesStep ==
    ASSUME TypeOK, ReferencesHold, [Next]_db PROVE ReferencesHold'
  <1>1. ASSUME NEW r \in Rows, NEW content \in Contents[r], Insert(r, content) \/ Update(r, content)
        PROVE  ReferencesHold'
    <2>1. Written(r, content)
      BY <1>1, Writes
    <2>2. ASSUME NEW x \in DOMAIN db', NEW c \in DOMAIN Fk(x)
          PROVE  db'[x][c] = NULL \/ (db'[x][c] \in DOMAIN db' /\ TableOf[db'[x][c]] = Fk(x)[c].to)
      <3>1. CASE x = r
        BY <2>1, <3>1 DEF Written, Admissible, ForeignKeysHold
      <3>2. CASE x # r
        BY <2>1, <3>2 DEF Written, ReferencesHold
      <3> QED
        BY <3>1, <3>2
    <2> QED
      BY <2>2 DEF ReferencesHold, Fk
  <1>2. ASSUME NEW r \in Rows, Delete(r) PROVE ReferencesHold'
    <2>1. ASSUME NEW x \in DOMAIN db', NEW c \in DOMAIN Fk(x), db'[x][c] # NULL
          PROVE  db'[x][c] \in DOMAIN db' /\ TableOf[db'[x][c]] = Fk(x)[c].to
      <3>1. /\ r \in DOMAIN db /\ x \in DOMAIN db /\ x \notin Doomed(r)
            /\ DOMAIN db' = DOMAIN db \ Doomed(r)
            /\ db'[x] = [d \in Columns(x) |->
                            IF d \in Cleared(x, Doomed(r)) THEN NULL ELSE db[x][d]]
        BY <1>2, AfterDelete
      <3>2. c \in Columns(x) /\ x \in Rows
        BY <3>1 DEF Columns, TypeOK
      <3>3. db'[x][c] = db[x][c] /\ c \notin Cleared(x, Doomed(r))
        BY <3>1, <3>2, <2>1
      <3> DEFINE y == db[x][c]
      <3>4. y \in DOMAIN db /\ TableOf[y] = Fk(x)[c].to
        BY <3>1, <3>3, <2>1 DEF ReferencesHold
      <3>5. ASSUME y \in Doomed(r) PROVE FALSE
        <4>1. Fk(x)[c].onDelete \in {"CASCADE", "RESTRICT", "SET_NULL"}
          BY <3>2, TablesAssumption, RowsAssumption DEF Fk
        <4>2. Fk(x)[c].onDelete # "CASCADE"
          BY <3>1, <3>4, <3>5, DoomedIsClosed DEF RefersBy, Refers
        <4>3. Fk(x)[c].onDelete # "RESTRICT"
          BY <3>1, <3>5, <1>2 DEF Delete, Restrains, RefersBy, Refers
        <4>4. Fk(x)[c].onDelete # "SET_NULL"
          BY <3>3, <3>5 DEF Cleared
        <4> QED
          BY <4>1, <4>2, <4>3, <4>4
      <3> QED
        BY <3>1, <3>3, <3>4, <3>5
    <2> QED
      BY <2>1 DEF ReferencesHold, Fk
  <1>3. CASE UNCHANGED db
    BY <1>3 DEF ReferencesHold, Fk
  <1> QED
    BY <1>1, <1>2, <1>3 DEF Next

LEMMA Start == Init => TypeOK /\ ReferencesHold
  BY DEF Init, TypeOK, ReferencesHold

-------------------------------------------------------------------------------
\* db/migrations/001_initial.sql:9-120, alembic/versions/001_initial.py and
\* app/models: rows have the columns of their table.
THEOREM TypeCorrect == Spec => []TypeOK
  BY Start, TypeStep, PTL DEF Spec

\* db/migrations/001_initial.sql:128-138: where the triggers are installed, no
\* statement on any table changes or deletes an audit row.
THEOREM AuditIsAppendOnly ==
    ASSUME \A r \in Rows : TableOf[r] = "audit_logs" => Protected(r)
    PROVE  Spec => AuditAppendOnly
  <1>1. ASSUME TypeOK, [Next]_db, db' # db, NEW a \in AuditRows
        PROVE  a \in DOMAIN db' /\ db'[a] = db[a]
    <2>1. a \in DOMAIN db /\ a \in Rows /\ Protected(a)
      BY <1>1 DEF AuditRows, TypeOK
    <2>2. ASSUME NEW r \in Rows, NEW content \in Contents[r], Insert(r, content)
          PROVE  a \in DOMAIN db' /\ db'[a] = db[a]
      BY <2>1, <2>2, AfterInsert
    <2>3. ASSUME NEW r \in Rows, NEW content \in Contents[r], Update(r, content)
          PROVE  a \in DOMAIN db' /\ db'[a] = db[a]
      BY <2>1, <2>3, AfterUpdate DEF Update
    <2>4. ASSUME NEW r \in Rows, Delete(r) PROVE a \in DOMAIN db' /\ db'[a] = db[a]
      <3>1. a \notin Doomed(r) /\ Cleared(a, Doomed(r)) = {}
        BY <2>1, <2>4 DEF Delete
      <3>2. a \in DOMAIN db'
        BY <2>1, <2>4, <3>1 DEF Delete
      <3>3. db'[a] = [c \in Columns(a) |->
                        IF c \in Cleared(a, Doomed(r)) THEN NULL ELSE db[a][c]]
        BY <1>1, <2>4, <3>2, AfterDelete
      <3>4. db[a] = [c \in Columns(a) |-> db[a][c]]
        BY <1>1, <2>1 DEF TypeOK
      <3> QED
        BY <3>1, <3>2, <3>3, <3>4
    <2> QED
      BY <1>1, <2>2, <2>3, <2>4 DEF Next
  <1>2. TypeOK /\ [Next]_db => [\A a \in AuditRows : a \in DOMAIN db' /\ db'[a] = db[a]]_db
    BY <1>1
  <1> QED
    BY <1>2, Start, TypeStep, PTL DEF Spec, AuditAppendOnly

\* db/migrations/001_initial.sql:119 with 128-138: where the triggers are
\* installed, nobody whom an audit row names can be deleted.
THEOREM AuditedActorsStay ==
    ASSUME \A r \in Rows : TableOf[r] = "audit_logs" => Protected(r)
    PROVE  Spec => ActorsStay
  <1>1. ASSUME TypeOK, [Next]_db, db' # db, NEW a \in AuditRows, NEW u \in DOMAIN db,
               RefersBy("SET_NULL", a, u)
        PROVE  u \in DOMAIN db'
    <2>1. a \in DOMAIN db /\ a \in Rows /\ Protected(a)
      BY <1>1 DEF AuditRows, TypeOK
    <2>2. ASSUME NEW r \in Rows, NEW content \in Contents[r],
                 Insert(r, content) \/ Update(r, content)
          PROVE  u \in DOMAIN db'
      BY <2>2, Writes DEF Written
    <2>3. ASSUME NEW r \in Rows, Delete(r) PROVE u \in DOMAIN db'
      <3>1. Cleared(a, Doomed(r)) = {}
        BY <2>1, <2>3 DEF Delete
      <3>2. u \notin Doomed(r)
        BY <1>1, <3>1 DEF Cleared, RefersBy, Refers
      <3> QED
        BY <2>3, <3>2 DEF Delete
    <2> QED
      BY <1>1, <2>2, <2>3 DEF Next
  <1>2. TypeOK /\ [Next]_db =>
          [\A a \in AuditRows, u \in DOMAIN db : RefersBy("SET_NULL", a, u) => u \in DOMAIN db']_db
    BY <1>1
  <1> QED
    BY <1>2, Start, TypeStep, PTL DEF Spec, ActorsStay

\* In each description of the database what is declared with CASCADE leads from a
\* table of the pipeline, or from the audit log, to a table of the pipeline; a
\* user references nothing.
WorkKeepsTogether ==
    /\ \A t \in Work \cap DOMAIN Tables : \A c \in DOMAIN Tables[t].fk :
          Tables[t].fk[c].onDelete = "CASCADE" => Tables[t].fk[c].to \in Work
    /\ DOMAIN Tables["users"].fk = {}

LEMMA SchemasKeepTogether ==
    ASSUME Tables \in {SqlSchema, AlembicSchema, OrmSchema} PROVE WorkKeepsTogether
  <1>1. CASE Tables = SqlSchema
    <2>1. /\ Tables["users"].fk = NoKeys
          /\ Tables["templates"].fk = NoKeys
          /\ Tables["template_versions"].fk = [template_id |-> References("templates", "CASCADE")]
          /\ Tables["ingested_rows"].fk = [ingested_by_user_id |-> References("users", "SET_NULL")]
          /\ Tables["suggestions"].fk = [ingested_row_id |-> References("ingested_rows", "CASCADE"),
                                         template_id |-> References("templates", "RESTRICT"),
                                         reviewer_id |-> References("users", "SET_NULL")]
          /\ Tables["audit_logs"].fk = [actor_id |-> References("users", "SET_NULL")]
      BY <1>1 DEF SqlSchema, SqlIdentity, SqlPipeline, SqlPipelineWith, SqlAudit, ++, Table, Named
    <2> QED
      BY <2>1 DEF WorkKeepsTogether, Work, References, NoKeys
  <1>2. CASE Tables = AlembicSchema
    <2>1. /\ Tables["users"].fk = NoKeys
          /\ Tables["templates"].fk = [created_by |-> References("users", "SET_NULL")]
          /\ Tables["template_versions"].fk = [template_id |-> References("templates", "CASCADE"),
                                               activated_by |-> References("users", "SET_NULL")]
          /\ Tables["ingested_rows"].fk =
                [template_id |-> References("templates", "SET_NULL"),
                 template_version_id |-> References("template_versions", "SET_NULL")]
          /\ Tables["suggestions"].fk =
                [ingested_row_id |-> References("ingested_rows", "CASCADE"),
                 template_version_id |-> References("template_versions", "SET_NULL"),
                 reviewer_id |-> References("users", "SET_NULL")]
          /\ Tables["audit_logs"].fk = [user_id |-> References("users", "SET_NULL")]
      BY <1>2 DEF AlembicSchema, AlembicIdentity, AlembicTemplates, AlembicPipeline, AlembicAudit,
                  AlembicSessions, ++, Table, Named
    <2> QED
      BY <2>1 DEF WorkKeepsTogether, Work, References, NoKeys
  <1>3. CASE Tables = OrmSchema
    <2>1. /\ Tables["users"].fk = NoKeys
          /\ Tables["templates"].fk = NoKeys
          /\ Tables["template_versions"].fk = [template_id |-> References("templates", "CASCADE")]
          /\ Tables["ingested_rows"].fk = [ingested_by_user_id |-> References("users", "SET_NULL")]
          /\ Tables["suggestions"].fk = [ingested_row_id |-> References("ingested_rows", "CASCADE"),
                                         template_id |-> References("templates", "RESTRICT"),
                                         reviewer_id |-> References("users", "SET_NULL")]
          /\ Tables["audit_logs"].fk = [actor_id |-> References("users", "SET_NULL")]
      BY <1>3 DEF OrmSchema, OrmUser, OrmRole, OrmSession, OrmTemplate, OrmIngestedRow, OrmSuggestion,
                  OrmAuditLog, ++, Table, Named
    <2> QED
      BY <2>1 DEF WorkKeepsTogether, Work, References, NoKeys
  <1> QED
    BY <1>1, <1>2, <1>3

\* The rows outside the work that a cascade takes are closed under the cascade.
LEMMA CascadeSparesWork ==
    ASSUME TypeOK, ReferencesHold, WorkKeepsTogether,
           NEW r \in DOMAIN db, TableOf[r] \notin Work, NEW x \in Doomed(r)
    PROVE  TableOf[x] \notin Work
  <1> DEFINE takable == UNION {Taken[z] : z \in DOMAIN db}
             closed == {S \in SUBSET takable : \A z \in S \cup {r} : Taken[z] \subseteq S}
             spared == {z \in takable : TableOf[z] \notin Work}
  <1>1. Doomed(r) = {r} \cup {z \in takable : \A S \in closed : z \in S}
    BY DEF Doomed
  <1>2. takable \subseteq DOMAIN db
    BY DEF Taken
  <1>3. ASSUME NEW y \in DOMAIN db, TableOf[y] \notin Work, NEW z \in Taken[y]
        PROVE  z \in takable /\ TableOf[z] \notin Work
    <2>1. z \in DOMAIN db /\ z \in Rows /\ TableOf[z] \in DOMAIN Tables /\ z \in takable
      BY <1>3, RowsAssumption DEF Taken, TypeOK
    <2>2. PICK c \in DOMAIN Fk(z) : db[z][c] = y /\ Fk(z)[c].onDelete = "CASCADE"
      BY <1>3, <2>1 DEF Taken, RefersBy, Refers
    <2>3. y # NULL
      BY <1>3, RowsAssumption DEF TypeOK
    <2>4. TableOf[y] = Fk(z)[c].to
      BY <2>1, <2>2, <2>3 DEF ReferencesHold
    <2> QED
      BY <1>3, <2>1, <2>2, <2>4 DEF WorkKeepsTogether, Fk
  <1>4. spared \in closed
    <2>1. \A z \in spared \cup {r} : z \in DOMAIN db /\ TableOf[z] \notin Work
      BY <1>2
    <2>2. \A z \in spared \cup {r} : Taken[z] \subseteq spared
      <3> HIDE DEF takable
      <3> QED
        BY <1>3, <2>1
    <2> HIDE DEF takable
    <2> QED
      BY <2>2
  <1> HIDE DEF takable, closed
  <1> QED
    BY <1>1, <1>4

\* db/migrations/001_initial.sql:44-119, alembic/versions/001_initial.py:130-370 and
\* app/models: under each of the three descriptions, and whatever the tables hold,
\* the deletion of a user takes no template, row, suggestion or audit entry along.
THEOREM WorkIsNotDeletedWithUsers ==
    ASSUME Tables \in {SqlSchema, AlembicSchema, OrmSchema}
    PROVE  Spec => WorkOutlivesUsers
  <1>1. ASSUME TypeOK, ReferencesHold, [Next]_db, NEW u \in DOMAIN db \ DOMAIN db',
               TableOf[u] = "users", NEW x \in DOMAIN db \ DOMAIN db'
        PROVE  TableOf[x] \notin Work
    <2>1. WorkKeepsTogether
      BY SchemasKeepTogether
    <2>2. ASSUME NEW r \in Rows, NEW content \in Contents[r],
                 Insert(r, content) \/ Update(r, content)
          PROVE  FALSE
      BY <1>1, <2>2, Writes DEF Written
    <2>3. ASSUME NEW r \in Rows, Delete(r) PROVE TableOf[x] \notin Work
      <3>1. r \in DOMAIN db /\ DOMAIN db' = DOMAIN db \ Doomed(r)
        BY <2>3 DEF Delete
      <3>2. u \in Doomed(r) /\ x \in Doomed(r)
        BY <1>1, <3>1
      <3>3. \A y \in DOMAIN db : u \notin Taken[y]
        BY <1>1, <2>1 DEF WorkKeepsTogether, Taken, RefersBy, Refers, Fk
      <3>4. u = r
        <4>1. u \notin UNION {Taken[y] : y \in DOMAIN db}
          BY <3>3
        <4> QED
          BY <3>2, <4>1 DEF Doomed
      <3>5. "users" \notin Work
        BY DEF Work
      <3> QED
        BY <1>1, <2>1, <3>1, <3>2, <3>4, <3>5, CascadeSparesWork
    <2> QED
      BY <1>1, <2>2, <2>3 DEF Next
  <1>2. TypeOK /\ ReferencesHold /\ [Next]_db =>
          [\A u \in DOMAIN db \ DOMAIN db' : TableOf[u] = "users" =>
              \A x \in DOMAIN db \ DOMAIN db' : TableOf[x] \notin Work]_db
    BY <1>1
  <1> QED
    BY <1>2, Start, TypeStep, ReferencesStep, PTL DEF Spec, WorkOutlivesUsers

-------------------------------------------------------------------------------
(* The modules that are executed, and what is in sys.modules.              *)

\* What is being imported was asked for, and what is being executed is in
\* sys.modules.
InModules == /\ stack # << >> => request # Nothing
             /\ \A i \in 1..Len(stack) : at[stack[i]] >= 1

LEMMA Statements ==
    ASSUME NEW m \in DOMAIN Body, NEW i \in 1..Len(Body[m])
    PROVE  /\ Len(Body[m]) \in Nat /\ DOMAIN Body[m] = 1..Len(Body[m])
           /\ Body[m][i].from \in DOMAIN Body \cup {Nothing} /\ Body[m][i].names \subseteq Names
  <1> DEFINE R == [from : DOMAIN Body \cup {Nothing}, names : SUBSET Names]
             s == Body[m]
  <1>1. s \in Seq(R) /\ i \in 1..Len(s)
    BY BodyAssumption
  <1>2. \A x \in R : x.from \in DOMAIN Body \cup {Nothing} /\ x.names \subseteq Names
    OBVIOUS
  <1> HIDE DEF R, s
  <1>3. Len(s) \in Nat /\ DOMAIN s = 1..Len(s) /\ s[i] \in R
    BY <1>1
  <1> QED
    BY <1>2, <1>3 DEF s

LEMMA BodyDomains == \A m \in DOMAIN Body : DOMAIN Body[m] = 1..Len(Body[m])
  BY BodyAssumption

LEMMA BodyLengths == \A m \in DOMAIN Body : Len(Body[m]) \in Nat
  BY BodyAssumption

LEMMA StackIsIn ==
    ASSUME ImportsTypeOK, InModules PROVE \A m \in Range(stack) : m \in DOMAIN Body /\ at[m] >= 1
  <1>1. DOMAIN stack = 1..Len(stack) /\ \A i \in 1..Len(stack) : stack[i] \in DOMAIN Body
    BY DEF ImportsTypeOK
  <1> QED
    BY <1>1 DEF Range, InModules

LEMMA Pushed ==
    ASSUME NEW S, NEW s \in Seq(S), NEW x \in S
    PROVE  /\ Append(s, x) \in Seq(S) /\ Len(Append(s, x)) = Len(s) + 1
           /\ \A i \in 1..Len(s) : Append(s, x)[i] = s[i]
           /\ Append(s, x)[Len(s) + 1] = x
           /\ Range(Append(s, x)) = Range(s) \cup {x}
           /\ IsInjective(s) /\ x \notin Range(s) => IsInjective(Append(s, x))
  <1> DEFINE t == Append(s, x)
  <1>1. /\ t \in Seq(S) /\ Len(t) = Len(s) + 1 /\ Len(s) \in Nat
        /\ \A i \in 1..Len(s) : t[i] = s[i]
        /\ t[Len(s) + 1] = x
    OBVIOUS
  <1>2. DOMAIN t = 1..Len(s) + 1 /\ DOMAIN s = 1..Len(s)
    BY <1>1
  <1> HIDE DEF t
  <1>3. Range(t) = Range(s) \cup {x}
    BY <1>1, <1>2 DEF Range
  <1>4. IsInjective(s) /\ x \notin Range(s) => IsInjective(t)
    BY <1>1, <1>2 DEF Range, IsInjective
  <1> QED
    BY <1>1, <1>3, <1>4 DEF t

LEMMA Popped ==
    ASSUME NEW S, NEW s \in Seq(S), s # << >>
    PROVE  /\ Front(s) \in Seq(S) /\ Len(Front(s)) = Len(s) - 1
           /\ \A i \in 1..Len(s) - 1 : Front(s)[i] = s[i]
           /\ Len(s) \in Nat \ {0} /\ Last(s) = s[Len(s)] /\ Last(s) \in S
           /\ Range(s) = Range(Front(s)) \cup {Last(s)} /\ Last(s) \in Range(s)
           /\ IsInjective(s) => IsInjective(Front(s)) /\ Last(s) \notin Range(Front(s))
  <1> DEFINE t == Front(s)
  <1>1. /\ Len(s) \in Nat \ {0} /\ Last(s) = s[Len(s)] /\ Last(s) \in S
    BY DEF Last
  <1>2. t \in Seq(S) /\ Len(t) = Len(s) - 1 /\ \A i \in 1..Len(s) - 1 : t[i] = s[i]
    <2>1. t = SubSeq(s, 1, Len(s) - 1)
      BY DEF Front
    <2>2. 1 \in 1..Len(s) + 1 /\ Len(s) - 1 \in 0..Len(s) /\ Len(s) - 1 + 1 - 1 = Len(s) - 1
      BY <1>1
    <2>3. /\ SubSeq(s, 1, Len(s) - 1) \in Seq(S) /\ Len(SubSeq(s, 1, Len(s) - 1)) = Len(s) - 1
          /\ \A i \in 1..Len(s) - 1 : SubSeq(s, 1, Len(s) - 1)[i] = s[i]
      BY <1>1, <2>2
    <2> QED
      BY <2>1, <2>3
  <1>3. DOMAIN t = 1..Len(s) - 1 /\ DOMAIN s = 1..Len(s)
    BY <1>1, <1>2
  <1> HIDE DEF t
  <1>4. Range(s) = Range(t) \cup {Last(s)}
    <2>1. \A i \in 1..Len(s) : i \in 1..Len(s) - 1 \/ i = Len(s)
      BY <1>1
    <2>2. 1..Len(s) - 1 \subseteq 1..Len(s) /\ Len(s) \in 1..Len(s)
      BY <1>1
    <2> QED
      BY <1>1, <1>2, <1>3, <2>1, <2>2 DEF Range
  <1>5. IsInjective(s) => IsInjective(t) /\ Last(s) \notin Range(t)
    <2>1. 1..Len(s) - 1 \subseteq 1..Len(s) /\ Len(s) \in 1..Len(s) /\ Len(s) \notin 1..Len(s) - 1
      BY <1>1
    <2> QED
      BY <1>1, <1>2, <1>3, <2>1 DEF Range, IsInjective
  <1> QED
    BY <1>1, <1>2, <1>4, <1>5 DEF t

\* The module on top and its statement.
LEMMA TopFacts ==
    ASSUME ImportsTypeOK, InModules, stack # << >>
    PROVE  /\ Top \in DOMAIN Body /\ Top \in Range(stack) /\ Top = stack[Len(stack)] /\ Len(stack) \in Nat \ {0}
           /\ at[Top] \in 1..Len(Body[Top]) + 1
           /\ request \in Entries
           /\ Running => /\ at[Top] \in 1..Len(Body[Top])
                         /\ Current.from \in DOMAIN Body \cup {Nothing} /\ Current.names \subseteq Names
  <1>1. Top \in DOMAIN Body /\ Top \in Range(stack) /\ Top = stack[Len(stack)] /\ Len(stack) \in Nat \ {0}
    <2>1. stack \in Seq(DOMAIN Body)
      BY DEF ImportsTypeOK
    <2>2. /\ Len(stack) \in Nat \ {0} /\ Last(stack) = stack[Len(stack)] /\ Last(stack) \in DOMAIN Body
          /\ Last(stack) \in Range(stack)
      BY ONLY <2>1, stack # << >>, Popped
    <2> QED
      BY <2>2 DEF Top
  <1>2. at[Top] >= 1 /\ at[Top] \in 0..(Len(Body[Top]) + 1)
    <2>1. Len(stack) \in 1..Len(stack)
      BY <1>1
    <2> QED
      BY <1>1, <2>1 DEF InModules, ImportsTypeOK
  <1>3. at[Top] \in 1..Len(Body[Top]) + 1
    BY <1>1, <1>2, BodyLengths
  <1>4. Running => at[Top] \in 1..Len(Body[Top])
    BY <1>1, <1>3, BodyLengths DEF Running
  <1>5. request \in Entries
    BY DEF InModules, ImportsTypeOK
  <1> QED
    BY <1>1, <1>3, <1>4, <1>5, Statements DEF Current

\* What is executed next is a module that is not in sys.modules yet.
LEMMA NextMissingFacts ==
    ASSUME ImportsTypeOK, InModules, Importing, Missing # {}
    PROVE  /\ NextMissing \in DOMAIN Body /\ NextMissing \in Needed(Wanted) /\ at[NextMissing] = 0
           /\ NextMissing \notin Range(stack)
           /\ stack = << >> => Wanted = request /\ request \in Entries
           /\ stack # << >> => Running /\ Current.from # Nothing /\ Wanted = Current.from
  <1>1. stack # << >> => Running /\ Current.from # Nothing /\ Wanted = Current.from
    BY DEF Importing, Wanted
  <1>2. stack = << >> => Wanted = request /\ request \in Entries
    BY DEF Importing, Wanted, Running, ImportsTypeOK
  <1>3. Wanted \in DOMAIN Body
    BY <1>1, <1>2, TopFacts, EntriesAssumption
  <1>4. NextMissing \in DOMAIN Body /\ NextMissing \in Needed(Wanted)
    BY <1>3, ParentAssumption DEF NextMissing, Missing, Needed
  <1>5. at[NextMissing] = 0
    BY <1>3 DEF NextMissing, Missing, Needed
  <1>6. NextMissing \notin Range(stack)
    <2>1. \A m \in Range(stack) : at[m] >= 1
      BY StackIsIn
    <2> QED
      BY <1>5, <2>1
  <1> QED
    BY <1>1, <1>2, <1>4, <1>5, <1>6

LEMMA EntersInModules == ASSUME ImportsTypeOK, InModules, Enter PROVE ImportsTypeOK' /\ InModules'
  <1> DEFINE n == NextMissing
  <1>1. /\ n \in DOMAIN Body /\ at[n] = 0 /\ n \notin Range(stack)
        /\ stack' = Append(stack, n) /\ DOMAIN at' = DOMAIN Body
        /\ \A m \in DOMAIN Body : at'[m] = IF m = n THEN 1 ELSE at[m]
        /\ UNCHANGED <<request, registered, failed>>
    BY NextMissingFacts DEF Enter, ImportsTypeOK
  <1>2. stack = << >> => request \in Entries
    BY NextMissingFacts DEF Enter
  <1>3. stack # << >> => request # Nothing
    BY DEF InModules
  <1> HIDE DEF n
  <1>4. /\ stack' \in Seq(DOMAIN Body) /\ IsInjective(stack') /\ Range(stack') = Range(stack) \cup {n}
    BY <1>1, Pushed DEF ImportsTypeOK
  <1>5. \A i \in 1..Len(stack') : at'[stack'[i]] >= 1
    <2>1. \A m \in Range(stack') : at'[m] >= 1
      <3>1. \A m \in Range(stack) : m \in DOMAIN Body /\ at[m] >= 1
        BY StackIsIn
      <3> QED
        BY <1>1, <1>4, <3>1
    <2> QED
      BY <1>4, <2>1 DEF Range
  <1>6. \A m \in DOMAIN Body : at'[m] \in 0..(Len(Body[m]) + 1)
    BY <1>1, BodyLengths DEF ImportsTypeOK
  <1>7. \A m \in DOMAIN Body : at'[m] \in 1..Len(Body[m]) => m \in Range(stack')
    BY <1>1, <1>4 DEF ImportsTypeOK
  <1>8. request' # Nothing
    BY <1>1, <1>2, <1>3, EntriesAssumption
  <1>9. InModules'
    BY <1>5, <1>8 DEF InModules
  <1> QED
    BY <1>1, <1>4, <1>6, <1>7, <1>9 DEF ImportsTypeOK

LEMMA RunsInModules == ASSUME ImportsTypeOK, InModules, Bind \/ Define PROVE ImportsTypeOK' /\ InModules'
  <1>1. /\ Running /\ stack # << >> /\ UNCHANGED <<request, stack, failed>> /\ DOMAIN at' = DOMAIN Body
        /\ at' = [at EXCEPT ![Top] = @ + 1]
    BY DEF Bind, Define, Running, ImportsTypeOK
  <1>2. Top \in DOMAIN Body /\ Top \in Range(stack) /\ at[Top] \in 1..Len(Body[Top])
    BY <1>1, TopFacts
  <1>3. \A m \in DOMAIN Body : at'[m] = IF m = Top THEN at[m] + 1 ELSE at[m]
    BY <1>1 DEF ImportsTypeOK
  <1>4. registered' \in [DOMAIN Body -> SUBSET Classes]
    BY DEF Bind, Define, Mapping, ImportsTypeOK
  <1>5. \A m \in DOMAIN Body : at'[m] \in 0..(Len(Body[m]) + 1)
    <2>1. \A m \in DOMAIN Body : Len(Body[m]) \in Nat /\ at[m] \in 0..(Len(Body[m]) + 1)
      BY BodyLengths DEF ImportsTypeOK
    <2> QED
      BY <1>2, <1>3, <2>1
  <1>6. \A m \in DOMAIN Body : at'[m] \in 1..Len(Body[m]) => m \in Range(stack')
    BY <1>1, <1>2, <1>3, BodyLengths DEF ImportsTypeOK
  <1>7. \A i \in 1..Len(stack) : stack[i] \in DOMAIN Body /\ at[stack[i]] \in Int
    BY DEF ImportsTypeOK
  <1>8. InModules'
    BY <1>1, <1>3, <1>7 DEF InModules
  <1> QED
    BY <1>1, <1>4, <1>5, <1>6, <1>8 DEF ImportsTypeOK

LEMMA LeavesInModules == ASSUME ImportsTypeOK, InModules, Leave PROVE ImportsTypeOK' /\ InModules'
  <1>1. stack # << >> /\ ~Running /\ stack' = Front(stack) /\ UNCHANGED <<request, at, registered, failed>>
    BY DEF Leave
  <1>2. /\ stack' \in Seq(DOMAIN Body) /\ Len(stack') = Len(stack) - 1
        /\ \A i \in 1..Len(stack) - 1 : stack'[i] = stack[i]
        /\ Range(stack) = Range(stack') \cup {Top} /\ IsInjective(stack') /\ Len(stack) \in Nat
    BY <1>1, Popped DEF ImportsTypeOK, Top
  <1>3. at[Top] = Len(Body[Top]) + 1 /\ Top \in DOMAIN Body
    <2>1. at[Top] \in 1..Len(Body[Top]) + 1 /\ ~(at[Top] <= Len(Body[Top])) /\ Top \in DOMAIN Body
      BY <1>1, TopFacts DEF Running
    <2> QED
      BY <2>1, BodyLengths
  <1>4. \A m \in DOMAIN Body : at[m] \in 1..Len(Body[m]) => m \in Range(stack')
    BY <1>2, <1>3, BodyLengths DEF ImportsTypeOK
  <1>5. InModules'
    BY <1>1, <1>2 DEF InModules
  <1> QED
    BY <1>1, <1>2, <1>4, <1>5 DEF ImportsTypeOK

LEMMA RaiseInModules == ASSUME ImportsTypeOK, InModules, ImportError PROVE ImportsTypeOK' /\ InModules'
  <1>1. /\ stack # << >> /\ request' = Nothing /\ stack' = << >> /\ failed' = failed \cup {request}
        /\ registered' = registered /\ DOMAIN at' = DOMAIN Body
        /\ \A m \in DOMAIN Body : at'[m] = IF m \in Range(stack) THEN 0 ELSE at[m]
    BY DEF ImportError, Raise, Running
  <1>2. request \in Entries
    BY <1>1, TopFacts
  <1>3. stack' \in Seq(DOMAIN Body) /\ IsInjective(stack') /\ Len(stack') = 0
    BY <1>1 DEF IsInjective
  <1>4. \A m \in DOMAIN Body : at'[m] \in 0..(Len(Body[m]) + 1)
    <2>1. \A m \in DOMAIN Body : Len(Body[m]) \in Nat /\ at[m] \in 0..(Len(Body[m]) + 1)
      BY BodyLengths DEF ImportsTypeOK
    <2> QED
      BY <1>1, <2>1
  <1>5. \A m \in DOMAIN Body : at'[m] \in 1..Len(Body[m]) => m \in Range(stack')
    <2>1. ASSUME NEW m \in DOMAIN Body, m \notin Range(stack) PROVE at'[m] \notin 1..Len(Body[m])
      BY <1>1, <2>1 DEF ImportsTypeOK
    <2>2. \A m \in DOMAIN Body : 0 \notin 1..Len(Body[m])
      BY BodyLengths
    <2> QED
      BY <1>1, <2>1, <2>2
  <1>6. InModules'
    BY <1>1, <1>3 DEF InModules
  <1> QED
    BY <1>1, <1>2, <1>3, <1>4, <1>5, <1>6 DEF ImportsTypeOK

LEMMA InitInModules == ImportsInit => ImportsTypeOK /\ InModules
  <1> SUFFICES ASSUME ImportsInit PROVE ImportsTypeOK /\ InModules
    OBVIOUS
  <1>1. stack \in Seq(DOMAIN Body) /\ IsInjective(stack) /\ Len(stack) = 0
    BY DEF ImportsInit, IsInjective
  <1>2. \A m \in DOMAIN Body : at[m] \in 0..(Len(Body[m]) + 1) /\ at[m] \notin 1..Len(Body[m])
    BY BodyLengths DEF ImportsInit
  <1> QED
    BY <1>1, <1>2 DEF ImportsInit, ImportsTypeOK, InModules

LEMMA NextInModules == ImportsTypeOK /\ InModules /\ [ImportsNext]_vars => ImportsTypeOK' /\ InModules'
  <1> SUFFICES ASSUME ImportsTypeOK, InModules, [ImportsNext]_vars PROVE ImportsTypeOK' /\ InModules'
    OBVIOUS
  <1>1. ASSUME NEW e \in Entries, Ask(e) PROVE ImportsTypeOK' /\ InModules'
    BY <1>1 DEF Ask, ImportsTypeOK, InModules
  <1>2. ASSUME Finish PROVE ImportsTypeOK' /\ InModules'
    BY <1>2 DEF Finish, ImportsTypeOK, InModules
  <1>3. CASE UNCHANGED vars
    BY <1>3 DEF vars, ImportsTypeOK, InModules
  <1> QED
    BY <1>1, <1>2, <1>3, EntersInModules, RunsInModules, LeavesInModules, RaiseInModules DEF ImportsNext

\* The imports of app/ and src/, and of any other modules in their place: what is
\* being executed is in sys.modules, each module once, and what is there and has
\* not come to its end is being executed; a failed import leaves no half-done
\* module behind.
THEOREM ImportsTypeCorrect == ImportsSpec => []ImportsTypeOK
  BY InitInModules, NextInModules, PTL DEF ImportsSpec

-------------------------------------------------------------------------------
(* What the order of imports leaves in the metadata.                       *)

\* The classes a file declares.
Declares(m) == {c \in Classes : \E i \in DOMAIN Body[m] : Body[m][i].from = Nothing /\ c \in Body[m][i].names}

\* The class statements end their file; and no two files declare one class.
DeclaredLast == \A m \in DOMAIN Body : \A i \in DOMAIN Body[m] :
    (Body[m][i].from = Nothing /\ Body[m][i].names \cap Classes # {}) => i = Len(Body[m])
DeclaredOnce == \A m, n \in DOMAIN Body : Declares(m) \cap Declares(n) # {} => m = n

\* Only the module on top may have come to its end; and whose class is in the
\* metadata, that one has.
FromFinished ==
    /\ \A i \in 1..Len(stack) - 1 : at[stack[i]] <= Len(Body[stack[i]])
    /\ \A b \in DOMAIN Body : \A c \in registered[b] :
          \E m \in DOMAIN Body : c \in Declares(m) /\ at[m] = Len(Body[m]) + 1

LEMMA BaseFound ==
    ASSUME NEW m \in DOMAIN Body, NEW i \in DOMAIN Body[m],
           Body[m][i].from = Nothing, Body[m][i].names \cap Classes # {}
    PROVE  BaseOf(m) \in DOMAIN Body
  <1>1. PICK j \in DOMAIN Body[m] : "Base" \in Body[m][j].names /\ Body[m][j].from # Nothing
    BY BaseAssumption
  <1>2. Body[m][j].from \in DOMAIN Body
    BY <1>1, Statements, BodyDomains
  <1> QED
    BY <1>1, <1>2 DEF BaseOf

LEMMA MappingDeclared ==
    ASSUME ImportsTypeOK, InModules, NEW c \in Mapping
    PROVE  /\ Running /\ Current.from = Nothing /\ c \in Declares(Top)
           /\ Top \in DOMAIN Body /\ at[Top] \in 1..Len(Body[Top]) /\ BaseOf(Top) \in DOMAIN Body
  <1>1. Running /\ Current.from = Nothing /\ c \in Current.names \cap Classes
    BY DEF Mapping
  <1>2. Top \in DOMAIN Body /\ at[Top] \in 1..Len(Body[Top])
    BY <1>1, TopFacts DEF Running
  <1>3. DOMAIN Body[Top] = 1..Len(Body[Top])
    BY <1>2, Statements
  <1>4. c \in Declares(Top)
    BY <1>1, <1>2, <1>3 DEF Declares, Current
  <1>5. BaseOf(Top) \in DOMAIN Body
    BY <1>1, <1>2, <1>3, BaseFound DEF Current
  <1> QED
    BY <1>1, <1>2, <1>4, <1>5

LEMMA EntersFromFinished == ASSUME ImportsTypeOK, InModules, FromFinished, Enter PROVE FromFinished'
  <1> DEFINE n == NextMissing
  <1>1. /\ n \in DOMAIN Body /\ at[n] = 0 /\ n \notin Range(stack)
        /\ stack' = Append(stack, n) /\ registered' = registered
        /\ \A m \in DOMAIN Body : at'[m] = IF m = n THEN 1 ELSE at[m]
        /\ stack # << >> => Running
    BY NextMissingFacts DEF Enter, ImportsTypeOK
  <1> HIDE DEF n
  <1>2. /\ Len(stack) \in Nat /\ Len(stack') = Len(stack) + 1
        /\ \A i \in 1..Len(stack) : stack'[i] = stack[i] /\ stack[i] \in Range(stack) /\ stack[i] \in DOMAIN Body
    <2>1. stack \in Seq(DOMAIN Body)
      BY DEF ImportsTypeOK
    <2>2. /\ Len(stack) \in Nat /\ DOMAIN stack = 1..Len(stack)
          /\ \A i \in 1..Len(stack) : stack[i] \in DOMAIN Body
      BY <2>1
    <2> QED
      BY <1>1, <2>1, <2>2, Pushed DEF Range
  <1>3. \A i \in 1..Len(stack) : at[stack[i]] <= Len(Body[stack[i]])
    <2>1. \A i \in 1..Len(stack) : i \in 1..Len(stack) - 1 \/ i = Len(stack)
      BY <1>2
    <2>2. Len(stack) \in 1..Len(stack) => at[stack[Len(stack)]] <= Len(Body[stack[Len(stack)]])
      BY <1>1, <1>2, TopFacts DEF Running
    <2> QED
      BY <2>1, <2>2 DEF FromFinished
  <1>4. \A i \in 1..Len(stack') - 1 : at'[stack'[i]] <= Len(Body[stack'[i]])
    <2>1. Len(stack') - 1 = Len(stack)
      BY <1>2
    <2>2. \A i \in 1..Len(stack) : stack[i] # n
      BY <1>1, <1>2
    <2> QED
      BY <1>1, <1>2, <1>3, <2>1, <2>2
  <1>5. \A m \in DOMAIN Body : at[m] = Len(Body[m]) + 1 => at'[m] = Len(Body[m]) + 1
    BY <1>1, BodyLengths
  <1> QED
    BY <1>1, <1>4, <1>5 DEF FromFinished

LEMMA RunsFromFinished ==
    ASSUME ImportsTypeOK, InModules, FromFinished, DeclaredLast, Bind \/ Define PROVE FromFinished'
  <1>1. /\ Running /\ stack # << >> /\ stack' = stack
        /\ at' = [at EXCEPT ![Top] = @ + 1]
    BY DEF Bind, Define, Running
  <1>2. Top \in DOMAIN Body /\ Top = stack[Len(stack)] /\ Len(stack) \in Nat \ {0} /\ at[Top] \in 1..Len(Body[Top])
    BY <1>1, TopFacts
  <1>3. \A m \in DOMAIN Body : at'[m] = IF m = Top THEN at[m] + 1 ELSE at[m]
    BY <1>1 DEF ImportsTypeOK
  <1>4. \A i \in 1..Len(stack) - 1 : stack[i] \in DOMAIN Body /\ stack[i] # Top
    <2>1. DOMAIN stack = 1..Len(stack) /\ IsInjective(stack) /\ \A i \in 1..Len(stack) : stack[i] \in DOMAIN Body
      BY DEF ImportsTypeOK
    <2>2. \A i \in 1..Len(stack) - 1 : i \in 1..Len(stack) /\ Len(stack) \in 1..Len(stack) /\ i # Len(stack)
      BY <1>2
    <2> QED
      BY <1>2, <2>1, <2>2 DEF IsInjective
  <1>5. \A i \in 1..Len(stack) - 1 : at'[stack[i]] <= Len(Body[stack[i]])
    BY <1>3, <1>4 DEF FromFinished
  <1>6. \A m \in DOMAIN Body : at[m] = Len(Body[m]) + 1 => at'[m] = Len(Body[m]) + 1
    BY <1>2, <1>3, BodyLengths
  <1>7. ASSUME NEW b \in DOMAIN Body, NEW c \in registered'[b]
        PROVE  \E m \in DOMAIN Body : c \in Declares(m) /\ at'[m] = Len(Body[m]) + 1
    <2>1. CASE c \in registered[b]
      BY <1>6, <2>1 DEF FromFinished
    <2>2. CASE c \notin registered[b]
      <3>1. c \in Mapping
        BY <1>7, <2>2 DEF Bind, Define, ImportsTypeOK
      <3>2. c \in Declares(Top)
        BY <3>1, MappingDeclared
      <3>3. at[Top] = Len(Body[Top])
        BY <1>2, <3>1, Statements DEF DeclaredLast, Mapping, Current
      <3>4. at'[Top] = Len(Body[Top]) + 1
        BY <1>2, <1>3, <3>3
      <3> QED
        BY <1>2, <3>2, <3>4
    <2> QED
      BY <2>1, <2>2
  <1> QED
    BY <1>1, <1>5, <1>7 DEF FromFinished

LEMMA LeavesFromFinished == ASSUME ImportsTypeOK, InModules, FromFinished, Leave PROVE FromFinished'
  <1>1. stack # << >> /\ stack' = Front(stack) /\ UNCHANGED <<at, registered>> /\ stack \in Seq(DOMAIN Body)
    BY DEF Leave, ImportsTypeOK
  <1>2. Len(stack') = Len(stack) - 1 /\ Len(stack) \in Nat /\ \A i \in 1..Len(stack) - 1 : stack'[i] = stack[i]
    BY <1>1, Popped
  <1>3. \A i \in 1..Len(stack') - 1 : i \in 1..Len(stack) - 1
    BY <1>2
  <1> QED
    BY <1>1, <1>2, <1>3 DEF FromFinished

LEMMA RaiseFromFinished == ASSUME ImportsTypeOK, InModules, FromFinished, ImportError PROVE FromFinished'
  <1>1. /\ Running /\ stack # << >> /\ stack' = << >> /\ registered' = registered
        /\ \A m \in DOMAIN Body : at'[m] = IF m \in Range(stack) THEN 0 ELSE at[m]
    BY DEF ImportError, Raise, Running
  <1>2. Top = stack[Len(stack)] /\ at[Top] <= Len(Body[Top]) /\ Len(stack) \in Nat /\ DOMAIN stack = 1..Len(stack)
    BY <1>1, TopFacts DEF Running, ImportsTypeOK
  <1>3. \A m \in Range(stack) : at[m] <= Len(Body[m])
    <2> PICK n \in Nat : n = Len(stack)
      BY <1>2
    <2>1. \A i \in 1..n : i \in 1..n - 1 \/ i = n
      OBVIOUS
    <2>2. Len(stack) \in 1..Len(stack) => at[stack[Len(stack)]] <= Len(Body[stack[Len(stack)]])
      BY <1>2
    <2>3. \A i \in 1..Len(stack) - 1 : at[stack[i]] <= Len(Body[stack[i]])
      BY DEF FromFinished
    <2>4. \A i \in 1..Len(stack) : at[stack[i]] <= Len(Body[stack[i]])
      BY ONLY <2>1, <2>2, <2>3
    <2> QED
      BY <1>2, <2>4 DEF Range
  <1>4. \A m \in DOMAIN Body : at[m] = Len(Body[m]) + 1 => at'[m] = Len(Body[m]) + 1
    BY <1>1, <1>3, BodyLengths
  <1>5. 1..Len(stack') - 1 = {}
    BY <1>1
  <1> QED
    BY <1>1, <1>4, <1>5 DEF FromFinished

LEMMA NextFromFinished ==
    ASSUME DeclaredLast
    PROVE  ImportsTypeOK /\ InModules /\ FromFinished /\ [ImportsNext]_vars => FromFinished'
  <1> SUFFICES ASSUME ImportsTypeOK, InModules, FromFinished, [ImportsNext]_vars PROVE FromFinished'
    OBVIOUS
  <1>1. ASSUME UNCHANGED <<stack, at, registered>> PROVE FromFinished'
    BY <1>1 DEF FromFinished
  <1>2. (\E e \in Entries : Ask(e)) \/ Finish \/ UNCHANGED vars => UNCHANGED <<stack, at, registered>>
    BY DEF Ask, Finish, vars
  <1> QED
    BY <1>1, <1>2, EntersFromFinished, RunsFromFinished, LeavesFromFinished, RaiseFromFinished DEF ImportsNext

\* src/models/base.py:18-24 with the app/models files.  However imports nest,
\* fail and are repeated: as long as a file has its class statements after all of
\* its imports, and no other file declares its classes, none is mapped twice.
\* What fails on the way is executed again, what has declared its classes is not.
THEOREM MapsEachClassOnce == ASSUME DeclaredLast, DeclaredOnce PROVE ImportsSpec => []MappedOnce
  <1>1. ImportsInit => FromFinished
    <2> SUFFICES ASSUME ImportsInit PROVE FromFinished
      OBVIOUS
    <2>1. Len(stack) = 0 /\ \A b \in DOMAIN Body : registered[b] = {}
      BY DEF ImportsInit
    <2> QED
      BY <2>1 DEF FromFinished
  <1>2. ImportsTypeOK /\ InModules /\ FromFinished => MappedOnce
    <2> SUFFICES ASSUME ImportsTypeOK, InModules, FromFinished,
                        NEW c \in Mapping, c \in registered[BaseOf(Top)]
                 PROVE  FALSE
      BY DEF MappedOnce
    <2>1. /\ c \in Declares(Top) /\ Top \in DOMAIN Body /\ at[Top] \in 1..Len(Body[Top])
          /\ BaseOf(Top) \in DOMAIN Body
      BY MappingDeclared
    <2>2. PICK m \in DOMAIN Body : c \in Declares(m) /\ at[m] = Len(Body[m]) + 1
      BY <2>1 DEF FromFinished
    <2>3. m = Top
      BY <2>1, <2>2 DEF DeclaredOnce
    <2> QED
      BY <2>1, <2>2, <2>3, BodyLengths
  <1>3. ImportsTypeOK /\ InModules /\ FromFinished /\ [ImportsNext]_vars => FromFinished'
    BY NextFromFinished
  <1> QED
    BY <1>1, <1>2, <1>3, InitInModules, NextInModules, PTL DEF ImportsSpec

-------------------------------------------------------------------------------
(* What a script finds in the metadata: the classes of every file that its *)
(* imports lead to, by whatever way.                                       *)
Seed == "scripts.seed_dev"
ModelsBase == "src.models.base"

\* A set of modules that has with each of them all that its imports need.
Closed(S) == \A m \in S : \A i \in DOMAIN Body[m] :
    Body[m][i].from # Nothing => Needed(Body[m][i].from) \subseteq S

\* The seed script is run and not imported, and every way its imports are
\* followed, they lead to a file for each class.
SeedIsScript ==
    /\ Seed \in DOMAIN Body /\ ModelsBase \in DOMAIN Body
    /\ \A m \in DOMAIN Body : \A i \in DOMAIN Body[m] :
          Body[m][i].from # Nothing => Seed \notin Needed(Body[m][i].from)
SeedReachesModels ==
    \A S \in SUBSET DOMAIN Body : (Seed \in S /\ Closed(S)) =>
        \A c \in Classes : \E m \in S : c \in Declares(m) /\ BaseOf(m) = ModelsBase

\* What a statement has done: it found all it needed in sys.modules, or entered
\* its classes in the metadata.
Done(m, i) ==
    IF Body[m][i].from # Nothing THEN \A n \in Needed(Body[m][i].from) : at[n] # 0
    ELSE Body[m][i].names \cap Classes \subseteq registered[BaseOf(m)]

\* As long as nothing has failed, every statement executed stays done.
NothingLost ==
    /\ \A i \in 2..Len(stack) : stack[i] # Seed
    /\ failed = {} => /\ \A m \in DOMAIN Body : \A i \in DOMAIN Body[m] : i < at[m] => Done(m, i)
                      /\ SeedFindsTables

LEMMA NeededTyped == \A m \in DOMAIN Body : Needed(m) \subseteq DOMAIN Body
  BY ParentAssumption DEF Needed

\* What a step leaves alone stays done.
LEMMA StaysDone ==
    ASSUME ImportsTypeOK, NEW m \in DOMAIN Body, NEW i \in DOMAIN Body[m], Done(m, i),
           \A n \in DOMAIN Body : at[n] # 0 => at'[n] # 0,
           \A b \in DOMAIN Body : registered[b] \subseteq registered'[b]
    PROVE  Done(m, i)'
  <1>1. Body[m][i].from \in DOMAIN Body \cup {Nothing}
    BY Statements, BodyLengths
  <1>2. CASE Body[m][i].from # Nothing
    BY <1>1, <1>2, NeededTyped DEF Done
  <1>3. CASE Body[m][i].from = Nothing
    <2>1. CASE Body[m][i].names \cap Classes = {}
      BY <1>3, <2>1 DEF Done
    <2>2. CASE Body[m][i].names \cap Classes # {}
      <3>1. BaseOf(m) \in DOMAIN Body
        BY <1>3, <2>2, BaseFound
      <3> QED
        BY <1>3, <3>1 DEF Done
    <2> QED
      BY <2>1, <2>2
  <1> QED
    BY <1>2, <1>3

LEMMA EntersNothingLost == ASSUME ImportsTypeOK, InModules, SeedIsScript, NothingLost, Enter PROVE NothingLost'
  <1> DEFINE n == NextMissing
  <1>1. /\ n \in DOMAIN Body /\ at[n] = 0 /\ n \in Needed(Wanted)
        /\ stack' = Append(stack, n) /\ UNCHANGED <<registered, failed>>
        /\ \A m \in DOMAIN Body : at'[m] = IF m = n THEN 1 ELSE at[m]
        /\ stack # << >> => Running /\ Current.from # Nothing /\ Wanted = Current.from
    BY NextMissingFacts DEF Enter, ImportsTypeOK
  <1>2. stack # << >> => n # Seed
    <2> SUFFICES ASSUME stack # << >> PROVE n # Seed
      OBVIOUS
    <2>1. Top \in DOMAIN Body /\ at[Top] \in 1..Len(Body[Top])
      BY <1>1, TopFacts
    <2>2. at[Top] \in DOMAIN Body[Top]
      BY <2>1, Statements
    <2> QED
      BY <1>1, <2>1, <2>2 DEF SeedIsScript, Current
  <1> HIDE DEF n
  <1>3. /\ Len(stack') = Len(stack) + 1 /\ Len(stack) \in Nat /\ stack \in Seq(DOMAIN Body)
        /\ \A i \in 1..Len(stack) : stack'[i] = stack[i]
        /\ stack'[Len(stack) + 1] = n
    BY <1>1, Pushed DEF ImportsTypeOK
  <1>4. \A i \in 2..Len(stack') : stack'[i] # Seed
    <2> SUFFICES ASSUME NEW i \in 2..Len(stack') PROVE stack'[i] # Seed
      OBVIOUS
    <2>1. CASE i \in 2..Len(stack)
      BY <1>3, <2>1 DEF NothingLost
    <2>2. CASE i = Len(stack) + 1
      <3>1. Len(stack) # 0
        BY <1>3, <2>2
      <3>2. stack # << >>
        BY <3>1
      <3> QED
        BY <1>2, <1>3, <2>2, <3>2
    <2> QED
      BY <1>3, <2>1, <2>2
  <1>5. ASSUME failed = {} PROVE \A m \in DOMAIN Body : \A i \in DOMAIN Body[m] : i < at'[m] => Done(m, i)'
    <2> SUFFICES ASSUME NEW m \in DOMAIN Body, NEW i \in DOMAIN Body[m], i < at'[m] PROVE Done(m, i)'
      OBVIOUS
    <2>1. i < at[m]
      <3>1. i \in 1..Len(Body[m]) /\ Len(Body[m]) \in Nat
        BY Statements, BodyLengths, BodyDomains
      <3>2. m # n
        BY <1>1, <3>1
      <3> QED
        BY <1>1, <3>2
    <2>2. Done(m, i)
      BY <1>5, <2>1 DEF NothingLost
    <2>3. \A k \in DOMAIN Body : at[k] # 0 => at'[k] # 0
      BY <1>1
    <2>4. \A b \in DOMAIN Body : registered[b] \subseteq registered'[b]
      BY <1>1
    <2> QED
      BY <2>2, <2>3, <2>4, StaysDone
  <1>6. Loaded(Seed)' => Loaded(Seed)
    <2>1. Seed \in Range(stack) => Seed \in Range(stack')
      BY <1>1, Pushed DEF ImportsTypeOK
    <2>2. n \in Range(stack')
      BY <1>1, Pushed DEF ImportsTypeOK
    <2> QED
      BY <1>1, <2>1, <2>2 DEF Loaded, SeedIsScript
  <1> QED
    BY <1>1, <1>4, <1>5, <1>6 DEF NothingLost, SeedFindsTables, Seed

LEMMA RunsNothingLost ==
    ASSUME ImportsTypeOK, InModules, SeedIsScript, NothingLost, Bind \/ Define PROVE NothingLost'
  <1>1. /\ Running /\ stack # << >> /\ UNCHANGED <<stack, failed>>
        /\ at' = [at EXCEPT ![Top] = @ + 1]
    BY DEF Bind, Define, Running
  <1>2. Top \in DOMAIN Body /\ Top \in Range(stack) /\ at[Top] \in 1..Len(Body[Top])
    BY <1>1, TopFacts
  <1>3. \A m \in DOMAIN Body : at'[m] = IF m = Top THEN at[m] + 1 ELSE at[m]
    BY <1>1 DEF ImportsTypeOK
  <1>4. \A b \in DOMAIN Body : registered[b] \subseteq registered'[b] /\ registered'[b] \subseteq Classes
    BY DEF Bind, Define, Mapping, ImportsTypeOK
  <1>5. \A m \in DOMAIN Body : at[m] # 0 => at'[m] # 0
    BY <1>2, <1>3 DEF ImportsTypeOK
  <1>6. ASSUME failed = {} PROVE \A m \in DOMAIN Body : \A i \in DOMAIN Body[m] : i < at'[m] => Done(m, i)'
    <2> SUFFICES ASSUME NEW m \in DOMAIN Body, NEW i \in DOMAIN Body[m], i < at'[m] PROVE Done(m, i)'
      OBVIOUS
    <2>1. i \in Nat /\ at[m] \in Nat
      <3>1. i \in 1..Len(Body[m]) /\ Len(Body[m]) \in Nat
        BY BodyLengths, BodyDomains
      <3>2. at[m] \in 0..(Len(Body[m]) + 1)
        BY DEF ImportsTypeOK
      <3> QED
        BY <3>1, <3>2
    <2>2. ASSUME i < at[m] PROVE Done(m, i)'
      <3>1. Done(m, i)
        BY <1>6, <2>2 DEF NothingLost
      <3> QED
        BY <1>4, <1>5, <3>1, StaysDone
    <2>3. ASSUME m = Top, i = at[Top] PROVE Done(m, i)'
      <3>1. Body[m][i] = Current
        BY <2>3 DEF Current
      <3>2. ASSUME Bind PROVE Done(m, i)'
        <4>1. Current.from # Nothing /\ Missing = {} /\ Wanted = Current.from
          BY <1>1, <3>2 DEF Bind, Importing, Wanted
        <4>2. \A n \in Needed(Current.from) : at[n] # 0
          BY <4>1 DEF Missing
        <4>3. Current.from \in DOMAIN Body
          BY <1>1, <4>1, TopFacts
        <4> QED
          BY <1>5, <3>1, <4>1, <4>2, <4>3, NeededTyped DEF Done
      <3>3. ASSUME Define PROVE Done(m, i)'
        <4>1. Current.from = Nothing /\ Mapping = Current.names \cap Classes
          BY <3>3 DEF Define, Mapping
        <4>2. Mapping \subseteq registered'[BaseOf(Top)]
          <5>1. ASSUME Mapping # {} PROVE BaseOf(Top) \in DOMAIN Body
            BY <5>1, MappingDeclared
          <5> QED
            BY <3>3, <5>1 DEF Define, ImportsTypeOK
        <4> QED
          BY <2>3, <3>1, <4>1, <4>2 DEF Done
      <3> QED
        BY <3>2, <3>3
    <2> QED
      BY <1>2, <1>3, <2>1, <2>2, <2>3
  <1>7. Loaded(Seed)' => Loaded(Seed)
    <2>1. Seed \in DOMAIN Body
      BY DEF SeedIsScript
    <2> QED
      BY <1>1, <1>2, <1>3, <2>1 DEF Loaded
  <1>8. failed = {} => SeedFindsTables'
    <2>1. ModelsBase \in DOMAIN Body
      BY DEF SeedIsScript
    <2> QED
      BY <1>1, <1>4, <1>7, <2>1 DEF NothingLost, SeedFindsTables, Seed, ModelsBase
  <1> QED
    BY <1>1, <1>6, <1>8 DEF NothingLost

\* When the seed script has come to its end it is alone on the stack, so that all
\* in sys.modules has come to its end, too.
LEMMA SeedEnds ==
    ASSUME ImportsTypeOK, InModules, SeedIsScript, SeedReachesModels, NothingLost, failed = {},
           stack # << >>, Top = Seed, ~Running
    PROVE  registered[ModelsBase] = Classes
  <1>1. Top = stack[Len(stack)] /\ Len(stack) \in Nat \ {0} /\ stack \in Seq(DOMAIN Body)
    BY TopFacts DEF ImportsTypeOK
  <1>2. Len(stack) = 1
    <2>1. Len(stack) \notin 2..Len(stack)
      BY <1>1 DEF NothingLost
    <2> PICK n \in Nat \ {0} : n = Len(stack)
      BY <1>1
    <2>2. n \notin 2..n => n = 1
      OBVIOUS
    <2> QED
      BY <2>1, <2>2
  <1>3. Range(stack) = {Seed}
    <2>1. DOMAIN stack = {1} /\ stack[1] = Seed
      BY <1>1, <1>2
    <2> QED
      BY <2>1 DEF Range
  <1>4. at[Seed] = Len(Body[Seed]) + 1 /\ Seed \in DOMAIN Body
    <2>1. at[Top] \in 1..Len(Body[Top]) + 1 /\ ~(at[Top] <= Len(Body[Top])) /\ Top \in DOMAIN Body
      BY TopFacts DEF Running
    <2> QED
      BY <2>1, BodyLengths
  <1> DEFINE S == {m \in DOMAIN Body : at[m] # 0}
  <1>5. \A m \in S : at[m] = Len(Body[m]) + 1
    <2>1. \A m \in DOMAIN Body : at[m] \in 0..(Len(Body[m]) + 1) /\ (at[m] \in 1..Len(Body[m]) => m = Seed)
      BY <1>3 DEF ImportsTypeOK
    <2> QED
      BY <1>4, <2>1, BodyLengths
  <1>6. \A m \in S : \A i \in DOMAIN Body[m] : Done(m, i)
    <2> SUFFICES ASSUME NEW m \in S, NEW i \in DOMAIN Body[m] PROVE Done(m, i)
      OBVIOUS
    <2>1. i < at[m]
      BY <1>5, BodyLengths, BodyDomains
    <2> QED
      BY <2>1 DEF NothingLost
  <1>7. Closed(S)
    <2> SUFFICES ASSUME NEW m \in S, NEW i \in DOMAIN Body[m], Body[m][i].from # Nothing,
                        NEW n \in Needed(Body[m][i].from)
                 PROVE  n \in S
      BY DEF Closed
    <2>1. n \in DOMAIN Body
      BY Statements, BodyLengths, BodyDomains, NeededTyped
    <2> QED
      BY <1>6, <2>1 DEF Done
  <1>8. Seed \in S
    BY <1>4, BodyLengths
  <1> HIDE DEF S
  <1>9. S \in SUBSET DOMAIN Body
    BY DEF S
  <1>10. ASSUME NEW c \in Classes PROVE c \in registered[ModelsBase]
    <2>1. PICK m \in S : c \in Declares(m) /\ BaseOf(m) = ModelsBase
      BY <1>7, <1>8, <1>9 DEF SeedReachesModels
    <2>2. PICK i \in DOMAIN Body[m] : Body[m][i].from = Nothing /\ c \in Body[m][i].names
      BY <2>1 DEF Declares
    <2> QED
      BY <1>6, <2>1, <2>2 DEF Done
  <1> QED
    BY <1>10 DEF ImportsTypeOK, SeedIsScript

LEMMA LeavesNothingLost ==
    ASSUME ImportsTypeOK, InModules, SeedIsScript, SeedReachesModels, NothingLost, Leave PROVE NothingLost'
  <1>1. /\ stack # << >> /\ ~Running /\ stack' = Front(stack) /\ UNCHANGED <<at, registered, failed>>
        /\ stack \in Seq(DOMAIN Body)
    BY DEF Leave, ImportsTypeOK
  <1>2. /\ Len(stack') = Len(stack) - 1 /\ Len(stack) \in Nat /\ \A i \in 1..Len(stack) - 1 : stack'[i] = stack[i]
        /\ Range(stack) = Range(stack') \cup {Top}
    BY <1>1, Popped DEF Top
  <1>3. \A i \in 2..Len(stack') : stack'[i] # Seed
    <2>1. \A i \in 2..Len(stack') : i \in 2..Len(stack) /\ i \in 1..Len(stack) - 1
      BY <1>2
    <2> QED
      BY <1>2, <2>1 DEF NothingLost
  <1>4. Loaded(Seed)' => Loaded(Seed) \/ Top = Seed
    BY <1>1, <1>2 DEF Loaded
  <1>5. failed = {} => SeedFindsTables'
    BY <1>1, <1>4, SeedEnds DEF NothingLost, SeedFindsTables, Seed, ModelsBase
  <1>6. \A m \in DOMAIN Body : \A i \in DOMAIN Body[m] : Done(m, i)' <=> Done(m, i)
    BY <1>1 DEF Done
  <1> QED
    BY <1>1, <1>3, <1>5, <1>6 DEF NothingLost

LEMMA NextNothingLost ==
    ASSUME SeedIsScript, SeedReachesModels
    PROVE  ImportsTypeOK /\ InModules /\ NothingLost /\ [ImportsNext]_vars => NothingLost'
  <1> SUFFICES ASSUME ImportsTypeOK, InModules, NothingLost, [ImportsNext]_vars PROVE NothingLost'
    OBVIOUS
  <1>1. ASSUME UNCHANGED <<stack, at, registered, failed>> PROVE NothingLost'
    BY <1>1 DEF NothingLost, Done, SeedFindsTables, Loaded
  <1>2. (\E e \in Entries : Ask(e)) \/ Finish \/ UNCHANGED vars => UNCHANGED <<stack, at, registered, failed>>
    BY DEF Ask, Finish, vars
  <1>3. ASSUME ImportError PROVE NothingLost'
    <2>1. failed' # {} /\ Len(stack') = 0
      BY <1>3 DEF ImportError, Raise
    <2> QED
      BY <2>1 DEF NothingLost
  <1> QED
    BY <1>1, <1>2, <1>3, EntersNothingLost, RunsNothingLost, LeavesNothingLost DEF ImportsNext

\* seed_dev.py:16-19, database.py:75-78 and app/models/__init__.py.  Whatever
\* was imported before, in whatever order: if nothing failed, init_db creates
\* the tables of all classes to which the imports of the script lead.
THEOREM SeedScriptFindsTables == ASSUME SeedIsScript, SeedReachesModels PROVE ImportsSpec => []SeedFindsTables
  <1>1. ImportsInit => NothingLost
    <2> SUFFICES ASSUME ImportsInit PROVE NothingLost
      OBVIOUS
    <2>1. Len(stack) = 0 /\ \A m \in DOMAIN Body : at[m] = 0
      BY DEF ImportsInit
    <2>2. \A m \in DOMAIN Body : \A i \in DOMAIN Body[m] : ~(i < at[m])
      BY <2>1, BodyLengths, BodyDomains
    <2>3. ~Loaded(Seed)
      BY <2>1, BodyLengths DEF Loaded, SeedIsScript
    <2> QED
      BY <2>1, <2>2, <2>3 DEF NothingLost, SeedFindsTables, Seed
  <1>2. NothingLost => SeedFindsTables
    BY DEF NothingLost, SeedFindsTables
  <1>3. ImportsTypeOK /\ InModules /\ NothingLost /\ [ImportsNext]_vars => NothingLost'
    BY NextNothingLost
  <1> QED
    BY <1>1, <1>2, <1>3, InitInModules, NextInModules, PTL DEF ImportsSpec

-------------------------------------------------------------------------------
(* Once a package has been loaded whose modules import each other in a     *)
(* circle, nothing is left that could fail.                                *)
ModelsPackage == "app.models"

\* The modules to which the from statements of m lead, over any number of others.
FromClosed(S) == \A m \in S : \A i \in DOMAIN Body[m] : Body[m][i].from # Nothing => Body[m][i].from \in S
Behind(m) == {n \in DOMAIN Body : \A S \in SUBSET DOMAIN Body : (m \in S /\ FromClosed(S)) => n \in S}

\* A statement takes a name that its module has at its end only.
TakesLast(s) == \E n \in s.names : \A j \in 1..Len(Body[s.from]) - 1 : n \notin Body[s.from][j].names

\* The modules behind app.models take from each other a name that comes last: what
\* they have taken it from has ended.
ModelsTakeLast ==
    /\ ModelsPackage \in DOMAIN Body
    /\ \A m \in Behind(ModelsPackage) : \A i \in DOMAIN Body[m] : Body[m][i].from # Nothing => TakesLast(Body[m][i])

\* The names that statements take are names that their modules have at the end.
NamesProvided == \A m \in DOMAIN Body : \A i \in DOMAIN Body[m] :
    Body[m][i].from # Nothing =>
        \A n \in Body[m][i].names : \E j \in DOMAIN Body[Body[m][i].from] : n \in Body[Body[m][i].from][j].names

\* The other modules import downwards, apart from packages that import their own submodules.
ImportsDownwards(rank) ==
    \A m \in DOMAIN Body \ Behind(ModelsPackage) : \A i \in DOMAIN Body[m] : Body[m][i].from # Nothing =>
        \A n \in Needed(Body[m][i].from) :
            n \in Behind(ModelsPackage) \/ rank[n] < rank[m] \/ (n = m /\ n # Body[m][i].from)

Finished(m) == at[m] = Len(Body[m]) + 1

\* Only the module on top may have come to its end; modules behind app.models have
\* taken names only from modules that have; and as far as the modules on the stack
\* are not behind app.models, each is lower than those that wait for it.
Descends(rank) ==
    /\ \A k \in 1..Len(stack) - 1 : at[stack[k]] <= Len(Body[stack[k]])
    /\ \A m \in Behind(ModelsPackage) : \A i \in DOMAIN Body[m] :
          (i < at[m] /\ Body[m][i].from # Nothing) => Finished(Body[m][i].from)
    /\ \A j, k \in 1..Len(stack) :
          (j < k /\ \A i \in j..k : stack[i] \notin Behind(ModelsPackage)) => rank[stack[k]] < rank[stack[j]]

LEMMA BehindClosed ==
    ASSUME NEW m \in Behind(ModelsPackage), NEW i \in DOMAIN Body[m], Body[m][i].from # Nothing
    PROVE  m \in DOMAIN Body /\ Body[m][i].from \in Behind(ModelsPackage)
  <1>1. m \in DOMAIN Body
    BY DEF Behind
  <1>2. Body[m][i].from \in DOMAIN Body
    BY <1>1, Statements, BodyDomains
  <1>3. ASSUME NEW S \in SUBSET DOMAIN Body, ModelsPackage \in S, FromClosed(S) PROVE Body[m][i].from \in S
    <2>1. m \in S
      BY <1>3 DEF Behind
    <2> QED
      BY <1>3, <2>1 DEF FromClosed
  <1> QED
    BY <1>1, <1>2, <1>3 DEF Behind

\* Once app.models has come to its end, so has all that is behind it.
LEMMA BehindFinished ==
    ASSUME NEW rank, ModelsTakeLast, ImportsTypeOK, Descends(rank), Finished(ModelsPackage),
           NEW m \in Behind(ModelsPackage)
    PROVE  Finished(m)
  <1> DEFINE S == {n \in Behind(ModelsPackage) : Finished(n)}
  <1>1. ModelsPackage \in S
    BY DEF ModelsTakeLast, Behind
  <1>2. FromClosed(S)
    <2> SUFFICES ASSUME NEW n \in S, NEW i \in DOMAIN Body[n], Body[n][i].from # Nothing PROVE Body[n][i].from \in S
      BY DEF FromClosed
    <2>1. n \in DOMAIN Body /\ Body[n][i].from \in Behind(ModelsPackage)
      BY BehindClosed
    <2>2. i < at[n]
      BY <2>1, BodyDomains, BodyLengths DEF Finished
    <2> QED
      BY <2>1, <2>2 DEF Descends
  <1>3. S \in SUBSET DOMAIN Body
    BY DEF Behind
  <1> HIDE DEF S
  <1>4. m \in S
    BY <1>1, <1>2, <1>3 DEF Behind
  <1> QED
    BY <1>4 DEF S

LEMMA EntersDescending ==
    ASSUME NEW rank \in [DOMAIN Body -> Nat], ImportsDownwards(rank), ImportsTypeOK, InModules, Descends(rank), Enter
    PROVE  Descends(rank)'
  <1> DEFINE n == NextMissing
  <1>1. /\ n \in DOMAIN Body /\ at[n] = 0 /\ n \notin Range(stack) /\ n \in Needed(Wanted)
        /\ stack' = Append(stack, n)
        /\ \A m \in DOMAIN Body : at'[m] = IF m = n THEN 1 ELSE at[m]
        /\ stack # << >> => Running /\ Current.from # Nothing /\ Wanted = Current.from
    BY NextMissingFacts DEF Enter, ImportsTypeOK
  <1> HIDE DEF n
  <1>2. /\ Len(stack) \in Nat /\ Len(stack') = Len(stack) + 1
        /\ \A i \in 1..Len(stack) : stack'[i] = stack[i] /\ stack[i] \in Range(stack) /\ stack[i] \in DOMAIN Body
        /\ stack'[Len(stack) + 1] = n
    <2>1. stack \in Seq(DOMAIN Body)
      BY DEF ImportsTypeOK
    <2>2. /\ Len(stack) \in Nat /\ DOMAIN stack = 1..Len(stack)
          /\ \A i \in 1..Len(stack) : stack[i] \in DOMAIN Body
      BY <2>1
    <2> QED
      BY <1>1, <2>1, <2>2, Pushed DEF Range
  <1> PICK len \in Nat : len = Len(stack)
    BY <1>2
  <1>3. stack # << >> => /\ Top = stack[len] /\ len # 0 /\ at[Top] \in DOMAIN Body[Top] /\ Top \in DOMAIN Body
                         /\ at[Top] <= Len(Body[Top])
    BY <1>1, TopFacts, Statements, BodyDomains
  <1>4. len # 0 => stack # << >>
    OBVIOUS
  <1>5. \A k \in 1..len : at[stack[k]] <= Len(Body[stack[k]])
    <2>1. \A k \in 1..len : k \in 1..len - 1 \/ k = len
      OBVIOUS
    <2>2. \A k \in 1..len - 1 : at[stack[k]] <= Len(Body[stack[k]])
      BY DEF Descends
    <2>3. len \in 1..len => at[stack[len]] <= Len(Body[stack[len]])
      BY <1>3, <1>4
    <2> QED
      BY ONLY <2>1, <2>2, <2>3
  <1>6. \A k \in 1..Len(stack') - 1 : at'[stack'[k]] <= Len(Body[stack'[k]])
    <2>1. Len(stack') - 1 = len
      BY <1>2
    <2>2. \A k \in 1..len : stack[k] # n
      BY <1>1, <1>2
    <2> QED
      BY <1>1, <1>2, <1>5, <2>1, <2>2
  <1>7. \A m \in DOMAIN Body : Finished(m) => Finished(m)'
    BY <1>1, BodyLengths DEF Finished
  <1>8. \A m \in Behind(ModelsPackage) : \A i \in DOMAIN Body[m] :
            (i < at'[m] /\ Body[m][i].from # Nothing) => Finished(Body[m][i].from)'
    <2> SUFFICES ASSUME NEW m \in Behind(ModelsPackage), NEW i \in DOMAIN Body[m], i < at'[m], Body[m][i].from # Nothing
                 PROVE  Finished(Body[m][i].from)'
      OBVIOUS
    <2>1. m \in DOMAIN Body /\ Body[m][i].from \in DOMAIN Body /\ i \in 1..Len(Body[m]) /\ Len(Body[m]) \in Nat
      BY BehindClosed, Statements, BodyDomains, BodyLengths
    <2>2. i < at[m]
      <3>1. m # n
        BY <1>1, <2>1
      <3> QED
        BY <1>1, <2>1, <3>1
    <2> QED
      BY <1>7, <2>1, <2>2 DEF Descends
  <1>9. ASSUME len # 0, n \notin Behind(ModelsPackage), stack[len] \notin Behind(ModelsPackage)
        PROVE  rank[n] < rank[stack[len]]
    <2>1. stack # << >>
      BY <1>4, <1>9
    <2>2. n # Top
      BY <1>1, <2>1, TopFacts
    <2>3. n \in Needed(Body[Top][at[Top]].from) /\ Body[Top][at[Top]].from # Nothing
      BY <1>1, <2>1 DEF Current
    <2> QED
      BY <1>3, <1>9, <2>1, <2>2, <2>3 DEF ImportsDownwards
  <1>10. ASSUME NEW j \in 1..len + 1, NEW k \in 1..len + 1, j < k,
                \A i \in j..k : stack'[i] \notin Behind(ModelsPackage)
         PROVE  rank[stack'[k]] < rank[stack'[j]]
    <2>1. j \in 1..len /\ stack'[j] = stack[j] /\ \A i \in j..k : i # len + 1 => i \in 1..len /\ stack'[i] = stack[i]
      BY <1>2, <1>10
    <2>2. CASE k \in 1..len
      <3>1. stack'[k] = stack[k] /\ \A i \in j..k : stack[i] \notin Behind(ModelsPackage)
        BY <1>10, <2>1, <2>2
      <3> QED
        BY <1>10, <2>1, <2>2, <3>1 DEF Descends
    <2>3. CASE k = len + 1
      <3>1. stack'[k] = n /\ n \notin Behind(ModelsPackage) /\ len # 0
        BY <1>2, <1>10, <2>1, <2>3
      <3>2. \A i \in j..len : stack[i] \notin Behind(ModelsPackage)
        BY <1>10, <2>1, <2>3
      <3>3. len \in 1..len /\ stack[len] \notin Behind(ModelsPackage)
        BY <2>1, <3>2
      <3>4. rank[n] < rank[stack[len]]
        BY <1>9, <3>1, <3>3
      <3>5. rank[stack[len]] \in Nat /\ rank[stack[j]] \in Nat /\ rank[n] \in Nat
        BY <1>1, <1>2, <2>1, <3>3
      <3>6. j # len => rank[stack[len]] < rank[stack[j]]
        BY <2>1, <3>2, <3>3 DEF Descends
      <3> QED
        BY <2>1, <3>1, <3>4, <3>5, <3>6
    <2> QED
      BY <2>2, <2>3
  <1> QED
    BY <1>2, <1>6, <1>8, <1>10 DEF Descends

LEMMA RunsDescending ==
    ASSUME NEW rank, ModelsTakeLast, ImportsTypeOK, InModules, Descends(rank), Bind \/ Define PROVE Descends(rank)'
  <1>1. /\ Running /\ stack # << >> /\ stack' = stack /\ at' = [at EXCEPT ![Top] = @ + 1]
    BY DEF Bind, Define, Running
  <1>2. Top \in DOMAIN Body /\ Top = stack[Len(stack)] /\ Len(stack) \in Nat \ {0} /\ at[Top] \in 1..Len(Body[Top])
    BY <1>1, TopFacts
  <1>3. \A m \in DOMAIN Body : at'[m] = IF m = Top THEN at[m] + 1 ELSE at[m]
    BY <1>1 DEF ImportsTypeOK
  <1>4. \A k \in 1..Len(stack) - 1 : stack[k] \in DOMAIN Body /\ stack[k] # Top
    <2>1. DOMAIN stack = 1..Len(stack) /\ IsInjective(stack) /\ \A k \in 1..Len(stack) : stack[k] \in DOMAIN Body
      BY DEF ImportsTypeOK
    <2>2. \A k \in 1..Len(stack) - 1 : k \in 1..Len(stack) /\ Len(stack) \in 1..Len(stack) /\ k # Len(stack)
      BY <1>2
    <2> QED
      BY <1>2, <2>1, <2>2 DEF IsInjective
  <1>5. \A k \in 1..Len(stack) - 1 : at'[stack[k]] <= Len(Body[stack[k]])
    BY <1>3, <1>4 DEF Descends
  <1>6. \A m \in DOMAIN Body : Finished(m) => Finished(m)'
    BY <1>2, <1>3, BodyLengths DEF Finished
  <1>7. ASSUME NEW m \in Behind(ModelsPackage), NEW i \in DOMAIN Body[m], i < at'[m], Body[m][i].from # Nothing
        PROVE  Finished(Body[m][i].from)'
    <2>1. m \in DOMAIN Body /\ Body[m][i].from \in DOMAIN Body /\ i \in 1..Len(Body[m]) /\ Len(Body[m]) \in Nat
      BY <1>7, BehindClosed, Statements, BodyDomains, BodyLengths
    <2>2. CASE i < at[m]
      BY <1>6, <1>7, <2>1, <2>2 DEF Descends
    <2>3. CASE ~(i < at[m])
      <3>1. m = Top /\ i = at[Top]
        <4>1. at[m] \in Nat /\ i \in Nat
          BY <2>1 DEF ImportsTypeOK
        <4>2. m = Top
          BY <1>3, <1>7, <2>1, <2>3
        <4> QED
          BY <1>3, <1>7, <2>1, <2>3, <4>1, <4>2
      <3>2. Current = Body[m][i] /\ Bind
        BY <1>7, <3>1 DEF Current, Define, Bind
      <3> DEFINE f == Body[m][i].from
      <3>3. PICK c \in Body[m][i].names : \A j \in 1..Len(Body[f]) - 1 : c \notin Body[f][j].names
        BY <1>7 DEF ModelsTakeLast, TakesLast
      <3>4. PICK j \in 1..at[f] - 1 : c \in Body[f][j].names
        BY <3>2 DEF Bind, Bound
      <3>5. f \in DOMAIN Body
        BY <2>1
      <3> HIDE DEF f
      <3>6. at[f] \in 0..(Len(Body[f]) + 1) /\ Len(Body[f]) \in Nat
        BY <3>5, BodyLengths DEF ImportsTypeOK
      <3>7. Finished(f)
        BY <3>3, <3>4, <3>6 DEF Finished
      <3> QED
        BY <1>6, <3>5, <3>7 DEF f
    <2> QED
      BY <2>2, <2>3
  <1> QED
    BY <1>1, <1>5, <1>7 DEF Descends

LEMMA LeavesDescending ==
    ASSUME NEW rank, ImportsTypeOK, InModules, Descends(rank), Leave PROVE Descends(rank)'
  <1>1. stack # << >> /\ stack' = Front(stack) /\ at' = at /\ stack \in Seq(DOMAIN Body)
    BY DEF Leave, ImportsTypeOK
  <1>2. Len(stack') = Len(stack) - 1 /\ Len(stack) \in Nat /\ \A k \in 1..Len(stack) - 1 : stack'[k] = stack[k]
    BY <1>1, Popped
  <1>3. \A k \in 1..Len(stack') : k \in 1..Len(stack) - 1 /\ k \in 1..Len(stack)
    BY <1>2
  <1>4. \A k \in 1..Len(stack') - 1 : k \in 1..Len(stack') /\ k \in 1..Len(stack) - 1
    BY <1>2
  <1>5. ASSUME NEW j \in 1..Len(stack'), NEW k \in 1..Len(stack'), j < k,
               \A i \in j..k : stack'[i] \notin Behind(ModelsPackage)
        PROVE  rank[stack'[k]] < rank[stack'[j]]
    <2>1. \A i \in j..k : i \in 1..Len(stack')
      BY <1>2
    <2>2. \A i \in j..k : stack[i] \notin Behind(ModelsPackage)
      BY <1>2, <1>3, <1>5, <2>1
    <2> QED
      BY <1>2, <1>3, <1>5, <2>2 DEF Descends
  <1> QED
    BY <1>1, <1>2, <1>4, <1>5 DEF Descends, Finished

LEMMA RaiseDescending ==
    ASSUME NEW rank, ImportsTypeOK, InModules, Descends(rank), ImportError PROVE Descends(rank)'
  <1>1. /\ Running /\ stack # << >> /\ stack' = << >>
        /\ \A m \in DOMAIN Body : at'[m] = IF m \in Range(stack) THEN 0 ELSE at[m]
    BY DEF ImportError, Raise, Running
  <1>2. Top = stack[Len(stack)] /\ at[Top] <= Len(Body[Top]) /\ Len(stack) \in Nat /\ DOMAIN stack = 1..Len(stack)
    BY <1>1, TopFacts DEF Running, ImportsTypeOK
  <1> PICK len \in Nat : len = Len(stack)
    BY <1>2
  <1>3. \A m \in Range(stack) : at[m] <= Len(Body[m])
    <2>1. \A k \in 1..len : k \in 1..len - 1 \/ k = len
      OBVIOUS
    <2>2. \A k \in 1..len - 1 : at[stack[k]] <= Len(Body[stack[k]])
      BY DEF Descends
    <2>3. \A k \in 1..len : at[stack[k]] <= Len(Body[stack[k]])
      BY <1>2, <2>1, <2>2
    <2> QED
      BY <1>2, <2>3 DEF Range
  <1>4. \A m \in DOMAIN Body : Finished(m) => Finished(m)'
    BY <1>1, <1>3, BodyLengths DEF Finished
  <1>5. ASSUME NEW m \in Behind(ModelsPackage), NEW i \in DOMAIN Body[m], i < at'[m], Body[m][i].from # Nothing
        PROVE  Finished(Body[m][i].from)'
    <2>1. m \in DOMAIN Body /\ Body[m][i].from \in DOMAIN Body /\ i \in 1..Len(Body[m]) /\ Len(Body[m]) \in Nat
      BY <1>5, BehindClosed, Statements, BodyDomains, BodyLengths
    <2>2. i < at[m]
      BY <1>1, <1>5, <2>1
    <2> QED
      BY <1>4, <1>5, <2>1, <2>2 DEF Descends
  <1>6. 1..Len(stack') = {} /\ 1..Len(stack') - 1 = {}
    BY <1>1
  <1> QED
    BY <1>5, <1>6 DEF Descends

LEMMA NextDescending ==
    ASSUME NEW rank \in [DOMAIN Body -> Nat], ModelsTakeLast, ImportsDownwards(rank)
    PROVE  ImportsTypeOK /\ InModules /\ Descends(rank) /\ [ImportsNext]_vars => Descends(rank)'
  <1> SUFFICES ASSUME ImportsTypeOK, InModules, Descends(rank), [ImportsNext]_vars PROVE Descends(rank)'
    OBVIOUS
  <1>1. ASSUME UNCHANGED <<stack, at>> PROVE Descends(rank)'
    BY <1>1 DEF Descends, Finished
  <1>2. (\E e \in Entries : Ask(e)) \/ Finish \/ UNCHANGED vars => UNCHANGED <<stack, at>>
    BY DEF Ask, Finish, vars
  <1> QED
    BY <1>1, <1>2, EntersDescending, RunsDescending, LeavesDescending, RaiseDescending DEF ImportsNext

\* With app.models loaded, a name that is not there would have to come from a
\* module lower down the stack, which imports downwards.
LEMMA NothingMissing ==
    ASSUME NEW rank \in [DOMAIN Body -> Nat], ModelsTakeLast, ImportsDownwards(rank), NamesProvided,
           ImportsTypeOK, InModules, Descends(rank), Finished(ModelsPackage), ImportError
    PROVE  FALSE
  <1>1. /\ Running /\ stack # << >> /\ Importing /\ Missing = {} /\ ~(Current.names \subseteq Bound(Current.from))
    BY DEF ImportError, Running
  <1>2. /\ Top \in DOMAIN Body /\ Top = stack[Len(stack)] /\ Len(stack) \in Nat \ {0}
        /\ at[Top] \in 1..Len(Body[Top]) /\ at[Top] \in DOMAIN Body[Top]
    BY <1>1, TopFacts, BodyDomains
  <1> DEFINE f == Current.from
  <1>3. f # Nothing /\ f \in DOMAIN Body /\ at[f] # 0
    <2>1. f # Nothing /\ f \in DOMAIN Body /\ Wanted = f
      BY <1>1, TopFacts DEF Importing, Wanted
    <2> QED
      BY <1>1, <2>1 DEF Missing, Needed
  <1>4. ~Finished(f)
    <2> SUFFICES ASSUME Finished(f) PROVE FALSE
      OBVIOUS
    <2>1. PICK c \in Current.names : c \notin Bound(f)
      BY <1>1
    <2>2. PICK j \in DOMAIN Body[f] : c \in Body[f][j].names
      BY <1>2, <1>3, <2>1 DEF NamesProvided, Current
    <2>3. j \in 1..at[f] - 1
      BY <1>3, <2>2, BodyDomains, BodyLengths DEF Finished
    <2> QED
      BY <2>1, <2>2, <2>3 DEF Bound
  <1>5. f \notin Behind(ModelsPackage)
    BY <1>4, BehindFinished
  <1>6. \A k \in 1..Len(stack) : stack[k] \in DOMAIN Body /\ stack[k] \notin Behind(ModelsPackage)
    <2>1. \A k \in 1..Len(stack) : at[stack[k]] <= Len(Body[stack[k]])
      <3> PICK len \in Nat : len = Len(stack)
        BY <1>2
      <3>1. \A k \in 1..len : k \in 1..len - 1 \/ k = len
        OBVIOUS
      <3>2. \A k \in 1..len - 1 : at[stack[k]] <= Len(Body[stack[k]])
        BY DEF Descends
      <3>3. at[stack[len]] <= Len(Body[stack[len]])
        BY <1>1, <1>2 DEF Running
      <3> QED
        BY ONLY <3>1, <3>2, <3>3, len = Len(stack)
    <2>2. \A k \in 1..Len(stack) : stack[k] \in DOMAIN Body
      BY DEF ImportsTypeOK
    <2> QED
      BY <2>1, <2>2, BehindFinished, BodyLengths DEF Finished
  <1>7. PICK k \in 1..Len(stack) : stack[k] = f
    <2>1. at[f] \in 1..Len(Body[f])
      <3>1. at[f] \in 0..(Len(Body[f]) + 1) /\ Len(Body[f]) \in Nat
        BY <1>3, BodyLengths DEF ImportsTypeOK
      <3> QED
        BY <1>3, <1>4, <3>1 DEF Finished
    <2>2. f \in Range(stack) /\ DOMAIN stack = 1..Len(stack)
      BY <1>3, <2>1 DEF ImportsTypeOK
    <2> QED
      BY <2>2 DEF Range
  <1>8. Top \notin Behind(ModelsPackage) /\ Len(stack) \in 1..Len(stack)
    BY <1>2, <1>6
  <1>9. rank[f] < rank[Top]
    BY <1>2, <1>3, <1>5, <1>8 DEF ImportsDownwards, Needed, Current
  <1> HIDE DEF f
  <1>10. k # Len(stack)
    <2>1. rank[f] \in Nat
      BY <1>3
    <2> QED
      BY <1>2, <1>7, <1>9, <2>1
  <1>11. rank[Top] < rank[f]
    <2>1. k < Len(stack) /\ \A i \in k..Len(stack) : i \in 1..Len(stack)
      BY <1>2, <1>7, <1>10
    <2> QED
      BY <1>2, <1>6, <1>7, <1>8, <2>1 DEF Descends
  <1>12. rank[f] \in Nat /\ rank[Top] \in Nat
    BY <1>2, <1>3
  <1> QED
    BY <1>9, <1>11, <1>12

\* app/models/__init__.py:7-14 with the files that import it.  The order in which
\* modules are asked for no longer matters once app.models is loaded, as long as
\* what it imports takes names from each other that come last, and all other
\* imports go one way.
THEOREM ModelsSuffice ==
    ASSUME NEW rank \in [DOMAIN Body -> Nat], ModelsTakeLast, ImportsDownwards(rank), NamesProvided
    PROVE  ImportsSpec => AppModelsSuffices
  <1>1. ImportsInit => Descends(rank)
    <2> SUFFICES ASSUME ImportsInit PROVE Descends(rank)
      OBVIOUS
    <2>1. 1..Len(stack) = {} /\ 1..Len(stack) - 1 = {} /\ \A m \in DOMAIN Body : at[m] = 0
      BY DEF ImportsInit
    <2>2. \A m \in Behind(ModelsPackage) : \A i \in DOMAIN Body[m] : ~(i < at[m])
      BY <2>1, BodyLengths, BodyDomains DEF Behind
    <2> QED
      BY <2>1, <2>2 DEF Descends
  <1>2. ImportsTypeOK /\ InModules /\ Descends(rank) /\ [ImportsNext]_vars => Descends(rank)'
    BY NextDescending
  <1>3. ImportsTypeOK /\ InModules /\ Descends(rank) /\ [ImportsNext]_vars =>
            [Loaded("app.models") => failed' = failed]_vars
    <2> SUFFICES ASSUME ImportsTypeOK, InModules, Descends(rank), ImportsNext, Loaded(ModelsPackage)
                 PROVE  failed' = failed
      BY DEF ModelsPackage
    <2>1. Finished(ModelsPackage)
      BY DEF Loaded, Finished
    <2>2. ~ImportError
      BY <2>1, NothingMissing
    <2> QED
      BY <2>2 DEF ImportsNext, Ask, Enter, Bind, Define, Leave, Finish
  <1> QED
    BY <1>1, <1>2, <1>3, InitInModules, NextInModules, PTL DEF ImportsSpec, AppModelsSuffices
===============================================================================
