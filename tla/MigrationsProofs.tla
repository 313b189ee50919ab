--------------------------- MODULE MigrationsProofs ---------------------------
(***************************************************************************)
(* The commands that make and drop the tables, for any number of processes *)
(* and commands: locks keep what a transaction has found or made as it is  *)
(* until the transaction ends, so whatever a commit makes or drops, it     *)
(* makes or drops all of.                                                  *)
(***************************************************************************)
EXTENDS Migrations, SequenceTheorems, FiniteSetTheorems, TLAPS

CommonNames == {"users", "permissions", "roles", "role_permissions", "ingested_rows", "templates",
                "template_versions", "suggestions", "audit_logs", "sso_sessions"}

Todo(p) == Range(todo[p])
Absent(o) == catalog[o] = "absent"

\* A database that commands have left, one after the other (Left), except that
\* a version table without a stamp may have stayed behind.
Clean ==
    /\ catalog["users"] \in Origins \cup {"absent"}
    /\ \A t \in CommonTables : catalog[t] = catalog["users"]
    /\ catalog["user_roles"] \in {"absent", "sql"}
    /\ catalog[Trigger] = catalog["user_roles"] /\ catalog[UniqueKey] = catalog["user_roles"]
    /\ catalog["users"] \in {"absent", "revision"} => Absent("user_roles")
    /\ catalog["users"] = "sql" => ~Absent("user_roles")
    /\ Applied <=> catalog["users"] = "revision"

-------------------------------------------------------------------------------
(* Locks.                                                                  *)
Locks == Objects \X {"share", "exclusive"}

\* No two processes hold conflicting locks.
LocksAgree == \A p, q \in Procs : \A l \in held[p], m \in held[q] : p # q => ~Conflict(l, m)

\* What a transaction has made, dropped or stamped, it has locked.  The unique
\* key and the trigger come and go with their tables.
ChangesLocked ==
    \A p \in Procs : \A o \in DOMAIN change[p] \ {UniqueKey, Trigger} : <<o, "exclusive">> \in held[p]

-------------------------------------------------------------------------------
(* Where a command is: what it still has to do, has done, and has found,   *)
(* as far as its locks keep it so.                                         *)
Resting(p) == todo[p] = << >> /\ DOMAIN change[p] = {} /\ held[p] = {}

\* upgrade and downgrade before they have read the version, and when they have
\* nothing to do except that they make the version table.
Asking(p) == todo[p] = <<Statement("heads", Version)>> /\ DOMAIN change[p] = {}
Idle(p) ==
    /\ Todo(p) \subseteq {Statement("ensure", Version)}
    /\ DOMAIN change[p] \subseteq {Version}
    /\ Version \in DOMAIN change[p] => change[p][Version] = "empty" /\ Absent(Version)

\* The tables it has made were not there, and nobody else can have made them since.
MadeNew(p, origin) == \A t \in DOMAIN change[p] \cap Tables : change[p][t] = origin /\ Absent(t)

Upgrading(p) ==
    /\ Todo(p) \subseteq {Statement("ensure", Version), Statement("stamp", Version)}
                         \cup {Statement("create", t) : t \in CommonTables}
    /\ DOMAIN change[p] \subseteq CommonTables \cup {Version}
    /\ MadeNew(p, "revision")
    /\ \A t \in CommonTables : Statement("create", t) \in Todo(p) \/ t \in DOMAIN change[p]
    /\ Version \in DOMAIN change[p] => change[p][Version] \in {"empty", "stamped"}
    /\ Statement("stamp", Version) \in Todo(p)
       \/ (Version \in DOMAIN change[p] /\ change[p][Version] = "stamped")

Downgrading(p) ==
    /\ Todo(p) \subseteq {Statement("revoke", "audit_logs"), Statement("unstamp", Version)}
                         \cup {Statement("drop", t) : t \in CommonTables}
    /\ DOMAIN change[p] \subseteq CommonTables \cup {UniqueKey, Trigger, Version}
    /\ \A o \in DOMAIN change[p] \ {Version} : change[p][o] = "absent"
    /\ \A t \in CommonTables : Statement("drop", t) \in Todo(p)
                               \/ {t} \cup Attached(t) \subseteq DOMAIN change[p]
    /\ Statement("unstamp", Version) \in Todo(p) \/ Version \in DOMAIN change[p]
    /\ Version \in DOMAIN change[p] => change[p][Version] = "empty" /\ Applied

\* The file holds a lock on users from its second statement on.
Filing(p) ==
    /\ Todo(p) \subseteq Range(SqlFile)
    /\ DOMAIN change[p] \subseteq Tables \cup {UniqueKey, Trigger}
    /\ \A o \in DOMAIN change[p] : change[p][o] = "sql"
    /\ MadeNew(p, "sql")
    /\ Statement("index", "users") \in Todo(p) => todo[p] \in {SqlFile, Tail(SqlFile)}
    /\ Statement("index", "users") \in Todo(p)
       \/ (<<"users", "share">> \in held[p] /\ ("users" \in DOMAIN change[p] \/ ~Absent("users")))
    /\ Statement("index", "suggestions") \in Todo(p)
       \/ /\ <<"suggestions", "share">> \in held[p]
          /\ "suggestions" \in DOMAIN change[p] \/ catalog["suggestions"] # "revision"
    /\ Statement("index", "ingested_rows") \in Todo(p) \/ UniqueKey \in DOMAIN change[p]
    /\ Statement("trigger", "audit_logs") \in Todo(p) \/ Trigger \in DOMAIN change[p]

Looking(p) ==
    /\ todo[p] # << >> /\ Todo(p) \subseteq {Statement("look", t) : t \in CommonTables}
    /\ DOMAIN change[p] = {}
    /\ todo[p][Len(todo[p])] = Statement("look", "sso_sessions")
    /\ Statement("look", "users") \in Todo(p) => todo[p] = Each("look", Declared)
Creating(p) ==
    /\ Todo(p) \subseteq {Statement("create", t) : t \in missing[p]}
    /\ DOMAIN change[p] \subseteq missing[p]
    /\ MadeNew(p, "orm")
    /\ \A t \in missing[p] : Statement("create", t) \in Todo(p) \/ t \in DOMAIN change[p]
    /\ "sso_sessions" \in DOMAIN change[p] =>
          "users" \in DOMAIN change[p] \/ (<<"users", "exclusive">> \in held[p] /\ ~Absent("users"))

Running(p) ==
    /\ command[p] = "none" => Resting(p)
    /\ command[p] = "upgrade" => Asking(p) \/ Idle(p) \/ Upgrading(p)
    /\ command[p] = "downgrade" => Asking(p) \/ Idle(p) \/ Downgrading(p)
    /\ command[p] = "sql" => Filing(p)
    /\ command[p] = "create_all" => Looking(p) \/ Creating(p)
    /\ command[p] # "create_all" => missing[p] = {} /\ overtaken[p] = {}

-------------------------------------------------------------------------------
(* What the file and create_all know of all tables: more than their locks  *)
(* keep, as long as no create_all was overtaken in both directions.        *)
FiledAll(p) ==
    \A t \in Tables \ {"users"} :
        Statement("create_if_absent", t) \in Todo(p) \/ t \in DOMAIN change[p] \/ ~Absent(t)

\* Every table has been found missing or is still to be looked up.
FindsAll(p) == \A t \in CommonTables : t \in missing[p] \/ Statement("look", t) \in Todo(p)
Found(p) ==
    /\ overtaken[p] = {} => /\ Absent("users") => FindsAll(p)
                            /\ catalog["users"] = "revision" => missing[p] = {}
    /\ overtaken[p] = {"upgrade"} => catalog["users"] = "revision"
    /\ overtaken[p] = {"downgrade"} =>
          /\ catalog["users"] # "revision"
          /\ (Absent("users") /\ "users" \in missing[p]) => FindsAll(p)
          /\ (Absent("users") /\ missing[p] # {}) =>
                "sso_sessions" \in missing[p] \/ Statement("look", "sso_sessions") \in Todo(p)
Untorn(p) ==
    /\ command[p] = "sql" => FiledAll(p)
    /\ command[p] = "create_all" => Found(p)

Statements == [op : {"create_if_absent", "index", "trigger", "create", "stamp", "revoke", "drop",
                     "unstamp", "heads", "ensure", "look"}, on : Objects]
StatementsOK == todo \in [Procs -> Seq(Statements)]

IInv == /\ TypeOK /\ StatementsOK
        /\ LocksAgree /\ ChangesLocked
        /\ \A p \in Procs : Running(p)
        /\ ~torn => Clean /\ \A p \in Procs : Untorn(p)

-------------------------------------------------------------------------------
(* The tables and what they refer to.                                      *)
LEMMA TableNames ==
    /\ CommonTables = CommonNames
    /\ Tables = CommonNames \cup {"user_roles"}
    /\ DOMAIN AlembicSchema = CommonNames
  <1>1. CommonTables = CommonNames
    BY DEF CommonTables, CommonNames, OrmSchema, ++, OrmUser, OrmRole, OrmSession, OrmTemplate,
           OrmIngestedRow, OrmSuggestion, OrmAuditLog
  <1>2. Tables = CommonNames \cup {"user_roles"}
    BY DEF Tables, CommonNames, SqlSchema, ++, SqlIdentity, SqlPipeline, SqlPipelineWith, SqlAudit
  <1>3. DOMAIN AlembicSchema = CommonNames
    BY DEF CommonNames, AlembicSchema, ++, AlembicIdentity, AlembicTemplates, AlembicPipeline,
           AlembicAudit, AlembicSessions
  <1> QED
    BY <1>1, <1>2, <1>3

\* Every foreign key of these tables leads to a table.
LeadsToTables(schema) == \A t \in DOMAIN schema : \A c \in DOMAIN schema[t].fk : schema[t].fk[c].to \in Tables

LEMMA OverKeepsLeading ==
    ASSUME NEW f, NEW g, LeadsToTables(f), LeadsToTables(g)
    PROVE  LeadsToTables(f ++ g)
  BY DEF LeadsToTables, ++

LEMMA SchemasLead == LeadsToTables(SqlSchema) /\ LeadsToTables(AlembicSchema) /\ LeadsToTables(OrmSchema)
  <1> USE TableNames DEF LeadsToTables, CommonNames, Table, Named, NoKeys, References,
          RolePermissions, SsoSessions
  <1>1. LeadsToTables(SqlIdentity)
    BY DEF SqlIdentity
  <1>2. LeadsToTables(SqlPipeline)
    BY DEF SqlPipeline, SqlPipelineWith
  <1>3. LeadsToTables(SqlAudit)
    BY DEF SqlAudit
  <1>4. LeadsToTables(AlembicIdentity)
    BY DEF AlembicIdentity
  <1>5. LeadsToTables(AlembicTemplates)
    BY DEF AlembicTemplates
  <1>6. LeadsToTables(AlembicPipeline)
    BY DEF AlembicPipeline
  <1>7. LeadsToTables(AlembicAudit) /\ LeadsToTables(AlembicSessions)
    BY DEF AlembicAudit, AlembicSessions
  <1>8. LeadsToTables(OrmUser) /\ LeadsToTables(OrmRole) /\ LeadsToTables(OrmSession)
    BY DEF OrmUser, OrmRole, OrmSession
  <1>9. LeadsToTables(OrmTemplate) /\ LeadsToTables(OrmIngestedRow)
    BY DEF OrmTemplate, OrmIngestedRow
  <1>10. LeadsToTables(OrmSuggestion) /\ LeadsToTables(OrmAuditLog)
    BY DEF OrmSuggestion, OrmAuditLog
  <1> HIDE DEF LeadsToTables, Table, Named, NoKeys, References, RolePermissions, SsoSessions
  <1>11. LeadsToTables(SqlSchema)
    BY <1>1, <1>2, <1>3, OverKeepsLeading DEF SqlSchema
  <1>12. LeadsToTables(AlembicSchema)
    <2>1. LeadsToTables(AlembicIdentity ++ AlembicTemplates ++ AlembicPipeline)
      BY <1>4, <1>5, <1>6, OverKeepsLeading
    <2> QED
      BY <1>7, <2>1, OverKeepsLeading DEF AlembicSchema
  <1>13. LeadsToTables(OrmSchema)
    <2>1. LeadsToTables(OrmUser ++ OrmRole ++ OrmSession)
      BY <1>8, OverKeepsLeading
    <2>2. LeadsToTables(OrmUser ++ OrmRole ++ OrmSession ++ OrmTemplate ++ OrmIngestedRow)
      BY <1>9, <2>1, OverKeepsLeading
    <2> QED
      BY <1>10, <2>2, OverKeepsLeading DEF OrmSchema
  <1> QED
    BY <1>11, <1>12, <1>13

LEMMA ReferredAreTables ==
    ASSUME NEW origin \in Origins, NEW t \in DOMAIN TablesOf(origin)
    PROVE  Referred(origin, t) \subseteq Tables
  BY SchemasLead DEF Origins, TablesOf, Referred, LeadsToTables

\* A session of the models refers to its user.
LEMMA SessionRefersToUser == "users" \in Referred("orm", "sso_sessions")
  <1>1. OrmSchema["sso_sessions"] = OrmSession["sso_sessions"]
    BY DEF OrmSchema, ++, OrmUser, OrmRole, OrmSession, OrmTemplate,
           OrmIngestedRow, OrmSuggestion, OrmAuditLog
  <1>2. OrmSession["sso_sessions"].fk = [user_id |-> References("users", "CASCADE")]
    BY DEF OrmSession, SsoSessions, Table
  <1> QED
    BY <1>1, <1>2 DEF Referred, TablesOf, References

-------------------------------------------------------------------------------
(* The commands as sequences.                                              *)
LEMMA RangeHeadTail ==
    ASSUME NEW S, NEW s \in Seq(S), s # << >>
    PROVE  /\ Head(s) \in S /\ Tail(s) \in Seq(S)
           /\ Range(s) = {Head(s)} \cup Range(Tail(s))
           /\ Len(s) > 1 => Tail(s)[Len(Tail(s))] = s[Len(s)]
           /\ Len(s) <= 1 => Head(s) = s[Len(s)] /\ Tail(s) = << >>
           /\ Len(s) > 1 => Tail(s) # << >>
  <1>1. /\ DOMAIN s = 1..Len(s) /\ Len(s) \in Nat /\ Len(s) > 0 /\ Head(s) = s[1]
        /\ Tail(s) \in Seq(S) /\ Len(Tail(s)) = Len(s) - 1
        /\ DOMAIN Tail(s) = 1..(Len(s) - 1)
        /\ \A i \in 1..(Len(s) - 1) : Tail(s)[i] = s[i + 1]
    OBVIOUS
  <1>2. ASSUME NEW x \in Range(s) PROVE x \in {Head(s)} \cup Range(Tail(s))
    <2>1. PICK i \in 1..Len(s) : x = s[i]
      BY <1>1 DEF Range
    <2>2. CASE i # 1
      <3>1. i - 1 \in 1..(Len(s) - 1) /\ Tail(s)[i - 1] = x
        BY <1>1, <2>1, <2>2
      <3> QED
        BY <1>1, <3>1 DEF Range
    <2> QED
      BY <1>1, <2>1, <2>2
  <1>3. ASSUME NEW x \in {Head(s)} \cup Range(Tail(s)) PROVE x \in Range(s)
    BY <1>1, <1>3 DEF Range
  <1>4. Len(s) > 1 => Tail(s)[Len(Tail(s))] = s[Len(s)]
    BY <1>1
  <1>5. Range(s) = {Head(s)} \cup Range(Tail(s))
    BY <1>2, <1>3
  <1>6. Len(s) <= 1 => Tail(s) = << >>
    BY <1>1
  <1>7. ASSUME Len(s) > 1 PROVE Tail(s) # << >>
    <2>1. 1 \in DOMAIN Tail(s)
      BY <1>1, <1>7
    <2>2. DOMAIN << >> = {}
      OBVIOUS
    <2> QED
      BY <2>1, <2>2
  <1>8. Head(s) \in S /\ (Len(s) <= 1 => Head(s) = s[Len(s)])
    BY <1>1
  <1> QED
    BY <1>1, <1>4, <1>5, <1>6, <1>7, <1>8

LEMMA Concatenation ==
    ASSUME NEW s \in Seq(Statements), NEW t \in Seq(Statements)
    PROVE  s \o t \in Seq(Statements) /\ Range(s \o t) = Range(s) \cup Range(t)
  <1> HIDE DEF Statements
  <1>1. Range(s \o t) = Range(s) \cup Range(t)
    BY RangeConcatenation
  <1> QED
    BY <1>1

LEMMA OneStatement ==
    ASSUME NEW x \in Statements
    PROVE  <<x>> \in Seq(Statements) /\ Range(<<x>>) = {x}
  BY DEF Range

LEMMA RangeEmpty == Range(<< >>) = {}
  BY DEF Range

LEMMA EachRange ==
    ASSUME NEW op, NEW names \in Seq(Objects), \A t \in Objects : Statement(op, t) \in Statements
    PROVE  /\ Each(op, names) \in Seq(Statements) /\ Len(Each(op, names)) = Len(names)
           /\ Range(Each(op, names)) = {Statement(op, t) : t \in Range(names)}
  <1>1. /\ DOMAIN names = 1..Len(names) /\ Len(names) \in Nat
        /\ \A i \in 1..Len(names) : names[i] \in Objects
    OBVIOUS
  <1>2. Each(op, names) = [i \in 1..Len(names) |-> Statement(op, names[i])]
    BY <1>1 DEF Each
  <1> HIDE DEF Statement, Each, Statements
  <1>3. Each(op, names) \in Seq(Statements) /\ Len(Each(op, names)) = Len(names)
    BY <1>1, <1>2
  <1> QED
    BY <1>1, <1>2, <1>3 DEF Range

LEMMA StatementsOf ==
    /\ \A t \in Objects : /\ Statement("create", t) \in Statements /\ Statement("drop", t) \in Statements
                          /\ Statement("look", t) \in Statements /\ Statement("index", t) \in Statements
                          /\ Statement("create_if_absent", t) \in Statements
                          /\ Statement("trigger", t) \in Statements /\ Statement("stamp", t) \in Statements
                          /\ Statement("revoke", t) \in Statements /\ Statement("unstamp", t) \in Statements
                          /\ Statement("heads", t) \in Statements /\ Statement("ensure", t) \in Statements
    /\ Version \in Objects /\ Tables \subseteq Objects /\ CommonNames \subseteq Objects
    /\ \A op1, op2, t1, t2 : Statement(op1, t1) = Statement(op2, t2) <=> op1 = op2 /\ t1 = t2
    /\ \A op, t : Statement(op, t).op = op /\ Statement(op, t).on = t
  BY TableNames DEF Statement, Statements, Objects

LEMMA UpgradeRange ==
    /\ upgrade \in Seq(Statements)
    /\ Range(upgrade) = {Statement("create", t) : t \in CommonNames} \cup {Statement("stamp", Version)}
  <1>1. RevisionOrder \in Seq(Objects) /\ Range(RevisionOrder) = CommonNames
    BY StatementsOf DEF Range, RevisionOrder, CommonNames
  <1>2. /\ Each("create", RevisionOrder) \in Seq(Statements)
        /\ Range(Each("create", RevisionOrder)) = {Statement("create", t) : t \in CommonNames}
    BY <1>1, EachRange, StatementsOf
  <1>3. /\ <<Statement("stamp", Version)>> \in Seq(Statements)
        /\ Range(<<Statement("stamp", Version)>>) = {Statement("stamp", Version)}
    BY StatementsOf DEF Range
  <1> QED
    BY <1>2, <1>3, Concatenation DEF upgrade

LEMMA DowngradeRange ==
    /\ downgrade \in Seq(Statements)
    /\ Range(downgrade) = {Statement("drop", t) : t \in CommonNames}
                          \cup {Statement("revoke", "audit_logs"), Statement("unstamp", Version)}
  <1> DEFINE order == <<"sso_sessions", "audit_logs", "suggestions", "ingested_rows", "template_versions",
                   "templates", "role_permissions", "permissions", "roles", "users">>
             revoke == <<Statement("revoke", "audit_logs")>>
             unstamp == <<Statement("unstamp", Version)>>
  <1>1. order \in Seq(Objects) /\ Range(order) = CommonNames
    BY StatementsOf DEF Range, CommonNames
  <1>2. downgrade = revoke \o Each("drop", order) \o unstamp
    BY DEF downgrade
  <1>3. /\ unstamp \in Seq(Statements) /\ Range(unstamp) = {Statement("unstamp", Version)}
        /\ revoke \in Seq(Statements) /\ Range(revoke) = {Statement("revoke", "audit_logs")}
    BY StatementsOf DEF Range, CommonNames
  <1> HIDE DEF order, revoke, unstamp
  <1>4. /\ Each("drop", order) \in Seq(Statements)
        /\ Range(Each("drop", order)) = {Statement("drop", t) : t \in CommonNames}
    BY <1>1, EachRange, StatementsOf
  <1>5. /\ revoke \o Each("drop", order) \in Seq(Statements)
        /\ Range(revoke \o Each("drop", order)) = Range(revoke) \cup Range(Each("drop", order))
    BY <1>3, <1>4, Concatenation
  <1>6. /\ downgrade \in Seq(Statements)
        /\ Range(downgrade) = Range(revoke \o Each("drop", order)) \cup Range(unstamp)
    BY <1>2, <1>3, <1>5, Concatenation
  <1> QED
    BY <1>3, <1>4, <1>5, <1>6

\* create_all looks for all tables, users first and sso_sessions last.
LEMMA LookupsRange ==
    LET looks == Each("look", Declared)
    IN  /\ looks \in Seq(Statements) /\ looks # << >>
        /\ Range(looks) = {Statement("look", t) : t \in CommonNames}
        /\ looks[Len(looks)] = Statement("look", "sso_sessions")
        /\ Head(looks) = Statement("look", "users")
        /\ Statement("look", "users") \notin Range(Tail(looks))
  <1>1. /\ Declared \in Seq(Objects) /\ Range(Declared) = CommonNames /\ Len(Declared) = 10
        /\ Declared[1] = "users" /\ Declared[10] = "sso_sessions" /\ DOMAIN Declared = 1..10
    BY StatementsOf DEF Range, Declared, CommonNames
  <1>2. /\ Each("look", Declared) \in Seq(Statements) /\ Len(Each("look", Declared)) = 10
        /\ Range(Each("look", Declared)) = {Statement("look", t) : t \in CommonNames}
    BY <1>1, EachRange, StatementsOf
  <1>3. /\ Each("look", Declared)[1] = Statement("look", "users")
        /\ Each("look", Declared)[10] = Statement("look", "sso_sessions")
    BY <1>1 DEF Each
  <1>4. \A i \in 2..10 : Each("look", Declared)[i] # Statement("look", "users")
    <2>1. \A i \in 2..10 : Declared[i] # "users" /\ Each("look", Declared)[i] = Statement("look", Declared[i])
      BY <1>1 DEF Declared, Each
    <2> QED
      BY <2>1, StatementsOf
  <1> DEFINE looks == Each("look", Declared)
  <1> HIDE DEF Statement, Each, Statements, looks
  <1>5. /\ looks # << >> /\ Tail(looks) \in Seq(Statements) /\ Len(Tail(looks)) = 9
        /\ \A i \in 1..9 : Tail(looks)[i] = looks[i + 1]
    BY <1>2 DEF looks
  <1>6. DOMAIN Tail(looks) = 1..9
    <2>1. \A s \in Seq(Statements) : DOMAIN s = 1..Len(s)
      OBVIOUS
    <2> QED
      BY <1>5, <2>1
  <1>7. \A i \in 1..9 : Tail(looks)[i] # Statement("look", "users")
    BY <1>4, <1>5 DEF looks
  <1>8. Statement("look", "users") \notin Range(Tail(looks))
    BY <1>6, <1>7 DEF Range
  <1> QED
    BY <1>2, <1>3, <1>5, <1>8 DEF looks
\* The file: users and its index first, then the rest.
IndexedTables == {"users", "sso_sessions", "template_versions", "ingested_rows", "suggestions", "audit_logs"}
FileStatements == {Statement("create_if_absent", t) : t \in Tables}
                  \cup {Statement("index", t) : t \in IndexedTables} \cup {Statement("trigger", "audit_logs")}

LEMMA MadeRange ==
    ASSUME NEW t \in Tables
    PROVE  /\ Made(t) \in Seq(Statements) /\ Range(Made(t)) = {Statement("create_if_absent", t)}
           /\ Indexed(t) \in Seq(Statements)
           /\ Range(Indexed(t)) = {Statement("create_if_absent", t), Statement("index", t)}
  <1> DEFINE s == <<Statement("create_if_absent", t)>>
             i == <<Statement("index", t)>>
  <1>1. Statement("create_if_absent", t) \in Statements /\ Statement("index", t) \in Statements
    BY StatementsOf
  <1>2. /\ s \in Seq(Statements) /\ Range(s) = {Statement("create_if_absent", t)}
        /\ i \in Seq(Statements) /\ Range(i) = {Statement("index", t)}
    BY <1>1, OneStatement
  <1>3. Made(t) = s /\ Indexed(t) = s \o i
    BY DEF Made, Indexed
  <1> HIDE DEF s, i
  <1>4. s \o i \in Seq(Statements) /\ Range(s \o i) = Range(s) \cup Range(i)
    BY <1>2, Concatenation
  <1>5. Range(s \o i) = {Statement("create_if_absent", t), Statement("index", t)}
    BY <1>2, <1>4
  <1> QED
    BY <1>2, <1>3, <1>4, <1>5

LEMMA OthersRange ==
    /\ SqlOthers \in Seq(Statements)
    /\ Range(SqlOthers) = FileStatements \ {Statement("create_if_absent", "users"), Statement("index", "users")}
  <1> DEFINE Is(s, made, indexed) ==
                /\ s \in Seq(Statements)
                /\ Range(s) = {Statement("create_if_absent", t) : t \in made}
                              \cup {Statement("index", t) : t \in indexed}
  <1>1. ASSUME NEW s, NEW made, NEW indexed, NEW t \in Tables, Is(s, made, indexed)
        PROVE  /\ Is(s \o Made(t), made \cup {t}, indexed)
               /\ Is(s \o Indexed(t), made \cup {t}, indexed \cup {t})
    <2>1. /\ s \o Made(t) \in Seq(Statements) /\ Range(s \o Made(t)) = Range(s) \cup Range(Made(t))
          /\ s \o Indexed(t) \in Seq(Statements) /\ Range(s \o Indexed(t)) = Range(s) \cup Range(Indexed(t))
      BY <1>1, MadeRange, Concatenation
    <2> QED
      BY <1>1, <2>1, MadeRange
  <1>2. Is(Made("permissions"), {"permissions"}, {})
    BY MadeRange, TableNames DEF CommonNames
  <1> HIDE DEF Is
  <1> DEFINE s1 == Made("permissions") \o Made("roles") \o Made("role_permissions") \o Made("user_roles")
             s2 == s1 \o Indexed("sso_sessions") \o Made("templates") \o Indexed("template_versions")
             s3 == s2 \o Indexed("ingested_rows") \o Indexed("suggestions") \o Indexed("audit_logs")
             last == <<Statement("trigger", "audit_logs")>>
  <1>3. \A t \in CommonNames \cup {"user_roles"} : t \in Tables
    BY TableNames
  <1>4. Is(s1, {"permissions"} \cup {"roles"} \cup {"role_permissions"} \cup {"user_roles"}, {})
    BY <1>1, <1>2, <1>3 DEF CommonNames
  <1>5. SqlOthers = s3 \o last
    BY DEF SqlOthers
  <1> DEFINE m1 == {"permissions"} \cup {"roles"} \cup {"role_permissions"} \cup {"user_roles"}
             m2 == m1 \cup {"sso_sessions"} \cup {"templates"} \cup {"template_versions"}
             m3 == m2 \cup {"ingested_rows"} \cup {"suggestions"} \cup {"audit_logs"}
             i2 == {} \cup {"sso_sessions"} \cup {"template_versions"}
             i3 == i2 \cup {"ingested_rows"} \cup {"suggestions"} \cup {"audit_logs"}
  <1>6. /\ m3 = Tables \ {"users"} /\ i3 = IndexedTables \ {"users"}
    BY TableNames DEF CommonNames, IndexedTables
  <1>7. last \in Seq(Statements) /\ Range(last) = {Statement("trigger", "audit_logs")}
    BY OneStatement, StatementsOf DEF CommonNames
  <1> HIDE DEF s1, m1
  <1>8. Is(s2, m2, i2)
    BY <1>1, <1>3, <1>4 DEF CommonNames, m1
  <1> HIDE DEF s2, m2, i2
  <1>9. Is(s3, m3, i3)
    BY <1>1, <1>3, <1>8 DEF CommonNames
  <1> HIDE DEF s3, m3, i3, last
  <1>10. SqlOthers \in Seq(Statements) /\ Range(SqlOthers) = Range(s3) \cup Range(last)
    BY <1>5, <1>7, <1>9, Concatenation DEF Is
  <1>11. Range(s3) = {Statement("create_if_absent", t) : t \in Tables \ {"users"}}
                     \cup {Statement("index", t) : t \in IndexedTables \ {"users"}}
    BY <1>6, <1>9 DEF Is
  <1> QED
    BY <1>7, <1>10, <1>11, StatementsOf DEF FileStatements

LEMMA FirstAndRest ==
    ASSUME NEW x \in Statements, NEW s \in Seq(Statements)
    PROVE  LET t == <<x>> \o s IN t # << >> /\ Head(t) = x /\ Tail(t) = s
  <1> DEFINE t == <<x>> \o s
  <1> HIDE DEF Statements
  <1>1. /\ t \in Seq(Statements) /\ Len(t) = Len(s) + 1 /\ Len(s) \in Nat /\ t[1] = x
        /\ \A i \in 1..Len(s) : t[i + 1] = s[i]
    OBVIOUS
  <1> HIDE DEF t
  <1>2. t # << >> /\ Head(t) = x
    BY <1>1
  <1>3. /\ Tail(t) \in Seq(Statements) /\ Len(Tail(t)) = Len(s)
        /\ \A i \in 1..Len(s) : Tail(t)[i] = s[i]
    BY <1>1, <1>2
  <1>4. Tail(t) = s
    BY <1>1, <1>3
  <1> QED
    BY <1>2, <1>4 DEF t

LEMMA FileRange ==
    /\ SqlFile \in Seq(Statements) /\ Range(SqlFile) = FileStatements
    /\ SqlFile # << >> /\ Head(SqlFile) = Statement("create_if_absent", "users")
    /\ Tail(SqlFile) # << >> /\ Head(Tail(SqlFile)) = Statement("index", "users")
    /\ Tail(Tail(SqlFile)) = SqlOthers
  <1>1. "users" \in Tables /\ "users" \in IndexedTables
    BY TableNames DEF CommonNames, IndexedTables
  <1>2. SqlFile \in Seq(Statements) /\ Range(SqlFile) = Range(Indexed("users")) \cup Range(SqlOthers)
    BY <1>1, MadeRange, OthersRange, Concatenation DEF SqlFile
  <1>3. Range(SqlFile) = FileStatements
    BY <1>1, <1>2, MadeRange, OthersRange DEF FileStatements
  <1> DEFINE x == Statement("create_if_absent", "users")
             y == Statement("index", "users")
  <1>4. x \in Statements /\ y \in Statements
    BY <1>1, StatementsOf
  <1> HIDE DEF Statements
  <1>5. SqlFile = (<<x>> \o <<y>>) \o SqlOthers
    BY DEF SqlFile, Indexed, Made
  <1> HIDE DEF x, y
  <1>6. SqlFile = <<x>> \o (<<y>> \o SqlOthers)
    BY <1>4, <1>5, OthersRange, OneStatement, ConcatAssociative
  <1>7. /\ SqlFile # << >> /\ Head(SqlFile) = x
        /\ Tail(SqlFile) # << >> /\ Head(Tail(SqlFile)) = y
        /\ Tail(Tail(SqlFile)) = SqlOthers
    BY <1>4, <1>6, OthersRange, OneStatement, Concatenation, FirstAndRest
  <1> QED
    BY <1>2, <1>3, <1>7 DEF x, y

\* create_all makes what it has found missing.
LEMMA CreationsRange ==
    ASSUME NEW found, found \subseteq CommonNames
    PROVE  /\ Creations(found) \in Seq(Statements)
           /\ Range(Creations(found)) = {Statement("create", t) : t \in found}
  <1> DEFINE Create(t) == IF t \in found THEN <<Statement("create", t)>> ELSE << >>
             Is(s, names) == /\ s \in Seq(Statements)
                             /\ Range(s) = {Statement("create", t) : t \in found \cap names}
  <1>1. ASSUME NEW t \in CommonNames PROVE Is(Create(t), {t})
    <2>1. CASE t \in found
      BY <2>1, OneStatement, StatementsOf
    <2>2. CASE t \notin found
      BY <2>2, RangeEmpty
    <2> QED
      BY <2>1, <2>2
  <1>2. ASSUME NEW s, NEW names, NEW t \in CommonNames, Is(s, names)
        PROVE  Is(s \o Create(t), names \cup {t})
    <2>1. Is(Create(t), {t})
      BY <1>1
    <2> HIDE DEF Create
    <2>2. s \o Create(t) \in Seq(Statements) /\ Range(s \o Create(t)) = Range(s) \cup Range(Create(t))
      BY <1>2, <2>1, Concatenation
    <2> QED
      BY <1>2, <2>1, <2>2
  <1> DEFINE s1 == Create("users") \o Create("permissions") \o Create("roles") \o Create("templates")
             s2 == s1 \o Create("role_permissions") \o Create("ingested_rows") \o Create("template_versions")
             m1 == {"users"} \cup {"permissions"} \cup {"roles"} \cup {"templates"}
             m2 == m1 \cup {"role_permissions"} \cup {"ingested_rows"} \cup {"template_versions"}
             m3 == m2 \cup {"audit_logs"} \cup {"sso_sessions"} \cup {"suggestions"}
  <1>3. Creations(found) = s2 \o Create("audit_logs") \o Create("sso_sessions") \o Create("suggestions")
    BY DEF Creations
  <1>4. m3 = CommonNames
    BY DEF CommonNames
  <1> HIDE DEF Is, Create
  <1>5. Is(s1, m1)
    BY <1>1, <1>2 DEF CommonNames
  <1> HIDE DEF s1, m1
  <1>6. Is(s2, m2)
    BY <1>2, <1>5 DEF CommonNames
  <1> HIDE DEF s2, m2
  <1>a. Is(s2 \o Create("audit_logs") \o Create("sso_sessions") \o Create("suggestions"), m3)
    BY <1>2, <1>6 DEF CommonNames
  <1>7. Is(Creations(found), m3)
    BY <1>3, <1>a
  <1> HIDE DEF m3
  <1> QED
    BY <1>4, <1>7 DEF Is

-------------------------------------------------------------------------------
(* What each statement locks, needs and does.                              *)
LEMMA ObjectFacts ==
    /\ Objects = Tables \cup {UniqueKey, Trigger, Version}
    /\ Tables \cap {UniqueKey, Trigger, Version} = {}
    /\ UniqueKey # Trigger /\ UniqueKey # Version /\ Trigger # Version
    /\ "users" \in CommonTables /\ "sso_sessions" \in CommonTables /\ "suggestions" \in CommonTables
    /\ "audit_logs" \in CommonTables /\ "ingested_rows" \in CommonTables /\ "user_roles" \notin CommonTables
    /\ CommonTables \subseteq Tables /\ Tables = CommonTables \cup {"user_roles"}
    /\ IndexedTables \subseteq CommonTables
  BY TableNames DEF CommonNames, Objects, UniqueKey, Trigger, Version, IndexedTables

LEMMA CreateDoes ==
    ASSUME NEW p, NEW t
    PROVE  LET s == Statement("create", t)
           IN  /\ DOMAIN Effect(p, s) = {t} /\ Effect(p, s)[t] = OriginOf(p)
               /\ LocksOf(p, s) = Exclusive({t} \cup Referred(OriginOf(p), t))
               /\ Succeeds(p, s) => /\ Seen(p, t) = "absent"
                                   /\ \A r \in Referred(OriginOf(p), t) : Seen(p, r) # "absent"
  BY DEF Effect, LocksOf, Succeeds, Statement

LEMMA MakeDoes ==
    ASSUME NEW p, NEW t
    PROVE  LET s == Statement("create_if_absent", t)
           IN  /\ Seen(p, t) = "absent" =>
                      /\ DOMAIN Effect(p, s) = {t} /\ Effect(p, s)[t] = "sql"
                      /\ LocksOf(p, s) = Exclusive({t} \cup Referred("sql", t))
               /\ Seen(p, t) # "absent" => DOMAIN Effect(p, s) = {} /\ LocksOf(p, s) = {}
  BY DEF Effect, LocksOf, Statement

LEMMA IndexDoes ==
    ASSUME NEW p, NEW t
    PROVE  LET s == Statement("index", t)
           IN  /\ \A o \in DOMAIN Effect(p, s) : o = UniqueKey /\ Effect(p, s)[o] = "sql"
               /\ t = "ingested_rows" => UniqueKey \in DOMAIN Effect(p, s)
               /\ <<t, "share">> \in LocksOf(p, s)
               /\ \A l \in LocksOf(p, s) : l = <<t, "share">> \/ l = <<UniqueKey, "exclusive">>
               /\ Succeeds(p, s) => Seen(p, t) # "absent" /\ ~LacksColumn(Seen(p, t), t)
  BY DEF Effect, LocksOf, Succeeds, Statement, Exclusive

LEMMA TriggerDoes ==
    ASSUME NEW p, NEW t
    PROVE  LET s == Statement("trigger", t)
           IN  /\ DOMAIN Effect(p, s) = {Trigger} /\ Effect(p, s)[Trigger] = "sql"
               /\ LocksOf(p, s) = Exclusive({t})
  BY DEF Effect, LocksOf, Statement

LEMMA DropDoes ==
    ASSUME NEW p, NEW t
    PROVE  LET s == Statement("drop", t)
           IN  /\ DOMAIN Effect(p, s) = {t} \cup Attached(t)
               /\ \A o \in DOMAIN Effect(p, s) : Effect(p, s)[o] = "absent"
               /\ LocksOf(p, s) =
                      Exclusive({t} \cup IF Seen(p, t) = "absent" THEN {} ELSE Referred(Seen(p, t), t))
  BY DEF Effect, LocksOf, Statement

LEMMA RevokeDoes ==
    ASSUME NEW p, NEW t
    PROVE  LET s == Statement("revoke", t)
           IN  DOMAIN Effect(p, s) = {} /\ LocksOf(p, s) = Exclusive({t})
  BY DEF Effect, LocksOf, Statement

LEMMA StampDoes ==
    ASSUME NEW p, NEW t
    PROVE  LET s == Statement("stamp", t)
           IN  /\ DOMAIN Effect(p, s) = {Version} /\ Effect(p, s)[Version] = "stamped"
               /\ LocksOf(p, s) = Exclusive({t})
  BY DEF Effect, LocksOf, Statement

LEMMA UnstampDoes ==
    ASSUME NEW p, NEW t
    PROVE  LET s == Statement("unstamp", t)
           IN  /\ DOMAIN Effect(p, s) = {Version} /\ Effect(p, s)[Version] = "empty"
               /\ LocksOf(p, s) = Exclusive({t})
               /\ Succeeds(p, s) => Seen(p, Version) = "stamped"
  BY DEF Effect, LocksOf, Succeeds, Statement, VersionDeleted

LEMMA EnsureDoes ==
    ASSUME NEW p, NEW t
    PROVE  LET s == Statement("ensure", t)
           IN  /\ DOMAIN Effect(p, s) = {Version} /\ Effect(p, s)[Version] = "empty"
               /\ LocksOf(p, s) = Exclusive({t})
               /\ Succeeds(p, s) => Seen(p, Version) = "absent"
  BY DEF Effect, LocksOf, Succeeds, Statement

DdlStatements ==
    {Statement("create", t) : t \in CommonTables} \cup {Statement("drop", t) : t \in CommonTables}
    \cup FileStatements
    \cup {Statement("revoke", "audit_logs"), Statement("stamp", Version), Statement("unstamp", Version),
          Statement("ensure", Version)}

LEMMA DdlSplit ==
    ASSUME NEW s \in DdlStatements
    PROVE  \/ \E t \in CommonTables : s = Statement("create", t)
           \/ \E t \in CommonTables : s = Statement("drop", t)
           \/ \E t \in Tables : s = Statement("create_if_absent", t)
           \/ \E t \in CommonTables : s = Statement("index", t)
           \/ s = Statement("trigger", "audit_logs") \/ s = Statement("revoke", "audit_logs")
           \/ s = Statement("stamp", Version) \/ s = Statement("unstamp", Version)
           \/ s = Statement("ensure", Version)
  BY ObjectFacts DEF DdlStatements, FileStatements

LEMMA SeenTyped ==
    ASSUME TypeOK, NEW p \in Procs, NEW o \in Objects
    PROVE  Seen(p, o) \in Possible(o)
  BY DEF TypeOK, Seen

\* A statement locks what exists or will, and what it changes.
LEMMA ReferredTyped ==
    ASSUME NEW origin, NEW t,
           \/ origin \in Origins /\ t \in CommonTables
           \/ origin = "sql" /\ t \in Tables
    PROVE  Referred(origin, t) \subseteq Objects
  <1>1. t \in DOMAIN TablesOf(origin) /\ origin \in Origins
    BY TableNames, ObjectFacts DEF TablesOf, Origins, CommonTables, Tables
  <1> QED
    BY <1>1, ReferredAreTables, ObjectFacts

LEMMA OriginTyped == \A p : OriginOf(p) \in Origins
  BY DEF OriginOf, Origins

\* What a statement locks exists or will, and what it changes it has locked.
Backed(p, s) ==
    /\ LocksOf(p, s) \subseteq Locks
    /\ DOMAIN Effect(p, s) \subseteq Objects
    /\ \A o \in DOMAIN Effect(p, s) : Effect(p, s)[o] \in Possible(o)
    /\ \A o \in DOMAIN Effect(p, s) \ {UniqueKey, Trigger} : <<o, "exclusive">> \in LocksOf(p, s)

LEMMA StatementsBacked ==
    ASSUME TypeOK, NEW p \in Procs, NEW s \in DdlStatements
    PROVE  Backed(p, s)
  <1>1. ASSUME NEW names, names \subseteq Objects
        PROVE  /\ Exclusive(names) \subseteq Locks
               /\ \A o \in names : <<o, "exclusive">> \in Exclusive(names)
    BY <1>1 DEF Exclusive, Locks
  <1>2. ASSUME NEW t \in CommonTables PROVE Backed(p, Statement("create", t))
    <2> DEFINE names == {t} \cup Referred(OriginOf(p), t)
    <2>1. names \subseteq Objects /\ t \in names
      BY ObjectFacts, OriginTyped, ReferredTyped
    <2>2. LocksOf(p, Statement("create", t)) = Exclusive(names)
      BY CreateDoes
    <2> HIDE DEF names
    <2>3. DOMAIN Effect(p, Statement("create", t)) = {t} /\ Effect(p, Statement("create", t))[t] = OriginOf(p)
      BY CreateDoes
    <2> QED
      BY <1>1, <2>1, <2>2, <2>3, OriginTyped, ObjectFacts DEF Backed, Possible
  <1>3. ASSUME NEW t \in CommonTables PROVE Backed(p, Statement("drop", t))
    <2> DEFINE names == {t} \cup IF Seen(p, t) = "absent" THEN {} ELSE Referred(Seen(p, t), t)
    <2>1. Seen(p, t) # "absent" => Seen(p, t) \in Origins
      BY ObjectFacts, SeenTyped DEF Possible
    <2>2. names \subseteq Objects /\ t \in names
      BY <2>1, ObjectFacts, ReferredTyped
    <2>3. LocksOf(p, Statement("drop", t)) = Exclusive(names)
      BY DropDoes
    <2> HIDE DEF names
    <2>4. Attached(t) \subseteq {UniqueKey, Trigger}
      BY DEF Attached
    <2>5. /\ DOMAIN Effect(p, Statement("drop", t)) = {t} \cup Attached(t)
          /\ \A o \in DOMAIN Effect(p, Statement("drop", t)) : Effect(p, Statement("drop", t))[o] = "absent"
      BY DropDoes
    <2> QED
      BY <1>1, <2>2, <2>3, <2>4, <2>5, ObjectFacts DEF Backed, Possible
  <1>4. ASSUME NEW t \in Tables PROVE Backed(p, Statement("create_if_absent", t))
    <2> DEFINE names == {t} \cup Referred("sql", t)
    <2>1. names \subseteq Objects /\ t \in names
      BY ObjectFacts, ReferredTyped
    <2>2. Seen(p, t) = "absent" => LocksOf(p, Statement("create_if_absent", t)) = Exclusive(names)
      BY MakeDoes
    <2> HIDE DEF names
    <2>3. CASE Seen(p, t) = "absent"
      <3>1. /\ DOMAIN Effect(p, Statement("create_if_absent", t)) = {t}
            /\ Effect(p, Statement("create_if_absent", t))[t] = "sql"
        BY <2>3, MakeDoes
      <3> QED
        BY <1>1, <2>1, <2>2, <2>3, <3>1, ObjectFacts DEF Backed, Possible, Origins
    <2>4. CASE Seen(p, t) # "absent"
      BY <2>4, MakeDoes DEF Backed
    <2> QED
      BY <2>3, <2>4
  <1>5. ASSUME NEW t \in CommonTables PROVE Backed(p, Statement("index", t))
    <2>1. <<t, "share">> \in Locks /\ <<UniqueKey, "exclusive">> \in Locks
      BY ObjectFacts DEF Locks
    <2> QED
      BY <2>1, IndexDoes, ObjectFacts DEF Backed, Possible
  <1>6. Backed(p, Statement("trigger", "audit_logs"))
    <2>1. Exclusive({"audit_logs"}) \subseteq Locks
      BY <1>1, ObjectFacts
    <2> QED
      BY <2>1, TriggerDoes, ObjectFacts DEF Backed, Possible
  <1>7. Backed(p, Statement("revoke", "audit_logs"))
    <2>1. Exclusive({"audit_logs"}) \subseteq Locks
      BY <1>1, ObjectFacts
    <2> QED
      BY <2>1, RevokeDoes DEF Backed
  <1>8. Backed(p, Statement("stamp", Version))
    BY <1>1, StampDoes, ObjectFacts DEF Backed, Possible
  <1>9. Backed(p, Statement("unstamp", Version))
    BY <1>1, UnstampDoes, ObjectFacts DEF Backed, Possible
  <1>10. Backed(p, Statement("ensure", Version))
    BY <1>1, EnsureDoes, ObjectFacts DEF Backed, Possible
  <1> QED
    BY <1>2, <1>3, <1>4, <1>5, <1>6, <1>7, <1>8, <1>9, <1>10, DdlSplit

-------------------------------------------------------------------------------
(* What a step of one process leaves of the others.                        *)
Same(q) == /\ command'[q] = command[q] /\ todo'[q] = todo[q] /\ missing'[q] = missing[q]
           /\ change'[q] = change[q] /\ held'[q] = held[q] /\ overtaken'[q] = overtaken[q]

LEMMA OthersStay ==
    ASSUME NEW q \in Procs, Same(q), catalog' = catalog
    PROVE  (Running(q) => Running(q)') /\ (Untorn(q) => Untorn(q)')
  <1> USE DEF Same, Todo, Absent
  <1>1. (Resting(q) => Resting(q)') /\ (Asking(q) => Asking(q)')
    BY DEF Resting, Asking
  <1>2. Idle(q) => Idle(q)'
    BY DEF Idle
  <1>3. \A origin : MadeNew(q, origin) => MadeNew(q, origin)'
    BY DEF MadeNew
  <1>4. Upgrading(q) => Upgrading(q)'
    BY <1>3 DEF Upgrading
  <1>5. Downgrading(q) => Downgrading(q)'
    BY DEF Downgrading, Applied
  <1>6. Filing(q) => Filing(q)'
    BY <1>3 DEF Filing
  <1>7. Looking(q) => Looking(q)'
    BY DEF Looking
  <1>8. Creating(q) => Creating(q)'
    BY <1>3 DEF Creating
  <1>9. Running(q) => Running(q)'
    BY <1>1, <1>2, <1>4, <1>5, <1>6, <1>7, <1>8 DEF Running
  <1>10. FiledAll(q) => FiledAll(q)'
    BY DEF FiledAll
  <1>11. Found(q) => Found(q)'
    BY DEF Found, FindsAll
  <1> QED
    BY <1>9, <1>10, <1>11 DEF Untorn

\* A step that is not a commit is between a process and itself.
LEMMA Alone ==
    ASSUME IInv, NEW p \in Procs, \A q \in Procs \ {p} : Same(q),
           catalog' = catalog, torn' = torn,
           TypeOK', StatementsOK', LocksAgree', ChangesLocked', Running(p)',
           ~torn => Untorn(p)'
    PROVE  IInv'
  <1>1. \A q \in Procs : Running(q)'
    BY OthersStay DEF IInv
  <1>2. ~torn => \A q \in Procs : Untorn(q)'
    BY OthersStay DEF IInv
  <1>3. Clean => Clean'
    BY DEF Clean, Absent, Applied
  <1> QED
    BY <1>1, <1>2, <1>3 DEF IInv

LEMMA InitInv == Init => IInv
  <1> SUFFICES ASSUME Init PROVE IInv
    OBVIOUS
  <1>1. PICK origin \in {"absent", "revision", "sql", "orm"}, sqlRun \in BOOLEAN :
            /\ catalog = Left(origin, sqlRun)
            /\ origin \in {"absent", "revision"} => ~sqlRun
            /\ origin = "sql" => sqlRun
    BY DEF Init
  <1>2. /\ DOMAIN catalog = Objects /\ \A t \in CommonTables : catalog[t] = origin
        /\ \A o \in {"user_roles", UniqueKey, Trigger} : catalog[o] = IF sqlRun THEN "sql" ELSE "absent"
        /\ catalog[Version] = IF origin = "revision" THEN "stamped" ELSE "absent"
    BY <1>1, ObjectFacts DEF Left
  <1>3. Clean
    BY <1>1, <1>2, ObjectFacts DEF Clean, Absent, Applied, Origins
  <1>4. \A o \in Objects : catalog[o] \in Possible(o)
    BY <1>1, <1>2, ObjectFacts DEF Possible, Origins
  <1>5. TypeOK
    <2>1. /\ command \in [Procs -> Kinds \cup {"none"}] /\ missing \in [Procs -> SUBSET CommonTables]
          /\ held \in [Procs -> SUBSET (Objects \X {"share", "exclusive"})]
          /\ waiting \in [Procs -> BOOLEAN]
          /\ overtaken \in [Procs -> SUBSET {"upgrade", "downgrade"}] /\ torn \in BOOLEAN
      BY DEF Init
    <2>2. DOMAIN change = Procs /\ \A p \in Procs : DOMAIN change[p] = {}
      BY DEF Init
    <2>3. issued \in 0..MaxCommands /\ tried \subseteq Kinds /\ crashes \in 0..MaxCrashes
      BY BoundsAssumption DEF Init
    <2> QED
      BY <1>2, <1>4, <2>1, <2>2, <2>3 DEF TypeOK
  <1>6. StatementsOK
    BY DEF StatementsOK, Init
  <1>7. LocksAgree /\ ChangesLocked
    BY DEF LocksAgree, ChangesLocked, Init
  <1>8. \A p \in Procs : Running(p) /\ Untorn(p)
    BY DEF Running, Untorn, Resting, Init, Kinds
  <1> QED
    BY <1>3, <1>5, <1>6, <1>7, <1>8 DEF IInv

-------------------------------------------------------------------------------
(* Commands begin and end.                                                 *)
LEMMA IssueInv ==
    ASSUME IInv, NEW p \in Procs, NEW kind \in Commands, Issue(p, kind)
    PROVE  IInv'
  <1>1. /\ command' = [command EXCEPT ![p] = kind] /\ todo' = [todo EXCEPT ![p] = Program(kind)]
        /\ command[p] = "none" /\ issued < MaxCommands /\ issued' = issued + 1 /\ tried' = tried \cup {kind}
        /\ UNCHANGED <<catalog, missing, change, held, waiting, crashes, overtaken, torn>>
    BY DEF Issue, history
  <1>2. kind \in Kinds /\ TypeOK /\ StatementsOK /\ Running(p)
    BY CommandsAssumption DEF IInv
  <1>3. command'[p] = kind /\ todo'[p] = Program(kind)
    BY <1>1, <1>2 DEF TypeOK, StatementsOK
  <1>4. /\ \A q \in Procs \ {p} : Same(q)
    BY <1>1, <1>2 DEF Same, TypeOK, StatementsOK
  <1>5. /\ DOMAIN change[p] = {} /\ missing[p] = {} /\ overtaken[p] = {}
    BY <1>1, <1>2 DEF Running, Resting
  <1>6. TypeOK'
    BY <1>1, <1>2, BoundsAssumption DEF TypeOK
  <1>7. Program(kind) \in Seq(Statements)
    <2>1. Statement("heads", Version) \in Statements
      BY StatementsOf
    <2> HIDE DEF Statements
    <2> QED
      BY <1>2, <2>1, FileRange, LookupsRange DEF Program, Kinds
  <1>8. StatementsOK'
    BY <1>1, <1>2, <1>7 DEF StatementsOK
  <1>9. LocksAgree' /\ ChangesLocked'
    BY <1>1 DEF LocksAgree, ChangesLocked, IInv
  <1> DEFINE looks == Each("look", Declared)
  <1>10. CASE kind \in {"upgrade", "downgrade"}
    <2>1. Asking(p)'
      BY <1>1, <1>3, <1>5, <1>10 DEF Asking, Program
    <2> QED
      BY <1>1, <1>3, <1>4, <1>5, <1>6, <1>8, <1>9, <1>10, <2>1, Alone DEF Running, Untorn
  <1>11. CASE kind = "sql"
    <2>1. Todo(p)' = FileStatements /\ todo'[p] = SqlFile
      BY <1>3, <1>11, FileRange DEF Todo, Program
    <2>2. /\ Statement("index", "users") \in FileStatements
          /\ Statement("index", "suggestions") \in FileStatements
          /\ Statement("index", "ingested_rows") \in FileStatements
          /\ Statement("trigger", "audit_logs") \in FileStatements
          /\ \A t \in Tables : Statement("create_if_absent", t) \in FileStatements
      BY DEF FileStatements, IndexedTables
    <2>3. Filing(p)'
      BY <1>1, <1>5, <2>1, <2>2, FileRange DEF Filing, MadeNew
    <2>4. FiledAll(p)'
      BY <2>1, <2>2 DEF FiledAll
    <2> QED
      BY <1>1, <1>3, <1>4, <1>5, <1>6, <1>8, <1>9, <1>11, <2>3, <2>4, Alone DEF Running, Untorn
  <1>12. CASE kind = "create_all"
    <2>1. todo'[p] = looks /\ Todo(p)' = {Statement("look", t) : t \in CommonTables}
      BY <1>3, <1>12, LookupsRange, TableNames DEF Todo, Program
    <2>2. Looking(p)'
      BY <1>1, <1>5, <2>1, LookupsRange DEF Looking
    <2>3. FindsAll(p)'
      BY <2>1 DEF FindsAll
    <2>4. Found(p)'
      BY <1>1, <1>5, <2>3 DEF Found
    <2> QED
      BY <1>1, <1>3, <1>4, <1>5, <1>6, <1>8, <1>9, <1>12, <2>2, <2>4, Alone DEF Running, Untorn
  <1> QED
    BY <1>2, <1>10, <1>11, <1>12 DEF Kinds

LEMMA RollBackInv ==
    ASSUME IInv, NEW p \in Procs, RollBack(p), crashes' \in 0..MaxCrashes
    PROVE  IInv'
  <1>1. /\ command' = [command EXCEPT ![p] = "none"] /\ todo' = [todo EXCEPT ![p] = << >>]
        /\ missing' = [missing EXCEPT ![p] = {}] /\ change' = [change EXCEPT ![p] = [o \in {} |-> ""]]
        /\ held' = [held EXCEPT ![p] = {}] /\ waiting' = [waiting EXCEPT ![p] = FALSE]
        /\ overtaken' = [overtaken EXCEPT ![p] = {}]
        /\ UNCHANGED <<catalog, issued, tried, torn>>
    BY DEF RollBack, End
  <1>2. TypeOK /\ StatementsOK
    BY DEF IInv
  <1>3. /\ command'[p] = "none" /\ todo'[p] = << >> /\ missing'[p] = {} /\ DOMAIN change'[p] = {}
        /\ held'[p] = {} /\ overtaken'[p] = {}
    BY <1>1, <1>2 DEF TypeOK, StatementsOK
  <1>4. \A q \in Procs \ {p} : Same(q)
    BY <1>1, <1>2 DEF Same, TypeOK, StatementsOK
  <1>5. \A q \in Procs : /\ DOMAIN change'[q] \subseteq Objects
                         /\ \A o \in DOMAIN change'[q] : change'[q][o] \in Possible(o)
    BY <1>2, <1>3, <1>4 DEF TypeOK, Same
  <1>6. TypeOK'
    BY <1>1, <1>2, <1>5 DEF TypeOK
  <1>7. StatementsOK'
    BY <1>1, <1>2 DEF StatementsOK
  <1>8. LocksAgree'
    BY <1>3, <1>4 DEF LocksAgree, IInv, Same
  <1>9. ChangesLocked'
    BY <1>3, <1>4 DEF ChangesLocked, IInv, Same
  <1>10. Running(p)' /\ Untorn(p)'
    BY <1>3 DEF Running, Untorn, Resting
  <1> QED
    BY <1>1, <1>4, <1>6, <1>7, <1>8, <1>9, <1>10, Alone

-------------------------------------------------------------------------------
(* The next statement of a process says where it is.                       *)
Advancing(p) ==
    \/ command[p] = "upgrade" /\ (Idle(p) \/ Upgrading(p))
    \/ command[p] = "downgrade" /\ (Idle(p) \/ Downgrading(p))
    \/ command[p] = "sql" /\ Filing(p)
    \/ command[p] = "create_all" /\ Creating(p)

LEMMA NextStatement ==
    ASSUME TypeOK, StatementsOK, NEW p \in Procs, Running(p), todo[p] # << >>, command[p] # "none"
    PROVE  /\ Head(todo[p]) \in Todo(p) /\ Todo(p) = {Head(todo[p])} \cup Range(Tail(todo[p]))
           /\ Tail(todo[p]) \in Seq(Statements)
           /\ Head(todo[p]).op = "heads" => Asking(p) /\ command[p] \in {"upgrade", "downgrade"}
           /\ Head(todo[p]).op = "look" =>
                 /\ Looking(p) /\ command[p] = "create_all"
                 /\ \E t \in CommonTables : Head(todo[p]) = Statement("look", t)
           /\ Head(todo[p]).op \notin {"heads", "look"} => Head(todo[p]) \in DdlStatements /\ Advancing(p)
  <1> DEFINE s == Head(todo[p])
  <1>1. todo[p] \in Seq(Statements)
    BY DEF StatementsOK
  <1>2. s \in Todo(p) /\ Todo(p) = {s} \cup Range(Tail(todo[p])) /\ Tail(todo[p]) \in Seq(Statements)
    BY <1>1, RangeHeadTail DEF Todo
  <1>3. Asking(p) => s = Statement("heads", Version) /\ s.op = "heads"
    BY StatementsOf DEF Asking
  <1> HIDE DEF s
  <1>4. Looking(p) => s.op = "look" /\ \E t \in CommonTables : s = Statement("look", t)
    BY <1>2, StatementsOf DEF Looking
  <1>5. s \in DdlStatements => s.op \notin {"heads", "look"}
    BY DdlSplit, StatementsOf
  <1>6. Idle(p) => s \in DdlStatements
    BY <1>2 DEF Idle, DdlStatements
  <1>7. Upgrading(p) => s \in DdlStatements
    BY <1>2 DEF Upgrading, DdlStatements
  <1>8. Downgrading(p) => s \in DdlStatements
    BY <1>2 DEF Downgrading, DdlStatements
  <1>9. Filing(p) => s \in DdlStatements
    BY <1>2, FileRange DEF Filing, DdlStatements
  <1>10. Creating(p) => s \in DdlStatements
    <2>1. missing[p] \subseteq CommonTables
      BY DEF TypeOK
    <2> QED
      BY <1>2, <2>1 DEF Creating, DdlStatements
  <1>11. command[p] \in Kinds
    BY DEF TypeOK
  <1>12. \/ Asking(p) /\ command[p] \in {"upgrade", "downgrade"}
         \/ Looking(p) /\ command[p] = "create_all"
         \/ Advancing(p)
    BY <1>11 DEF Running, Advancing, Kinds
  <1>13. Advancing(p) => s \in DdlStatements
    BY <1>6, <1>7, <1>8, <1>9, <1>10 DEF Advancing
  <1>14. /\ s.op = "heads" => Asking(p) /\ command[p] \in {"upgrade", "downgrade"}
         /\ s.op = "look" => /\ Looking(p) /\ command[p] = "create_all"
                             /\ \E t \in CommonTables : s = Statement("look", t)
         /\ s.op \notin {"heads", "look"} => s \in DdlStatements /\ Advancing(p)
    BY <1>3, <1>4, <1>5, <1>12, <1>13
  <1> QED
    BY <1>2, <1>14 DEF s

-------------------------------------------------------------------------------
(* Reading, asking and waiting.                                            *)
LEMMA HeadsInv ==
    ASSUME IInv, NEW p \in Procs, Heads(p)
    PROVE  IInv'
  <1> DEFINE steps == CASE command[p] = "upgrade" /\ ~Applied -> upgrade
                        [] command[p] = "downgrade" /\ Applied -> downgrade
                        [] OTHER -> << >>
             new == IF catalog[Version] = "absent" THEN <<Statement("ensure", Version)>> \o steps ELSE steps
  <1>1. /\ todo' = [todo EXCEPT ![p] = new]
        /\ UNCHANGED <<catalog, command, missing, change, held, waiting, issued, tried, crashes, overtaken, torn>>
    BY DEF Heads, Skip, history
  <1>2. TypeOK /\ StatementsOK /\ Running(p) /\ Untorn(p) \in BOOLEAN
    BY DEF IInv, Untorn
  <1>3. Asking(p) /\ command[p] \in {"upgrade", "downgrade"} /\ missing[p] = {} /\ overtaken[p] = {}
    <2>1. Asking(p) /\ command[p] \in {"upgrade", "downgrade"}
      BY <1>2, NextStatement DEF Heads, AtNext
    <2> QED
      BY <1>2, <2>1 DEF Running
  <1>4. \/ steps = upgrade /\ command[p] = "upgrade"
        \/ steps = downgrade /\ command[p] = "downgrade" /\ catalog[Version] = "stamped"
        \/ steps = << >>
    BY <1>3 DEF Applied
  <1> HIDE DEF steps
  <1>5. Statement("ensure", Version) \in Statements /\ steps \in Seq(Statements)
    <2>1. << >> \in Seq(Statements)
      OBVIOUS
    <2> QED
      BY <1>4, <2>1, UpgradeRange, DowngradeRange, StatementsOf
  <1>6. /\ new \in Seq(Statements)
        /\ Range(new) = Range(steps) \cup
              (IF catalog[Version] = "absent" THEN {Statement("ensure", Version)} ELSE {})
    <2> DEFINE one == <<Statement("ensure", Version)>>
    <2>1. one \in Seq(Statements) /\ Range(one) = {Statement("ensure", Version)}
      BY <1>5, OneStatement
    <2> HIDE DEF one
    <2>2. one \o steps \in Seq(Statements) /\ Range(one \o steps) = Range(one) \cup Range(steps)
      BY <1>5, <2>1, Concatenation
    <2>3. new = IF catalog[Version] = "absent" THEN one \o steps ELSE steps
      BY DEF one
    <2> HIDE DEF new
    <2> QED
      BY <1>5, <2>1, <2>2, <2>3
  <1> HIDE DEF new
  <1>7. TypeOK' /\ StatementsOK'
    BY <1>1, <1>2, <1>6 DEF TypeOK, StatementsOK
  <1>8. todo'[p] = new /\ Todo(p)' = Range(new)
    BY <1>1, <1>2 DEF StatementsOK, Todo
  <1>9. \A q \in Procs \ {p} : Same(q)
    BY <1>1, <1>2 DEF Same, StatementsOK
  <1>10. LocksAgree' /\ ChangesLocked'
    BY <1>1 DEF LocksAgree, ChangesLocked, IInv
  <1>11. DOMAIN change'[p] = {}
    BY <1>1, <1>3 DEF Asking
  <1>12. ASSUME steps = << >> PROVE Idle(p)'
    BY <1>6, <1>8, <1>11, <1>12, RangeEmpty DEF Idle
  <1>13. ASSUME steps = upgrade PROVE Upgrading(p)'
    <2>1. /\ Todo(p)' \subseteq {Statement("ensure", Version), Statement("stamp", Version)}
                                \cup {Statement("create", t) : t \in CommonTables}
          /\ \A t \in CommonTables : Statement("create", t) \in Todo(p)'
          /\ Statement("stamp", Version) \in Todo(p)'
      BY <1>6, <1>8, <1>13, UpgradeRange, TableNames
    <2> QED
      BY <1>11, <2>1 DEF Upgrading, MadeNew
  <1>14. ASSUME steps = downgrade, catalog[Version] = "stamped" PROVE Downgrading(p)'
    <2>1. /\ Todo(p)' \subseteq {Statement("revoke", "audit_logs"), Statement("unstamp", Version)}
                                \cup {Statement("drop", t) : t \in CommonTables}
          /\ \A t \in CommonTables : Statement("drop", t) \in Todo(p)'
          /\ Statement("unstamp", Version) \in Todo(p)'
      BY <1>6, <1>8, <1>14, DowngradeRange, TableNames
    <2> QED
      BY <1>11, <2>1 DEF Downgrading
  <1>15. Running(p)'
    BY <1>1, <1>3, <1>4, <1>12, <1>13, <1>14 DEF Running
  <1>16. Untorn(p)'
    BY <1>1, <1>3 DEF Untorn
  <1> QED
    BY <1>1, <1>7, <1>9, <1>10, <1>15, <1>16, Alone

LEMMA WaitInv ==
    ASSUME IInv, NEW p \in Procs, Wait(p)
    PROVE  IInv'
  <1>1. /\ waiting' = [waiting EXCEPT ![p] = TRUE]
        /\ UNCHANGED <<catalog, command, todo, missing, change, held, issued, tried, crashes, overtaken, torn>>
    BY DEF Wait, history
  <1>2. TypeOK' /\ StatementsOK'
    BY <1>1 DEF TypeOK, StatementsOK, IInv
  <1>3. LocksAgree' /\ ChangesLocked'
    BY <1>1 DEF LocksAgree, ChangesLocked, IInv
  <1>4. \A q \in Procs : Same(q)
    BY <1>1 DEF Same
  <1> QED
    BY <1>1, <1>2, <1>3, <1>4, Alone, OthersStay DEF IInv

LEMMA LookInv ==
    ASSUME IInv, NEW p \in Procs, Look(p)
    PROVE  IInv'
  <1>1. TypeOK /\ StatementsOK /\ Running(p)
    BY DEF IInv
  <1>2. /\ Looking(p) /\ command[p] = "create_all" /\ todo[p] # << >>
        /\ \E t \in CommonTables : Head(todo[p]) = Statement("look", t)
        /\ Todo(p) = {Head(todo[p])} \cup Range(Tail(todo[p])) /\ Tail(todo[p]) \in Seq(Statements)
    BY <1>1, NextStatement DEF Look, AtNext
  <1>3. PICK t \in CommonTables : Head(todo[p]) = Statement("look", t)
    BY <1>2
  <1>4. Head(todo[p]).on = t /\ Seen(p, t) = catalog[t]
    BY <1>2, <1>3, StatementsOf DEF Seen, Looking
  <1> DEFINE found == missing[p] \cup {u \in {t} : Seen(p, u) = "absent"}
             new == IF Len(todo[p]) > 1 THEN Tail(todo[p]) ELSE Creations(found)
  <1>5. /\ missing' = [missing EXCEPT ![p] = found] /\ todo' = [todo EXCEPT ![p] = new]
        /\ UNCHANGED <<catalog, command, change, held, waiting, issued, tried, crashes, overtaken, torn>>
    BY <1>4 DEF Look, Skip, history
  <1>6. /\ missing[p] \subseteq CommonTables /\ found \subseteq CommonTables
        /\ found = IF Absent(t) THEN missing[p] \cup {t} ELSE missing[p]
    BY <1>1, <1>4 DEF TypeOK, Absent
  <1> HIDE DEF found
  <1>7. /\ Creations(found) \in Seq(Statements)
        /\ Range(Creations(found)) = {Statement("create", u) : u \in found}
    BY <1>6, CreationsRange, TableNames
  <1>8. todo[p] \in Seq(Statements)
    BY <1>1 DEF StatementsOK
  <1>9. /\ new \in Seq(Statements)
        /\ Len(todo[p]) > 1 => new = Tail(todo[p]) /\ new # << >> /\ new[Len(new)] = todo[p][Len(todo[p])]
        /\ Len(todo[p]) <= 1 =>
              new = Creations(found) /\ Head(todo[p]) = todo[p][Len(todo[p])] /\ Tail(todo[p]) = << >>
    BY <1>2, <1>7, <1>8, RangeHeadTail
  <1> HIDE DEF new
  <1>10. TypeOK' /\ StatementsOK'
    BY <1>1, <1>5, <1>6, <1>9 DEF TypeOK, StatementsOK
  <1>11. todo'[p] = new /\ missing'[p] = found /\ Todo(p)' = Range(new)
    BY <1>1, <1>5 DEF StatementsOK, TypeOK, Todo
  <1>12. \A q \in Procs \ {p} : Same(q)
    BY <1>1, <1>5 DEF Same, StatementsOK, TypeOK
  <1>13. LocksAgree' /\ ChangesLocked'
    BY <1>5 DEF LocksAgree, ChangesLocked, IInv
  <1>14. DOMAIN change'[p] = {}
    BY <1>2, <1>5 DEF Looking
  <1>15. Len(todo[p]) \in Nat
    BY <1>8
  <1>16. /\ Len(todo[p]) > 1 => Todo(p) = {Statement("look", t)} \cup Todo(p)'
         /\ Len(todo[p]) <= 1 => Todo(p) = {Statement("look", t)}
    BY <1>2, <1>3, <1>9, <1>11, RangeEmpty
  \* It goes on looking: what follows was there before, and the last is the same.
  <1>17. ASSUME Len(todo[p]) > 1 PROVE Running(p)'
    <2>1. Statement("look", "users") \notin Todo(p)'
      BY <1>2, <1>9, <1>11, <1>16, <1>17, LookupsRange DEF Looking
    <2>2. Looking(p)'
      BY <1>2, <1>9, <1>11, <1>14, <1>16, <1>17, <2>1 DEF Looking
    <2> QED
      BY <1>2, <1>5, <2>2 DEF Running
  <1>18. ASSUME Len(todo[p]) <= 1 PROVE Running(p)'
    <2>1. Creating(p)'
      BY <1>7, <1>9, <1>11, <1>14, <1>18 DEF Creating, MadeNew
    <2> QED
      BY <1>2, <1>5, <2>1 DEF Running
  <1>19. Running(p)'
    BY <1>15, <1>17, <1>18
  \* A table that is not there is found missing.
  <1>20. ASSUME FindsAll(p), Absent(t) PROVE FindsAll(p)'
    <2> SUFFICES ASSUME NEW u \in CommonTables PROVE u \in found \/ Statement("look", u) \in Todo(p)'
      BY <1>11 DEF FindsAll
    <2>1. u \in missing[p] \/ Statement("look", u) \in Todo(p)
      BY <1>20 DEF FindsAll
    <2>2. Statement("look", u) = Statement("look", t) => u = t
      BY StatementsOf
    <2> QED
      BY <1>6, <1>15, <1>16, <1>20, <2>1, <2>2
  <1>21. ASSUME ~torn PROVE Untorn(p)'
    <2>1. Clean /\ Found(p)
      BY <1>2, <1>21 DEF IInv, Untorn
    <2>2. catalog[t] = catalog["users"]
      BY <2>1 DEF Clean
    <2>3. Absent("users") => Absent(t)
      BY <2>2 DEF Absent
    <2>4. ASSUME Absent("users"), "users" \in found, overtaken[p] = {"downgrade"} PROVE FindsAll(p)'
      <3>1. CASE t = "users"
        <4>1. todo[p] = Each("look", Declared)
          BY <1>2, <1>3, <3>1 DEF Looking
        <4>2. FindsAll(p)
          BY <4>1, LookupsRange, TableNames DEF FindsAll, Todo
        <4> QED
          BY <1>20, <2>3, <2>4, <4>2
      <3>2. CASE t # "users"
        <4>1. FindsAll(p)
          BY <1>6, <2>1, <2>4, <3>2 DEF Found
        <4> QED
          BY <1>20, <2>3, <2>4, <4>1
      <3> QED
        BY <3>1, <3>2
    <2>5. ASSUME Absent("users")
          PROVE  "sso_sessions" \in found \/ Statement("look", "sso_sessions") \in Todo(p)'
      <3>1. CASE Len(todo[p]) > 1
        <4>1. new \in Seq(Statements) /\ new # << >> /\ new[Len(new)] = Statement("look", "sso_sessions")
          BY <1>2, <1>9, <3>1 DEF Looking
        <4>2. Len(new) \in DOMAIN new
          BY <4>1
        <4> QED
          BY <1>11, <4>1, <4>2 DEF Range
      <3>2. CASE Len(todo[p]) <= 1
        <4>1. Statement("look", t) = Statement("look", "sso_sessions")
          BY <1>2, <1>3, <1>9, <3>2 DEF Looking
        <4> QED
          BY <1>6, <2>3, <2>5, <4>1, StatementsOf
      <3> QED
        BY <1>15, <3>1, <3>2
    <2>6. catalog["users"] = "revision" => found = missing[p]
      BY <1>6, <2>2 DEF Absent
    <2>7. (overtaken[p] = {} /\ Absent("users")) => FindsAll(p)'
      BY <1>20, <2>1, <2>3 DEF Found
    <2>8. Absent("users")' <=> Absent("users")
      BY <1>5 DEF Absent
    <2>9. Found(p)'
      BY <1>5, <1>11, <2>1, <2>4, <2>5, <2>6, <2>7, <2>8 DEF Found
    <2> QED
      BY <1>2, <1>5, <2>9 DEF Untorn
  <1> QED
    BY <1>5, <1>10, <1>12, <1>13, <1>19, <1>21, Alone

-------------------------------------------------------------------------------
(* Executing a statement.                                                  *)
Executed(p, s) ==
    /\ Todo(p) = {s} \cup Todo(p)' /\ Succeeds(p, s)
    /\ DOMAIN change'[p] = DOMAIN change[p] \cup DOMAIN Effect(p, s)
    /\ \A o \in DOMAIN change'[p] :
          change'[p][o] = IF o \in DOMAIN Effect(p, s) THEN Effect(p, s)[o] ELSE change[p][o]
    /\ held'[p] = held[p] \cup LocksOf(p, s)
    /\ catalog' = catalog /\ missing' = missing

LEMMA IdleExecutes ==
    ASSUME NEW p \in Procs, NEW s, Executed(p, s), Idle(p)
    PROVE  Idle(p)'
  <1>1. s = Statement("ensure", Version)
    BY DEF Executed, Idle
  <1>2. /\ DOMAIN Effect(p, s) = {Version} /\ Effect(p, s)[Version] = "empty"
        /\ Seen(p, Version) = "absent"
    BY <1>1, EnsureDoes DEF Executed
  <1>3. catalog[Version] = "absent"
    BY <1>2 DEF Idle, Seen, Absent
  <1> QED
    BY <1>2, <1>3 DEF Executed, Idle, Absent

\* A table that the transaction does not see is not in the catalogue and was
\* not made by the transaction.
LEMMA NotSeen ==
    ASSUME NEW p, NEW t \in Tables, NEW origin, origin # "absent", MadeNew(p, origin), Seen(p, t) = "absent"
    PROVE  t \notin DOMAIN change[p] /\ Absent(t)
  BY DEF MadeNew, Seen, Absent

\* Making a table that is not seen.
LEMMA MadeStaysNew ==
    ASSUME NEW p \in Procs, NEW s, Executed(p, s), NEW origin, MadeNew(p, origin),
           \A t \in DOMAIN Effect(p, s) \cap Tables : Effect(p, s)[t] = origin /\ Absent(t)
    PROVE  MadeNew(p, origin)'
  BY DEF MadeNew, Executed, Absent

LEMMA UpgradingExecutes ==
    ASSUME NEW p \in Procs, NEW s, Executed(p, s), Upgrading(p), command[p] = "upgrade"
    PROVE  Upgrading(p)'
  <1>1. s \in Todo(p) /\ Todo(p)' \subseteq Todo(p)
    BY DEF Executed
  <1>2. OriginOf(p) = "revision"
    BY DEF OriginOf
  <1>3. CASE s = Statement("ensure", Version)
    <2>1. /\ DOMAIN Effect(p, s) = {Version} /\ Effect(p, s)[Version] = "empty"
          /\ Seen(p, Version) = "absent"
      BY <1>3, EnsureDoes DEF Executed
    <2>2. Version \notin DOMAIN change[p]
      BY <2>1 DEF Upgrading, Seen
    <2>3. MadeNew(p, "revision")'
      BY <2>1, MadeStaysNew, ObjectFacts DEF Upgrading
    <2>4. \A t : Statement("create", t) # s /\ Statement("stamp", t) # s
      BY <1>3, StatementsOf
    <2> QED
      BY <1>1, <2>1, <2>2, <2>3, <2>4 DEF Upgrading, Executed
  <1>4. CASE s = Statement("stamp", Version)
    <2>1. DOMAIN Effect(p, s) = {Version} /\ Effect(p, s)[Version] = "stamped"
      BY <1>4, StampDoes
    <2>2. MadeNew(p, "revision")'
      BY <2>1, MadeStaysNew, ObjectFacts DEF Upgrading
    <2>3. \A t : Statement("create", t) # s
      BY <1>4, StatementsOf
    <2> QED
      BY <1>1, <2>1, <2>2, <2>3 DEF Upgrading, Executed
  <1>5. ASSUME NEW t \in CommonTables, s = Statement("create", t) PROVE Upgrading(p)'
    <2>1. DOMAIN Effect(p, s) = {t} /\ Effect(p, s)[t] = "revision" /\ Seen(p, t) = "absent"
      BY <1>2, <1>5, CreateDoes DEF Executed
    <2>2. Absent(t)
      BY <2>1, NotSeen, ObjectFacts DEF Upgrading
    <2>3. MadeNew(p, "revision")'
      BY <2>1, <2>2, MadeStaysNew DEF Upgrading
    <2>4. s # Statement("stamp", Version) /\ \A u : s = Statement("create", u) => u = t
      BY <1>5, StatementsOf
    <2>5. t # Version
      BY ObjectFacts
    <2> QED
      BY <1>1, <2>1, <2>3, <2>4, <2>5 DEF Upgrading, Executed
  <1> QED
    BY <1>1, <1>3, <1>4, <1>5 DEF Upgrading

LEMMA DowngradingExecutes ==
    ASSUME NEW p \in Procs, NEW s, Executed(p, s), Downgrading(p)
    PROVE  Downgrading(p)'
  <1>1. s \in Todo(p) /\ Todo(p)' \subseteq Todo(p)
    BY DEF Executed
  <1>2. Applied' <=> Applied
    BY DEF Executed, Applied
  <1>3. CASE s = Statement("revoke", "audit_logs")
    <2>1. DOMAIN Effect(p, s) = {}
      BY <1>3, RevokeDoes
    <2>2. \A t : Statement("drop", t) # s /\ Statement("unstamp", t) # s
      BY <1>3, StatementsOf
    <2> QED
      BY <1>1, <1>2, <2>1, <2>2 DEF Downgrading, Executed
  <1>4. CASE s = Statement("unstamp", Version)
    <2>1. /\ DOMAIN Effect(p, s) = {Version} /\ Effect(p, s)[Version] = "empty"
          /\ Seen(p, Version) = "stamped"
      BY <1>4, UnstampDoes DEF Executed
    <2>2. Applied
      BY <2>1 DEF Downgrading, Seen, Applied
    <2>3. \A t : Statement("drop", t) # s
      BY <1>4, StatementsOf
    <2> QED
      BY <1>1, <1>2, <2>1, <2>2, <2>3 DEF Downgrading, Executed
  <1>5. ASSUME NEW t \in CommonTables, s = Statement("drop", t) PROVE Downgrading(p)'
    <2>1. /\ DOMAIN Effect(p, s) = {t} \cup Attached(t)
          /\ \A o \in DOMAIN Effect(p, s) : Effect(p, s)[o] = "absent"
      BY <1>5, DropDoes
    <2>2. Attached(t) \subseteq {UniqueKey, Trigger} /\ t # Version /\ Version \notin Attached(t)
      BY ObjectFacts DEF Attached
    <2>3. s # Statement("unstamp", Version) /\ \A u : s = Statement("drop", u) => u = t
      BY <1>5, StatementsOf
    <2> QED
      BY <1>1, <1>2, <2>1, <2>2, <2>3 DEF Downgrading, Executed
  <1> QED
    BY <1>1, <1>3, <1>4, <1>5 DEF Downgrading

LEMMA CreatingExecutes ==
    ASSUME NEW p \in Procs, NEW s, Executed(p, s), Creating(p), command[p] = "create_all",
           missing[p] \subseteq CommonTables
    PROVE  Creating(p)'
  <1>1. s \in Todo(p) /\ Todo(p)' \subseteq Todo(p)
    BY DEF Executed
  <1>2. PICK t \in missing[p] : s = Statement("create", t)
    BY <1>1 DEF Creating
  <1>3. OriginOf(p) = "orm"
    BY DEF OriginOf
  <1>4. /\ DOMAIN Effect(p, s) = {t} /\ Effect(p, s)[t] = "orm" /\ Seen(p, t) = "absent"
        /\ LocksOf(p, s) = Exclusive({t} \cup Referred("orm", t))
        /\ \A r \in Referred("orm", t) : Seen(p, r) # "absent"
    BY <1>2, <1>3, CreateDoes DEF Executed
  <1>5. t \in Tables /\ "users" \in Tables
    BY ObjectFacts
  <1>6. Absent(t)
    BY <1>4, <1>5, NotSeen DEF Creating
  <1>7. MadeNew(p, "orm")'
    BY <1>4, <1>6, MadeStaysNew DEF Creating
  <1>8. \A u : s = Statement("create", u) => u = t
    BY <1>2, StatementsOf
  <1>9. /\ \A u \in missing[p] : Statement("create", u) \in Todo(p)' \/ u \in DOMAIN change'[p]
        /\ DOMAIN change'[p] \subseteq missing[p]
    BY <1>4, <1>8 DEF Executed, Creating
  <1>10. ASSUME "sso_sessions" \in DOMAIN change'[p]
         PROVE  "users" \in DOMAIN change'[p] \/ (<<"users", "exclusive">> \in held'[p] /\ ~Absent("users"))
    <2>1. CASE t = "sso_sessions"
      <3>1. <<"users", "exclusive">> \in LocksOf(p, s) /\ Seen(p, "users") # "absent"
        BY <1>4, <2>1, SessionRefersToUser DEF Exclusive
      <3>2. "users" \in DOMAIN change[p] \/ ~Absent("users")
        BY <3>1 DEF Seen, Absent
      <3> QED
        BY <3>1, <3>2 DEF Executed
    <2>2. CASE t # "sso_sessions"
      BY <1>4, <1>10, <2>2 DEF Executed, Creating
    <2> QED
      BY <2>1, <2>2
  <1>11. missing'[p] = missing[p] /\ (Absent("users")' <=> Absent("users"))
    BY DEF Executed, Absent
  <1> QED
    BY <1>1, <1>7, <1>9, <1>10, <1>11 DEF Creating

\* What the file has of an object it has made itself, or found.
LEMMA FilingSees ==
    ASSUME NEW p \in Procs, Filing(p), NEW o
    PROVE  Seen(p, o) = "absent" => o \notin DOMAIN change[p] /\ Absent(o)
  BY DEF Filing, Seen, Absent

LEMMA FilingExecutes ==
    ASSUME NEW p \in Procs, NEW s, Executed(p, s), Filing(p),
           todo'[p] = Tail(todo[p]), s = Head(todo[p])
    PROVE  Filing(p)' /\ (FiledAll(p) => FiledAll(p)')
  <1> DEFINE Notes == /\ DOMAIN Effect(p, s) \subseteq Tables \cup {UniqueKey, Trigger}
                      /\ \A o \in DOMAIN Effect(p, s) : Effect(p, s)[o] = "sql"
                      /\ \A t \in DOMAIN Effect(p, s) \cap Tables : Absent(t)
  <1>1. s \in Todo(p) /\ Todo(p)' \subseteq Todo(p) /\ s \in FileStatements
    BY FileRange DEF Executed, Filing
  <1>2. \A o : Absent(o)' <=> Absent(o)
    BY DEF Executed, Absent
  \* What a statement that is still to come says holds as long as it is to come.
  <1>3. ASSUME Notes,
               s = Statement("index", "users") =>
                  /\ <<"users", "share">> \in LocksOf(p, s)
                  /\ "users" \in DOMAIN change[p] \/ ~Absent("users"),
               s = Statement("index", "suggestions") =>
                  /\ <<"suggestions", "share">> \in LocksOf(p, s)
                  /\ "suggestions" \in DOMAIN change[p] \/ catalog["suggestions"] # "revision",
               s = Statement("index", "ingested_rows") => UniqueKey \in DOMAIN Effect(p, s),
               s = Statement("trigger", "audit_logs") => Trigger \in DOMAIN Effect(p, s)
        PROVE  Filing(p)'
    <2>1. MadeNew(p, "sql")'
      BY <1>3, MadeStaysNew DEF Filing
    <2>2. \A o \in DOMAIN change'[p] : o \in Tables \cup {UniqueKey, Trigger} /\ change'[p][o] = "sql"
      BY <1>3 DEF Filing, Executed
    <2>3. Statement("index", "users") \in Todo(p)' => todo'[p] \in {SqlFile, Tail(SqlFile)}
      <3>1. SUFFICES ASSUME Statement("index", "users") \in Todo(p)' PROVE todo[p] # Tail(SqlFile)
        BY <1>1 DEF Filing
      <3>2. Range(SqlOthers) = FileStatements \ {Statement("create_if_absent", "users"), Statement("index", "users")}
        BY OthersRange
      <3> QED
        BY <3>1, <3>2, FileRange DEF Todo
    <2>4. Statement("index", "users") \in Todo(p)'
          \/ (<<"users", "share">> \in held'[p] /\ ("users" \in DOMAIN change'[p] \/ ~Absent("users")))
      BY <1>3 DEF Filing, Executed
    <2>5. Statement("index", "suggestions") \in Todo(p)'
          \/ /\ <<"suggestions", "share">> \in held'[p]
             /\ "suggestions" \in DOMAIN change'[p] \/ catalog'["suggestions"] # "revision"
      BY <1>3 DEF Filing, Executed
    <2>6. /\ Statement("index", "ingested_rows") \in Todo(p)' \/ UniqueKey \in DOMAIN change'[p]
          /\ Statement("trigger", "audit_logs") \in Todo(p)' \/ Trigger \in DOMAIN change'[p]
      BY <1>3 DEF Filing, Executed
    <2> QED
      BY <1>1, <1>2, <2>1, <2>2, <2>3, <2>4, <2>5, <2>6 DEF Filing
  <1>4. ASSUME \A t : s = Statement("create_if_absent", t) =>
                   t \in DOMAIN Effect(p, s) \/ t \in DOMAIN change[p] \/ ~Absent(t),
               FiledAll(p)
        PROVE  FiledAll(p)'
    BY <1>2, <1>4 DEF FiledAll, Executed
  <1>5. ASSUME NEW t \in Tables, s = Statement("create_if_absent", t)
        PROVE  Filing(p)' /\ (FiledAll(p) => FiledAll(p)')
    <2>1. s # Statement("trigger", "audit_logs") /\ \A u : s # Statement("index", u)
      BY <1>5, StatementsOf
    <2>2. \A u : s = Statement("create_if_absent", u) => u = t
      BY <1>5, StatementsOf
    <2>3. CASE Seen(p, t) = "absent"
      <3>0. /\ DOMAIN Effect(p, Statement("create_if_absent", t)) = {t}
            /\ Effect(p, Statement("create_if_absent", t))[t] = "sql"
        BY <2>3, MakeDoes
      <3>1. DOMAIN Effect(p, s) = {t} /\ Effect(p, s)[t] = "sql"
        BY <1>5, <3>0
      <3>2. Notes
        BY <2>3, <3>1, FilingSees
      <3> QED
        BY <1>3, <1>4, <2>1, <2>2, <3>1, <3>2
    <2>4. CASE Seen(p, t) # "absent"
      <3>1. DOMAIN Effect(p, s) = {}
        BY <1>5, <2>4, MakeDoes
      <3>2. t \in DOMAIN change[p] \/ ~Absent(t)
        BY <2>4 DEF Seen, Absent
      <3> QED
        BY <1>3, <1>4, <2>1, <2>2, <3>1, <3>2
    <2> QED
      BY <2>3, <2>4
  <1>6. ASSUME NEW t \in IndexedTables, s = Statement("index", t)
        PROVE  Filing(p)' /\ (FiledAll(p) => FiledAll(p)')
    <2>1. s # Statement("trigger", "audit_logs") /\ \A u : s # Statement("create_if_absent", u)
      BY <1>6, StatementsOf
    <2>2. \A u : s = Statement("index", u) => u = t
      BY <1>6, StatementsOf
    <2>3. /\ \A o \in DOMAIN Effect(p, s) : o = UniqueKey /\ Effect(p, s)[o] = "sql"
          /\ t = "ingested_rows" => UniqueKey \in DOMAIN Effect(p, s)
          /\ <<t, "share">> \in LocksOf(p, s)
          /\ Seen(p, t) # "absent" /\ ~LacksColumn(Seen(p, t), t)
      BY <1>6, IndexDoes DEF Executed
    <2>4. Notes
      BY <2>3, ObjectFacts
    <2>5. t \in DOMAIN change[p] \/ ~Absent(t)
      BY <2>3 DEF Seen, Absent
    <2>6. t = "suggestions" => t \in DOMAIN change[p] \/ catalog[t] # "revision"
      BY <2>3 DEF Seen, LacksColumn
    <2> QED
      BY <1>3, <1>4, <2>1, <2>2, <2>3, <2>4, <2>5, <2>6
  <1>7. ASSUME s = Statement("trigger", "audit_logs")
        PROVE  Filing(p)' /\ (FiledAll(p) => FiledAll(p)')
    <2>1. \A u : s # Statement("index", u) /\ s # Statement("create_if_absent", u)
      BY <1>7, StatementsOf
    <2>2. DOMAIN Effect(p, s) = {Trigger} /\ Effect(p, s)[Trigger] = "sql"
      BY <1>7, TriggerDoes
    <2>3. Notes
      BY <2>2, ObjectFacts
    <2> QED
      BY <1>3, <1>4, <2>1, <2>2, <2>3
  <1> QED
    BY <1>1, <1>5, <1>6, <1>7 DEF FileStatements

LEMMA ExecuteInv ==
    ASSUME IInv, NEW p \in Procs, Execute(p)
    PROVE  IInv'
  <1> DEFINE s == Head(todo[p])
  <1>1. TypeOK /\ StatementsOK /\ Running(p) /\ LocksAgree /\ ChangesLocked
    BY DEF IInv
  <1>2. /\ todo[p] # << >> /\ command[p] # "none" /\ s.op \notin {"heads", "look"}
        /\ ~Blocked(p) /\ Succeeds(p, s)
    BY DEF Execute, IsDdl
  <1>3. /\ s \in Todo(p) /\ Todo(p) = {s} \cup Range(Tail(todo[p])) /\ Tail(todo[p]) \in Seq(Statements)
        /\ s \in DdlStatements /\ Advancing(p)
    BY <1>1, <1>2, NextStatement
  <1>4. Backed(p, s)
    BY <1>1, <1>3, StatementsBacked
  <1>5. /\ change' = [change EXCEPT ![p] = change[p] ++ Effect(p, s)]
        /\ held' = [held EXCEPT ![p] = held[p] \cup LocksOf(p, s)]
        /\ todo' = [todo EXCEPT ![p] = Tail(todo[p])]
        /\ waiting' = [waiting EXCEPT ![p] = FALSE]
        /\ UNCHANGED <<catalog, command, missing, issued, tried, crashes, overtaken, torn>>
    BY DEF Execute, history
  <1>6. \A q \in Procs \ {p} : Blocks(q, p) <=> \E l \in LocksOf(p, s), m \in held[q] : Conflict(l, m)
    BY <1>2 DEF Blocks
  <1>7. \A q \in Procs \ {p} : \A l \in LocksOf(p, s), m \in held[q] : ~Conflict(l, m) /\ ~Conflict(m, l)
    BY <1>2, <1>6 DEF Blocked, Conflict
  <1> HIDE DEF s
  <1>8. /\ todo'[p] = Tail(todo[p]) /\ held'[p] = held[p] \cup LocksOf(p, s)
        /\ change'[p] = change[p] ++ Effect(p, s)
    BY <1>1, <1>5 DEF TypeOK, StatementsOK
  <1>9. \A q \in Procs \ {p} : Same(q)
    BY <1>1, <1>5 DEF Same, TypeOK, StatementsOK
  <1>10. Executed(p, s)
    BY <1>2, <1>3, <1>5, <1>8 DEF Executed, Todo, ++
  <1>11. TypeOK'
    <2>1. \A q \in Procs : /\ DOMAIN change'[q] \subseteq Objects
                           /\ \A o \in DOMAIN change'[q] : change'[q][o] \in Possible(o)
      BY <1>1, <1>4, <1>9, <1>10 DEF TypeOK, Same, Executed, Backed
    <2>2. held' \in [Procs -> SUBSET (Objects \X {"share", "exclusive"})]
      BY <1>1, <1>4, <1>5 DEF TypeOK, Backed, Locks
    <2> QED
      BY <1>1, <1>5, <2>1, <2>2 DEF TypeOK
  <1>12. StatementsOK'
    BY <1>1, <1>3, <1>5 DEF StatementsOK
  <1>13. LocksAgree'
    BY <1>1, <1>7, <1>8, <1>9 DEF LocksAgree, Same
  <1>14. ChangesLocked'
    BY <1>1, <1>4, <1>8, <1>9, <1>10 DEF ChangesLocked, Same, Executed, Backed
  <1>15. Running(p)'
    <2>1. Idle(p) => Idle(p)'
      BY <1>10, IdleExecutes
    <2>2. (command[p] = "upgrade" /\ Upgrading(p)) => Upgrading(p)'
      BY <1>10, UpgradingExecutes
    <2>3. Downgrading(p) => Downgrading(p)'
      BY <1>10, DowngradingExecutes
    <2>4. Filing(p) => Filing(p)'
      BY <1>8, <1>10, FilingExecutes DEF s
    <2>5. (command[p] = "create_all" /\ Creating(p)) => Creating(p)'
      BY <1>1, <1>10, CreatingExecutes DEF TypeOK
    <2> QED
      BY <1>1, <1>3, <1>5, <2>1, <2>2, <2>3, <2>4, <2>5 DEF Running, Advancing
  <1>16. ASSUME ~torn PROVE Untorn(p)'
    <2>1. Untorn(p)
      BY <1>16 DEF IInv
    <2>2. command[p] = "sql" => FiledAll(p)'
      BY <1>3, <1>8, <1>10, <2>1, FilingExecutes DEF s, Untorn, Advancing
    <2>3. ASSUME command[p] = "create_all" PROVE Found(p)'
      <3>1. Found(p) /\ Creating(p)
        BY <1>3, <2>1, <2>3 DEF Untorn, Advancing
      <3>2. ASSUME NEW t PROVE Statement("look", t) \notin Todo(p)
        BY <3>1, StatementsOf DEF Creating
      <3> QED
        BY <1>5, <3>1, <3>2 DEF Found, FindsAll, Absent
    <2> QED
      BY <1>5, <2>2, <2>3 DEF Untorn
  <1> QED
    BY <1>5, <1>9, <1>11, <1>12, <1>13, <1>14, <1>15, <1>16, Alone

-------------------------------------------------------------------------------
(* Committing.                                                             *)
Both == {"upgrade", "downgrade"}

\* What a commit does, object by object and process by process.
Committed(p) ==
    /\ command[p] # "none" /\ todo[p] = << >>
    /\ \A o \in Objects : catalog'[o] = IF o \in DOMAIN change[p] THEN change[p][o] ELSE catalog[o]
    /\ command'[p] = "none" /\ todo'[p] = << >> /\ missing'[p] = {} /\ DOMAIN change'[p] = {}
    /\ held'[p] = {} /\ overtaken'[p] = {}
    /\ \A q \in Procs \ {p} :
          /\ command'[q] = command[q] /\ todo'[q] = todo[q] /\ missing'[q] = missing[q]
          /\ change'[q] = change[q] /\ held'[q] = held[q]
          /\ command[q] # "create_all" => overtaken'[q] = {}
          /\ command[q] = "create_all" => overtaken'[q] = overtaken[q] \cup
                {c \in Both : c = command[p] /\ "users" \in DOMAIN change[p]}
    /\ torn' = (torn \/ overtaken[p] = Both)

LEMMA CommitDoes ==
    ASSUME IInv, NEW p \in Procs, Commit(p)
    PROVE  Committed(p) /\ TypeOK' /\ StatementsOK'
  <1>1. TypeOK /\ StatementsOK
    BY DEF IInv
  <1>2. /\ command[p] # "none" /\ todo[p] = << >>
        /\ catalog' = catalog ++ change[p]
        /\ overtaken' = [q \in Procs |->
                 IF q = p \/ command[q] # "create_all" THEN {}
                 ELSE overtaken[q] \cup {c \in Both : c = command[p] /\ "users" \in DOMAIN change[p]}]
        /\ torn' = (torn \/ overtaken[p] = Both)
        /\ command' = [command EXCEPT ![p] = "none"] /\ todo' = [todo EXCEPT ![p] = << >>]
        /\ missing' = [missing EXCEPT ![p] = {}] /\ change' = [change EXCEPT ![p] = [o \in {} |-> ""]]
        /\ held' = [held EXCEPT ![p] = {}] /\ waiting' = [waiting EXCEPT ![p] = FALSE]
        /\ UNCHANGED <<issued, tried, crashes>>
    BY DEF Commit, End, Both
  <1>3. /\ DOMAIN change[p] \subseteq Objects /\ DOMAIN catalog = Objects
        /\ \A o \in DOMAIN change[p] : change[p][o] \in Possible(o)
        /\ \A o \in Objects : catalog[o] \in Possible(o)
    BY <1>1 DEF TypeOK
  <1>4. /\ DOMAIN catalog' = Objects
        /\ \A o \in Objects : catalog'[o] = IF o \in DOMAIN change[p] THEN change[p][o] ELSE catalog[o]
    BY <1>2, <1>3 DEF ++
  <1>5. /\ command'[p] = "none" /\ todo'[p] = << >> /\ missing'[p] = {} /\ DOMAIN change'[p] = {}
        /\ held'[p] = {} /\ overtaken'[p] = {}
    BY <1>1, <1>2 DEF TypeOK, StatementsOK
  <1>6. \A q \in Procs \ {p} :
          /\ command'[q] = command[q] /\ todo'[q] = todo[q] /\ missing'[q] = missing[q]
          /\ change'[q] = change[q] /\ held'[q] = held[q]
          /\ command[q] # "create_all" => overtaken'[q] = {}
          /\ command[q] = "create_all" => overtaken'[q] = overtaken[q] \cup
                {c \in Both : c = command[p] /\ "users" \in DOMAIN change[p]}
    BY <1>1, <1>2 DEF TypeOK, StatementsOK
  <1>7. \A o \in Objects : catalog'[o] \in Possible(o)
    BY <1>3, <1>4
  <1>8. \A q \in Procs : /\ DOMAIN change'[q] \subseteq Objects
                         /\ \A o \in DOMAIN change'[q] : change'[q][o] \in Possible(o)
    BY <1>1, <1>5, <1>6 DEF TypeOK
  <1>9. overtaken' \in [Procs -> SUBSET Both]
    BY <1>1, <1>2 DEF TypeOK, Both
  <1>10. TypeOK'
    BY <1>1, <1>2, <1>4, <1>7, <1>8, <1>9 DEF TypeOK, Both
  <1>11. StatementsOK'
    BY <1>1, <1>2 DEF StatementsOK
  <1> QED
    BY <1>2, <1>4, <1>5, <1>6, <1>10, <1>11 DEF Committed

\* What another process has locked, a commit does not change.
LEMMA LockedIsKept ==
    ASSUME IInv, NEW p \in Procs, Committed(p), NEW q \in Procs \ {p},
           NEW o \in Objects \ {UniqueKey, Trigger}, NEW mode, <<o, mode>> \in held[q]
    PROVE  o \notin DOMAIN change[p] /\ catalog'[o] = catalog[o]
  <1>1. o \notin DOMAIN change[p]
    <2> SUFFICES ASSUME o \in DOMAIN change[p] PROVE FALSE
      OBVIOUS
    <2>1. <<o, "exclusive">> \in held[p]
      BY DEF IInv, ChangesLocked
    <2> QED
      BY <2>1 DEF IInv, LocksAgree, Conflict
  <1> QED
    BY <1>1 DEF Committed

LEMMA OthersRun ==
    ASSUME IInv, NEW p \in Procs, Committed(p), NEW q \in Procs \ {p}
    PROVE  Running(q)'
  <1>1. /\ command'[q] = command[q] /\ todo'[q] = todo[q] /\ missing'[q] = missing[q]
        /\ change'[q] = change[q] /\ held'[q] = held[q]
        /\ command[q] # "create_all" => overtaken'[q] = {}
    BY DEF Committed
  <1>2. \A o \in Objects \ {UniqueKey, Trigger} : \A mode :
            <<o, mode>> \in held[q] => catalog'[o] = catalog[o]
    BY LockedIsKept
  <1>3. \A o \in DOMAIN change[q] \ {UniqueKey, Trigger} : catalog'[o] = catalog[o]
    <2>1. DOMAIN change[q] \subseteq Objects
      BY DEF IInv, TypeOK
    <2> QED
      BY <1>2, <2>1 DEF IInv, ChangesLocked
  <1> USE <1>1 DEF Todo, Absent
  <1>4. (Resting(q) => Resting(q)') /\ (Asking(q) => Asking(q)') /\ (Looking(q) => Looking(q)')
    BY DEF Resting, Asking, Looking
  <1>5. Version \in DOMAIN change[q] => catalog'[Version] = catalog[Version]
    BY <1>3, ObjectFacts
  <1>6. Idle(q) => Idle(q)'
    BY <1>5 DEF Idle
  <1>7. \A origin : MadeNew(q, origin) => MadeNew(q, origin)'
    BY <1>3, ObjectFacts DEF MadeNew
  <1>8. Upgrading(q) => Upgrading(q)'
    BY <1>7 DEF Upgrading
  <1>9. Downgrading(q) => Downgrading(q)'
    BY <1>5 DEF Downgrading, Applied
  <1>10. /\ \A mode : <<"users", mode>> \in held[q] => catalog'["users"] = catalog["users"]
         /\ \A mode : <<"suggestions", mode>> \in held[q] => catalog'["suggestions"] = catalog["suggestions"]
    BY <1>2, ObjectFacts
  <1>11. Filing(q) => Filing(q)'
    BY <1>7, <1>10 DEF Filing
  <1>12. Creating(q) => Creating(q)'
    BY <1>7, <1>10 DEF Creating
  <1> QED
    BY <1>4, <1>6, <1>8, <1>9, <1>11, <1>12 DEF IInv, Running

\* What the transaction of a command consists of when it commits.
Nothing(p) ==
    /\ command[p] \in Both
    /\ DOMAIN change[p] \subseteq {Version}
    /\ Version \in DOMAIN change[p] => change[p][Version] = "empty" /\ catalog[Version] = "absent"
WholeUpgrade(p) ==
    /\ command[p] = "upgrade" /\ DOMAIN change[p] = CommonTables \cup {Version}
    /\ \A t \in CommonTables : change[p][t] = "revision" /\ Absent(t)
    /\ change[p][Version] = "stamped"
WholeDowngrade(p) ==
    /\ command[p] = "downgrade"
    /\ DOMAIN change[p] = CommonTables \cup {UniqueKey, Trigger, Version}
    /\ \A o \in CommonTables \cup {UniqueKey, Trigger} : change[p][o] = "absent"
    /\ change[p][Version] = "empty" /\ Applied
WholeFile(p) ==
    /\ command[p] = "sql" /\ DOMAIN change[p] \subseteq Tables \cup {UniqueKey, Trigger}
    /\ UniqueKey \in DOMAIN change[p] /\ Trigger \in DOMAIN change[p]
    /\ \A o \in DOMAIN change[p] : change[p][o] = "sql"
    /\ \A t \in DOMAIN change[p] \cap Tables : Absent(t)
    /\ "users" \in DOMAIN change[p] \/ ~Absent("users")
    /\ "suggestions" \in DOMAIN change[p] \/ catalog["suggestions"] # "revision"
WholeCreation(p) ==
    /\ command[p] = "create_all" /\ DOMAIN change[p] = missing[p]
    /\ \A t \in missing[p] : change[p][t] = "orm" /\ Absent(t)
    /\ "sso_sessions" \in missing[p] => "users" \in missing[p] \/ ~Absent("users")

LEMMA CommitWhole ==
    ASSUME IInv, NEW p \in Procs, Committed(p)
    PROVE  \/ Nothing(p) \/ WholeUpgrade(p) \/ WholeDowngrade(p)
           \/ WholeFile(p) \/ WholeCreation(p)
  <1>1. /\ Todo(p) = {} /\ todo[p] = << >> /\ command[p] \in Kinds /\ Running(p)
        /\ missing[p] \subseteq CommonTables
    BY RangeEmpty DEF Committed, Todo, IInv, TypeOK
  <1>2. ~Asking(p) /\ ~Looking(p)
    BY <1>1 DEF Asking, Looking
  <1>3. ASSUME command[p] \in Both, Idle(p) PROVE Nothing(p)
    BY <1>3 DEF Idle, Nothing, Absent
  <1>4. ASSUME command[p] = "upgrade", Upgrading(p) PROVE WholeUpgrade(p)
    <2>1. DOMAIN change[p] = CommonTables \cup {Version} /\ change[p][Version] = "stamped"
      BY <1>1, <1>4 DEF Upgrading
    <2> QED
      BY <1>4, <2>1, ObjectFacts DEF Upgrading, MadeNew, WholeUpgrade
  <1>5. ASSUME command[p] = "downgrade", Downgrading(p) PROVE WholeDowngrade(p)
    <2>1. UniqueKey \in Attached("ingested_rows") /\ Trigger \in Attached("audit_logs")
      BY ObjectFacts DEF Attached
    <2>2. DOMAIN change[p] = CommonTables \cup {UniqueKey, Trigger, Version}
      BY <1>1, <1>5, <2>1, ObjectFacts DEF Downgrading
    <2> QED
      BY <1>1, <1>5, <2>2, ObjectFacts DEF Downgrading, WholeDowngrade
  <1>6. ASSUME command[p] = "sql", Filing(p) PROVE WholeFile(p)
    BY <1>1, <1>6 DEF Filing, WholeFile, MadeNew
  <1>7. ASSUME command[p] = "create_all", Creating(p) PROVE WholeCreation(p)
    <2>1. DOMAIN change[p] = missing[p]
      BY <1>1, <1>7 DEF Creating
    <2> QED
      BY <1>1, <1>7, <2>1, ObjectFacts DEF Creating, WholeCreation, MadeNew
  <1> QED
    BY <1>1, <1>2, <1>3, <1>4, <1>5, <1>6, <1>7 DEF Running, Committed, Kinds, Both

\* A create_all that was not torn has found everything missing, or nothing.
LEMMA CreatesAllOrNothing ==
    ASSUME IInv, NEW p \in Procs, Committed(p), WholeCreation(p), ~torn'
    PROVE  missing[p] = {} \/ (missing[p] = CommonTables /\ Absent("users"))
  <1> SUFFICES ASSUME missing[p] # {} PROVE missing[p] = CommonTables /\ Absent("users")
    OBVIOUS
  <1>1. Clean /\ Found(p) /\ overtaken[p] # Both /\ missing[p] \subseteq CommonTables
        /\ overtaken[p] \subseteq Both
    BY DEF Committed, IInv, Untorn, WholeCreation, TypeOK, Both
  <1>2. Absent("users")
    BY <1>1 DEF WholeCreation, Clean, Absent
  <1>3. catalog["users"] # "revision"
    BY <1>2 DEF Absent
  <1>4. \A t : Statement("look", t) \notin Todo(p)
    BY RangeEmpty DEF Committed, Todo
  <1>5. overtaken[p] = {} \/ overtaken[p] = {"downgrade"}
    BY <1>1, <1>3 DEF Found, Both
  <1>6. overtaken[p] = {"downgrade"} => "users" \in missing[p]
    BY <1>1, <1>2, <1>4 DEF Found, WholeCreation
  <1>7. FindsAll(p)
    BY <1>1, <1>2, <1>5, <1>6 DEF Found
  <1> QED
    BY <1>1, <1>2, <1>4, <1>7 DEF FindsAll

\* What a commit makes of a clean database.
Outcome(p) ==
    \/ /\ "users" \notin DOMAIN change[p]
       /\ \A o \in Objects \ {Version} : catalog'[o] = catalog[o]
       /\ Applied' = Applied
    \/ /\ command[p] = "upgrade" /\ catalog["users"] = "absent" /\ "users" \in DOMAIN change[p]
       /\ \A t \in CommonTables : catalog'[t] = "revision"
       /\ \A o \in {"user_roles", UniqueKey, Trigger} : catalog'[o] = "absent"
       /\ Applied'
    \/ /\ command[p] = "downgrade" /\ catalog["users"] = "revision" /\ "users" \in DOMAIN change[p]
       /\ \A o \in CommonTables \cup {"user_roles", UniqueKey, Trigger} : catalog'[o] = "absent"
       /\ ~Applied'
    \/ /\ command[p] = "create_all" /\ catalog["users"] = "absent" /\ "users" \in DOMAIN change[p]
       /\ \A t \in CommonTables : catalog'[t] = "orm"
       /\ \A o \in {"user_roles", UniqueKey, Trigger} : catalog'[o] = "absent"
       /\ Applied' = Applied
    \/ /\ command[p] = "sql" /\ catalog["users"] = "absent" /\ "users" \in DOMAIN change[p]
       /\ \A o \in CommonTables \cup {"user_roles", UniqueKey, Trigger} : catalog'[o] = "sql"
       /\ Applied' = Applied
    \/ /\ command[p] = "sql" /\ catalog["users"] \in {"sql", "orm"} /\ "users" \notin DOMAIN change[p]
       /\ \A t \in CommonTables : catalog'[t] = catalog[t]
       /\ \A o \in {"user_roles", UniqueKey, Trigger} : catalog'[o] = "sql"
       /\ Applied' = Applied

LEMMA CommitOutcome ==
    ASSUME IInv, NEW p \in Procs, Committed(p), ~torn'
    PROVE  Outcome(p)
  <1>1. Clean /\ Untorn(p) /\ ~torn
    BY DEF Committed, IInv
  <1>2. \A o \in Objects : catalog'[o] = IF o \in DOMAIN change[p] THEN change[p][o] ELSE catalog[o]
    BY DEF Committed
  <1>3. /\ \A t \in CommonTables : catalog[t] = catalog["users"]
        /\ catalog["users"] \in {"absent", "revision"} =>
              \A o \in {"user_roles", UniqueKey, Trigger} : catalog[o] = "absent"
        /\ catalog["users"] \in Origins \cup {"absent"}
        /\ Applied <=> catalog["users"] = "revision"
    BY <1>1 DEF Clean, Absent
  <1>4. ASSUME Version \notin DOMAIN change[p] PROVE Applied' = Applied
    BY <1>2, <1>4, ObjectFacts DEF Applied
  <1>5. CASE Nothing(p)
    <2>1. "users" \notin DOMAIN change[p] /\ \A o \in Objects \ {Version} : catalog'[o] = catalog[o]
      BY <1>2, <1>5, ObjectFacts DEF Nothing
    <2>2. Applied' = Applied
      BY <1>2, <1>5, ObjectFacts DEF Nothing, Applied
    <2> QED
      BY <2>1, <2>2 DEF Outcome
  <1>6. CASE WholeUpgrade(p)
    <2>1. catalog["users"] = "absent" /\ "users" \in DOMAIN change[p]
      BY <1>6, ObjectFacts DEF WholeUpgrade, Absent
    <2>2. \A t \in CommonTables : catalog'[t] = "revision"
      BY <1>2, <1>6, ObjectFacts DEF WholeUpgrade
    <2>3. \A o \in {"user_roles", UniqueKey, Trigger} : catalog'[o] = "absent"
      BY <1>2, <1>3, <1>6, <2>1, ObjectFacts DEF WholeUpgrade
    <2>4. Applied'
      BY <1>2, <1>6, ObjectFacts DEF WholeUpgrade, Applied
    <2> QED
      BY <1>6, <2>1, <2>2, <2>3, <2>4 DEF Outcome, WholeUpgrade
  <1>7. CASE WholeDowngrade(p)
    <2>1. catalog["users"] = "revision" /\ "users" \in DOMAIN change[p]
      BY <1>3, <1>7, ObjectFacts DEF WholeDowngrade
    <2>2. \A o \in CommonTables \cup {UniqueKey, Trigger} : catalog'[o] = "absent"
      BY <1>2, <1>7, ObjectFacts DEF WholeDowngrade
    <2>3. catalog'["user_roles"] = "absent"
      BY <1>2, <1>3, <1>7, <2>1, ObjectFacts DEF WholeDowngrade
    <2>4. ~Applied'
      BY <1>2, <1>7, ObjectFacts DEF WholeDowngrade, Applied
    <2> QED
      BY <1>7, <2>1, <2>2, <2>3, <2>4 DEF Outcome, WholeDowngrade
  <1>8. CASE WholeCreation(p)
    <2>1. Applied' = Applied
      BY <1>4, <1>8, ObjectFacts DEF WholeCreation, IInv, TypeOK
    <2>2. CASE missing[p] = {}
      BY <1>2, <1>8, <2>1, <2>2 DEF Outcome, WholeCreation
    <2>3. CASE missing[p] = CommonTables /\ Absent("users")
      <3>1. catalog["users"] = "absent" /\ DOMAIN change[p] = CommonTables /\ "users" \in DOMAIN change[p]
        BY <1>8, <2>3, ObjectFacts DEF WholeCreation, Absent
      <3>2. \A t \in CommonTables : catalog'[t] = "orm"
        BY <1>2, <1>8, <2>3, <3>1, ObjectFacts DEF WholeCreation
      <3>3. \A o \in {"user_roles", UniqueKey, Trigger} : catalog'[o] = "absent"
        BY <1>2, <1>3, <3>1, ObjectFacts
      <3> QED
        BY <1>8, <2>1, <3>1, <3>2, <3>3 DEF Outcome, WholeCreation
    <2> QED
      BY <1>8, <2>2, <2>3, CreatesAllOrNothing
  <1>9. CASE WholeFile(p)
    <2>1. FiledAll(p) /\ \A t : Statement("create_if_absent", t) \notin Todo(p)
      BY <1>1, <1>9, RangeEmpty DEF Untorn, WholeFile, Committed, Todo
    <2>2. \A t \in Tables : t \in DOMAIN change[p] <=> catalog[t] = "absent"
      BY <1>9, <2>1 DEF FiledAll, WholeFile, Absent
    <2>3. Applied' = Applied
      BY <1>4, <1>9, ObjectFacts DEF WholeFile
    <2>4. \A o \in {"user_roles", UniqueKey, Trigger} : catalog'[o] = "sql"
      <3>1. catalog'[UniqueKey] = "sql" /\ catalog'[Trigger] = "sql"
        BY <1>2, <1>9, ObjectFacts DEF WholeFile
      <3>2. catalog'["user_roles"] = "sql"
        BY <1>1, <1>2, <1>9, <2>2, ObjectFacts DEF WholeFile, Clean
      <3> QED
        BY <3>1, <3>2
    <2>5. CASE catalog["users"] = "absent"
      <3>1. \A t \in CommonTables : catalog'[t] = "sql" /\ t \in DOMAIN change[p]
        BY <1>2, <1>3, <1>9, <2>2, <2>5, ObjectFacts DEF WholeFile
      <3> QED
        BY <1>9, <2>3, <2>4, <2>5, <3>1, ObjectFacts DEF Outcome, WholeFile
    <2>6. CASE catalog["users"] # "absent"
      <3>1. \A t \in CommonTables : catalog'[t] = catalog[t] /\ t \notin DOMAIN change[p]
        BY <1>2, <1>3, <2>2, <2>6, ObjectFacts
      <3>2. catalog["users"] \in {"sql", "orm"}
        BY <1>3, <1>9, <2>6, <3>1, ObjectFacts DEF WholeFile, Origins
      <3> QED
        BY <1>9, <2>3, <2>4, <3>1, <3>2, ObjectFacts DEF Outcome, WholeFile
    <2> QED
      BY <2>5, <2>6
  <1> QED
    BY <1>5, <1>6, <1>7, <1>8, <1>9, CommitWhole

LEMMA StaysClean ==
    ASSUME IInv, NEW p \in Procs, Committed(p), ~torn'
    PROVE  Clean'
  <1>1. Clean /\ Outcome(p)
    BY CommitOutcome DEF Committed, IInv
  <1>2. /\ "users" \in CommonTables
        /\ \A o \in CommonTables \cup {"user_roles", UniqueKey, Trigger} : o \in Objects \ {Version}
    BY ObjectFacts
  <1>3. CASE \A o \in Objects \ {Version} : catalog'[o] = catalog[o] /\ Applied' = Applied
    BY <1>1, <1>2, <1>3 DEF Clean, Absent
  <1>4. CASE /\ \A t \in CommonTables : catalog'[t] = catalog'["users"]
             /\ \A o \in {"user_roles", UniqueKey, Trigger} : catalog'[o] = catalog'["user_roles"]
             /\ catalog'["users"] \in Origins \cup {"absent"} /\ catalog'["user_roles"] \in {"absent", "sql"}
             /\ catalog'["users"] \in {"absent", "revision"} => catalog'["user_roles"] = "absent"
             /\ catalog'["users"] = "sql" => catalog'["user_roles"] = "sql"
             /\ Applied' <=> catalog'["users"] = "revision"
    BY <1>4 DEF Clean, Absent
  <1> QED
    BY <1>1, <1>2, <1>3, <1>4 DEF Outcome, Clean, Origins

LEMMA OthersUntorn ==
    ASSUME IInv, NEW p \in Procs, Committed(p), ~torn', NEW q \in Procs \ {p}
    PROVE  Untorn(q)'
  <1>1. /\ command'[q] = command[q] /\ todo'[q] = todo[q] /\ missing'[q] = missing[q]
        /\ change'[q] = change[q] /\ held'[q] = held[q]
        /\ command[q] = "create_all" => overtaken'[q] = overtaken[q] \cup
              {c \in Both : c = command[p] /\ "users" \in DOMAIN change[p]}
        /\ Todo(q)' = Todo(q)
    BY DEF Committed, Todo
  <1>2. Clean /\ Untorn(q) /\ Running(q) /\ Outcome(p)
    BY CommitOutcome DEF IInv, Committed
  <1>3. ASSUME command[q] = "sql" PROVE FiledAll(q)'
    <2>1. FiledAll(q) /\ Filing(q)
      BY <1>2, <1>3 DEF Untorn, Running
    <2>2. CASE command[p] = "downgrade" /\ "users" \in DOMAIN change[p]
      <3>1. <<"users", "share">> \notin held[q]
        BY <2>2, LockedIsKept, ObjectFacts
      <3>2. todo[q] \in {SqlFile, Tail(SqlFile)}
        BY <2>1, <3>1 DEF Filing
      <3>3. FileStatements = {Statement("create_if_absent", "users")} \cup Range(Tail(SqlFile))
        BY FileRange, RangeHeadTail
      <3>4. \A t \in Tables : Statement("create_if_absent", t) \in FileStatements
        BY DEF FileStatements
      <3>5. \A t \in Tables \ {"users"} : Statement("create_if_absent", t) # Statement("create_if_absent", "users")
        BY StatementsOf
      <3>6. \A t \in Tables \ {"users"} : Statement("create_if_absent", t) \in Todo(q)
        BY <3>2, <3>3, <3>4, <3>5, FileRange DEF Todo
      <3> QED
        BY <1>1, <3>6 DEF FiledAll
    <2>3. CASE ~(command[p] = "downgrade" /\ "users" \in DOMAIN change[p])
      <3>1. \A t \in Tables : ~Absent(t) => ~Absent(t)'
        BY <1>2, <2>3, ObjectFacts DEF Outcome, Absent, Clean
      <3> QED
        BY <1>1, <2>1, <3>1 DEF FiledAll
    <2> QED
      BY <2>2, <2>3
  <1>4. ASSUME command[q] = "create_all" PROVE Found(q)'
    <2>1. Found(q) /\ overtaken[q] \subseteq Both
      BY <1>2, <1>4 DEF Untorn, IInv, TypeOK, Both
    <2>2. FindsAll(q)' <=> FindsAll(q)
      BY <1>1 DEF FindsAll
    <2>3. "users" \in CommonTables /\ "users" \in Objects \ {Version}
      BY ObjectFacts
    <2>4. CASE "users" \notin DOMAIN change[p]
      <3>1. overtaken'[q] = overtaken[q] /\ catalog'["users"] = catalog["users"]
        BY <1>1, <1>4, <2>3, <2>4 DEF Committed
      <3> QED
        BY <1>1, <2>1, <2>2, <3>1 DEF Found, Absent
    <2>5. CASE command[p] = "upgrade" /\ "users" \in DOMAIN change[p]
      <3>1. overtaken'[q] = overtaken[q] \cup {"upgrade"} /\ catalog'["users"] = "revision"
        BY <1>1, <1>2, <1>4, <2>3, <2>5 DEF Outcome, Both
      <3>2. overtaken'[q] # {} /\ overtaken'[q] # {"downgrade"}
        BY <3>1
      <3> QED
        BY <3>1, <3>2 DEF Found
    <2>6. CASE command[p] = "downgrade" /\ "users" \in DOMAIN change[p]
      <3>1. /\ overtaken'[q] = overtaken[q] \cup {"downgrade"} /\ catalog'["users"] = "absent"
            /\ catalog["users"] = "revision"
        BY <1>1, <1>2, <1>4, <2>3, <2>6 DEF Outcome, Both
      <3>2. overtaken'[q] # {} /\ overtaken'[q] # {"upgrade"}
        BY <3>1
      <3>3. overtaken[q] # {"downgrade"}
        BY <2>1, <3>1 DEF Found
      <3>4. overtaken'[q] = {"downgrade"} => overtaken[q] = {}
        BY <3>1, <3>3
      <3>5. overtaken'[q] = {"downgrade"} => missing[q] = {}
        BY <2>1, <3>1, <3>4 DEF Found
      <3> QED
        BY <1>1, <3>1, <3>2, <3>5 DEF Found
    <2>7. CASE command[p] \notin Both /\ "users" \in DOMAIN change[p]
      <3>1. /\ overtaken'[q] = overtaken[q] /\ catalog'["users"] \in {"sql", "orm"}
            /\ catalog["users"] = "absent"
        BY <1>1, <1>2, <1>4, <2>3, <2>7 DEF Outcome, Both
      <3> QED
        BY <2>1, <3>1 DEF Found, Absent
    <2> QED
      BY <2>4, <2>5, <2>6, <2>7 DEF Both
  <1> QED
    BY <1>1, <1>3, <1>4 DEF Untorn

LEMMA CommitInv ==
    ASSUME IInv, NEW p \in Procs, Commit(p)
    PROVE  IInv'
  <1>1. Committed(p) /\ TypeOK' /\ StatementsOK'
    BY CommitDoes
  <1>2. LocksAgree'
    BY <1>1 DEF LocksAgree, IInv, Committed
  <1>3. ChangesLocked'
    BY <1>1 DEF ChangesLocked, IInv, Committed
  <1>4. Running(p)' /\ Untorn(p)'
    BY <1>1 DEF Committed, Running, Untorn, Resting
  <1>5. \A q \in Procs : Running(q)'
    BY <1>1, <1>4, OthersRun
  <1>6. ~torn' => Clean' /\ \A q \in Procs : Untorn(q)'
    BY <1>1, <1>4, StaysClean, OthersUntorn
  <1> QED
    BY <1>1, <1>2, <1>3, <1>5, <1>6 DEF IInv

-------------------------------------------------------------------------------
(* The theorems.                                                           *)
LEMMA NextInv == IInv /\ [Next]_vars => IInv'
  <1> SUFFICES ASSUME IInv, [Next]_vars PROVE IInv'
    OBVIOUS
  <1>1. CASE UNCHANGED vars
    <2>1. UNCHANGED <<catalog, command, todo, missing, change, held, waiting, issued, tried, crashes,
                      overtaken, torn>>
      BY <1>1 DEF vars, ddl, history
    <2>2. TypeOK' /\ StatementsOK' /\ LocksAgree' /\ ChangesLocked' /\ (Clean => Clean')
      BY <2>1 DEF IInv, TypeOK, StatementsOK, LocksAgree, ChangesLocked, Clean, Absent, Applied
    <2>3. \A q \in Procs : Same(q)
      BY <2>1 DEF Same
    <2> QED
      BY <2>1, <2>2, <2>3, OthersStay DEF IInv
  <1>2. ASSUME NEW p \in Procs, Step(p) PROVE IInv'
    <2>1. ASSUME RollBack(p), UNCHANGED crashes PROVE IInv'
      BY <2>1, RollBackInv DEF IInv, TypeOK
    <2> QED
      BY <1>2, <2>1, HeadsInv, LookInv, WaitInv, ExecuteInv, CommitInv DEF Step, Fail, DeadlockDetected
  <1>3. ASSUME NEW p \in Procs, Crash(p) PROVE IInv'
    <2>1. crashes' \in 0..MaxCrashes
      BY <1>3, BoundsAssumption DEF Crash, IInv, TypeOK
    <2> QED
      BY <1>3, <2>1, RollBackInv DEF Crash
  <1>4. ASSUME NEW p \in Procs, NEW kind \in Commands, Issue(p, kind) PROVE IInv'
    BY <1>4, IssueInv
  <1> QED
    BY <1>1, <1>2, <1>3, <1>4 DEF Next

LEMMA Invariant == Spec => []IInv
  BY InitInv, NextInv, PTL DEF Spec

\* The type invariant, for any processes and bounds.
THEOREM TypeCorrect == Spec => []TypeOK
  <1>1. IInv => TypeOK
    BY DEF IInv
  <1> QED
    BY <1>1, Invariant, PTL

\* 001_initial.sql:92-138 and 001_initial.py:460-471.  The stamp of Alembic, the
\* form of all tables, and the two guards of the SQL file agree with each other,
\* for any number of processes and commands.
THEOREM Agrees == Spec => []CatalogAgrees
  <1>1. IInv => CatalogAgrees
    <2> SUFFICES ASSUME Clean PROVE CatalogAgrees
      BY DEF IInv, CatalogAgrees
    <2>1. Applied <=> \E t \in Tables : catalog[t] = "revision"
      BY ObjectFacts DEF Clean
    <2> QED
      BY <2>1 DEF Clean, Absent, CatalogAgrees
  <1> QED
    BY <1>1, Invariant, PTL

\* What Origin is in a clean database.
LEMMA CleanOrigin ==
    ASSUME Clean
    PROVE  Origin = IF catalog["users"] = "absent" THEN "none" ELSE catalog["users"]
  <1> DEFINE found == {catalog[t] : t \in CommonTables}
  <1>1. found = {catalog["users"]}
    BY ObjectFacts DEF Clean
  <1>2. catalog["users"] \in Origins \cup {"absent"}
    BY DEF Clean
  <1> QED
    BY <1>1, <1>2 DEF Origin, Origins

LEMMA OnlyCommitsChange ==
    ASSUME IInv, [Next]_vars
    PROVE  catalog' = catalog \/ \E p \in Procs : Commit(p)
  BY DEF Next, Step, Heads, Look, Skip, Wait, Execute, Fail, DeadlockDetected, RollBack, Crash, Issue, vars

LEMMA AtomicStep ==
    ASSUME IInv, [Next]_vars, ~torn'
    PROVE  [Atomic!Next]_<<Origin, catalog[Trigger], Applied>>
  <1>1. CASE catalog' = catalog
    BY <1>1 DEF Origin, Applied
  <1>2. ASSUME NEW p \in Procs, Commit(p) PROVE [Atomic!Next]_<<Origin, catalog[Trigger], Applied>>
    <2>1. Committed(p)
      BY <1>2, CommitDoes
    <2>2. Outcome(p) /\ Clean /\ Clean'
      BY <2>1, CommitOutcome, StaysClean DEF IInv, Committed
    <2>3. /\ Origin = IF catalog["users"] = "absent" THEN "none" ELSE catalog["users"]
          /\ Origin' = IF catalog'["users"] = "absent" THEN "none" ELSE catalog'["users"]
      <3>1. (Clean => Origin = IF catalog["users"] = "absent" THEN "none" ELSE catalog["users"])'
        BY CleanOrigin, PTL
      <3> QED
        BY <2>2, <3>1, CleanOrigin
    <2>4. /\ catalog["users"] \in {"absent", "revision"} => catalog[Trigger] = "absent"
          /\ Applied <=> catalog["users"] = "revision"
          /\ Applied' <=> catalog'["users"] = "revision"
          /\ Applied \in BOOLEAN /\ Applied' \in BOOLEAN
      BY <2>2 DEF Clean, Absent, Applied
    <2> DEFINE guarded == catalog[Trigger] # "absent"
    <2>5. /\ "users" \in CommonTables /\ "users" \in Objects \ {Version} /\ Trigger \in Objects \ {Version}
      BY ObjectFacts
    <2>6. CASE "users" \notin DOMAIN change[p] /\ \A o \in Objects \ {Version} : catalog'[o] = catalog[o]
      <3>1. Applied' = Applied /\ catalog'[Trigger] = catalog[Trigger] /\ Origin' = Origin
        BY <2>3, <2>4, <2>5, <2>6
      <3> QED
        BY <3>1
    <2>7. CASE command[p] = "upgrade" /\ catalog["users"] = "absent" /\ catalog'["users"] = "revision"
               /\ catalog'[Trigger] = "absent" /\ Applied'
      BY <2>3, <2>4, <2>7 DEF Atomic!Next, Atomic!Upgrade
    <2>8. CASE command[p] = "downgrade" /\ catalog["users"] = "revision" /\ catalog'["users"] = "absent"
               /\ catalog'[Trigger] = "absent" /\ ~Applied'
      BY <2>3, <2>4, <2>8 DEF Atomic!Next, Atomic!Downgrade
    <2>9. CASE command[p] = "create_all" /\ catalog["users"] = "absent" /\ catalog'["users"] = "orm"
               /\ catalog'[Trigger] = "absent" /\ Applied' = Applied
      BY <2>3, <2>4, <2>9 DEF Atomic!Next, Atomic!CreateAll
    <2>10. CASE command[p] = "sql" /\ catalog["users"] = "absent" /\ catalog'["users"] = "sql"
                /\ catalog'[Trigger] = "sql" /\ Applied' = Applied
      BY <2>3, <2>4, <2>10 DEF Atomic!Next, Atomic!RunSql
    <2>11. CASE command[p] = "sql" /\ catalog["users"] \in {"sql", "orm"} /\ catalog'["users"] = catalog["users"]
                /\ catalog'[Trigger] = "sql" /\ Applied' = Applied
      <3>1. CASE catalog["users"] = "orm"
        BY <2>3, <2>4, <2>11, <3>1 DEF Atomic!Next, Atomic!RunSql
      <3>2. CASE catalog["users"] = "sql"
        <4>1. catalog[Trigger] = "sql"
          BY <2>2, <3>2 DEF Clean, Absent
        <4>2. Origin' = Origin /\ catalog'[Trigger] = catalog[Trigger] /\ Applied' = Applied
          BY <2>3, <2>11, <3>2, <4>1
        <4> QED
          BY <4>2
      <3> QED
        BY <2>11, <3>1, <3>2
    <2> QED
      BY <2>2, <2>5, <2>6, <2>7, <2>8, <2>9, <2>10, <2>11, ObjectFacts DEF Outcome
  <1> QED
    BY <1>1, <1>2, OnlyCommitsChange

\* 001_initial.sql, 001_initial.py:37-471, env.py:46-51 and database.py:73-78.
\* However many processes overlap, as long as no create_all was overtaken by an
\* upgrade and by a downgrade, their commands make or drop the tables at once.
THEOREM RefinesAtomic == Spec => ActsAtomically
  <1>1. Init => Atomic!Init
    <2> SUFFICES ASSUME Init PROVE Atomic!Init
      OBVIOUS
    <2>1. Clean
      BY InitInv DEF IInv, Init
    <2>2. Origin = IF catalog["users"] = "absent" THEN "none" ELSE catalog["users"]
      BY <2>1, CleanOrigin
    <2>3. Applied = (catalog["users"] = "revision")
      BY <2>1 DEF Clean, Applied
    <2>4. catalog["users"] = "sql" => catalog[Trigger] # "absent"
      BY <2>1 DEF Clean, Absent
    <2>5. catalog["users"] \in {"absent", "revision"} => catalog[Trigger] = "absent"
      BY <2>1 DEF Clean, Absent
    <2> QED
      BY <2>1, <2>2, <2>3, <2>4, <2>5 DEF Atomic!Init, Clean, Origins
  <1>2. IInv /\ [Next]_vars => [torn' \/ Atomic!Next]_<<Origin, catalog[Trigger], Applied>>
    BY AtomicStep
  <1> QED
    BY <1>1, <1>2, Invariant, PTL DEF Spec, ActsAtomically

-------------------------------------------------------------------------------
(* What the exception of the theorems takes.                               *)
OnlyTried ==
    /\ \A p \in Procs : command[p] # "none" => command[p] \in tried
    /\ \A p \in Procs : overtaken[p] \subseteq tried
    /\ torn => {"create_all", "upgrade", "downgrade"} \subseteq tried

LEMMA InitOnlyTried == Init => OnlyTried
  BY DEF Init, OnlyTried

LEMMA NextOnlyTried == IInv /\ OnlyTried /\ [Next]_vars => OnlyTried'
  <1> SUFFICES ASSUME IInv, OnlyTried, [Next]_vars PROVE OnlyTried'
    OBVIOUS
  <1>1. TypeOK
    BY DEF IInv
  <1>2. CASE UNCHANGED <<command, tried, overtaken, torn>>
    BY <1>2 DEF OnlyTried
  <1>3. ASSUME NEW p \in Procs, Commit(p) PROVE OnlyTried'
    <2>1. /\ Committed(p) /\ tried' = tried
      BY <1>3, CommitDoes DEF Commit, End
    <2>2. \A q \in Procs : command'[q] # "none" => command'[q] \in tried'
      BY <2>1 DEF Committed, OnlyTried
    <2>3. \A q \in Procs : overtaken'[q] \subseteq tried'
      BY <2>1 DEF Committed, OnlyTried, Both
    <2>4. overtaken[p] = Both => command[p] = "create_all" /\ command[p] \in tried /\ Both \subseteq tried
      BY <2>1 DEF Committed, OnlyTried, IInv, Running, Both
    <2>5. torn' => {"create_all", "upgrade", "downgrade"} \subseteq tried'
      BY <2>1, <2>4 DEF Committed, OnlyTried, Both
    <2> QED
      BY <2>2, <2>3, <2>5 DEF OnlyTried
  <1>4. ASSUME NEW p \in Procs, RollBack(p) PROVE OnlyTried'
    BY <1>1, <1>4 DEF RollBack, End, OnlyTried, TypeOK
  <1>5. ASSUME NEW p \in Procs, NEW kind \in Commands, Issue(p, kind) PROVE OnlyTried'
    <2>1. /\ command' = [command EXCEPT ![p] = kind] /\ tried' = tried \cup {kind}
          /\ overtaken' = overtaken /\ torn' = torn
      BY <1>5 DEF Issue, history
    <2> QED
      BY <1>1, <2>1 DEF OnlyTried, TypeOK
  <1> QED
    BY <1>2, <1>3, <1>4, <1>5
       DEF Next, Step, Heads, Look, Skip, Wait, Execute, Fail, DeadlockDetected, Crash, vars, history

\* 001_initial.py:37-471 and database.py:73-78.  It takes all three of create_all,
\* an upgrade and a downgrade to tear the tables: where one of them is never run,
\* nothing is exempt from Agrees and RefinesAtomic.
THEOREM TornTakesThree == Spec => [](torn => {"create_all", "upgrade", "downgrade"} \subseteq tried)
  <1>1. OnlyTried => (torn => {"create_all", "upgrade", "downgrade"} \subseteq tried)
    BY DEF OnlyTried
  <1> QED
    BY <1>1, Invariant, InitOnlyTried, NextOnlyTried, PTL DEF Spec

\* 001_initial.sql:92-138, 001_initial.py:37-458 and database.py:73-78.  Where
\* nobody downgrades, the catalogue agrees with itself at all times.
THEOREM AgreesWithoutDowngrade ==
    ASSUME "downgrade" \notin Commands
    PROVE  Spec => [](~torn /\ CatalogAgrees)
  <1>1. tried \in SUBSET Commands /\ [Next]_vars => (tried \in SUBSET Commands)'
    BY DEF Next, Step, Heads, Look, Skip, Wait, Execute, Commit, Fail, DeadlockDetected, RollBack, End,
           Crash, Issue, vars
  <1>2. Init => tried \in SUBSET Commands
    BY DEF Init
  <1>3. tried \in SUBSET Commands => ~({"create_all", "upgrade", "downgrade"} \subseteq tried)
    OBVIOUS
  <1> QED
    BY <1>1, <1>2, <1>3, TornTakesThree, Agrees, PTL DEF Spec

-------------------------------------------------------------------------------
(* Who runs, and who waits.                                                *)

\* The processes that run a command are never more than a finite number of them
\* have started to; those that wait have begun a statement.
Runs == {p \in Procs : command[p] # "none"}
WaitsOK == IsFiniteSet(Runs) /\ \A p \in Procs : waiting[p] => IsDdl(p)

LEMMA InitWaitsOK == Init => WaitsOK
  <1> SUFFICES ASSUME Init PROVE WaitsOK
    OBVIOUS
  <1>1. Runs = {}
    BY DEF Init, Runs
  <1> QED
    BY <1>1, FS_EmptySet DEF WaitsOK, Init

LEMMA NextWaitsOK == TypeOK /\ StatementsOK /\ WaitsOK /\ [Next]_vars => WaitsOK'
  <1> SUFFICES ASSUME TypeOK, StatementsOK, WaitsOK, [Next]_vars PROVE WaitsOK'
    OBVIOUS
  <1>1. IsFiniteSet(Runs')
    <2>1. ASSUME NEW p \in Procs, \A q \in Procs \ {p} : command'[q] = command[q] PROVE IsFiniteSet(Runs')
      <3>1. Runs' \in SUBSET (Runs \cup {p})
        BY <2>1 DEF Runs
      <3> QED
        BY <3>1, FS_AddElement, FS_Subset DEF WaitsOK
    <2>2. CASE command' = command
      BY <2>2 DEF Runs, WaitsOK
    <2>3. ASSUME NEW p \in Procs, NEW c, command' = [command EXCEPT ![p] = c] PROVE IsFiniteSet(Runs')
      BY <2>1, <2>3 DEF TypeOK
    <2> QED
      BY <2>2, <2>3 DEF Next, Step, Heads, Look, Skip, Wait, Execute, Commit, Fail, DeadlockDetected, RollBack,
                        End, Crash, Issue, vars
  <1>2. ASSUME NEW q \in Procs, waiting'[q] PROVE IsDdl(q)'
    <2>1. ASSUME NEW p \in Procs, waiting' = [waiting EXCEPT ![p] = FALSE],
                 \A r \in Procs \ {p} : command'[r] = command[r] /\ todo'[r] = todo[r]
          PROVE  IsDdl(q)'
      BY <1>2, <2>1 DEF WaitsOK, TypeOK, IsDdl
    <2>2. ASSUME NEW p \in Procs, Execute(p) PROVE IsDdl(q)'
      BY <2>1, <2>2 DEF Execute, StatementsOK
    <2>3. ASSUME NEW p \in Procs, End(p) PROVE IsDdl(q)'
      BY <2>1, <2>3 DEF End, TypeOK, StatementsOK
    <2>4. ASSUME NEW p \in Procs, Wait(p) PROVE IsDdl(q)'
      BY <1>2, <2>4 DEF Wait, WaitsOK, TypeOK, IsDdl
    <2>5. ASSUME NEW p \in Procs, Heads(p) \/ Look(p) PROVE IsDdl(q)'
      BY <1>2, <2>5 DEF Heads, Look, Skip, AtNext, WaitsOK, TypeOK, StatementsOK, IsDdl
    <2>6. ASSUME NEW p \in Procs, NEW kind \in Commands, Issue(p, kind) PROVE IsDdl(q)'
      BY <1>2, <2>6 DEF Issue, WaitsOK, TypeOK, StatementsOK, IsDdl
    <2>7. CASE UNCHANGED vars
      BY <1>2, <2>7 DEF vars, ddl, WaitsOK, IsDdl
    <2> QED
      BY <2>2, <2>3, <2>4, <2>5, <2>6, <2>7
         DEF Next, Step, Commit, Fail, DeadlockDetected, RollBack, Crash
  <1> QED
    BY <1>1, <1>2 DEF WaitsOK

-------------------------------------------------------------------------------
(* Commands end.                                                           *)

\* The most that is still ahead of a command: a statement waits and executes, the
\* last step ends the transaction, and what it asks the database first brings it
\* twelve statements at most.
Asks(p) == todo[p] # << >> /\ Head(todo[p]).op \in {"heads", "look"}
StepsLeft(p) ==
    IF command[p] = "none" THEN 0
    ELSE 1 + 2 * Len(todo[p]) - (IF waiting[p] THEN 1 ELSE 0) + (IF Asks(p) THEN 24 ELSE 0)

LEMMA StepsLeftIs ==
    ASSUME NEW p, NEW n \in Nat, Len(todo[p]) = n, command[p] # "none"
    PROVE  /\ waiting[p] /\ Asks(p) => StepsLeft(p) = 24 + 2 * n
           /\ waiting[p] /\ ~Asks(p) => StepsLeft(p) = 2 * n
           /\ ~waiting[p] /\ Asks(p) => StepsLeft(p) = 25 + 2 * n
           /\ ~waiting[p] /\ ~Asks(p) => StepsLeft(p) = 1 + 2 * n
  <1>1. StepsLeft(p) = 1 + 2 * n - (IF waiting[p] THEN 1 ELSE 0) + (IF Asks(p) THEN 24 ELSE 0)
    BY DEF StepsLeft
  <1>2. CASE waiting[p] /\ Asks(p)
    BY <1>1, <1>2
  <1>3. CASE waiting[p] /\ ~Asks(p)
    BY <1>1, <1>3
  <1>4. CASE ~waiting[p] /\ Asks(p)
    BY <1>1, <1>4
  <1>5. CASE ~waiting[p] /\ ~Asks(p)
    BY <1>1, <1>5
  <1> QED
    BY <1>2, <1>3, <1>4, <1>5

\* The same in the state after a step.
LEMMA StepsLeftWillBe ==
    ASSUME NEW p, NEW n \in Nat, Len(todo'[p]) = n, command'[p] # "none"
    PROVE  /\ waiting'[p] /\ ~Asks(p)' => StepsLeft(p)' = 2 * n
           /\ waiting'[p] /\ Asks(p)' => StepsLeft(p)' = 24 + 2 * n
           /\ ~waiting'[p] /\ Asks(p)' => StepsLeft(p)' = 25 + 2 * n
           /\ ~waiting'[p] /\ ~Asks(p)' => StepsLeft(p)' = 1 + 2 * n
  <1>1. StepsLeft(p)' = 1 + 2 * n - (IF waiting'[p] THEN 1 ELSE 0) + (IF Asks(p)' THEN 24 ELSE 0)
    BY DEF StepsLeft
  <1>2. CASE waiting'[p] /\ Asks(p)'
    BY <1>1, <1>2
  <1>3. CASE waiting'[p] /\ ~Asks(p)'
    BY <1>1, <1>3
  <1>4. CASE ~waiting'[p] /\ Asks(p)'
    BY <1>1, <1>4
  <1>5. CASE ~waiting'[p] /\ ~Asks(p)'
    BY <1>1, <1>5
  <1> QED
    BY <1>2, <1>3, <1>4, <1>5

LEMMA LengthOfBoth ==
    ASSUME NEW s \in Seq(Statements), NEW t \in Seq(Statements)
    PROVE  s \o t \in Seq(Statements) /\ Len(s \o t) = Len(s) + Len(t)
  <1> HIDE DEF Statements
  <1> QED
    OBVIOUS

LEMMA OneLong ==
    ASSUME NEW op, NEW t, Statement(op, t) \in Statements
    PROVE  <<Statement(op, t)>> \in Seq(Statements) /\ Len(<<Statement(op, t)>>) = 1
  <1> HIDE DEF Statement, Statements
  <1> QED
    OBVIOUS

LEMMA RevisionLengths ==
    /\ Len(upgrade) = 11 /\ Len(downgrade) = 12
    /\ Len(<<Statement("ensure", Version)>> \o upgrade) = 12
  <1>1. RevisionOrder \in Seq(Objects) /\ Len(RevisionOrder) = 10
    BY StatementsOf DEF RevisionOrder, CommonNames
  <1>2. Each("create", RevisionOrder) \in Seq(Statements) /\ Len(Each("create", RevisionOrder)) = 10
    BY <1>1, EachRange, StatementsOf
  <1> DEFINE order == <<"sso_sessions", "audit_logs", "suggestions", "ingested_rows", "template_versions",
                   "templates", "role_permissions", "permissions", "roles", "users">>
  <1>3. order \in Seq(Objects) /\ Len(order) = 10
    BY StatementsOf DEF CommonNames
  <1> HIDE DEF order
  <1>4. Each("drop", order) \in Seq(Statements) /\ Len(Each("drop", order)) = 10
    BY <1>3, EachRange, StatementsOf
  <1>5. Len(upgrade) = 11
    <2> DEFINE creates == Each("create", RevisionOrder)
               stamp == <<Statement("stamp", Version)>>
    <2>1. stamp \in Seq(Statements) /\ Len(stamp) = 1
      BY OneLong, StatementsOf
    <2>2. creates \in Seq(Statements) /\ Len(creates) = 10 /\ upgrade = creates \o stamp
      BY <1>2 DEF upgrade
    <2> HIDE DEF creates, stamp
    <2>3. Len(creates \o stamp) = Len(creates) + Len(stamp)
      BY <2>1, <2>2, LengthOfBoth
    <2> QED
      BY <2>1, <2>2, <2>3
  <1> DEFINE revoke == <<Statement("revoke", "audit_logs")>>
             drops == Each("drop", order)
             unstamp == <<Statement("unstamp", Version)>>
             ensure == <<Statement("ensure", Version)>>
  <1>6. downgrade = revoke \o drops \o unstamp /\ drops \in Seq(Statements) /\ Len(drops) = 10
    BY <1>4 DEF downgrade, order
  <1>7. /\ revoke \in Seq(Statements) /\ Len(revoke) = 1
        /\ unstamp \in Seq(Statements) /\ Len(unstamp) = 1
        /\ ensure \in Seq(Statements) /\ Len(ensure) = 1
    BY OneLong, StatementsOf DEF CommonNames
  <1> HIDE DEF revoke, drops, unstamp, ensure
  <1>8. revoke \o drops \in Seq(Statements) /\ Len(revoke \o drops) = Len(revoke) + Len(drops)
    BY <1>6, <1>7, LengthOfBoth
  <1>9. Len(revoke \o drops \o unstamp) = Len(revoke \o drops) + Len(unstamp)
    BY <1>7, <1>8, LengthOfBoth
  <1>10. Len(ensure \o upgrade) = Len(ensure) + Len(upgrade)
    BY <1>7, UpgradeRange, LengthOfBoth
  <1> QED
    BY <1>5, <1>6, <1>7, <1>8, <1>9, <1>10 DEF ensure

LEMMA CreationsLength ==
    ASSUME NEW found, found \subseteq CommonNames
    PROVE  Creations(found) \in Seq(Statements) /\ Len(Creations(found)) \in 0..10
  <1> DEFINE Create(t) == IF t \in found THEN <<Statement("create", t)>> ELSE << >>
             Is(s, n) == s \in Seq(Statements) /\ Len(s) \in 0..n
  <1>1. ASSUME NEW t \in CommonNames PROVE Is(Create(t), 1)
    <2>1. CASE t \in found
      BY <2>1, OneLong, StatementsOf
    <2>2. CASE t \notin found
      BY <2>2
    <2> QED
      BY <2>1, <2>2
  <1>2. ASSUME NEW s, NEW n \in Nat, NEW t \in CommonNames, Is(s, n)
        PROVE  Is(s \o Create(t), n + 1)
    <2>1. Is(Create(t), 1)
      BY <1>1
    <2> HIDE DEF Create
    <2>2. s \o Create(t) \in Seq(Statements) /\ Len(s \o Create(t)) = Len(s) + Len(Create(t))
      BY <1>2, <2>1, LengthOfBoth
    <2>3. PICK i \in 0..n, j \in 0..1 : Len(s) = i /\ Len(Create(t)) = j
      BY <1>2, <2>1
    <2>4. Len(s \o Create(t)) = i + j
      BY <2>2, <2>3
    <2> QED
      BY <2>2, <2>3, <2>4
  <1> DEFINE s1 == Create("users") \o Create("permissions") \o Create("roles") \o Create("templates")
             s2 == s1 \o Create("role_permissions") \o Create("ingested_rows") \o Create("template_versions")
  <1>3. Creations(found) = s2 \o Create("audit_logs") \o Create("sso_sessions") \o Create("suggestions")
    BY DEF Creations
  <1> HIDE DEF Is, Create
  <1>4. Is(s1, 4)
    <2>1. Is(Create("users"), 1)
      BY <1>1 DEF CommonNames
    <2>2. Is(Create("users") \o Create("permissions"), 1 + 1)
      BY <1>2, <2>1 DEF CommonNames
    <2>3. Is(Create("users") \o Create("permissions") \o Create("roles"), 1 + 1 + 1)
      BY <1>2, <2>2 DEF CommonNames
    <2>4. Is(s1, 1 + 1 + 1 + 1)
      BY <1>2, <2>3 DEF CommonNames
    <2> QED
      BY <2>4
  <1> HIDE DEF s1
  <1>5. Is(s2, 7)
    <2>1. Is(s1 \o Create("role_permissions"), 4 + 1)
      BY <1>2, <1>4 DEF CommonNames
    <2>2. Is(s1 \o Create("role_permissions") \o Create("ingested_rows"), 4 + 1 + 1)
      BY <1>2, <2>1 DEF CommonNames
    <2>3. Is(s2, 4 + 1 + 1 + 1)
      BY <1>2, <2>2 DEF CommonNames
    <2> QED
      BY <2>3
  <1> HIDE DEF s2
  <1>6. Is(Creations(found), 10)
    <2>1. Is(s2 \o Create("audit_logs"), 7 + 1)
      BY <1>2, <1>5 DEF CommonNames
    <2>2. Is(s2 \o Create("audit_logs") \o Create("sso_sessions"), 7 + 1 + 1)
      BY <1>2, <2>1 DEF CommonNames
    <2>3. Is(Creations(found), 7 + 1 + 1 + 1)
      BY <1>2, <1>3, <2>2 DEF CommonNames
    <2> QED
      BY <2>3
  <1> QED
    BY <1>6 DEF Is

LEMMA AdvancingIsDdl ==
    ASSUME TypeOK, NEW p \in Procs, Advancing(p)
    PROVE  Todo(p) \subseteq DdlStatements
  <1>1. Idle(p) => Todo(p) \subseteq DdlStatements
    BY DEF Idle, DdlStatements
  <1>2. Upgrading(p) => Todo(p) \subseteq DdlStatements
    BY DEF Upgrading, DdlStatements
  <1>3. Downgrading(p) => Todo(p) \subseteq DdlStatements
    BY DEF Downgrading, DdlStatements
  <1>4. Filing(p) => Todo(p) \subseteq DdlStatements
    BY FileRange DEF Filing, DdlStatements
  <1>5. Creating(p) => Todo(p) \subseteq DdlStatements
    <2>1. missing[p] \subseteq CommonTables
      BY DEF TypeOK
    <2> QED
      BY <2>1 DEF Creating, DdlStatements
  <1> QED
    BY <1>1, <1>2, <1>3, <1>4, <1>5 DEF Advancing

LEMMA StepsLeftTyped ==
    ASSUME TypeOK, StatementsOK, WaitsOK, NEW p \in Procs
    PROVE  /\ StepsLeft(p) \in Nat
           /\ command[p] # "none" => StepsLeft(p) > 0
  <1>1. Len(todo[p]) \in Nat /\ (todo[p] # << >> => Len(todo[p]) > 0)
    BY DEF StatementsOK
  <1>2. waiting[p] => todo[p] # << >>
    BY DEF WaitsOK, IsDdl
  <1>3. CASE command[p] = "none"
    BY <1>3 DEF StepsLeft
  <1>4. CASE command[p] # "none"
    <2>1. PICK n \in Nat : Len(todo[p]) = n
      BY <1>1
    <2>2. waiting[p] => n > 0
      BY <1>1, <1>2, <2>1
    <2> QED
      BY <1>4, <2>1, <2>2, StepsLeftIs
  <1> QED
    BY <1>3, <1>4

LEMMA StepShortens ==
    ASSUME IInv, WaitsOK, IInv', WaitsOK', NEW p \in Procs, Step(p)
    PROVE  /\ StepsLeft(p)' < StepsLeft(p)
           /\ \A q \in Procs \ {p} : StepsLeft(q)' = StepsLeft(q)
  <1>1. TypeOK /\ StatementsOK /\ Running(p) /\ TypeOK' /\ StatementsOK'
    BY DEF IInv
  <1>2. todo[p] \in Seq(Statements) /\ Len(todo[p]) \in Nat /\ (todo[p] # << >> => Len(todo[p]) > 0)
    BY <1>1 DEF StatementsOK
  <1> DEFINE n == Len(todo[p])
  <1>a. n \in Nat /\ (todo[p] # << >> => n > 0)
    BY <1>2
  <1>b. command[p] # "none" =>
           /\ waiting[p] /\ Asks(p) => StepsLeft(p) = 24 + 2 * n
           /\ waiting[p] /\ ~Asks(p) => StepsLeft(p) = 2 * n
           /\ ~waiting[p] /\ Asks(p) => StepsLeft(p) = 25 + 2 * n
           /\ ~waiting[p] /\ ~Asks(p) => StepsLeft(p) = 1 + 2 * n
    BY <1>a, StepsLeftIs
  <1> HIDE DEF n
  <1>3. ASSUME RollBack(p) \/ Commit(p), command[p] # "none"
        PROVE  /\ StepsLeft(p)' < StepsLeft(p)
               /\ \A q \in Procs \ {p} : StepsLeft(q)' = StepsLeft(q)
    <2>1. /\ command' = [command EXCEPT ![p] = "none"] /\ todo' = [todo EXCEPT ![p] = << >>]
          /\ waiting' = [waiting EXCEPT ![p] = FALSE]
      BY <1>3 DEF RollBack, Commit, End
    <2>2. StepsLeft(p)' = 0
      BY <1>1, <2>1 DEF StepsLeft, TypeOK
    <2>3. \A q \in Procs \ {p} : StepsLeft(q)' = StepsLeft(q)
      BY <1>1, <2>1 DEF StepsLeft, Asks, TypeOK, StatementsOK
    <2> QED
      BY <1>1, <1>3, <2>2, <2>3, StepsLeftTyped
  <1>4. ASSUME Wait(p)
        PROVE  /\ StepsLeft(p)' < StepsLeft(p)
               /\ \A q \in Procs \ {p} : StepsLeft(q)' = StepsLeft(q)
    <2>1. /\ waiting' = [waiting EXCEPT ![p] = TRUE] /\ todo' = todo /\ command' = command
          /\ ~waiting[p] /\ command[p] # "none"
      BY <1>4 DEF Wait, IsDdl
    <2>2. waiting'[p] /\ \A q \in Procs \ {p} : waiting'[q] = waiting[q]
      BY <1>1, <2>1 DEF TypeOK
    <2>3. Len(todo'[p]) = n /\ command'[p] # "none" /\ Asks(p)' = Asks(p)
      BY <2>1 DEF Asks, n
    <2>4. StepsLeft(p)' < StepsLeft(p)
      <3>1. CASE Asks(p)
        <4>1. StepsLeft(p)' = 24 + 2 * n
          BY <1>a, <2>2, <2>3, <3>1, StepsLeftWillBe
        <4>2. StepsLeft(p) = 25 + 2 * n
          BY <1>b, <2>1, <3>1
        <4> QED
          BY <1>a, <4>1, <4>2
      <3>2. CASE ~Asks(p)
        <4>1. StepsLeft(p)' = 2 * n
          BY <1>a, <2>2, <2>3, <3>2, StepsLeftWillBe
        <4>2. StepsLeft(p) = 1 + 2 * n
          BY <1>b, <2>1, <3>2
        <4> QED
          BY <1>a, <4>1, <4>2
      <3> QED
        BY <3>1, <3>2
    <2> QED
      BY <2>1, <2>2, <2>4 DEF StepsLeft, Asks
  <1>5. ASSUME Execute(p)
        PROVE  /\ StepsLeft(p)' < StepsLeft(p)
               /\ \A q \in Procs \ {p} : StepsLeft(q)' = StepsLeft(q)
    <2>1. /\ waiting' = [waiting EXCEPT ![p] = FALSE] /\ todo' = [todo EXCEPT ![p] = Tail(@)]
          /\ command' = command /\ command[p] # "none" /\ todo[p] # << >>
          /\ Head(todo[p]).op \notin {"heads", "look"}
      BY <1>5 DEF Execute, IsDdl
    <2>2. /\ ~waiting'[p] /\ todo'[p] = Tail(todo[p])
          /\ \A q \in Procs \ {p} : waiting'[q] = waiting[q] /\ todo'[q] = todo[q]
      BY <1>1, <2>1 DEF TypeOK, StatementsOK
    <2>3. Advancing(p) /\ Tail(todo[p]) \in Seq(Statements) /\ Range(Tail(todo[p])) \subseteq Todo(p)
      BY <1>1, <2>1, NextStatement
    <2>4. Range(Tail(todo[p])) \subseteq DdlStatements
      BY <1>1, <2>3, AdvancingIsDdl
    <2>5. Tail(todo[p]) # << >> => Head(Tail(todo[p])) \in Range(Tail(todo[p]))
      BY <2>3, RangeHeadTail
    <2>6. Tail(todo[p]) # << >> => Head(Tail(todo[p])).op \notin {"heads", "look"}
      BY <2>4, <2>5, DdlSplit, StatementsOf
    <2>7. Len(todo'[p]) = n - 1 /\ n - 1 \in Nat /\ ~Asks(p)' /\ ~Asks(p) /\ command'[p] # "none"
      <3>1. ~Asks(p)' /\ ~Asks(p) /\ command'[p] # "none"
        BY <2>1, <2>2, <2>6 DEF Asks
      <3>2. Len(Tail(todo[p])) = Len(todo[p]) - 1
        BY <1>2, <2>1
      <3>3. Len(todo'[p]) = n - 1
        BY <2>2, <3>2 DEF n
      <3>4. n - 1 \in Nat
        BY <1>a, <2>1
      <3> QED
        BY <3>1, <3>3, <3>4
    <2>8. StepsLeft(p)' = 1 + 2 * (n - 1)
      BY <2>2, <2>7, StepsLeftWillBe
    <2>9. StepsLeft(p) \in {2 * n, 1 + 2 * n}
      BY <1>b, <2>1, <2>7
    <2>10. \A q \in Procs \ {p} : StepsLeft(q)' = StepsLeft(q)
      BY <2>1, <2>2 DEF StepsLeft, Asks
    <2>11. StepsLeft(p)' < StepsLeft(p)
      BY <1>a, <2>8, <2>9
    <2> QED
      BY <2>10, <2>11
  <1>6. ASSUME NEW new \in Seq(Statements), todo' = [todo EXCEPT ![p] = new],
               UNCHANGED <<command, waiting>>, AtNext(p, "heads") \/ AtNext(p, "look"),
               \/ Len(new) \in 0..12 /\ \A s \in Range(new) : s.op \notin {"heads", "look"}
               \/ Len(new) = Len(todo[p]) - 1
        PROVE  /\ StepsLeft(p)' < StepsLeft(p)
               /\ \A q \in Procs \ {p} : StepsLeft(q)' = StepsLeft(q)
    <2>1. todo'[p] = new /\ \A q \in Procs \ {p} : todo'[q] = todo[q]
      BY <1>1, <1>6 DEF StatementsOK
    <2>2. /\ command[p] # "none" /\ todo[p] # << >> /\ Head(todo[p]).op \in {"heads", "look"}
          /\ ~waiting[p]
      BY <1>6 DEF AtNext, WaitsOK, IsDdl
    <2>3. StepsLeft(p) = 25 + 2 * n /\ n > 0
      BY <1>a, <1>b, <2>2 DEF Asks
    <2>4. PICK m \in Nat : Len(new) = m
      BY <1>6
    <2>5. command'[p] # "none" /\ ~waiting'[p] /\ Len(todo'[p]) = m
      BY <1>6, <2>1, <2>2, <2>4
    <2>6. ASSUME m \in 0..12, \A s \in Range(new) : s.op \notin {"heads", "look"}
          PROVE  StepsLeft(p)' < StepsLeft(p)
      <3>1. new # << >> => Head(new) \in Range(new)
        BY RangeHeadTail
      <3>2. ~Asks(p)'
        BY <2>1, <2>6, <3>1 DEF Asks
      <3>3. StepsLeft(p)' = 1 + 2 * m
        BY <2>5, <3>2, StepsLeftWillBe
      <3>4. 1 + 2 * m < 25 + 2 * n
        BY <1>a, <2>3, <2>6
      <3> QED
        BY <2>3, <3>3, <3>4
    <2>7. ASSUME m = n - 1 PROVE StepsLeft(p)' < StepsLeft(p)
      <3>1. StepsLeft(p)' = 1 + 2 * m \/ StepsLeft(p)' = 25 + 2 * m
        BY <2>5, StepsLeftWillBe
      <3>2. 1 + 2 * m < 25 + 2 * n /\ 25 + 2 * m < 25 + 2 * n
        BY <1>a, <2>3, <2>7
      <3> QED
        BY <2>3, <3>1, <3>2
    <2>8. StepsLeft(p)' < StepsLeft(p)
      BY <1>6, <2>4, <2>6, <2>7 DEF n
    <2>9. \A q \in Procs \ {p} : StepsLeft(q)' = StepsLeft(q)
      BY <1>6, <2>1 DEF StepsLeft, Asks
    <2> QED
      BY <2>8, <2>9
  <1>7. ASSUME Heads(p)
        PROVE  /\ StepsLeft(p)' < StepsLeft(p)
               /\ \A q \in Procs \ {p} : StepsLeft(q)' = StepsLeft(q)
    <2> DEFINE steps == CASE command[p] = "upgrade" /\ ~Applied -> upgrade
                          [] command[p] = "downgrade" /\ Applied -> downgrade
                          [] OTHER -> << >>
               one == <<Statement("ensure", Version)>>
               new == IF catalog[Version] = "absent" THEN one \o steps ELSE steps
    <2>1. /\ todo' = [todo EXCEPT ![p] = new] /\ UNCHANGED <<command, waiting>> /\ AtNext(p, "heads")
      BY <1>7 DEF Heads, Skip
    <2>2. \/ steps = upgrade \/ steps = << >>
          \/ steps = downgrade /\ catalog[Version] = "stamped"
      BY DEF Applied
    <2>3. one \in Seq(Statements) /\ Len(one) = 1 /\ Range(one) = {Statement("ensure", Version)}
      BY OneLong, OneStatement, StatementsOf
    <2> HIDE DEF steps, one
    <2>4. /\ steps \in Seq(Statements)
          /\ Len(steps) \in 0..12 /\ (catalog[Version] = "absent" => Len(steps) <= 11)
          /\ \A s \in Range(steps) : s.op \notin {"heads", "look"}
      <3>1. << >> \in Seq(Statements) /\ Len(<< >>) = 0
        OBVIOUS
      <3>2. CASE steps = << >>
        BY <3>1, <3>2, RangeEmpty
      <3>3. CASE steps = upgrade
        BY <3>3, UpgradeRange, RevisionLengths, StatementsOf
      <3>4. CASE steps = downgrade /\ catalog[Version] = "stamped"
        BY <3>4, DowngradeRange, RevisionLengths, StatementsOf
      <3> QED
        BY <2>2, <3>2, <3>3, <3>4
    <2>5. /\ new \in Seq(Statements) /\ Len(new) \in 0..12
          /\ \A s \in Range(new) : s.op \notin {"heads", "look"}
      <3>1. CASE catalog[Version] = "absent"
        <4>1. /\ one \o steps \in Seq(Statements) /\ Len(one \o steps) = 1 + Len(steps)
              /\ Range(one \o steps) = Range(one) \cup Range(steps)
          BY <2>3, <2>4, LengthOfBoth, Concatenation
        <4>2. \A s \in Range(one) : s.op \notin {"heads", "look"}
          BY <2>3, StatementsOf
        <4> QED
          BY <2>4, <3>1, <4>1, <4>2
      <3> QED
        BY <2>4, <3>1
    <2> HIDE DEF new
    <2> QED
      BY <1>6, <2>1, <2>5
  <1>8. ASSUME Look(p)
        PROVE  /\ StepsLeft(p)' < StepsLeft(p)
               /\ \A q \in Procs \ {p} : StepsLeft(q)' = StepsLeft(q)
    <2> DEFINE t == Head(todo[p]).on
               found == missing[p] \cup {u \in {t} : Seen(p, u) = "absent"}
               new == IF Len(todo[p]) > 1 THEN Tail(todo[p]) ELSE Creations(found)
    <2>1. /\ todo' = [todo EXCEPT ![p] = new] /\ UNCHANGED <<command, waiting>> /\ AtNext(p, "look")
      BY <1>8 DEF Look, Skip
    <2>2. found \subseteq CommonNames
      <3>1. \E u \in CommonTables : Head(todo[p]) = Statement("look", u)
        BY <1>1, <2>1, NextStatement DEF AtNext
      <3> QED
        BY <1>1, <3>1, StatementsOf, TableNames DEF TypeOK
    <2> HIDE DEF found
    <2>3. CASE Len(todo[p]) > 1
      <3>1. new = Tail(todo[p]) /\ new \in Seq(Statements) /\ Len(new) = Len(todo[p]) - 1
        BY <1>2, <2>3
      <3> HIDE DEF new
      <3> QED
        BY <1>6, <2>1, <3>1
    <2>4. CASE Len(todo[p]) <= 1
      <3>1. new = Creations(found)
        BY <1>2, <2>4
      <3>2. /\ new \in Seq(Statements) /\ Len(new) \in 0..10
            /\ Range(new) = {Statement("create", u) : u \in found}
        BY <2>2, <3>1, CreationsLength, CreationsRange
      <3>3. \A s \in Range(new) : s.op \notin {"heads", "look"}
        BY <3>2, StatementsOf
      <3>4. Len(new) \in 0..12
        BY <3>2
      <3> HIDE DEF new
      <3> QED
        BY <1>6, <2>1, <3>2, <3>3, <3>4
    <2> QED
      BY <1>2, <2>3, <2>4
  <1>9. Commit(p) \/ Fail(p) \/ DeadlockDetected(p) => (RollBack(p) \/ Commit(p)) /\ command[p] # "none"
    BY DEF Commit, Fail, DeadlockDetected, IsDdl, Deadlocked, WaitsOK
  <1> QED
    BY <1>3, <1>4, <1>5, <1>7, <1>8, <1>9 DEF Step

\* 001_initial.sql, 001_initial.py:37-471, env.py:46-51 and database.py:73-78.
\* Every step of a command, the waits too, leaves it fewer steps to take, and
\* the other commands as many as they had: no command goes on for ever.
THEOREM StepsRunOut ==
    Spec => [][\A p \in Procs : Step(p) => /\ StepsLeft(p)' \in 0..StepsLeft(p) - 1
                                           /\ \A q \in Procs \ {p} : StepsLeft(q)' = StepsLeft(q)]_vars
  <1> DEFINE Shortens == \A p \in Procs : Step(p) =>
                            /\ StepsLeft(p)' \in 0..StepsLeft(p) - 1
                            /\ \A q \in Procs \ {p} : StepsLeft(q)' = StepsLeft(q)
  <1>1. (IInv /\ WaitsOK /\ IInv' /\ WaitsOK') => Shortens
    <2> SUFFICES ASSUME IInv, WaitsOK, IInv', WaitsOK', NEW p \in Procs, Step(p)
                 PROVE  /\ StepsLeft(p)' \in 0..StepsLeft(p) - 1
                        /\ \A q \in Procs \ {p} : StepsLeft(q)' = StepsLeft(q)
      OBVIOUS
    <2>1. StepsLeft(p) \in Nat
      BY StepsLeftTyped DEF IInv
    <2>2. StepsLeft(p)' \in Nat
      <3>1. (TypeOK /\ StatementsOK /\ WaitsOK => StepsLeft(p) \in Nat)'
        BY StepsLeftTyped, PTL
      <3> QED
        BY <3>1 DEF IInv
    <2>3. /\ StepsLeft(p)' < StepsLeft(p)
          /\ \A q \in Procs \ {p} : StepsLeft(q)' = StepsLeft(q)
      BY StepShortens
    <2> HIDE DEF StepsLeft
    <2> QED
      BY <2>1, <2>2, <2>3
  <1>2. IInv => TypeOK /\ StatementsOK
    BY DEF IInv
  <1> QED
    BY <1>1, <1>2, Invariant, InitWaitsOK, NextWaitsOK, PTL DEF Spec

-------------------------------------------------------------------------------
(* The order of a program: every table has a place after those it refers   *)
(* to, and the statements stand in the order of these places.              *)
RevisionPlace == [users |-> 1, roles |-> 2, permissions |-> 3, role_permissions |-> 4, templates |-> 5,
                  template_versions |-> 6, ingested_rows |-> 7, suggestions |-> 8, audit_logs |-> 9,
                  sso_sessions |-> 10]
SqlPlace == [users |-> 1, permissions |-> 2, roles |-> 3, role_permissions |-> 4, user_roles |-> 5,
             sso_sessions |-> 6, templates |-> 7, template_versions |-> 8, ingested_rows |-> 9,
             suggestions |-> 10, audit_logs |-> 11]
OrmPlace == [users |-> 1, permissions |-> 2, roles |-> 3, templates |-> 4, role_permissions |-> 5,
             ingested_rows |-> 6, template_versions |-> 7, audit_logs |-> 8, sso_sessions |-> 9,
             suggestions |-> 10]
PlaceOf(origin) == CASE origin = "sql" -> SqlPlace [] origin = "orm" -> OrmPlace [] origin = "revision" -> RevisionPlace

Rank(origin, s) == CASE s.op \in {"create", "create_if_absent"} -> 2 * PlaceOf(origin)[s.on]
                     [] s.op = "index" -> 2 * PlaceOf(origin)[s.on] + 1
                     [] s.op = "ensure" -> 0
                     [] s.op \notin {"create", "create_if_absent", "index", "ensure"} -> 100
Ascends(origin, s) ==
    \A i, j \in DOMAIN s : (i < j /\ s[i].op # "look") => Rank(origin, s[i]) < Rank(origin, s[j])

\* What a statement expects its own transaction not to have changed.
Fresh(s) == CASE s.op \in {"create", "create_if_absent"} -> {s.on}
              [] s.op = "ensure" -> {Version}
              [] s.op = "index" -> {k \in {UniqueKey} : s.on = "ingested_rows"}
              [] s.op \notin {"create", "create_if_absent", "index", "ensure"} -> {}

InOrder(p) == command[p] # "downgrade" =>
                 /\ Ascends(OriginOf(p), todo[p])
                 /\ \A s \in Todo(p) : Fresh(s) \cap DOMAIN change[p] = {}

\* As long as nobody downgrades, an upgrade and the file see to it that there are tables.
MakesUsers(p) ==
    /\ command[p] = "upgrade" => \/ Applied \/ Asking(p) \/ "users" \in DOMAIN change[p]
                                 \/ Statement("create", "users") \in Todo(p)
    /\ command[p] = "sql" => \/ ~Absent("users") \/ "users" \in DOMAIN change[p]
                             \/ Statement("create_if_absent", "users") \in Todo(p)
OnlyMade ==
    "downgrade" \notin tried =>
        /\ catalog[Version] = IF catalog["users"] = "revision" THEN "stamped" ELSE "absent"
        /\ \A p \in Procs : MakesUsers(p)
SomebodyGoesOn ==
    ("downgrade" \notin tried /\ crashes = 0 /\ issued > 0) => ~Absent("users") \/ Runs # {}

\* Every foreign key of these tables leads to the table itself, or to one at an
\* earlier place.
LeadsBack(schema, place) ==
    \A t \in DOMAIN schema : \A c \in DOMAIN schema[t].fk :
        /\ schema[t].fk[c].to \in CommonNames
        /\ schema[t].fk[c].to = t \/ place[schema[t].fk[c].to] < place[t]

LEMMA OverLeadsBack ==
    ASSUME NEW f, NEW g, NEW place, LeadsBack(f, place), LeadsBack(g, place)
    PROVE  LeadsBack(f ++ g, place)
  BY DEF LeadsBack, ++

LEMMA SqlLeadsBack == LeadsBack(SqlSchema, SqlPlace)
  <1> USE DEF LeadsBack, Table, Named, NoKeys, References, RolePermissions, SsoSessions, CommonNames, SqlPlace
  <1>1. LeadsBack(SqlIdentity, SqlPlace)
    BY DEF SqlIdentity
  <1>2. LeadsBack(SqlPipeline, SqlPlace)
    BY DEF SqlPipeline, SqlPipelineWith
  <1>3. LeadsBack(SqlAudit, SqlPlace)
    BY DEF SqlAudit
  <1> HIDE DEF LeadsBack, Table, Named, NoKeys, References, RolePermissions, SsoSessions, CommonNames, SqlPlace
  <1> QED
    BY <1>1, <1>2, <1>3, OverLeadsBack DEF SqlSchema

LEMMA RevisionLeadsBack == LeadsBack(AlembicSchema, RevisionPlace)
  <1> USE DEF LeadsBack, Table, Named, NoKeys, References, RolePermissions, SsoSessions, CommonNames, RevisionPlace
  <1>1. LeadsBack(AlembicIdentity, RevisionPlace)
    BY DEF AlembicIdentity
  <1>2. LeadsBack(AlembicTemplates, RevisionPlace)
    BY DEF AlembicTemplates
  <1>3. LeadsBack(AlembicPipeline, RevisionPlace)
    BY DEF AlembicPipeline
  <1>4. LeadsBack(AlembicAudit, RevisionPlace) /\ LeadsBack(AlembicSessions, RevisionPlace)
    BY DEF AlembicAudit, AlembicSessions
  <1> HIDE DEF LeadsBack, Table, Named, NoKeys, References, RolePermissions, SsoSessions, CommonNames, RevisionPlace
  <1>5. LeadsBack(AlembicIdentity ++ AlembicTemplates ++ AlembicPipeline, RevisionPlace)
    BY <1>1, <1>2, <1>3, OverLeadsBack
  <1> QED
    BY <1>4, <1>5, OverLeadsBack DEF AlembicSchema

LEMMA OrmLeadsBack == LeadsBack(OrmSchema, OrmPlace)
  <1> USE DEF LeadsBack, Table, Named, NoKeys, References, RolePermissions, SsoSessions, CommonNames, OrmPlace
  <1>1. LeadsBack(OrmUser, OrmPlace) /\ LeadsBack(OrmRole, OrmPlace) /\ LeadsBack(OrmSession, OrmPlace)
    BY DEF OrmUser, OrmRole, OrmSession
  <1>2. LeadsBack(OrmTemplate, OrmPlace) /\ LeadsBack(OrmIngestedRow, OrmPlace)
    BY DEF OrmTemplate, OrmIngestedRow
  <1>3. LeadsBack(OrmSuggestion, OrmPlace) /\ LeadsBack(OrmAuditLog, OrmPlace)
    BY DEF OrmSuggestion, OrmAuditLog
  <1> HIDE DEF LeadsBack, Table, Named, NoKeys, References, RolePermissions, SsoSessions, CommonNames, OrmPlace
  <1>4. LeadsBack(OrmUser ++ OrmRole ++ OrmSession, OrmPlace)
    BY <1>1, OverLeadsBack
  <1>5. LeadsBack(OrmUser ++ OrmRole ++ OrmSession ++ OrmTemplate ++ OrmIngestedRow, OrmPlace)
    BY <1>2, <1>4, OverLeadsBack
  <1> QED
    BY <1>3, <1>5, OverLeadsBack DEF OrmSchema

LEMMA ReferredBefore ==
    ASSUME NEW origin \in Origins, NEW t \in DOMAIN TablesOf(origin), NEW r \in Referred(origin, t)
    PROVE  r \in CommonTables /\ PlaceOf(origin)[r] < PlaceOf(origin)[t]
  <1>1. LeadsBack(TablesOf(origin), PlaceOf(origin))
    BY SqlLeadsBack, RevisionLeadsBack, OrmLeadsBack DEF Origins, TablesOf, PlaceOf
  <1> QED
    BY <1>1, TableNames DEF LeadsBack, Referred

LEMMA PlacesTyped ==
    /\ \A t \in Tables : SqlPlace[t] \in 1..11
    /\ \A t \in CommonTables : RevisionPlace[t] \in 1..10 /\ OrmPlace[t] \in 1..10
  <1>1. \A t \in CommonNames \cup {"user_roles"} : SqlPlace[t] \in 1..11
    BY DEF CommonNames, SqlPlace
  <1>2. \A t \in CommonNames : RevisionPlace[t] \in 1..10
    BY DEF CommonNames, RevisionPlace
  <1>3. \A t \in CommonNames : OrmPlace[t] \in 1..10
    BY DEF CommonNames, OrmPlace
  <1> QED
    BY <1>1, <1>2, <1>3, TableNames

-------------------------------------------------------------------------------
LEMMA Ranks ==
    ASSUME NEW origin, NEW t
    PROVE  /\ Rank(origin, Statement("create", t)) = 2 * PlaceOf(origin)[t]
           /\ Rank(origin, Statement("create_if_absent", t)) = 2 * PlaceOf(origin)[t]
           /\ Rank(origin, Statement("index", t)) = 2 * PlaceOf(origin)[t] + 1
           /\ Rank(origin, Statement("ensure", t)) = 0
           /\ Rank(origin, Statement("stamp", t)) = 100
           /\ Rank(origin, Statement("trigger", t)) = 100
           /\ Fresh(Statement("create", t)) = {t} /\ Fresh(Statement("create_if_absent", t)) = {t}
           /\ Fresh(Statement("ensure", t)) = {Version}
           /\ Fresh(Statement("index", t)) = {k \in {UniqueKey} : t = "ingested_rows"}
           /\ Fresh(Statement("stamp", t)) = {} /\ Fresh(Statement("trigger", t)) = {}
           /\ Fresh(Statement("look", t)) = {} /\ Fresh(Statement("heads", t)) = {}
  <1>1. /\ Statement("create", t).op = "create" /\ Statement("create", t).on = t
        /\ Statement("create_if_absent", t).op = "create_if_absent" /\ Statement("create_if_absent", t).on = t
        /\ Statement("index", t).op = "index" /\ Statement("index", t).on = t
        /\ Statement("ensure", t).op = "ensure" /\ Statement("stamp", t).op = "stamp"
        /\ Statement("trigger", t).op = "trigger" /\ Statement("look", t).op = "look"
        /\ Statement("heads", t).op = "heads"
    BY StatementsOf
  <1> QED
    BY <1>1 DEF Rank, Fresh

\* A part of a program whose statements have their places from lo to hi.
Within(origin, s, lo, hi) ==
    /\ s \in Seq(Statements) /\ Ascends(origin, s)
    /\ \A i \in DOMAIN s : s[i].op # "look" /\ Rank(origin, s[i]) \in lo..hi

LEMMA BothWithin ==
    ASSUME NEW origin, NEW lo \in Int, NEW m \in Int, NEW n \in Int, NEW hi \in Int, lo <= m, m < n, n <= hi,
           NEW s, NEW t, Within(origin, s, lo, m), Within(origin, t, n, hi)
    PROVE  Within(origin, s \o t, lo, hi)
  <1> HIDE DEF Statements
  <1>1. /\ s \in Seq(Statements) /\ t \in Seq(Statements) /\ s \o t \in Seq(Statements)
        /\ DOMAIN s = 1..Len(s) /\ Len(s) \in Nat /\ DOMAIN t = 1..Len(t) /\ Len(t) \in Nat
        /\ DOMAIN (s \o t) = 1..(Len(s) + Len(t))
    BY DEF Within
  <1>2. \A i \in DOMAIN (s \o t) : \/ i \in DOMAIN s /\ (s \o t)[i] = s[i]
                                   \/ i > Len(s) /\ i - Len(s) \in DOMAIN t /\ (s \o t)[i] = t[i - Len(s)]
    BY <1>1
  <1>3. \A i \in DOMAIN (s \o t) : (s \o t)[i].op # "look" /\ Rank(origin, (s \o t)[i]) \in lo..hi
    <2>1. \A k \in lo..m : k \in lo..hi
      OBVIOUS
    <2>2. \A k \in n..hi : k \in lo..hi
      OBVIOUS
    <2> QED
      BY <1>2, <2>1, <2>2 DEF Within
  <1>4. ASSUME NEW i \in DOMAIN (s \o t), NEW j \in DOMAIN (s \o t), i < j
        PROVE  Rank(origin, (s \o t)[i]) < Rank(origin, (s \o t)[j])
    <2>1. CASE j \in DOMAIN s /\ (s \o t)[j] = s[j]
      <3>1. i \in DOMAIN s /\ (s \o t)[i] = s[i]
        BY <1>1, <1>2, <1>4, <2>1
      <3> QED
        BY <1>4, <2>1, <3>1 DEF Within, Ascends
    <2>2. CASE j > Len(s) /\ j - Len(s) \in DOMAIN t /\ (s \o t)[j] = t[j - Len(s)]
      <3>1. CASE i \in DOMAIN s /\ (s \o t)[i] = s[i]
        <4>1. Rank(origin, s[i]) \in lo..m /\ Rank(origin, t[j - Len(s)]) \in n..hi
          BY <2>2, <3>1 DEF Within
        <4> QED
          BY <2>2, <3>1, <4>1
      <3>2. CASE i > Len(s) /\ i - Len(s) \in DOMAIN t /\ (s \o t)[i] = t[i - Len(s)]
        <4>1. i - Len(s) < j - Len(s)
          BY <1>1, <1>4
        <4> QED
          BY <2>2, <3>2, <4>1 DEF Within, Ascends
      <3> QED
        BY <1>2, <3>1, <3>2
    <2> QED
      BY <1>2, <2>1, <2>2
  <1> QED
    BY <1>1, <1>3, <1>4 DEF Within, Ascends

LEMMA OneWithin ==
    ASSUME NEW origin, NEW s \in Statements, s.op # "look", NEW n \in Int, Rank(origin, s) = n
    PROVE  Within(origin, <<s>>, n, n)
  <1>1. <<s>> \in Seq(Statements) /\ DOMAIN <<s>> = {1} /\ <<s>>[1] = s
    OBVIOUS
  <1> QED
    BY <1>1 DEF Within, Ascends

LEMMA UpgradeAscends == Within("revision", upgrade, 2, 100)
  <1> DEFINE creates == Each("create", RevisionOrder)
             stamp == <<Statement("stamp", Version)>>
  <1>1. RevisionOrder \in Seq(Objects) /\ DOMAIN RevisionOrder = 1..10
    BY StatementsOf DEF RevisionOrder, CommonNames
  <1>2. \A i \in 1..10 : RevisionPlace[RevisionOrder[i]] = i
    BY DEF RevisionOrder, RevisionPlace
  <1>3. creates \in Seq(Statements)
    BY <1>1, EachRange, StatementsOf
  <1>4. DOMAIN creates = 1..10 /\ \A i \in 1..10 : creates[i] = Statement("create", RevisionOrder[i])
    BY <1>1 DEF Each
  <1> HIDE DEF creates
  <1>5. \A i \in 1..10 : creates[i].op # "look" /\ Rank("revision", creates[i]) = 2 * i
    BY <1>2, <1>4, Ranks, StatementsOf DEF PlaceOf
  <1>6. \A i \in 1..10 : 2 * i \in 2..20
    OBVIOUS
  <1>7. Within("revision", creates, 2, 20)
    BY <1>3, <1>4, <1>5, <1>6 DEF Within, Ascends
  <1>8. Within("revision", stamp, 100, 100)
    <2>1. /\ Statement("stamp", Version) \in Statements /\ Statement("stamp", Version).op # "look"
          /\ Rank("revision", Statement("stamp", Version)) = 100
      BY Ranks, StatementsOf
    <2> QED
      BY <2>1, OneWithin
  <1> HIDE DEF stamp
  <1>9. Within("revision", creates \o stamp, 2, 100)
    BY <1>7, <1>8, BothWithin
  <1> QED
    BY <1>9 DEF creates, stamp, upgrade

LEMMA HeadsAscends ==
    ASSUME NEW steps, steps = << >> \/ steps = upgrade
    PROVE  /\ Within("revision", steps, 2, 100)
           /\ Within("revision", <<Statement("ensure", Version)>> \o steps, 0, 100)
  <1> DEFINE one == <<Statement("ensure", Version)>>
  <1>1. Within("revision", << >>, 2, 100)
    BY DEF Within, Ascends
  <1>2. Within("revision", one, 0, 0)
    <2>1. /\ Statement("ensure", Version) \in Statements /\ Statement("ensure", Version).op # "look"
          /\ Rank("revision", Statement("ensure", Version)) = 0
      BY Ranks, StatementsOf
    <2> QED
      BY <2>1, OneWithin
  <1> HIDE DEF one
  <1>3. Within("revision", steps, 2, 100)
    BY <1>1, UpgradeAscends
  <1>4. Within("revision", one \o steps, 0, 100)
    BY <1>2, <1>3, BothWithin
  <1> QED
    BY <1>3, <1>4 DEF one

LEMMA CreationsAscend ==
    ASSUME NEW found, found \subseteq CommonNames
    PROVE  Within("orm", Creations(found), 2, 20)
  <1> DEFINE Create(t) == IF t \in found THEN <<Statement("create", t)>> ELSE << >>
  <1>1. ASSUME NEW t \in CommonNames, NEW n \in Int, 2 * OrmPlace[t] = n PROVE Within("orm", Create(t), n, n)
    <2>1. CASE t \in found
      <3>1. Rank("orm", Statement("create", t)) = n
        BY <1>1, Ranks DEF PlaceOf
      <3>2. Statement("create", t) \in Statements /\ Statement("create", t).op # "look"
        BY StatementsOf
      <3>3. Within("orm", <<Statement("create", t)>>, n, n)
        BY <3>1, <3>2, OneWithin
      <3> QED
        BY <2>1, <3>3
    <2>2. CASE t \notin found
      BY <2>2 DEF Within, Ascends
    <2> QED
      BY <2>1, <2>2
  <1> DEFINE s1 == Create("users") \o Create("permissions") \o Create("roles") \o Create("templates")
             s2 == s1 \o Create("role_permissions") \o Create("ingested_rows") \o Create("template_versions")
  <1>2. Creations(found) = s2 \o Create("audit_logs") \o Create("sso_sessions") \o Create("suggestions")
    BY DEF Creations
  <1> HIDE DEF Create
  <1>3. /\ Within("orm", Create("users"), 2, 2) /\ Within("orm", Create("permissions"), 4, 4)
        /\ Within("orm", Create("roles"), 6, 6) /\ Within("orm", Create("templates"), 8, 8)
        /\ Within("orm", Create("role_permissions"), 10, 10) /\ Within("orm", Create("ingested_rows"), 12, 12)
        /\ Within("orm", Create("template_versions"), 14, 14) /\ Within("orm", Create("audit_logs"), 16, 16)
        /\ Within("orm", Create("sso_sessions"), 18, 18) /\ Within("orm", Create("suggestions"), 20, 20)
    BY <1>1 DEF CommonNames, OrmPlace
  <1>4. Within("orm", s1, 2, 8)
    <2>1. Within("orm", Create("users") \o Create("permissions"), 2, 4)
      BY <1>3, BothWithin
    <2>2. Within("orm", Create("users") \o Create("permissions") \o Create("roles"), 2, 6)
      BY <1>3, <2>1, BothWithin
    <2> QED
      BY <1>3, <2>2, BothWithin
  <1> HIDE DEF s1
  <1>5. Within("orm", s2, 2, 14)
    <2>1. Within("orm", s1 \o Create("role_permissions"), 2, 10)
      BY <1>3, <1>4, BothWithin
    <2>2. Within("orm", s1 \o Create("role_permissions") \o Create("ingested_rows"), 2, 12)
      BY <1>3, <2>1, BothWithin
    <2> QED
      BY <1>3, <2>2, BothWithin
  <1> HIDE DEF s2
  <1>6. Within("orm", s2 \o Create("audit_logs"), 2, 16)
    BY <1>3, <1>5, BothWithin
  <1>7. Within("orm", s2 \o Create("audit_logs") \o Create("sso_sessions"), 2, 18)
    BY <1>3, <1>6, BothWithin
  <1> QED
    BY <1>2, <1>3, <1>7, BothWithin

LEMMA FileAscends == Within("sql", SqlFile, 2, 100)
  <1>1. ASSUME NEW t \in Tables, NEW n \in Int, 2 * SqlPlace[t] = n PROVE Within("sql", Made(t), n, n)
    <2>1. /\ Rank("sql", Statement("create_if_absent", t)) = n
          /\ Statement("create_if_absent", t) \in Statements /\ Statement("create_if_absent", t).op # "look"
      BY <1>1, Ranks, StatementsOf DEF PlaceOf
    <2> QED
      BY <2>1, OneWithin DEF Made
  <1>2. ASSUME NEW t \in Tables, NEW n \in Int, 2 * SqlPlace[t] = n
        PROVE  Within("sql", Indexed(t), n, n + 1)
    <2> DEFINE index == <<Statement("index", t)>>
    <2>1. /\ Rank("sql", Statement("index", t)) = n + 1
          /\ Statement("index", t) \in Statements /\ Statement("index", t).op # "look"
      BY <1>2, Ranks, StatementsOf DEF PlaceOf
    <2>2. Within("sql", index, n + 1, n + 1)
      BY <2>1, OneWithin
    <2>3. Within("sql", Made(t), n, n)
      BY <1>1, <1>2
    <2> HIDE DEF index
    <2>4. Within("sql", Made(t) \o index, n, n + 1)
      BY <2>2, <2>3, BothWithin
    <2> QED
      BY <2>4 DEF Indexed, index
  <1>3. /\ Within("sql", Made("permissions"), 4, 4) /\ Within("sql", Made("roles"), 6, 6)
        /\ Within("sql", Made("role_permissions"), 8, 8) /\ Within("sql", Made("user_roles"), 10, 10)
        /\ Within("sql", Made("templates"), 14, 14)
    BY <1>1, TableNames DEF CommonNames, SqlPlace
  <1>4. /\ Within("sql", Indexed("users"), 2, 2 + 1) /\ Within("sql", Indexed("sso_sessions"), 12, 12 + 1)
        /\ Within("sql", Indexed("template_versions"), 16, 16 + 1)
        /\ Within("sql", Indexed("ingested_rows"), 18, 18 + 1)
        /\ Within("sql", Indexed("suggestions"), 20, 20 + 1) /\ Within("sql", Indexed("audit_logs"), 22, 22 + 1)
    BY <1>2, TableNames DEF CommonNames, SqlPlace
  <1> DEFINE last == <<Statement("trigger", "audit_logs")>>
             s1 == Made("permissions") \o Made("roles") \o Made("role_permissions") \o Made("user_roles")
             s2 == s1 \o Indexed("sso_sessions") \o Made("templates") \o Indexed("template_versions")
             s3 == s2 \o Indexed("ingested_rows") \o Indexed("suggestions") \o Indexed("audit_logs")
  <1>5. Within("sql", last, 100, 100)
    <2>1. /\ Statement("trigger", "audit_logs") \in Statements
          /\ Statement("trigger", "audit_logs").op # "look"
          /\ Rank("sql", Statement("trigger", "audit_logs")) = 100
      BY Ranks, StatementsOf DEF CommonNames
    <2> QED
      BY <2>1, OneWithin
  <1>6. SqlFile = Indexed("users") \o (s3 \o last)
    BY DEF SqlFile, SqlOthers
  <1> HIDE DEF last
  <1>7. Within("sql", s1, 4, 10)
    <2>1. Within("sql", Made("permissions") \o Made("roles"), 4, 6)
      BY <1>3, BothWithin
    <2>2. Within("sql", Made("permissions") \o Made("roles") \o Made("role_permissions"), 4, 8)
      BY <1>3, <2>1, BothWithin
    <2> QED
      BY <1>3, <2>2, BothWithin
  <1> HIDE DEF s1
  <1>8. Within("sql", s2, 4, 17)
    <2>1. Within("sql", s1 \o Indexed("sso_sessions"), 4, 12 + 1)
      BY <1>4, <1>7, BothWithin
    <2>2. Within("sql", s1 \o Indexed("sso_sessions") \o Made("templates"), 4, 14)
      BY <1>3, <2>1, BothWithin
    <2> QED
      BY <1>4, <2>2, BothWithin
  <1> HIDE DEF s2
  <1>9. Within("sql", s3, 4, 23)
    <2>1. Within("sql", s2 \o Indexed("ingested_rows"), 4, 18 + 1)
      BY <1>4, <1>8, BothWithin
    <2>2. Within("sql", s2 \o Indexed("ingested_rows") \o Indexed("suggestions"), 4, 20 + 1)
      BY <1>4, <2>1, BothWithin
    <2> QED
      BY <1>4, <2>2, BothWithin
  <1> HIDE DEF s3
  <1>10. Within("sql", s3 \o last, 4, 100)
    BY <1>5, <1>9, BothWithin
  <1> QED
    BY <1>4, <1>6, <1>10, BothWithin

LEMMA TailAscends ==
    ASSUME NEW origin, NEW s \in Seq(Statements), s # << >>, Ascends(origin, s)
    PROVE  /\ Ascends(origin, Tail(s))
           /\ Head(s).op # "look" => \A x \in Range(Tail(s)) : Rank(origin, Head(s)) < Rank(origin, x)
  <1> HIDE DEF Statements
  <1>1. /\ DOMAIN s = 1..Len(s) /\ Len(s) \in Nat /\ Len(s) > 0 /\ Head(s) = s[1]
        /\ DOMAIN Tail(s) = 1..(Len(s) - 1) /\ \A i \in 1..(Len(s) - 1) : Tail(s)[i] = s[i + 1]
    OBVIOUS
  <1>2. \A i \in DOMAIN Tail(s) : i + 1 \in DOMAIN s /\ Tail(s)[i] = s[i + 1] /\ 1 < i + 1
    BY <1>1
  <1>3. \A i, j \in DOMAIN Tail(s) : i < j => i + 1 < j + 1
    BY <1>1
  <1>4. Ascends(origin, Tail(s))
    BY <1>2, <1>3 DEF Ascends
  <1>5. ASSUME Head(s).op # "look", NEW i \in DOMAIN Tail(s)
        PROVE  Rank(origin, Head(s)) < Rank(origin, Tail(s)[i])
    <2>1. 1 \in DOMAIN s
      BY <1>1
    <2> QED
      BY <1>1, <1>2, <1>5, <2>1 DEF Ascends
  <1> QED
    BY <1>4, <1>5 DEF Range

\* The statements of a command that makes tables, and their ranks.
LEMMA Making ==
    ASSUME TypeOK, NEW p \in Procs, Advancing(p), command[p] # "downgrade", NEW s \in Todo(p)
    PROVE  /\ Rank(OriginOf(p), s) \in Int
           /\ \/ \E t \in CommonTables : s = Statement("create", t)
              \/ \E t \in Tables : s = Statement("create_if_absent", t)
              \/ \E t \in IndexedTables : s = Statement("index", t)
              \/ s = Statement("trigger", "audit_logs") \/ s = Statement("stamp", Version)
              \/ s = Statement("ensure", Version)
  <1>1. CASE command[p] = "upgrade"
    <2>1. OriginOf(p) = "revision" /\ PlaceOf("revision") = RevisionPlace
      BY <1>1 DEF OriginOf, PlaceOf
    <2>2. \/ \E t \in CommonTables : s = Statement("create", t)
          \/ s = Statement("stamp", Version) \/ s = Statement("ensure", Version)
      BY <1>1 DEF Advancing, Idle, Upgrading
    <2> QED
      BY <2>1, <2>2, Ranks, PlacesTyped
  <1>2. CASE command[p] = "sql"
    <2>1. OriginOf(p) = "sql" /\ PlaceOf("sql") = SqlPlace
      BY <1>2 DEF OriginOf, PlaceOf
    <2>2. s \in FileStatements
      BY <1>2, FileRange DEF Advancing, Filing
    <2>3. \/ \E t \in Tables : s = Statement("create_if_absent", t)
          \/ \E t \in IndexedTables : s = Statement("index", t)
          \/ s = Statement("trigger", "audit_logs")
      BY <2>2 DEF FileStatements
    <2> QED
      BY <2>1, <2>3, Ranks, PlacesTyped, ObjectFacts
  <1>3. CASE command[p] = "create_all"
    <2>1. OriginOf(p) = "orm" /\ PlaceOf("orm") = OrmPlace
      BY <1>3 DEF OriginOf, PlaceOf
    <2>2. \E t \in CommonTables : s = Statement("create", t)
      BY <1>3 DEF Advancing, Creating, TypeOK
    <2> QED
      BY <2>1, <2>2, Ranks, PlacesTyped
  <1> QED
    BY <1>1, <1>2, <1>3 DEF Advancing

\* What a statement changes, no later one expects to be unchanged.
LEMMA EffectNotFresh ==
    ASSUME TypeOK, NEW p \in Procs, Advancing(p), command[p] # "downgrade", NEW s \in Todo(p), NEW u \in Todo(p),
           Rank(OriginOf(p), s) < Rank(OriginOf(p), u)
    PROVE  Fresh(u) \cap DOMAIN Effect(p, s) = {}
  <1> DEFINE origin == OriginOf(p)
             rs == Rank(OriginOf(p), s)
             ru == Rank(OriginOf(p), u)
  <1>1. rs \in Int /\ ru \in Int
    BY Making
  <1>2. rs # ru
    BY <1>1
  <1> DEFINE Kind(x) ==
                \/ \E t \in CommonTables : x = Statement("create", t)
                \/ \E t \in Tables : x = Statement("create_if_absent", t)
                \/ \E t \in IndexedTables : x = Statement("index", t)
                \/ x = Statement("trigger", "audit_logs") \/ x = Statement("stamp", Version)
                \/ x = Statement("ensure", Version)
  <1>3. Kind(s) /\ Kind(u)
    BY Making
  <1>4. \A t \in Tables : t \in Fresh(u) => ru = 2 * PlaceOf(origin)[t]
    BY <1>3, Ranks, ObjectFacts
  <1>5. UniqueKey \in Fresh(u) => ru = 2 * PlaceOf(origin)["ingested_rows"] + 1
    BY <1>3, Ranks, ObjectFacts
  <1>6. Version \in Fresh(u) => ru = 0
    BY <1>3, Ranks, ObjectFacts
  <1>7. Trigger \notin Fresh(u)
    BY <1>3, Ranks, ObjectFacts
  <1> HIDE DEF Kind
  <1>8. ASSUME NEW t \in Tables, s = Statement("create", t) \/ s = Statement("create_if_absent", t)
        PROVE  Fresh(u) \cap DOMAIN Effect(p, s) = {}
    <2>1. DOMAIN Effect(p, s) \subseteq {t}
      BY <1>8 DEF Effect, Statement
    <2>2. rs = 2 * PlaceOf(origin)[t]
      BY <1>8, Ranks
    <2> QED
      BY <1>2, <1>4, <2>1, <2>2
  <1>9. ASSUME NEW t \in IndexedTables, s = Statement("index", t)
        PROVE  Fresh(u) \cap DOMAIN Effect(p, s) = {}
    <2>1. DOMAIN Effect(p, s) = {k \in {UniqueKey} : t = "ingested_rows"}
      BY <1>9 DEF Effect, Statement
    <2>2. rs = 2 * PlaceOf(origin)[t] + 1
      BY <1>9, Ranks
    <2> QED
      BY <1>2, <1>5, <2>1, <2>2
  <1>10. ASSUME s = Statement("trigger", "audit_logs") PROVE Fresh(u) \cap DOMAIN Effect(p, s) = {}
    BY <1>7, <1>10, TriggerDoes
  <1>11. ASSUME s = Statement("stamp", Version) PROVE Fresh(u) \cap DOMAIN Effect(p, s) = {}
    <2>1. DOMAIN Effect(p, s) = {Version} /\ rs = 100
      BY <1>11, StampDoes, Ranks
    <2>2. ru # 0
      BY <1>1, <2>1
    <2> QED
      BY <1>6, <2>1, <2>2
  <1>12. ASSUME s = Statement("ensure", Version) PROVE Fresh(u) \cap DOMAIN Effect(p, s) = {}
    <2>1. DOMAIN Effect(p, s) = {Version}
      BY <1>12, EnsureDoes
    <2>2. rs = 0
      BY <1>12, Ranks
    <2> QED
      BY <1>2, <1>6, <2>1, <2>2
  <1> QED
    BY <1>3, <1>8, <1>9, <1>10, <1>11, <1>12, ObjectFacts DEF Kind

LEMMA InitInOrder == Init => \A p \in Procs : InOrder(p)
  BY RangeEmpty DEF Init, InOrder, Ascends, Todo

LEMMA OthersInOrder ==
    ASSUME NEW q \in Procs, InOrder(q), command'[q] = command[q], todo'[q] = todo[q], change'[q] = change[q]
    PROVE  InOrder(q)'
  <1>1. OriginOf(q)' = OriginOf(q)
    BY DEF OriginOf
  <1> QED
    BY <1>1 DEF InOrder, Todo

LEMMA EndInOrder ==
    ASSUME NEW p \in Procs, todo'[p] = << >>
    PROVE  InOrder(p)'
  BY RangeEmpty DEF InOrder, Ascends, Todo

LEMMA NextInOrder ==
    ASSUME IInv, \A q \in Procs : InOrder(q), [Next]_vars
    PROVE  \A q \in Procs : InOrder(q)'
  <1>1. TypeOK /\ StatementsOK
    BY DEF IInv
  <1>2. CASE UNCHANGED <<command, todo, change>>
    BY <1>2, OthersInOrder
  <1>3. ASSUME NEW p \in Procs, End(p) PROVE \A q \in Procs : InOrder(q)'
    <2>1. /\ todo'[p] = << >>
          /\ \A q \in Procs \ {p} : command'[q] = command[q] /\ todo'[q] = todo[q] /\ change'[q] = change[q]
      BY <1>1, <1>3 DEF End, TypeOK, StatementsOK
    <2> QED
      BY <2>1, OthersInOrder, EndInOrder
  <1>4. ASSUME NEW p \in Procs, NEW kind \in Commands, Issue(p, kind) PROVE \A q \in Procs : InOrder(q)'
    <2>1. /\ command'[p] = kind /\ todo'[p] = Program(kind) /\ change' = change /\ DOMAIN change[p] = {}
          /\ \A q \in Procs \ {p} : command'[q] = command[q] /\ todo'[q] = todo[q]
      BY <1>1, <1>4 DEF Issue, TypeOK, StatementsOK, IInv, Running, Resting
    <2>2. kind \in Kinds
      BY CommandsAssumption
    <2>3. CASE kind = "sql"
      <3>1. OriginOf(p)' = "sql" /\ todo'[p] = SqlFile
        BY <2>1, <2>3 DEF OriginOf, Program
      <3> QED
        BY <2>1, <3>1, FileAscends, OthersInOrder DEF InOrder, Within
    <2>4. CASE kind = "create_all"
      <3>1. todo'[p] = Each("look", Declared)
        BY <2>1, <2>4 DEF Program
      <3>2. \A i \in DOMAIN todo'[p] : todo'[p][i].op = "look"
        BY <3>1, StatementsOf DEF Each
      <3> QED
        BY <2>1, <3>2, OthersInOrder DEF InOrder, Ascends
    <2>5. CASE kind \in {"upgrade", "downgrade"}
      <3>1. todo'[p] = <<Statement("heads", Version)>>
        BY <2>1, <2>5 DEF Program
      <3>2. DOMAIN todo'[p] = {1}
        BY <3>1
      <3> QED
        BY <2>1, <3>2, OthersInOrder DEF InOrder, Ascends
    <2> QED
      BY <2>2, <2>3, <2>4, <2>5 DEF Kinds
  <1>5. ASSUME NEW p \in Procs, Heads(p) PROVE \A q \in Procs : InOrder(q)'
    <2> DEFINE steps == CASE command[p] = "upgrade" /\ ~Applied -> upgrade
                          [] command[p] = "downgrade" /\ Applied -> downgrade
                          [] OTHER -> << >>
               one == <<Statement("ensure", Version)>>
               new == IF catalog[Version] = "absent" THEN one \o steps ELSE steps
    <2>1. todo' = [todo EXCEPT ![p] = new] /\ UNCHANGED <<command, change>>
      BY <1>5 DEF Heads, Skip
    <2>2. command[p] \in {"upgrade", "downgrade"} /\ DOMAIN change[p] = {}
      BY <1>1, <1>5, NextStatement DEF Heads, AtNext, IInv, Asking
    <2>3. \A q \in Procs \ {p} : InOrder(q)'
      BY <1>1, <2>1, OthersInOrder DEF StatementsOK
    <2>4. CASE command[p] = "upgrade"
      <3>1. steps = << >> \/ steps = upgrade
        BY <2>4
      <3> HIDE DEF steps
      <3>2. Ascends("revision", steps) /\ Ascends("revision", one \o steps)
        BY <3>1, HeadsAscends DEF Within
      <3> HIDE DEF one
      <3>3. Ascends("revision", todo'[p])
        BY <1>1, <2>1, <3>2 DEF StatementsOK
      <3>4. OriginOf(p)' = "revision"
        BY <2>1, <2>4 DEF OriginOf
      <3> QED
        BY <2>1, <2>2, <2>3, <3>3, <3>4 DEF InOrder
    <2>5. CASE command[p] = "downgrade"
      <3> HIDE DEF new
      <3> QED
        BY <2>1, <2>3, <2>5 DEF InOrder
    <2> QED
      BY <2>2, <2>4, <2>5
  <1>6. ASSUME NEW p \in Procs, Look(p) PROVE \A q \in Procs : InOrder(q)'
    <2> DEFINE t == Head(todo[p]).on
               found == missing[p] \cup {u \in {t} : Seen(p, u) = "absent"}
               new == IF Len(todo[p]) > 1 THEN Tail(todo[p]) ELSE Creations(found)
    <2>1. todo' = [todo EXCEPT ![p] = new] /\ UNCHANGED <<command, change>> /\ todo[p] # << >>
      BY <1>6 DEF Look, Skip, AtNext
    <2>2. /\ command[p] = "create_all" /\ DOMAIN change[p] = {}
          /\ \E u \in CommonTables : Head(todo[p]) = Statement("look", u)
      BY <1>1, <1>6, NextStatement DEF Look, AtNext, IInv, Looking
    <2>3. found \subseteq CommonNames
      BY <1>1, <2>2, StatementsOf, TableNames DEF TypeOK
    <2>4. OriginOf(p)' = "orm" /\ OriginOf(p) = "orm"
      BY <2>1, <2>2 DEF OriginOf
    <2> HIDE DEF found
    <2>5. Ascends("orm", new)
      <3>1. Ascends("orm", Tail(todo[p]))
        BY <1>1, <2>1, <2>2, <2>4, TailAscends DEF InOrder, StatementsOK
      <3>2. Ascends("orm", Creations(found))
        BY <2>3, CreationsAscend DEF Within
      <3> QED
        BY <3>1, <3>2
    <2> HIDE DEF new
    <2>6. Ascends("orm", todo'[p])
      BY <1>1, <2>1, <2>5 DEF StatementsOK
    <2>7. \A q \in Procs \ {p} : InOrder(q)'
      BY <1>1, <2>1, OthersInOrder DEF StatementsOK
    <2> QED
      BY <2>1, <2>2, <2>4, <2>6, <2>7 DEF InOrder
  <1>7. ASSUME NEW p \in Procs, Execute(p) PROVE \A q \in Procs : InOrder(q)'
    <2> DEFINE s == Head(todo[p])
    <2>1. /\ todo[p] # << >> /\ command[p] # "none" /\ s.op \notin {"heads", "look"} /\ command' = command
          /\ todo' = [todo EXCEPT ![p] = Tail(todo[p])]
          /\ change' = [change EXCEPT ![p] = change[p] ++ Effect(p, s)]
      BY <1>7 DEF Execute, IsDdl
    <2>2. /\ todo'[p] = Tail(todo[p]) /\ DOMAIN change'[p] = DOMAIN change[p] \cup DOMAIN Effect(p, s)
          /\ \A q \in Procs \ {p} : todo'[q] = todo[q] /\ change'[q] = change[q]
      BY <1>1, <2>1 DEF StatementsOK, TypeOK, ++
    <2>3. \A q \in Procs \ {p} : InOrder(q)'
      BY <2>1, <2>2, OthersInOrder
    <2>4. Advancing(p) /\ s \in Todo(p) /\ Todo(p) = {s} \cup Range(Tail(todo[p]))
      BY <1>1, <2>1, NextStatement DEF IInv
    <2>5. ASSUME command[p] # "downgrade" PROVE InOrder(p)'
      <3>1. /\ Ascends(OriginOf(p), Tail(todo[p]))
            /\ \A x \in Range(Tail(todo[p])) : Rank(OriginOf(p), s) < Rank(OriginOf(p), x)
        BY <1>1, <2>1, <2>5, TailAscends DEF InOrder, StatementsOK
      <3>2. \A x \in Range(Tail(todo[p])) : Fresh(x) \cap DOMAIN change[p] = {}
        BY <2>4, <2>5 DEF InOrder
      <3>3. \A x \in Range(Tail(todo[p])) : Fresh(x) \cap DOMAIN Effect(p, s) = {}
        BY <1>1, <2>4, <2>5, <3>1, EffectNotFresh
      <3>4. OriginOf(p)' = OriginOf(p) /\ Todo(p)' = Range(Tail(todo[p]))
        BY <2>1, <2>2 DEF OriginOf, Todo
      <3> QED
        BY <2>2, <3>1, <3>2, <3>3, <3>4 DEF InOrder
    <2>6. command[p] = "downgrade" => InOrder(p)'
      BY <2>1 DEF InOrder
    <2> QED
      BY <2>3, <2>5, <2>6
  <1>8. \A p \in Procs : Wait(p) => UNCHANGED <<command, todo, change>>
    BY DEF Wait
  <1>9. UNCHANGED vars => UNCHANGED <<command, todo, change>>
    BY DEF vars, ddl
  <1> QED
    BY <1>2, <1>3, <1>4, <1>5, <1>6, <1>7, <1>8, <1>9
       DEF Next, Step, Commit, Fail, DeadlockDetected, Crash, RollBack

-------------------------------------------------------------------------------
(* Without a downgrade tables come, and do not go.                         *)
NoDowngrade == "downgrade" \notin tried

\* What NoDowngrade comes to in a state.
LEMMA Undisturbed ==
    ASSUME IInv, OnlyTried, NoDowngrade
    PROVE  /\ ~torn /\ Clean
           /\ \A p \in Procs : /\ Untorn(p) /\ command[p] # "downgrade"
                               /\ overtaken[p] \subseteq {"upgrade"}
  <1>1. ~torn
    BY DEF OnlyTried, NoDowngrade
  <1>2. \A p \in Procs : overtaken[p] \subseteq Both
    BY DEF IInv, TypeOK, Both
  <1> QED
    BY <1>1, <1>2 DEF IInv, OnlyTried, NoDowngrade, Both

\* In such a database without tables no statement fails: a table is not there
\* yet when its turn comes, and those it refers to are.
LEMMA NothingFails ==
    ASSUME IInv, OnlyTried, OnlyMade, NoDowngrade, Absent("users"),
           NEW p \in Procs, InOrder(p), IsDdl(p)
    PROVE  Succeeds(p, Head(todo[p]))
  <1> DEFINE s == Head(todo[p])
             origin == OriginOf(p)
  <1>1. TypeOK /\ StatementsOK /\ Running(p)
    BY DEF IInv
  <1>2. /\ Clean /\ Untorn(p) /\ command[p] # "downgrade" /\ overtaken[p] \subseteq {"upgrade"}
    BY Undisturbed
  <1>3. /\ \A t \in Tables : Absent(t)
        /\ Absent(UniqueKey) /\ catalog[Version] = "absent"
    BY <1>2, ObjectFacts DEF Clean, Absent, OnlyMade, NoDowngrade
  <1>4. /\ s \in Todo(p) /\ Todo(p) = {s} \cup Range(Tail(todo[p])) /\ Advancing(p)
        /\ s.op \notin {"heads", "look"} /\ todo[p] # << >>
    BY <1>1, NextStatement DEF IsDdl
  <1>5. \A u \in Todo(p) : u = s \/ Rank(origin, s) < Rank(origin, u)
    BY <1>1, <1>2, <1>4, TailAscends DEF InOrder, StatementsOK
  <1>6. Rank(origin, s) \in Int /\ \A u \in Todo(p) : Rank(origin, u) \in Int
    BY <1>1, <1>2, <1>4, Making
  <1>7. ASSUME NEW u, Rank(origin, u) \in Int, Rank(origin, u) < Rank(origin, s) PROVE u \notin Todo(p)
    BY <1>5, <1>6, <1>7
  <1>8. Fresh(s) \cap DOMAIN change[p] = {}
    BY <1>2, <1>4 DEF InOrder
  <1>9. \A o \in Fresh(s) : Seen(p, o) = catalog[o]
    BY <1>8 DEF Seen
  <1> HIDE DEF s
  <1>10. CASE command[p] = "upgrade"
    <2>1. origin = "revision" /\ PlaceOf(origin) = RevisionPlace /\ TablesOf(origin) = AlembicSchema
      BY <1>10 DEF OriginOf, PlaceOf, TablesOf
    <2>2. s = Statement("stamp", Version) => Succeeds(p, s)
      BY DEF Succeeds, Statement
    <2>3. ASSUME s = Statement("ensure", Version) PROVE Succeeds(p, s)
      <3>0. Version \in Fresh(s)
        BY <2>3, Ranks
      <3>1. Seen(p, Version) = "absent"
        BY <1>3, <1>9, <3>0
      <3> QED
        BY <2>3, <3>1 DEF Succeeds, Statement
    <2>4. ASSUME NEW t \in CommonTables, s = Statement("create", t) PROVE Succeeds(p, s)
      <3>1. Upgrading(p)
        BY <1>4, <1>10, <2>4, StatementsOf DEF Advancing, Idle
      <3>0. t \in Fresh(s)
        BY <2>4, Ranks
      <3>2. Seen(p, t) = "absent"
        BY <1>3, <1>9, <3>0, ObjectFacts DEF Absent
      <3>3. ASSUME NEW r \in Referred(origin, t) PROVE Seen(p, r) # "absent"
        <4>1. r \in CommonTables /\ PlaceOf(origin)[r] < PlaceOf(origin)[t]
          BY <2>1, TableNames, ReferredBefore DEF Origins
        <4>2. /\ Rank(origin, Statement("create", r)) \in Int
              /\ Rank(origin, Statement("create", r)) < Rank(origin, s)
          BY <2>1, <2>4, <4>1, Ranks, PlacesTyped
        <4>3. r \in DOMAIN change[p] /\ r \in Tables
          BY <1>7, <3>1, <4>1, <4>2, ObjectFacts DEF Upgrading
        <4> QED
          BY <3>1, <4>3 DEF Upgrading, MadeNew, Seen
      <3> QED
        BY <2>4, <3>2, <3>3 DEF Succeeds, Statement
    <2> QED
      BY <1>4, <1>10, <2>2, <2>3, <2>4 DEF Advancing, Idle, Upgrading, s
  <1>11. CASE command[p] = "create_all"
    <2>1. origin = "orm" /\ PlaceOf(origin) = OrmPlace /\ TablesOf(origin) = OrmSchema
      BY <1>11 DEF OriginOf, PlaceOf, TablesOf
    <2>2. Creating(p) /\ Found(p) /\ missing[p] \subseteq CommonTables
      BY <1>1, <1>2, <1>4, <1>11 DEF Advancing, Untorn, TypeOK
    <2>3. FindsAll(p)
      BY <1>2, <2>2 DEF Found, Absent
    <2>4. \A t : Statement("look", t) \notin Todo(p)
      BY <2>2, StatementsOf DEF Creating
    <2>5. missing[p] = CommonTables
      BY <2>2, <2>3, <2>4 DEF FindsAll
    <2>6. PICK t \in CommonTables : s = Statement("create", t)
      BY <1>4, <2>2 DEF Creating
    <2>7. Seen(p, t) = "absent"
      <3>1. t \in Fresh(s)
        BY <2>6, Ranks
      <3>2. catalog[t] = "absent"
        BY <1>3, ObjectFacts DEF Absent
      <3> QED
        BY <1>9, <3>1, <3>2
    <2>8. ASSUME NEW r \in Referred(origin, t) PROVE Seen(p, r) # "absent"
      <3>1. r \in CommonTables /\ PlaceOf(origin)[r] < PlaceOf(origin)[t]
        BY <2>1, ReferredBefore DEF Origins, CommonTables
      <3>2. /\ Rank(origin, Statement("create", r)) \in Int
            /\ Rank(origin, Statement("create", r)) < Rank(origin, s)
        BY <2>1, <2>6, <3>1, Ranks, PlacesTyped
      <3>3. r \in DOMAIN change[p] /\ r \in Tables
        BY <1>7, <2>2, <2>5, <3>1, <3>2, ObjectFacts DEF Creating
      <3> QED
        BY <2>2, <3>3 DEF Creating, MadeNew, Seen
    <2> QED
      BY <2>6, <2>7, <2>8 DEF Succeeds, Statement, s
  <1>12. CASE command[p] = "sql"
    <2>1. origin = "sql" /\ PlaceOf(origin) = SqlPlace /\ TablesOf(origin) = SqlSchema
      BY <1>12 DEF OriginOf, PlaceOf, TablesOf
    <2>2. Filing(p) /\ FiledAll(p)
      BY <1>2, <1>4, <1>12 DEF Advancing, Untorn
    <2>3. "users" \in DOMAIN change[p] \/ Statement("create_if_absent", "users") \in Todo(p)
      BY <1>12 DEF OnlyMade, NoDowngrade, MakesUsers
    <2>4. \A t \in Tables : Statement("create_if_absent", t) \in Todo(p) \/ t \in DOMAIN change[p]
      BY <1>3, <2>2, <2>3 DEF FiledAll
    \* A table whose turn has come before is there.
    <2>5. ASSUME NEW t \in Tables, 2 * SqlPlace[t] < Rank(origin, s) PROVE Seen(p, t) = "sql"
      <3>1. /\ Rank(origin, Statement("create_if_absent", t)) \in Int
            /\ Rank(origin, Statement("create_if_absent", t)) < Rank(origin, s)
        BY <2>1, <2>5, Ranks, PlacesTyped
      <3>2. t \in DOMAIN change[p]
        BY <1>7, <2>4, <3>1
      <3> QED
        BY <2>2, <3>2 DEF Filing, Seen
    <2>6. ASSUME NEW t \in Tables, s = Statement("create_if_absent", t) PROVE Succeeds(p, s)
      <3>0. t \in Fresh(s)
        BY <2>6, Ranks
      <3>a. catalog[t] = "absent"
        BY <1>3 DEF Absent
      <3>1. Seen(p, t) = "absent"
        BY <1>9, <3>0, <3>a
      <3>2. ASSUME NEW r \in Referred("sql", t) PROVE Seen(p, r) # "absent"
        <4>1. r \in Tables /\ SqlPlace[r] < SqlPlace[t]
          BY <2>1, ReferredBefore, ObjectFacts DEF Origins, Tables
        <4>2. 2 * SqlPlace[r] < Rank(origin, s)
          BY <2>1, <2>6, <4>1, Ranks, PlacesTyped
        <4> QED
          BY <2>5, <4>1, <4>2
      <3> QED
        BY <2>6, <3>1, <3>2 DEF Succeeds, Statement
    <2>7. ASSUME NEW t \in IndexedTables, s = Statement("index", t) PROVE Succeeds(p, s)
      <3>1. t \in Tables /\ 2 * SqlPlace[t] < Rank(origin, s)
        BY <2>1, <2>7, Ranks, PlacesTyped, ObjectFacts
      <3>2. Seen(p, t) = "sql"
        BY <2>5, <3>1
      <3>3. t = "ingested_rows" => Seen(p, UniqueKey) = "absent"
        <4>1. t = "ingested_rows" => UniqueKey \in Fresh(s)
          BY <2>7, Ranks
        <4> QED
          BY <1>3, <1>9, <4>1 DEF Absent
      <3>4. ~LacksColumn("sql", t)
        BY DEF LacksColumn
      <3> QED
        BY <2>7, <3>2, <3>3, <3>4 DEF Succeeds, Statement
    <2>8. ASSUME s = Statement("trigger", "audit_logs") PROVE Succeeds(p, s)
      <3>1. "audit_logs" \in Tables /\ 2 * SqlPlace["audit_logs"] < Rank(origin, s)
        BY <2>1, <2>8, Ranks, PlacesTyped, ObjectFacts
      <3>2. Seen(p, "audit_logs") = "sql"
        BY <2>5, <3>1
      <3> QED
        BY <2>8, <3>2 DEF Succeeds, Statement
    <2>9. s \in FileStatements
      BY <1>4, <2>2, FileRange DEF Filing
    <2> QED
      BY <2>6, <2>7, <2>8, <2>9 DEF FileStatements, s
  <1> QED
    BY <1>2, <1>4, <1>10, <1>11, <1>12 DEF Advancing

\* What the others have made sure of, a step of p leaves so.
LEMMA OthersMake ==
    ASSUME TypeOK, NEW p \in Procs, NEW q \in Procs \ {p}, command'[q] = command[q],
           todo'[q] = todo[q], change'[q] = change[q], MakesUsers(q),
           Applied => Applied', ~Absent("users") => ~Absent("users")'
    PROVE  MakesUsers(q)'
  <1>1. Todo(q)' = Todo(q) /\ Asking(q)' = Asking(q)
    BY DEF Todo, Asking
  <1> QED
    BY <1>1 DEF MakesUsers

LEMMA RestingMakes ==
    ASSUME NEW p, command'[p] = "none" \/ command'[p] = "create_all" \/ command'[p] = "downgrade"
    PROVE  MakesUsers(p)'
  BY DEF MakesUsers

LEMMA InitOnlyMade == Init => OnlyMade
  <1> SUFFICES ASSUME Init PROVE OnlyMade
    OBVIOUS
  <1>1. "users" \in CommonTables /\ "users" \in Objects /\ Version \in Objects /\ Version \notin CommonTables
        /\ Version \notin {"user_roles", UniqueKey, Trigger}
    BY ObjectFacts DEF Objects
  <1>2. ASSUME NEW origin, NEW sqlRun \in BOOLEAN
        PROVE  /\ Left(origin, sqlRun)["users"] = origin
               /\ Left(origin, sqlRun)[Version] = IF origin = "revision" THEN "stamped" ELSE "absent"
    <2>1. "users" \notin {"user_roles", UniqueKey, Trigger} /\ "users" # Version
      BY ObjectFacts
    <2> QED
      BY <1>1, <2>1 DEF Left
  <1>3. catalog[Version] = IF catalog["users"] = "revision" THEN "stamped" ELSE "absent"
    <2>1. /\ Left("absent", FALSE)["users"] = "absent" /\ Left("absent", FALSE)[Version] = "absent"
          /\ Left("revision", FALSE)["users"] = "revision" /\ Left("revision", FALSE)[Version] = "stamped"
          /\ Left("sql", TRUE)["users"] = "sql" /\ Left("sql", TRUE)[Version] = "absent"
          /\ Left("orm", FALSE)["users"] = "orm" /\ Left("orm", FALSE)[Version] = "absent"
          /\ Left("orm", TRUE)["users"] = "orm" /\ Left("orm", TRUE)[Version] = "absent"
      BY <1>2
    <2> QED
      BY <2>1 DEF Init
  <1> QED
    BY <1>3 DEF Init, OnlyMade, MakesUsers

\* A step that leaves the catalogue alone.
LEMMA StillOnlyMade ==
    ASSUME TypeOK, OnlyMade, catalog' = catalog, tried \subseteq tried',
           NEW p \in Procs,
           \A q \in Procs \ {p} : command'[q] = command[q] /\ todo'[q] = todo[q] /\ change'[q] = change[q],
           NoDowngrade' => MakesUsers(p)'
    PROVE  OnlyMade'
  <1> SUFFICES ASSUME NoDowngrade' PROVE OnlyMade'
    BY DEF OnlyMade, NoDowngrade
  <1>1. NoDowngrade /\ \A q \in Procs : MakesUsers(q)
    BY DEF OnlyMade, NoDowngrade
  <1>2. \A q \in Procs \ {p} : MakesUsers(q)'
    BY <1>1, OthersMake DEF Applied, Absent
  <1>3. catalog'[Version] = IF catalog'["users"] = "revision" THEN "stamped" ELSE "absent"
    BY <1>1 DEF OnlyMade, NoDowngrade
  <1> QED
    BY <1>2, <1>3 DEF OnlyMade

LEMMA IssueMakes ==
    ASSUME IInv, OnlyMade, NEW p \in Procs, NEW kind \in Commands, Issue(p, kind)
    PROVE  OnlyMade'
  <1>1. TypeOK /\ StatementsOK /\ DOMAIN change[p] = {} /\ kind \in Kinds
    BY CommandsAssumption DEF IInv, Running, Resting, Issue
  <1>2. /\ command'[p] = kind /\ todo'[p] = Program(kind) /\ change' = change /\ catalog' = catalog
        /\ tried \subseteq tried'
        /\ \A q \in Procs \ {p} : command'[q] = command[q] /\ todo'[q] = todo[q] /\ change'[q] = change[q]
    BY <1>1 DEF Issue, TypeOK, StatementsOK
  <1>3. MakesUsers(p)'
    <2>1. CASE kind = "upgrade"
      <3>1. Asking(p)'
        BY <1>1, <1>2, <2>1 DEF Asking, Program
      <3> QED
        BY <1>2, <2>1, <3>1 DEF MakesUsers
    <2>2. CASE kind = "sql"
      <3>1. Todo(p)' = FileStatements
        BY <1>2, <2>2, FileRange DEF Todo, Program
      <3>2. Statement("create_if_absent", "users") \in FileStatements
        BY ObjectFacts DEF FileStatements
      <3> QED
        BY <1>2, <2>2, <3>1, <3>2 DEF MakesUsers
    <2> QED
      BY <1>1, <1>2, <2>1, <2>2, RestingMakes DEF Kinds
  <1> QED
    BY <1>1, <1>2, <1>3, StillOnlyMade

LEMMA HeadsMakes ==
    ASSUME IInv, OnlyMade, NEW p \in Procs, Heads(p)
    PROVE  OnlyMade'
  <1> DEFINE steps == CASE command[p] = "upgrade" /\ ~Applied -> upgrade
                        [] command[p] = "downgrade" /\ Applied -> downgrade
                        [] OTHER -> << >>
             one == <<Statement("ensure", Version)>>
             new == IF catalog[Version] = "absent" THEN one \o steps ELSE steps
  <1>1. TypeOK /\ StatementsOK /\ command[p] \in {"upgrade", "downgrade"}
    BY NextStatement DEF IInv, Heads, AtNext
  <1>2. /\ todo' = [todo EXCEPT ![p] = new] /\ UNCHANGED <<catalog, command, change, tried>>
    BY DEF Heads, Skip
  <1>3. todo'[p] = new /\ \A q \in Procs \ {p} : todo'[q] = todo[q]
    BY <1>1, <1>2 DEF StatementsOK
  <1>4. MakesUsers(p)'
    <2>1. CASE command[p] = "downgrade"
      BY <1>2, <2>1, RestingMakes
    <2>2. CASE command[p] = "upgrade" /\ Applied
      BY <1>2, <2>2 DEF MakesUsers, Applied
    <2>3. CASE command[p] = "upgrade" /\ ~Applied
      <3>1. steps = upgrade
        BY <2>3
      <3>2. one \in Seq(Statements)
        BY OneStatement, StatementsOf
      <3> HIDE DEF steps, one
      <3>3. Range(upgrade) \subseteq Range(new)
        BY <3>1, <3>2, UpgradeRange, Concatenation
      <3>4. Statement("create", "users") \in Range(upgrade)
        BY UpgradeRange, ObjectFacts, TableNames
      <3> QED
        BY <1>2, <1>3, <2>3, <3>3, <3>4 DEF MakesUsers, Todo
    <2> QED
      BY <1>1, <2>1, <2>2, <2>3
  <1> QED
    BY <1>1, <1>2, <1>3, <1>4, StillOnlyMade

LEMMA ExecuteMakes ==
    ASSUME IInv, OnlyMade, NEW p \in Procs, Execute(p)
    PROVE  OnlyMade'
  <1> DEFINE s == Head(todo[p])
  <1>1. /\ TypeOK /\ StatementsOK /\ Running(p)
        /\ todo[p] # << >> /\ command[p] # "none" /\ s.op \notin {"heads", "look"}
    BY DEF IInv, Execute, IsDdl
  <1>2. Todo(p) = {s} \cup Range(Tail(todo[p])) /\ Advancing(p) /\ ~Asking(p)
    <2>1. Asking(p) => s = Statement("heads", Version)
      BY DEF Asking
    <2> QED
      BY <1>1, <2>1, NextStatement, StatementsOf
  <1>3. /\ todo'[p] = Tail(todo[p]) /\ UNCHANGED <<catalog, command, tried>>
        /\ DOMAIN change'[p] = DOMAIN change[p] \cup DOMAIN Effect(p, s)
        /\ \A q \in Procs \ {p} : todo'[q] = todo[q] /\ change'[q] = change[q]
    BY <1>1 DEF Execute, StatementsOK, TypeOK, ++
  <1> HIDE DEF s
  <1>4. Todo(p) = {s} \cup Todo(p)' /\ Absent("users")' = Absent("users") /\ Applied' = Applied
    BY <1>2, <1>3 DEF Todo, Absent, Applied
  <1>5. ASSUME NoDowngrade' PROVE MakesUsers(p)'
    <2>1. MakesUsers(p)
      BY <1>3, <1>5 DEF OnlyMade, NoDowngrade
    <2>2. ASSUME command[p] = "upgrade" PROVE MakesUsers(p)'
      <3>1. s = Statement("create", "users") => "users" \in DOMAIN change'[p]
        <4>1. DOMAIN Effect(p, Statement("create", "users")) = {"users"}
          BY CreateDoes
        <4> QED
          BY <1>3, <4>1
      <3> QED
        BY <1>2, <1>3, <1>4, <2>1, <2>2, <3>1 DEF MakesUsers
    <2>3. ASSUME command[p] = "sql" PROVE MakesUsers(p)'
      <3>1. s = Statement("create_if_absent", "users") => "users" \in DOMAIN change'[p] \/ Seen(p, "users") # "absent"
        <4>1. Seen(p, "users") = "absent" =>
                  DOMAIN Effect(p, Statement("create_if_absent", "users")) = {"users"}
          BY MakeDoes
        <4> QED
          BY <1>3, <4>1
      <3>2. Seen(p, "users") # "absent" => "users" \in DOMAIN change[p] \/ ~Absent("users")
        BY DEF Seen, Absent
      <3> QED
        BY <1>3, <1>4, <2>1, <2>3, <3>1, <3>2 DEF MakesUsers
    <2> QED
      BY <1>1, <1>3, <2>2, <2>3 DEF MakesUsers
  <1> QED
    BY <1>1, <1>3, <1>5, StillOnlyMade

\* What a commit leaves, when nobody has downgraded.
LEMMA CommitLeaves ==
    ASSUME IInv, OnlyTried, OnlyMade, NEW p \in Procs, Committed(p), tried' = tried, NoDowngrade
    PROVE  /\ ~torn'
           /\ catalog'[Version] = IF catalog'["users"] = "revision" THEN "stamped" ELSE "absent"
           /\ catalog'["users"] # "absent"
           /\ ~Absent("users") => catalog'["users"] = catalog["users"]
           /\ Applied => Applied'
  <1>1. ~torn' /\ Clean /\ overtaken[p] # Both /\ command[p] # "downgrade"
    <2>1. ~torn /\ Clean /\ command[p] # "downgrade" /\ overtaken[p] \subseteq {"upgrade"}
      BY Undisturbed
    <2>2. overtaken[p] # Both
      BY <2>1 DEF Both
    <2> QED
      BY <2>1, <2>2 DEF Committed
  <1>2. /\ "users" \in Objects /\ Version \in Objects /\ "users" # Version /\ Version \notin CommonTables
        /\ "users" \in CommonTables /\ Version \notin Tables \cup {UniqueKey, Trigger}
    BY ObjectFacts
  <1>3. /\ \A o \in {"users", Version} :
              catalog'[o] = IF o \in DOMAIN change[p] THEN change[p][o] ELSE catalog[o]
        /\ Todo(p) = {} /\ todo[p] = << >>
    BY <1>2, RangeEmpty DEF Committed, Todo
  <1>4. /\ catalog[Version] = IF catalog["users"] = "revision" THEN "stamped" ELSE "absent"
        /\ MakesUsers(p)
    BY DEF OnlyMade, NoDowngrade
  <1>5. CASE Nothing(p)
    <2>1. command[p] = "upgrade" /\ "users" \notin DOMAIN change[p] /\ ~Asking(p)
      BY <1>1, <1>2, <1>3, <1>5 DEF Nothing, Both, Asking
    <2>2. Applied
      BY <1>3, <1>4, <2>1 DEF MakesUsers
    <2>3. Version \notin DOMAIN change[p] /\ catalog["users"] = "revision"
      BY <1>4, <1>5, <2>2 DEF Nothing, Applied
    <2> QED
      BY <1>1, <1>3, <1>4, <2>1, <2>2, <2>3 DEF Applied
  <1>6. CASE WholeUpgrade(p)
    BY <1>1, <1>2, <1>3, <1>6 DEF WholeUpgrade, Absent, Applied
  <1>7. CASE WholeFile(p)
    <2>1. Version \notin DOMAIN change[p] /\ ("users" \in DOMAIN change[p] => change[p]["users"] = "sql" /\ Absent("users"))
      BY <1>2, <1>7, ObjectFacts DEF WholeFile
    <2>2. "users" \in DOMAIN change[p] \/ ~Absent("users")
      BY <1>7 DEF WholeFile
    <2> QED
      BY <1>1, <1>3, <1>4, <2>1, <2>2 DEF Absent, Applied
  <1>8. CASE WholeCreation(p)
    <2>1. Version \notin DOMAIN change[p] /\ ("users" \in DOMAIN change[p] => change[p]["users"] = "orm" /\ Absent("users"))
      BY <1>2, <1>8 DEF WholeCreation, IInv, TypeOK
    <2>2. "users" \in DOMAIN change[p] \/ ~Absent("users")
      <3>1. missing[p] = CommonTables \/ missing[p] = {}
        BY <1>1, <1>8, CreatesAllOrNothing
      <3>2. ASSUME missing[p] = {}, Absent("users") PROVE FALSE
        <4>1. overtaken[p] \subseteq {"upgrade"} /\ Found(p)
          BY <1>8, Undisturbed DEF Untorn, WholeCreation
        <4>2. FindsAll(p)
          BY <3>2, <4>1 DEF Found, Absent
        <4> QED
          BY <1>2, <1>3, <3>2, <4>2 DEF FindsAll
      <3> QED
        BY <1>2, <1>8, <3>1, <3>2 DEF WholeCreation
    <2> QED
      BY <1>1, <1>3, <1>4, <2>1, <2>2 DEF Absent, Applied
  <1> QED
    BY <1>1, <1>5, <1>6, <1>7, <1>8, CommitWhole DEF WholeDowngrade

LEMMA CommitMakes ==
    ASSUME IInv, OnlyTried, OnlyMade, NEW p \in Procs, Commit(p)
    PROVE  OnlyMade'
  <1> SUFFICES ASSUME NoDowngrade' PROVE OnlyMade'
    BY DEF OnlyMade, NoDowngrade
  <1>1. Committed(p) /\ tried' = tried /\ TypeOK
    BY CommitDoes DEF Commit, End, IInv
  <1>2. NoDowngrade /\ \A q \in Procs : MakesUsers(q)
    BY <1>1 DEF OnlyMade, NoDowngrade
  <1>3. /\ catalog'[Version] = IF catalog'["users"] = "revision" THEN "stamped" ELSE "absent"
        /\ ~Absent("users")' /\ (Applied => Applied')
    BY <1>1, <1>2, CommitLeaves DEF Absent
  <1>4. \A q \in Procs \ {p} : MakesUsers(q)'
    BY <1>1, <1>2, <1>3, OthersMake DEF Committed
  <1>5. MakesUsers(p)'
    BY <1>1, RestingMakes DEF Committed
  <1> QED
    BY <1>3, <1>4, <1>5 DEF OnlyMade

LEMMA NextOnlyMade == IInv /\ OnlyTried /\ OnlyMade /\ [Next]_vars => OnlyMade'
  <1> SUFFICES ASSUME IInv, OnlyTried, OnlyMade, [Next]_vars PROVE OnlyMade'
    OBVIOUS
  <1>1. TypeOK /\ StatementsOK
    BY DEF IInv
  <1>2. ASSUME UNCHANGED <<catalog, command, todo, change, tried>> PROVE OnlyMade'
    BY <1>2 DEF OnlyMade, MakesUsers, Applied, Absent, Asking, Todo
  <1>3. ASSUME NEW p \in Procs, RollBack(p) PROVE OnlyMade'
    <2>1. /\ catalog' = catalog /\ tried' = tried /\ command'[p] = "none"
          /\ \A q \in Procs \ {p} : command'[q] = command[q] /\ todo'[q] = todo[q] /\ change'[q] = change[q]
      BY <1>1, <1>3 DEF RollBack, End, TypeOK, StatementsOK
    <2>2. MakesUsers(p)'
      BY <2>1, RestingMakes
    <2> QED
      BY <1>1, <2>1, <2>2, StillOnlyMade
  <1>4. ASSUME NEW p \in Procs, Look(p) PROVE OnlyMade'
    <2>1. /\ catalog' = catalog /\ tried' = tried /\ command' = command /\ change' = change
          /\ \A q \in Procs \ {p} : todo'[q] = todo[q]
      BY <1>1, <1>4 DEF Look, Skip, StatementsOK
    <2>2. command[p] = "create_all"
      BY <1>1, <1>4, NextStatement DEF Look, AtNext, IInv
    <2>3. MakesUsers(p)'
      BY <2>1, <2>2, RestingMakes
    <2> QED
      BY <1>1, <2>1, <2>3, StillOnlyMade
  <1>5. \A p \in Procs : Wait(p) => UNCHANGED <<catalog, command, todo, change, tried>>
    BY DEF Wait
  <1>6. UNCHANGED vars => UNCHANGED <<catalog, command, todo, change, tried>>
    BY DEF vars, ddl
  <1> QED
    BY <1>2, <1>3, <1>4, <1>5, <1>6, IssueMakes, HeadsMakes, ExecuteMakes, CommitMakes
       DEF Next, Step, Fail, DeadlockDetected, Crash

\* What SomeCommandSucceeds takes, together with the invariants before it.
Succeeding == /\ IInv /\ WaitsOK /\ OnlyTried /\ OnlyMade
              /\ \A p \in Procs : InOrder(p)

\* A statement fails only where there are tables.
LEMMA FailsAmongTables ==
    ASSUME Succeeding, NoDowngrade, NEW p \in Procs, Fail(p)
    PROVE  ~Absent("users")
  BY NothingFails DEF Succeeding, Fail

\* Whoever waits for itself by way of the others leaves one of them behind.
LEMMA AnotherIsLeft ==
    ASSUME Succeeding, NEW p \in Procs, Deadlocked(p)
    PROVE  \E q \in Procs \ {p} : command[q] # "none"
  <1>1. PICK S \in SUBSET {q \in Procs : waiting[q]} :
            p \in S /\ \A x \in S : (\E y \in S : Blocks(y, x)) /\ (\E y \in S : Blocks(x, y))
    BY DEF Deadlocked
  <1>2. PICK q \in S : Blocks(q, p)
    BY <1>1
  <1>3. q \in Procs /\ waiting[q] /\ q # p
    BY <1>1, <1>2 DEF Blocks
  <1> QED
    BY <1>3 DEF Succeeding, WaitsOK, IsDdl

LEMMA NextGoesOn == Succeeding /\ SomebodyGoesOn /\ [Next]_vars => SomebodyGoesOn'
  <1> SUFFICES ASSUME Succeeding, SomebodyGoesOn, [Next]_vars, NoDowngrade', crashes' = 0, issued' > 0
               PROVE  ~Absent("users")' \/ Runs' # {}
    BY DEF SomebodyGoesOn, NoDowngrade
  <1>1. IInv /\ TypeOK /\ StatementsOK
    BY DEF Succeeding, IInv
  <1>2. ASSUME catalog' = catalog, UNCHANGED <<issued, tried, crashes>>
        PROVE  NoDowngrade /\ (~Absent("users")' \/ Runs # {})
    BY <1>2 DEF SomebodyGoesOn, NoDowngrade, Absent
  <1>3. ASSUME command' = command, catalog' = catalog, UNCHANGED <<issued, tried, crashes>>
        PROVE  ~Absent("users")' \/ Runs' # {}
    BY <1>2, <1>3 DEF Runs
  <1>4. ASSUME NEW p \in Procs, NEW kind \in Commands, Issue(p, kind) PROVE Runs' # {}
    <2>1. command'[p] = kind /\ kind # "none"
      BY <1>1, <1>4, CommandsAssumption DEF Issue, TypeOK, Kinds
    <2> QED
      BY <2>1 DEF Runs
  <1>5. ASSUME NEW p \in Procs, Crash(p) PROVE FALSE
    <2>1. crashes' = crashes + 1 /\ crashes \in Nat
      BY <1>1, <1>5, BoundsAssumption DEF Crash, TypeOK
    <2> QED
      BY <2>1
  <1>6. ASSUME NEW p \in Procs, Commit(p) PROVE ~Absent("users")'
    <2>1. Committed(p) /\ tried' = tried
      BY <1>1, <1>6, CommitDoes DEF Commit, End
    <2>2. NoDowngrade
      BY <2>1 DEF NoDowngrade
    <2> QED
      BY <2>1, <2>2, CommitLeaves DEF Succeeding, Absent
  <1>7. ASSUME NEW p \in Procs, Fail(p) PROVE ~Absent("users")'
    <2>1. catalog' = catalog /\ tried' = tried
      BY <1>7 DEF Fail, RollBack, End
    <2>2. ~Absent("users")
      BY <1>7, <2>1, FailsAmongTables DEF NoDowngrade
    <2> QED
      BY <2>1, <2>2 DEF Absent
  <1>8. ASSUME NEW p \in Procs, DeadlockDetected(p) PROVE Runs' # {}
    <2>1. Deadlocked(p) /\ \A q \in Procs \ {p} : command'[q] = command[q]
      BY <1>1, <1>8 DEF DeadlockDetected, RollBack, End, TypeOK
    <2>2. PICK q \in Procs \ {p} : command[q] # "none"
      BY <2>1, AnotherIsLeft
    <2> QED
      BY <2>1, <2>2 DEF Runs
  <1>9. UNCHANGED vars => command' = command /\ catalog' = catalog /\ UNCHANGED <<issued, tried, crashes>>
    BY DEF vars
  <1>10. \A p \in Procs : Heads(p) \/ Look(p) \/ Wait(p) \/ Execute(p) =>
             command' = command /\ catalog' = catalog /\ UNCHANGED <<issued, tried, crashes>>
    BY DEF Heads, Look, Skip, Wait, Execute
  <1> QED
    BY <1>3, <1>4, <1>5, <1>6, <1>7, <1>8, <1>9, <1>10 DEF Next, Step

LEMMA StartsSucceeding == Init => Succeeding /\ SomebodyGoesOn
  <1>1. Init => SomebodyGoesOn
    BY DEF Init, SomebodyGoesOn
  <1> QED
    BY <1>1, InitInv, InitWaitsOK, InitOnlyTried, InitOnlyMade, InitInOrder DEF Succeeding

LEMMA StaysSucceeding == Succeeding /\ [Next]_vars => Succeeding'
  <1> SUFFICES ASSUME Succeeding, [Next]_vars PROVE Succeeding'
    OBVIOUS
  <1>1. IInv /\ TypeOK /\ StatementsOK /\ WaitsOK /\ OnlyTried /\ OnlyMade /\ \A p \in Procs : InOrder(p)
    BY DEF Succeeding, IInv
  <1>2. IInv' /\ WaitsOK' /\ OnlyTried' /\ OnlyMade'
    BY <1>1, NextInv, NextWaitsOK, NextOnlyTried, NextOnlyMade
  <1>3. \A p \in Procs : InOrder(p)'
    BY <1>1, NextInOrder
  <1> QED
    BY <1>2, <1>3 DEF Succeeding

\* 001_initial.sql, 001_initial.py:37-458, env.py:46-51 and database.py:73-78.
\* Of any number of commands that meet, and fail against each other, one makes
\* the tables, as long as nobody downgrades or dies: when all have ended every
\* table is there.
THEOREM OneSucceeds == Spec => []SomeCommandSucceeds
  <1>1. Succeeding /\ SomebodyGoesOn => SomeCommandSucceeds
    <2> SUFFICES ASSUME Succeeding, SomebodyGoesOn, issued > 0, \A p \in Procs : command[p] = "none",
                        NoDowngrade, crashes = 0
                 PROVE  \A t \in CommonTables : catalog[t] # "absent"
      BY DEF SomeCommandSucceeds, NoDowngrade
    <2>1. Clean
      BY Undisturbed DEF Succeeding
    <2>2. ~Absent("users")
      BY DEF SomebodyGoesOn, NoDowngrade, Runs
    <2> QED
      BY <2>1, <2>2 DEF Clean, Absent
  <1> QED
    BY <1>1, StartsSucceeding, StaysSucceeding, NextGoesOn, PTL DEF Spec

\* 001_initial.sql, 001_initial.py:37-458 and database.py:73-78.  As long as there
\* are no tables and nobody has downgraded, no statement fails, however many
\* commands overlap: each program makes a table after those it refers to, and its
\* indexes after that.
THEOREM NoStatementFailsAtFirst ==
    Spec => []("downgrade" \notin tried /\ catalog["users"] = "absent" =>
                  \A p \in Procs : IsDdl(p) => Succeeds(p, Head(todo[p])))
  <1>1. Succeeding => ("downgrade" \notin tried /\ catalog["users"] = "absent" =>
                          \A p \in Procs : IsDdl(p) => Succeeds(p, Head(todo[p])))
    BY NothingFails DEF Succeeding, NoDowngrade, Absent
  <1> QED
    BY <1>1, StartsSucceeding, StaysSucceeding, PTL DEF Spec
===============================================================================
