------------------------------ MODULE Migrations ------------------------------
(***************************************************************************)
(* The commands that create or drop the tables, meeting one database in    *)
(* any order and at the same time:                                         *)
(*   "sql"         db/migrations/001_initial.sql                           *)
(*   "upgrade"     alembic upgrade head                                    *)
(*   "downgrade"   alembic downgrade base                                  *)
(*   "create_all"  init_db of database.py, on behalf of seed_dev.py        *)
(* Each is one transaction of DDL statements, which take locks, wait for   *)
(* each other, fail, and are rolled back together.  Alembic keeps in       *)
(* alembic_version whether its revision is applied, and believes it.       *)
(***************************************************************************)
EXTENDS Integers, Sequences, Schema

CONSTANTS Procs,       \* processes that issue commands
          Commands,    \* the commands they issue
          MaxCommands, \* bound on the commands of a behaviour
          MaxCrashes   \* bound on the commands that die

Kinds == {"sql", "upgrade", "downgrade", "create_all"}
ASSUME CommandsAssumption == Commands \subseteq Kinds
ASSUME BoundsAssumption == MaxCommands \in Nat /\ MaxCrashes \in Nat

\* What the names of the catalogue can stand for.
Origins == {"sql", "revision", "orm"}
TablesOf(origin) == CASE origin = "sql" -> SqlSchema
                      [] origin = "revision" -> AlembicSchema
                      [] origin = "orm" -> OrmSchema
CommonTables == DOMAIN OrmSchema
Tables == DOMAIN SqlSchema
UniqueKey == "uq_ingested_rows_source_hash"
Trigger == "audit_logs_no_update"
Version == "alembic_version"
Objects == Tables \cup {UniqueKey, Trigger, Version}

VARIABLES catalog, \* object -> what it is, as committed: "absent", or its origin;
                   \* the version table is "empty" or "stamped"
          command, \* process -> the command it runs, or "none"
          todo,    \* process -> its statements still to come
          missing, \* process -> tables create_all has found missing
          change,  \* process -> objects changed by its transaction
          held,    \* process -> locks of its transaction
          waiting, \* process -> its next statement has begun to wait
          issued,  \* number of commands issued so far
          tried,   \* the kinds of them
          crashes,
          overtaken, \* process -> the Alembic commands that made or dropped the
                     \* tables during its create_all
          torn     \* a create_all was overtaken by an upgrade and by a downgrade
history == <<overtaken, torn>>
ddl == <<todo, missing, change, held, waiting>>
vars == <<catalog, command, ddl, issued, tried, crashes, history>>

-------------------------------------------------------------------------------
(* The commands as sequences of statements.                                *)
Statement(op, on) == [op |-> op, on |-> on]
Each(op, names) == [i \in DOMAIN names |-> Statement(op, names[i])]

Made(t) == <<Statement("create_if_absent", t)>>
Indexed(t) == Made(t) \o <<Statement("index", t)>>
SqlOthers ==
    Made("permissions") \o Made("roles") \o Made("role_permissions") \o Made("user_roles")
    \o Indexed("sso_sessions") \o Made("templates") \o Indexed("template_versions")
    \o Indexed("ingested_rows") \o Indexed("suggestions") \o Indexed("audit_logs")
    \o <<Statement("trigger", "audit_logs")>>
SqlFile == Indexed("users") \o SqlOthers

\* Mutation: role_permissions before the permissions it refers to.
RevisionOrderUnsorted ==
    <<"users", "roles", "role_permissions", "permissions", "templates",
      "template_versions", "ingested_rows", "suggestions", "audit_logs", "sso_sessions">>

RevisionOrder == <<"users", "roles", "permissions", "role_permissions", "templates",
                   "template_versions", "ingested_rows", "suggestions", "audit_logs", "sso_sessions">>
upgrade == Each("create", RevisionOrder) \o <<Statement("stamp", Version)>>

downgrade ==
    <<Statement("revoke", "audit_logs")>> \o
    Each("drop", <<"sso_sessions", "audit_logs", "suggestions", "ingested_rows", "template_versions",
                   "templates", "role_permissions", "permissions", "roles", "users">>)
    \o <<Statement("unstamp", Version)>>

\* Mutation: the models declare user_roles, as a comment in user.py says they do.
DeclaredWithUserRoles ==
    <<"users", "permissions", "roles", "role_permissions", "ingested_rows", "templates",
      "template_versions", "suggestions", "audit_logs", "sso_sessions", "user_roles">>

\* Tables are looked up in the order of their declaration, which is that of the
\* imports in app/models, and created after the tables they refer to.
Declared == <<"users", "permissions", "roles", "role_permissions", "ingested_rows", "templates",
              "template_versions", "suggestions", "audit_logs", "sso_sessions">>
Creations(found) ==
    LET Create(t) == IF t \in found THEN <<Statement("create", t)>> ELSE << >>
    IN  Create("users") \o Create("permissions") \o Create("roles") \o Create("templates")
        \o Create("role_permissions") \o Create("ingested_rows") \o Create("template_versions")
        \o Create("audit_logs") \o Create("sso_sessions") \o Create("suggestions")

Program(kind) ==
    CASE kind = "sql" -> SqlFile
      [] kind = "create_all" -> Each("look", Declared)
      [] OTHER -> <<Statement("heads", Version)>>

-------------------------------------------------------------------------------
(* PostgreSQL: what a transaction sees, and what it waits for.             *)
Seen(p, o) == IF o \in DOMAIN change[p] THEN change[p][o] ELSE catalog[o]
Referred(origin, t) == {TablesOf(origin)[t].fk[c].to : c \in DOMAIN TablesOf(origin)[t].fk} \ {t}
OriginOf(p) == CASE command[p] = "sql" -> "sql"
                 [] command[p] = "create_all" -> "orm"
                 [] OTHER -> "revision"

Exclusive(names) == {<<o, "exclusive">> : o \in names}
LocksOf(p, s) ==
    CASE s.op = "create" -> Exclusive({s.on} \cup Referred(OriginOf(p), s.on))
      [] s.op = "create_if_absent" ->
            IF Seen(p, s.on) = "absent" THEN Exclusive({s.on} \cup Referred("sql", s.on)) ELSE {}
      [] s.op = "index" -> {<<s.on, "share">>} \cup
            Exclusive({k \in {UniqueKey} : s.on = "ingested_rows" /\ Seen(p, k) = "absent"})
      [] s.op \in {"trigger", "revoke", "stamp", "unstamp", "ensure"} -> Exclusive({s.on})
      [] s.op = "drop" -> Exclusive({s.on} \cup
            IF Seen(p, s.on) = "absent" THEN {} ELSE Referred(Seen(p, s.on), s.on))
      [] OTHER -> {}
Conflict(l, m) == l[1] = m[1] /\ "exclusive" \in {l[2], m[2]}
Blocks(q, p) == /\ q # p /\ todo[p] # << >>
                /\ \E l \in LocksOf(p, Head(todo[p])), m \in held[q] : Conflict(l, m)
Blocked(p) == \E q \in Procs : Blocks(q, p)

\* p waits on a cycle; the server aborts some member of it.
Deadlocked(p) ==
    \E S \in SUBSET {q \in Procs : waiting[q]} :
        p \in S /\ \A x \in S : (\E y \in S : Blocks(y, x)) /\ (\E y \in S : Blocks(x, y))

\* An index of the file on a column that the revision's table does not have:
\* suggestions (state), audit_logs (actor_id).
LacksColumn(origin, t) == origin = "revision" /\ t \in {"suggestions", "audit_logs"}

\* Mutation: the version is deleted without a look at the number of rows.
VersionDeletedUncounted(p) == TRUE

\* Alembic expects its DELETE to match one row.
VersionDeleted(p) == Seen(p, Version) = "stamped"

\* A statement succeeds when what it names is there, or is not there, once it
\* has its locks.  A CREATE that has waited does not look again whether the
\* table exists.
Succeeds(p, s) ==
    CASE s.op = "create" -> /\ Seen(p, s.on) = "absent"
                            /\ \A r \in Referred(OriginOf(p), s.on) : Seen(p, r) # "absent"
      [] s.op = "create_if_absent" ->
            IF Seen(p, s.on) = "absent"
            THEN \A r \in Referred("sql", s.on) : Seen(p, r) # "absent" ELSE ~waiting[p]
      [] s.op = "index" -> /\ Seen(p, s.on) # "absent" /\ ~LacksColumn(Seen(p, s.on), s.on)
                           /\ (waiting[p] /\ s.on = "ingested_rows") => Seen(p, UniqueKey) = "absent"
      [] s.op \in {"trigger", "revoke"} -> Seen(p, s.on) # "absent"
      [] s.op = "drop" -> /\ Seen(p, s.on) # "absent"
                          /\ \A t \in Tables : Seen(p, t) # "absent" => s.on \notin Referred(Seen(p, t), t)
      [] s.op = "ensure" -> Seen(p, Version) = "absent"
      [] s.op = "unstamp" -> VersionDeleted(p)
      [] OTHER -> TRUE

Attached(t) == {o \in {UniqueKey, Trigger} :
                   t = (IF o = Trigger THEN "audit_logs" ELSE "ingested_rows")}
Effect(p, s) ==
    CASE s.op = "create" -> [o \in {s.on} |-> OriginOf(p)]
      [] s.op = "create_if_absent" -> [o \in {t \in {s.on} : Seen(p, t) = "absent"} |-> "sql"]
      [] s.op = "index" -> [o \in {k \in {UniqueKey} : s.on = "ingested_rows"} |-> "sql"]
      [] s.op = "trigger" -> [o \in {Trigger} |-> "sql"]
      [] s.op = "drop" -> [o \in {s.on} \cup Attached(s.on) |-> "absent"]
      [] s.op \in {"ensure", "unstamp"} -> [o \in {Version} |-> "empty"]
      [] s.op = "stamp" -> [o \in {Version} |-> "stamped"]
      [] OTHER -> [o \in {} |-> ""]

-------------------------------------------------------------------------------
\* A database some commands have left, one after the other: empty, of the
\* revision, of the file, of the models, or of the models and then of the file.
Left(origin, sqlRun) ==
    [o \in Objects |->
        CASE o \in CommonTables -> origin
          [] o \in {"user_roles", UniqueKey, Trigger} -> IF sqlRun THEN "sql" ELSE "absent"
          [] o = Version -> IF origin = "revision" THEN "stamped" ELSE "absent"]

Init == /\ catalog \in {Left("absent", FALSE), Left("revision", FALSE), Left("sql", TRUE),
                         Left("orm", FALSE), Left("orm", TRUE)}
        /\ command = [p \in Procs |-> "none"]
        /\ todo = [p \in Procs |-> << >>] /\ missing = [p \in Procs |-> {}]
        /\ change = [p \in Procs |-> [o \in {} |-> ""]] /\ held = [p \in Procs |-> {}]
        /\ waiting = [p \in Procs |-> FALSE]
        /\ issued = 0 /\ tried = {} /\ crashes = 0
        /\ overtaken = [p \in Procs |-> {}] /\ torn = FALSE

Issue(p, kind) ==
    /\ command[p] = "none" /\ issued < MaxCommands
    /\ command' = [command EXCEPT ![p] = kind]
    /\ todo' = [todo EXCEPT ![p] = Program(kind)]
    /\ issued' = issued + 1 /\ tried' = tried \cup {kind}
    /\ UNCHANGED <<catalog, missing, change, held, waiting, crashes, history>>

AtNext(p, op) == command[p] # "none" /\ todo[p] # << >> /\ Head(todo[p]).op = op
Skip == UNCHANGED <<catalog, command, change, held, waiting, issued, tried, crashes, history>>

Applied == catalog[Version] = "stamped"

\* Alembic reads alembic_version, makes the table if it finds no version, and
\* derives the steps to run from what it has read.
Heads(p) ==
    /\ AtNext(p, "heads")
    /\ LET steps == CASE command[p] = "upgrade" /\ ~Applied -> upgrade
                      [] command[p] = "downgrade" /\ Applied -> downgrade
                      [] OTHER -> << >>
       IN  todo' = [todo EXCEPT ![p] =
                       IF catalog[Version] = "absent" THEN <<Statement("ensure", Version)>> \o steps
                       ELSE steps]
    /\ UNCHANGED missing /\ Skip

\* create_all looks for one table after the other, and creates those it did
\* not find.
Look(p) ==
    /\ AtNext(p, "look")
    /\ LET t == Head(todo[p]).on
           found == missing[p] \cup {u \in {t} : Seen(p, u) = "absent"}
       IN  /\ missing' = [missing EXCEPT ![p] = found]
           /\ todo' = [todo EXCEPT ![p] =
                  IF Len(todo[p]) > 1 THEN Tail(todo[p])
                  ELSE Creations(found)]
    /\ Skip

IsDdl(p) == /\ command[p] # "none" /\ todo[p] # << >>
            /\ Head(todo[p]).op \notin {"heads", "look"}

Wait(p) == /\ IsDdl(p) /\ Blocked(p) /\ ~waiting[p]
           /\ waiting' = [waiting EXCEPT ![p] = TRUE]
           /\ UNCHANGED <<catalog, command, todo, missing, change, held, issued, tried, crashes, history>>

Execute(p) ==
    /\ IsDdl(p) /\ ~Blocked(p) /\ Succeeds(p, Head(todo[p]))
    /\ change' = [change EXCEPT ![p] = @ ++ Effect(p, Head(todo[p]))]
    /\ held' = [held EXCEPT ![p] = @ \cup LocksOf(p, Head(todo[p]))]
    /\ todo' = [todo EXCEPT ![p] = Tail(@)]
    /\ waiting' = [waiting EXCEPT ![p] = FALSE]
    /\ UNCHANGED <<catalog, command, missing, issued, tried, crashes, history>>

End(p) == /\ command' = [command EXCEPT ![p] = "none"]
          /\ todo' = [todo EXCEPT ![p] = << >>] /\ missing' = [missing EXCEPT ![p] = {}]
          /\ change' = [change EXCEPT ![p] = [o \in {} |-> ""]]
          /\ held' = [held EXCEPT ![p] = {}]
          /\ waiting' = [waiting EXCEPT ![p] = FALSE]
          /\ UNCHANGED <<issued, tried>>

Commit(p) == /\ command[p] # "none" /\ todo[p] = << >>
             /\ catalog' = catalog ++ change[p]
             /\ overtaken' = [q \in Procs |->
                    IF q = p \/ command[q] # "create_all" THEN {}
                    ELSE overtaken[q] \cup {c \in {"upgrade", "downgrade"} :
                                               c = command[p] /\ "users" \in DOMAIN change[p]}]
             /\ torn' = (torn \/ overtaken[p] = {"upgrade", "downgrade"})
             /\ End(p) /\ UNCHANGED crashes

RollBack(p) == /\ End(p) /\ overtaken' = [overtaken EXCEPT ![p] = {}]
               /\ UNCHANGED <<catalog, torn>>

\* Mutation: the statements are not one transaction.
FailKeepsWork(p) ==
    /\ IsDdl(p) /\ ~Blocked(p) /\ ~Succeeds(p, Head(todo[p]))
    /\ catalog' = catalog ++ change[p]
    /\ overtaken' = [overtaken EXCEPT ![p] = {}] /\ torn' = torn
    /\ End(p) /\ UNCHANGED crashes

\* A statement fails, and with it the transaction.
Fail(p) == /\ IsDdl(p) /\ ~Blocked(p) /\ ~Succeeds(p, Head(todo[p]))
           /\ RollBack(p) /\ UNCHANGED crashes

DeadlockDetected(p) == Deadlocked(p) /\ RollBack(p) /\ UNCHANGED crashes

Crash(p) == /\ command[p] # "none" /\ crashes < MaxCrashes
            /\ crashes' = crashes + 1
            /\ RollBack(p)

Step(p) == Heads(p) \/ Look(p) \/ Wait(p) \/ Execute(p) \/ Commit(p) \/ Fail(p) \/ DeadlockDetected(p)
Next == \E p \in Procs : Step(p) \/ Crash(p) \/ \E kind \in Commands : Issue(p, kind)
Spec == Init /\ [][Next]_vars

-------------------------------------------------------------------------------
Possible(o) == IF o \in Tables THEN Origins \cup {"absent"}
               ELSE IF o = Version THEN {"absent", "empty", "stamped"} ELSE {"absent", "sql"}
TypeOK == /\ DOMAIN catalog = Objects /\ \A o \in Objects : catalog[o] \in Possible(o)
          /\ command \in [Procs -> Kinds \cup {"none"}]
          /\ missing \in [Procs -> SUBSET CommonTables]
          /\ DOMAIN change = Procs
          /\ \A p \in Procs : /\ DOMAIN change[p] \subseteq Objects
                               /\ \A o \in DOMAIN change[p] : change[p][o] \in Possible(o)
          /\ held \in [Procs -> SUBSET (Objects \X {"share", "exclusive"})]
          /\ waiting \in [Procs -> BOOLEAN]
          /\ issued \in 0..MaxCommands /\ tried \subseteq Kinds /\ crashes \in 0..MaxCrashes
          /\ overtaken \in [Procs -> SUBSET {"upgrade", "downgrade"}] /\ torn \in BOOLEAN

\* The database as the abstract specification sees it: the tables that all three
\* definitions share have one origin, or none are there, or it is a mixture.
Origin == LET found == {catalog[t] : t \in CommonTables}
          IN  IF found = {"absent"} THEN "none"
              ELSE IF \E origin \in Origins : found = {origin} THEN catalog["users"] ELSE "mixed"
Atomic == INSTANCE AtomicMigrations WITH
    origin <- Origin, guarded <- catalog[Trigger] # "absent", stamped <- Applied

\* 001_initial.sql, 001_initial.py:37-471, env.py:46-51 and database.py:73-78.
\* However they overlap, the commands act as if each happened at once, from a
\* database of one origin to a database of one origin, with no part of the tables
\* made or dropped, although create_all asks for one table after the other; the
\* tables of the SQL file and of the models are never dropped; the stamp is true.
\* The exception is torn: a create_all may commit anything, and everything may
\* follow it, when an upgrade and a downgrade were both committed while it looked.
ActsAtomically == Atomic!Init /\ [][torn' \/ Atomic!Next]_<<Origin, catalog[Trigger], Applied>>

\* 001_initial.sql:92-138 and 001_initial.py:460-471.  The stamp of Alembic, the
\* form of all tables, and the two guards of the SQL file agree with each other,
\* except after torn: a create_all that was overtaken by an upgrade and by a
\* downgrade.
CatalogAgrees ==
    ~torn =>
    /\ Applied <=> \E t \in Tables : catalog[t] = "revision"
    /\ catalog[Trigger] = catalog[UniqueKey]
    /\ catalog["user_roles"] = "absent" <=> catalog[Trigger] = "absent"

\* As long as nobody downgrades or dies, some of the commands that fail against
\* each other succeeds: when all have ended the tables are there.
SomeCommandSucceeds ==
    (/\ issued > 0 /\ \A p \in Procs : command[p] = "none"
     /\ "downgrade" \notin tried /\ crashes = 0)
    => \A t \in CommonTables : catalog[t] # "absent"
===============================================================================
