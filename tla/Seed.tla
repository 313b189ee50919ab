--------------------------------- MODULE Seed ---------------------------------
(***************************************************************************)
(* src/scripts/seed_dev.py: seed(), run by any number of processes at the  *)
(* same time, more than once.  A run creates the tables (init_db), then in *)
(* one session selects each seed row in turn and adds it if it is absent;  *)
(* permissions and roles are flushed at once, grants and users with the    *)
(* next flush, and one commit ends the run.  There is no exception handler *)
(* in seed(): an IntegrityError leaves the session, which rolls back, and  *)
(* ends the process.  That the script can be loaded at all takes a process *)
(* that imported app.models first (module Imports).                        *)
(***************************************************************************)
EXTENDS UnitOfWork, SequencesExt, FiniteSets

CONSTANTS Program,  \* the seed rows, in the order seed() looks at them
          Flushed,  \* the rows whose session.add is followed by a flush
          Initial,  \* the committed contents a database may start with
          MaxRuns, MaxCrashes   \* bounds on the runs and crashes of a behaviour

ASSUME ProgramAssumption == Program \in Seq(Keys) /\ IsInjective(Program)
ASSUME InitialAssumption == Initial \subseteq SUBSET Keys
ASSUME UniqueAssumption == Unique = TRUE

VARIABLES tables,  \* the tables exist
          app_env, \* process -> settings.app_env
          pc, at,  \* process -> where its run is, index of the row it looks at
          added,   \* process -> session.new: added but not flushed
          runs, crashes
vars == <<uow, tables, app_env, pc, at, added, runs, crashes>>

Full == Range(Program)
is_development(p) == app_env[p] = "development"
Goto(p, label) == pc' = [pc EXCEPT ![p] = label]

Init == /\ \E rows \in Initial : committed = [k \in Keys |-> IF k \in rows THEN 1 ELSE 0]
        /\ tables \in BOOLEAN /\ (Stored # {} => tables)
        /\ app_env \in [Procs -> {"development", "production"}]
        /\ inserted = [p \in Procs |-> {}] /\ queue = [p \in Procs |-> << >>]
        /\ pc = [p \in Procs |-> "start"] /\ at = [p \in Procs |-> 1]
        /\ added = [p \in Procs |-> << >>] /\ runs = 1 /\ crashes = 0

\* Refusing to seed - not in development mode.
Refuse(p) == /\ pc[p] = "start" /\ ~is_development(p)
             /\ Goto(p, "refused")
             /\ UNCHANGED <<uow, tables, app_env, at, added, runs, crashes>>

\* init_db: create_all asks which tables exist before it creates any.
CheckTables(p) == /\ pc[p] = "start" /\ is_development(p)
                  /\ Goto(p, IF tables THEN "looking" ELSE "creating")
                  /\ UNCHANGED <<uow, tables, app_env, at, added, runs, crashes>>

\* CREATE TABLE fails if somebody created the tables after the question.
CreateTables(p) == /\ pc[p] = "creating"
                   /\ Goto(p, IF tables THEN "failed" ELSE "looking")
                   /\ tables' = TRUE
                   /\ UNCHANGED <<uow, app_env, at, added, runs, crashes>>

Look(p) == /\ pc[p] = "looking" /\ at[p] <= Len(Program)
           /\ at' = [at EXCEPT ![p] = @ + 1]
           /\ UNCHANGED <<committed, inserted, tables, app_env, runs, crashes>>

\* scalar_one_or_none returned the row: left in place.
Present(p) == /\ Look(p) /\ Program[at[p]] \in Visible(p)
              /\ UNCHANGED <<queue, pc, added>>

\* Mutation: a grant or a user is added without asking for it.
AddUnasked(p) == /\ Look(p) /\ Program[at[p]] \notin Flushed
                 /\ added' = [added EXCEPT ![p] = Append(@, Program[at[p]])]
                 /\ UNCHANGED <<queue, pc>>

\* A grant or a user: session.add only.
Add(p) == /\ Look(p) /\ Program[at[p]] \notin Visible(p) \cup Flushed
          /\ added' = [added EXCEPT ![p] = Append(@, Program[at[p]])]
          /\ UNCHANGED <<queue, pc>>

\* A permission or a role: session.add and session.flush.  The unit of work
\* sends it before the grants that were added earlier (mapper order).
AddAndFlush(p) == /\ Look(p) /\ Program[at[p]] \in Flushed \ Visible(p)
                  /\ Enqueue(p, <<Program[at[p]]>> \o added[p])
                  /\ added' = [added EXCEPT ![p] = << >>]
                  /\ Goto(p, "flushing")

InsertRow(p) == /\ pc[p] \in {"flushing", "committing"} /\ Insert(p)
                /\ UNCHANGED <<tables, app_env, pc, at, added, runs, crashes>>

\* Mutation: commit where the code flushes.
FlushDoneCommits(p) == /\ pc[p] = "flushing" /\ Commit(p)
                       /\ Goto(p, "looking")
                       /\ UNCHANGED <<tables, app_env, at, added, runs, crashes>>

FlushDone(p) == /\ pc[p] = "flushing" /\ queue[p] = << >>
               /\ Goto(p, "looking")
               /\ UNCHANGED <<uow, tables, app_env, at, added, runs, crashes>>

\* Mutation: the rows of session.new are sent in no particular order.
StartCommitUnordered(p) ==
    /\ pc[p] = "looking" /\ at[p] > Len(Program)
    /\ Enqueue(p, added[p]) \/ Enqueue(p, Reverse(added[p]))
    /\ added' = [added EXCEPT ![p] = << >>]
    /\ Goto(p, "committing")
    /\ UNCHANGED <<committed, inserted, tables, app_env, at, runs, crashes>>

\* session.commit() flushes what is left, then commits.
StartCommit(p) == /\ pc[p] = "looking" /\ at[p] > Len(Program)
                  /\ Enqueue(p, added[p])
                  /\ added' = [added EXCEPT ![p] = << >>]
                  /\ Goto(p, "committing")
                  /\ UNCHANGED <<committed, inserted, tables, app_env, at, runs, crashes>>

\* Mutation: the session is left without a commit.
CompleteUncommitted(p) == /\ pc[p] = "committing" /\ queue[p] = << >> /\ Rollback(p)
                          /\ Goto(p, "done")
                          /\ UNCHANGED <<tables, app_env, at, added, runs, crashes>>

Complete(p) == /\ pc[p] = "committing" /\ Commit(p)
               /\ Goto(p, "done")
               /\ UNCHANGED <<tables, app_env, at, added, runs, crashes>>

\* The exception propagates out of "async with": rollback, the process ends.
Abort(p) == /\ Rollback(p) /\ Goto(p, "failed")
            /\ added' = [added EXCEPT ![p] = << >>]
            /\ UNCHANGED <<tables, app_env, at, runs>>

\* Mutation: an error in the last flush does not end the run.
IntegrityErrorInFlush(p) == /\ pc[p] = "flushing" /\ Duplicate(p)
                            /\ Abort(p) /\ UNCHANGED crashes

IntegrityError(p) == /\ pc[p] \in {"flushing", "committing"} /\ Duplicate(p)
                     /\ Abort(p) /\ UNCHANGED crashes

Crash(p) == /\ pc[p] \in {"creating", "looking", "flushing", "committing"}
            /\ crashes < MaxCrashes /\ crashes' = crashes + 1
            /\ Abort(p)

\* Somebody starts the script again.
Rerun(p) == /\ pc[p] \in {"done", "failed", "refused"} /\ runs < MaxRuns
            /\ runs' = runs + 1
            /\ Goto(p, "start") /\ at' = [at EXCEPT ![p] = 1]
            /\ UNCHANGED <<uow, tables, app_env, added, crashes>>

Run(p) == \/ Refuse(p) \/ CheckTables(p) \/ CreateTables(p)
          \/ Present(p) \/ Add(p) \/ AddAndFlush(p) \/ InsertRow(p) \/ FlushDone(p)
          \/ StartCommit(p) \/ Complete(p) \/ IntegrityError(p)
Next == \E p \in Procs : Run(p) \/ Crash(p) \/ Rerun(p)

\* A running process goes on; nobody has to start it again.
Spec == Init /\ [][Next]_vars
FairSpec == Spec /\ \A p \in Procs : WF_vars(Run(p))

-------------------------------------------------------------------------------
TypeOK == /\ UowTypeOK
          /\ tables \in BOOLEAN /\ app_env \in [Procs -> {"development", "production"}]
          /\ pc \in [Procs -> {"start", "refused", "creating", "looking", "flushing",
                              "committing", "done", "failed"}]
          /\ at \in [Procs -> 1..(Len(Program) + 1)]
          /\ added \in [Procs -> Seq(Keys)]
          /\ runs \in Nat /\ crashes \in Nat

\* seed_dev.py:7 and 48-110.  Whatever the database held and however runs
\* overlap, fail and die, the committed contents go from what they were to that
\* plus every seed row in one step, and only if a process is in development mode.
Atomic == INSTANCE AtomicSeed WITH stored <- Stored,
                                   development <- \E p \in Procs : is_development(p)
SeedsAtomically == Atomic!Spec

\* models/role.py:35,50,68-77 and models/user.py:41.  Concurrent runs never
\* commit a seed row twice, so scalar_one_or_none never meets two.
OneRowPerKey == \A k \in Keys : committed[k] <= 1

\* seed_dev.py:57-110.  Whatever part of the seed the database held, all runs
\* that wait for an insert of another run wait for the same run, so no two ever
\* wait for each other: the first row a run inserts is the same in every run.
AllWaitForOne ==
    \A p, q, x, y \in Procs : Waits(p, q) /\ Waits(x, y) => q = y

\* seed_dev.py:57-110.  Every run comes to an end, also those that wait for another
\* run's inserts: no deadlock is resolved here, so runs that waited for each other
\* would wait for ever.  All insert in an order in which that does not happen.
EveryRunEnds == <>[](\A p \in Procs : pc[p] \in {"done", "failed", "refused"})

\* seed_dev.py:7, "safe to re-run": where the seed is complete a run completes.
RerunSucceeds ==
    \A p \in Procs : (/\ pc[p] = "start" /\ Full \subseteq Stored
                      /\ is_development(p) /\ crashes = MaxCrashes) ~> (pc[p] = "done")

\* Overlapping first runs may fail on each other, in the CREATE TABLEs and in
\* the INSERTs, but not all of them: unless one dies, the seed is there in the end.
SomeRunSucceeds ==
    (\E p \in Procs : is_development(p)) ~> (Full \subseteq Stored \/ crashes > 0)
===============================================================================
