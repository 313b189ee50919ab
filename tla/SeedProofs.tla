------------------------------ MODULE SeedProofs ------------------------------
(***************************************************************************)
(* seed() of scripts/seed_dev.py for every seed program, every initial     *)
(* database, any number of processes, runs and crashes: it is type         *)
(* correct, never stores a seed row twice, and implements AtomicSeed.      *)
(***************************************************************************)
EXTENDS Seed, TLAPS

(* The sequences of a session, and what the steps of a unit of work keep.  *)
LEMMA RangeEmpty == Range(<< >>) = {}
  BY DEF Range

LEMMA RangeAppend ==
    ASSUME NEW S, NEW s \in Seq(S), NEW x \in S
    PROVE  Append(s, x) \in Seq(S) /\ Range(Append(s, x)) = Range(s) \cup {x}
  <1>1. /\ DOMAIN Append(s, x) = 1..(Len(s) + 1) /\ DOMAIN s = 1..Len(s) /\ Len(s) \in Nat
        /\ Append(s, x)[Len(s) + 1] = x
        /\ \A i \in 1..Len(s) : Append(s, x)[i] = s[i]
    OBVIOUS
  <1> QED
    BY <1>1 DEF Range

LEMMA RangeHeadTail ==
    ASSUME NEW S, NEW s \in Seq(S), s # << >>
    PROVE  /\ Head(s) \in S /\ Tail(s) \in Seq(S)
           /\ Range(s) = {Head(s)} \cup Range(Tail(s))
  <1>1. /\ DOMAIN s = 1..Len(s) /\ Len(s) \in Nat /\ Len(s) > 0 /\ Head(s) = s[1]
        /\ DOMAIN Tail(s) = 1..(Len(s) - 1)
        /\ \A i \in 1..(Len(s) - 1) : Tail(s)[i] = s[i + 1]
    OBVIOUS
  <1>2. ASSUME NEW x \in Range(s) PROVE x \in {Head(s)} \cup Range(Tail(s))
    <2>1. PICK i \in 1..Len(s) : x = s[i]
      BY <1>1 DEF Range
    <2>2. CASE i # 1
      <3>1. i - 1 \in 1..(Len(s) - 1) /\ Tail(s)[i - 1] = x
        BY <1>1, <2>1, <2>2
      <3> QED
        BY <1>1, <3>1 DEF Range
    <2> QED
      BY <1>1, <2>1, <2>2
  <1>3. ASSUME NEW x \in {Head(s)} \cup Range(Tail(s)) PROVE x \in Range(s)
    BY <1>1, <1>3 DEF Range
  <1> QED
    BY <1>2, <1>3

LEMMA RangeConcat ==
    ASSUME NEW S, NEW x \in S, NEW s \in Seq(S)
    PROVE  <<x>> \o s \in Seq(S) /\ Range(<<x>> \o s) = {x} \cup Range(s)
  <1>1. /\ DOMAIN (<<x>> \o s) = 1..(Len(s) + 1) /\ DOMAIN s = 1..Len(s) /\ Len(s) \in Nat
        /\ (<<x>> \o s)[1] = x
        /\ \A i \in 1..Len(s) : (<<x>> \o s)[i + 1] = s[i]
        /\ <<x>> \o s \in Seq(S)
    OBVIOUS
  <1>2. ASSUME NEW i \in 1..(Len(s) + 1) PROVE (<<x>> \o s)[i] \in {x} \cup Range(s)
    <2>1. CASE i # 1
      <3>1. i - 1 \in 1..Len(s) /\ (<<x>> \o s)[i] = s[i - 1]
        BY <1>1, <2>1
      <3> QED
        BY <1>1, <3>1 DEF Range
    <2> QED
      BY <1>1, <2>1
  <1>3. x \in Range(<<x>> \o s)
    BY <1>1 DEF Range
  <1>4. ASSUME NEW i \in 1..Len(s) PROVE s[i] \in Range(<<x>> \o s)
    <2>1. i + 1 \in 1..(Len(s) + 1)
      BY <1>1
    <2> QED
      BY <1>1, <2>1 DEF Range
  <1> QED
    BY <1>1, <1>2, <1>3, <1>4 DEF Range

-------------------------------------------------------------------------------
\* An INSERT takes a key that is nobody's: it waits for another transaction's
\* and it fails on a committed one.
LEMMA InsertKeepsOwner ==
    ASSUME UowTypeOK, OneOwner, Unique = TRUE, NEW p \in Procs, Insert(p)
    PROVE  /\ UowTypeOK' /\ OneOwner'
           /\ Head(queue[p]) \in Keys /\ Range(queue[p]) = {Head(queue[p])} \cup Range(Tail(queue[p]))
  <1> DEFINE k == Head(queue[p])
  <1>1. /\ queue[p] \in Seq(Keys) /\ queue[p] # << >>
        /\ k \in Keys /\ Tail(queue[p]) \in Seq(Keys)
        /\ Range(queue[p]) = {k} \cup Range(Tail(queue[p]))
    BY RangeHeadTail DEF UowTypeOK, Insert
  <1>2. k \notin Stored \cup inserted[p]
    BY <1>1 DEF Insert, Duplicate, Visible
  <1>3. committed[k] = 0
    BY <1>1, <1>2 DEF Stored, UowTypeOK
  <1>4. \A q \in Procs \ {p} : k \notin inserted[q]
    BY <1>1 DEF Insert, Waits
  <1>5. inserted' = [inserted EXCEPT ![p] = @ \cup {k}] /\ committed' = committed
    BY DEF Insert
  <1>6. UowTypeOK'
    BY <1>1, <1>5 DEF UowTypeOK, Insert
  <1>7. OneOwner'
    BY <1>3, <1>4, <1>5 DEF OneOwner, UowTypeOK
  <1> QED
    BY <1>1, <1>6, <1>7

LEMMA CommitKeepsOwner ==
    ASSUME UowTypeOK, OneOwner, NEW p \in Procs, Commit(p)
    PROVE  UowTypeOK' /\ OneOwner' /\ Stored' = Stored \cup inserted[p]
  <1>1. /\ inserted' = [inserted EXCEPT ![p] = {}] /\ queue' = queue
        /\ \A k \in Keys : committed'[k] = IF k \in inserted[p] THEN committed[k] + 1 ELSE committed[k]
        /\ committed' = [k \in Keys |-> IF k \in inserted[p] THEN committed[k] + 1 ELSE committed[k]]
    BY DEF Commit
  <1>2. UowTypeOK'
    BY <1>1 DEF UowTypeOK
  <1>3. OneOwner'
    BY <1>1 DEF OneOwner, UowTypeOK
  <1>4. Stored' = Stored \cup inserted[p]
    BY <1>1 DEF Stored, UowTypeOK
  <1> QED
    BY <1>2, <1>3, <1>4

LEMMA RollbackKeepsOwner ==
    ASSUME UowTypeOK, OneOwner, NEW p \in Procs, Rollback(p)
    PROVE  UowTypeOK' /\ OneOwner' /\ Stored' = Stored
  BY RangeEmpty DEF UowTypeOK, OneOwner, Rollback, Stored

LEMMA EnqueueKeepsType ==
    ASSUME UowTypeOK, NEW p \in Procs, NEW keys \in Seq(Keys), Enqueue(p, keys),
           UNCHANGED <<committed, inserted>>
    PROVE  UowTypeOK'
  BY DEF UowTypeOK, Enqueue

-------------------------------------------------------------------------------
(* The run.                                                                *)

InSession(p) == pc[p] \in {"looking", "flushing", "committing"}

\* The rows a run has looked at are in the table, inserted, about to be
\* inserted or in session.new; what it inserts are seed rows.
Tracked(p) ==
    /\ pc[p] \in {"creating", "looking", "flushing", "committing"} => is_development(p)
    /\ pc[p] \in {"start", "creating"} => at[p] = 1
    /\ inserted[p] \cup Range(queue[p]) \cup Range(added[p]) \subseteq Full
    /\ InSession(p) => \A i \in 1..(at[p] - 1) :
          Program[i] \in Stored \cup inserted[p] \cup Range(queue[p]) \cup Range(added[p])
    /\ pc[p] = "looking" => queue[p] = << >>
    /\ pc[p] = "committing" => at[p] = Len(Program) + 1 /\ added[p] = << >>
    /\ ~InSession(p) => inserted[p] = {} /\ queue[p] = << >> /\ added[p] = << >>

IInv == TypeOK /\ OneOwner /\ \A p \in Procs : Tracked(p)

LEMMA ProgramType == /\ Program \in Seq(Keys) /\ Len(Program) \in Nat /\ DOMAIN Program = 1..Len(Program)
                     /\ \A i \in 1..Len(Program) : Program[i] \in Keys /\ Program[i] \in Full
  <1>1. /\ Program \in Seq(Keys) /\ Len(Program) \in Nat /\ DOMAIN Program = 1..Len(Program)
        /\ \A i \in 1..Len(Program) : Program[i] \in Keys
    BY ProgramAssumption
  <1> QED
    BY <1>1 DEF Full, Range

\* A run that does not move stays tracked: the table only grows.
LEMMA OthersStayTracked ==
    ASSUME NEW q \in Procs, Tracked(q), Stored \subseteq Stored', app_env' = app_env,
           pc'[q] = pc[q], at'[q] = at[q], added'[q] = added[q],
           inserted'[q] = inserted[q], queue'[q] = queue[q]
    PROVE  Tracked(q)'
  BY DEF Tracked, InSession, is_development

-------------------------------------------------------------------------------
LEMMA InitEstablishes == Init => IInv /\ Stored \in Initial
  <1> SUFFICES ASSUME Init PROVE IInv /\ Stored \in Initial
    OBVIOUS
  <1>1. PICK rows \in Initial : committed = [k \in Keys |-> IF k \in rows THEN 1 ELSE 0]
    BY DEF Init
  <1>2. rows \subseteq Keys
    BY InitialAssumption
  <1>3. Stored = rows
    BY <1>1, <1>2 DEF Stored
  <1>4. TypeOK
    <2>1. UowTypeOK
      BY <1>1 DEF Init, UowTypeOK
    <2>2. at \in [Procs -> 1..(Len(Program) + 1)]
      BY ProgramType DEF Init
    <2> QED
      BY <2>1, <2>2 DEF Init, TypeOK
  <1>5. OneOwner
    BY <1>1 DEF Init, OneOwner
  <1>6. \A p \in Procs : Tracked(p)
    BY RangeEmpty DEF Init, Tracked, InSession
  <1> QED
    BY <1>3, <1>4, <1>5, <1>6 DEF IInv

\* Refuse, CheckTables, CreateTables, FlushDone and Rerun move a run without
\* touching its session.
LEMMA MoveKeeps ==
    ASSUME IInv, NEW p \in Procs,
           Refuse(p) \/ CheckTables(p) \/ CreateTables(p) \/ FlushDone(p) \/ Rerun(p)
    PROVE  IInv'
  <1> USE DEF IInv
  <1>1. /\ uow' = uow /\ app_env' = app_env /\ added' = added /\ Stored' = Stored /\ OneOwner'
        /\ UowTypeOK'
    BY DEF Refuse, CheckTables, CreateTables, FlushDone, Rerun, uow, Stored, OneOwner,
           TypeOK, UowTypeOK
  <1>2. tables' \in BOOLEAN
    BY DEF Refuse, CheckTables, CreateTables, FlushDone, Rerun, TypeOK
  <1>3. /\ pc' \in [Procs -> {"start", "refused", "creating", "looking", "flushing",
                              "committing", "done", "failed"}]
        /\ \A q \in Procs \ {p} : pc'[q] = pc[q]
    BY DEF Refuse, CheckTables, CreateTables, FlushDone, Rerun, TypeOK, Goto
  <1>4. /\ at' \in [Procs -> 1..(Len(Program) + 1)]
        /\ \A q \in Procs \ {p} : at'[q] = at[q]
    BY ProgramType DEF Refuse, CheckTables, CreateTables, FlushDone, Rerun, TypeOK
  <1>5. runs' \in Nat /\ crashes' \in Nat
    BY DEF Refuse, CheckTables, CreateTables, FlushDone, Rerun, TypeOK
  <1>6. TypeOK'
    BY <1>1, <1>2, <1>3, <1>4, <1>5 DEF TypeOK
  <1>7. Tracked(p)'
    <2>1. CASE Refuse(p)
      BY <1>1, <2>1 DEF Refuse, Goto, Tracked, InSession, TypeOK, uow
    <2>2. CASE CheckTables(p)
      BY <1>1, <2>2, ProgramType DEF CheckTables, Goto, Tracked, InSession, is_development, TypeOK, uow
    <2>3. CASE CreateTables(p)
      BY <1>1, <2>3, ProgramType DEF CreateTables, Goto, Tracked, InSession, is_development, TypeOK, uow
    <2>4. CASE FlushDone(p)
      BY <1>1, <2>4 DEF FlushDone, Goto, Tracked, InSession, is_development, TypeOK, uow
    <2>5. CASE Rerun(p)
      BY <1>1, <2>5 DEF Rerun, Goto, Tracked, InSession, TypeOK, uow
    <2> QED
      BY <2>1, <2>2, <2>3, <2>4, <2>5
  <1>8. \A q \in Procs \ {p} : Tracked(q)'
    BY <1>1, <1>3, <1>4, OthersStayTracked DEF uow
  <1> QED
    BY <1>1, <1>6, <1>7, <1>8

LEMMA PresentKeeps ==
    ASSUME IInv, NEW p \in Procs, Present(p) PROVE IInv'
  <1> USE DEF IInv
  <1>1. Stored' = Stored /\ OneOwner'
    BY DEF Present, Look, Stored, OneOwner
  <1>2. /\ at[p] \in 1..Len(Program) /\ at'[p] = at[p] + 1 /\ pc[p] = "looking"
        /\ at' \in [Procs -> 1..(Len(Program) + 1)] /\ \A q \in Procs \ {p} : at'[q] = at[q]
        /\ Program[at[p]] \in Stored \cup inserted[p]
    BY ProgramType DEF Present, Look, TypeOK, Visible
  <1>3. TypeOK'
    BY <1>2 DEF Present, Look, TypeOK, UowTypeOK
  <1>4. Tracked(p)'
    BY <1>1, <1>2, ProgramType DEF Present, Look, Tracked, InSession, is_development
  <1>5. \A q \in Procs \ {p} : Tracked(q)'
    BY <1>1, <1>2, OthersStayTracked DEF Present, Look
  <1> QED
    BY <1>1, <1>3, <1>4, <1>5

LEMMA AddKeeps ==
    ASSUME IInv, NEW p \in Procs, Add(p) PROVE IInv'
  <1> USE DEF IInv
  <1> DEFINE k == Program[at[p]]
  <1>1. Stored' = Stored /\ OneOwner'
    BY DEF Add, Look, Stored, OneOwner
  <1>2. /\ at[p] \in 1..Len(Program) /\ at'[p] = at[p] + 1 /\ pc[p] = "looking"
        /\ at' \in [Procs -> 1..(Len(Program) + 1)] /\ \A q \in Procs \ {p} : at'[q] = at[q]
    BY ProgramType DEF Add, Look, TypeOK
  <1>3. /\ k \in Keys /\ k \in Full /\ added[p] \in Seq(Keys)
        /\ Append(added[p], k) \in Seq(Keys)
        /\ Range(Append(added[p], k)) = Range(added[p]) \cup {k}
    BY <1>2, ProgramType, RangeAppend DEF TypeOK
  <1>4. /\ added'[p] = Append(added[p], k) /\ added' \in [Procs -> Seq(Keys)]
        /\ \A q \in Procs \ {p} : added'[q] = added[q]
    BY <1>3 DEF Add, TypeOK
  <1>5. TypeOK'
    BY <1>2, <1>4 DEF Add, Look, TypeOK, UowTypeOK
  <1>6. Tracked(p)'
    BY <1>1, <1>2, <1>3, <1>4, ProgramType DEF Add, Look, Tracked, InSession, is_development
  <1>7. \A q \in Procs \ {p} : Tracked(q)'
    BY <1>1, <1>2, <1>4, OthersStayTracked DEF Add, Look
  <1> QED
    BY <1>1, <1>5, <1>6, <1>7

LEMMA AddAndFlushKeeps ==
    ASSUME IInv, NEW p \in Procs, AddAndFlush(p) PROVE IInv'
  <1> USE DEF IInv
  <1> DEFINE k == Program[at[p]]
             keys == <<k>> \o added[p]
  <1>1. Stored' = Stored /\ OneOwner'
    BY DEF AddAndFlush, Look, Stored, OneOwner
  <1>2. /\ at[p] \in 1..Len(Program) /\ at'[p] = at[p] + 1 /\ pc[p] = "looking"
        /\ at' \in [Procs -> 1..(Len(Program) + 1)] /\ \A q \in Procs \ {p} : at'[q] = at[q]
    BY ProgramType DEF AddAndFlush, Look, TypeOK
  <1>3. /\ k \in Keys /\ k \in Full /\ keys \in Seq(Keys) /\ Range(keys) = {k} \cup Range(added[p])
    BY <1>2, ProgramType, RangeConcat DEF TypeOK
  <1>4. UowTypeOK'
    BY <1>3, EnqueueKeepsType DEF AddAndFlush, Look, TypeOK
  <1>5. /\ queue'[p] = keys /\ added'[p] = << >> /\ pc'[p] = "flushing"
        /\ \A q \in Procs \ {p} : queue'[q] = queue[q] /\ added'[q] = added[q] /\ pc'[q] = pc[q]
    BY DEF AddAndFlush, Enqueue, Goto, TypeOK, UowTypeOK
  <1>6. TypeOK'
    BY <1>2, <1>4 DEF AddAndFlush, Look, Goto, TypeOK
  <1>7. Tracked(p)'
    <2>1. inserted' = inserted /\ app_env' = app_env
      BY DEF AddAndFlush, Look
    <2>2. \A i \in 1..at[p] :
            Program[i] \in Stored \cup inserted[p] \cup {k} \cup Range(added[p])
      BY <1>2, RangeEmpty DEF Tracked, InSession
    <2>3. at'[p] - 1 = at[p]
      BY <1>2, ProgramType
    <2> HIDE DEF keys
    <2> QED
      BY <1>1, <1>2, <1>3, <1>5, <2>1, <2>2, <2>3, RangeEmpty DEF Tracked, InSession, is_development
  <1>8. \A q \in Procs \ {p} : Tracked(q)'
    BY <1>1, <1>2, <1>5, OthersStayTracked DEF AddAndFlush, Look
  <1> QED
    BY <1>1, <1>6, <1>7, <1>8

LEMMA InsertRowKeeps ==
    ASSUME IInv, NEW p \in Procs, InsertRow(p) PROVE IInv'
  <1> USE DEF IInv
  <1>1. /\ UowTypeOK' /\ OneOwner'
        /\ Head(queue[p]) \in Keys /\ Range(queue[p]) = {Head(queue[p])} \cup Range(Tail(queue[p]))
    BY InsertKeepsOwner, UniqueAssumption DEF InsertRow, TypeOK
  <1>2. Stored' = Stored /\ TypeOK'
    BY <1>1 DEF InsertRow, Insert, Stored, TypeOK
  <1>3. /\ queue'[p] = Tail(queue[p]) /\ inserted'[p] = inserted[p] \cup {Head(queue[p])}
        /\ \A q \in Procs \ {p} : queue'[q] = queue[q] /\ inserted'[q] = inserted[q]
    BY DEF InsertRow, Insert, TypeOK, UowTypeOK
  <1>4. Tracked(p)'
    BY <1>1, <1>2, <1>3 DEF InsertRow, Tracked, InSession, is_development
  <1>5. \A q \in Procs \ {p} : Tracked(q)'
    BY <1>2, <1>3, OthersStayTracked DEF InsertRow
  <1> QED
    BY <1>1, <1>2, <1>4, <1>5

LEMMA StartCommitKeeps ==
    ASSUME IInv, NEW p \in Procs, StartCommit(p) PROVE IInv'
  <1> USE DEF IInv
  <1>1. Stored' = Stored /\ OneOwner'
    BY DEF StartCommit, Stored, OneOwner
  <1>2. UowTypeOK'
    BY EnqueueKeepsType DEF StartCommit, TypeOK
  <1>3. /\ queue'[p] = added[p] /\ added'[p] = << >> /\ pc'[p] = "committing" /\ pc[p] = "looking"
        /\ at[p] = Len(Program) + 1
        /\ \A q \in Procs \ {p} : queue'[q] = queue[q] /\ added'[q] = added[q] /\ pc'[q] = pc[q]
    <2>1. at[p] = Len(Program) + 1
      BY ProgramType DEF StartCommit, TypeOK
    <2> QED
      BY <2>1 DEF StartCommit, Enqueue, Goto, TypeOK, UowTypeOK
  <1>4. TypeOK'
    BY <1>2 DEF StartCommit, Goto, TypeOK
  <1>5. Tracked(p)'
    BY <1>1, <1>3, RangeEmpty DEF StartCommit, Tracked, InSession, is_development
  <1>6. \A q \in Procs \ {p} : Tracked(q)'
    BY <1>1, <1>3, OthersStayTracked DEF StartCommit
  <1> QED
    BY <1>1, <1>4, <1>5, <1>6

\* A commit adds exactly the seed rows that were missing.
LEMMA CompleteKeeps ==
    ASSUME IInv, NEW p \in Procs, Complete(p)
    PROVE  IInv' /\ is_development(p) /\ Stored' = Stored \cup Full
  <1> USE DEF IInv
  <1>1. UowTypeOK' /\ OneOwner' /\ Stored' = Stored \cup inserted[p]
    BY CommitKeepsOwner DEF Complete, TypeOK
  <1>2. /\ inserted'[p] = {} /\ queue[p] = << >> /\ queue' = queue /\ pc'[p] = "done"
        /\ pc[p] = "committing" /\ added[p] = << >> /\ at[p] = Len(Program) + 1
        /\ \A q \in Procs \ {p} : inserted'[q] = inserted[q] /\ pc'[q] = pc[q]
    BY DEF Complete, Commit, Goto, Tracked, TypeOK, UowTypeOK
  <1>3. Full \subseteq Stored \cup inserted[p]
    <2>1. ASSUME NEW i \in 1..Len(Program) PROVE Program[i] \in Stored \cup inserted[p]
      BY <1>2, ProgramType, RangeEmpty DEF Tracked, InSession
    <2> QED
      BY <2>1, ProgramType DEF Full, Range
  <1>4. Stored' = Stored \cup Full /\ is_development(p)
    BY <1>1, <1>2, <1>3 DEF Tracked
  <1>5. TypeOK'
    BY <1>1 DEF Complete, Goto, TypeOK
  <1>6. Tracked(p)'
    BY <1>2, RangeEmpty DEF Complete, Tracked, InSession
  <1>7. \A q \in Procs \ {p} : Tracked(q)'
    BY <1>1, <1>2, OthersStayTracked DEF Complete
  <1> QED
    BY <1>1, <1>4, <1>5, <1>6, <1>7

LEMMA AbortKeeps ==
    ASSUME IInv, NEW p \in Procs, Abort(p), crashes' \in Nat PROVE IInv' /\ Stored' = Stored
  <1> USE DEF IInv
  <1>1. UowTypeOK' /\ OneOwner' /\ Stored' = Stored
    BY RollbackKeepsOwner DEF Abort, TypeOK
  <1>2. /\ inserted'[p] = {} /\ queue'[p] = << >> /\ added'[p] = << >> /\ pc'[p] = "failed"
        /\ \A q \in Procs \ {p} : /\ inserted'[q] = inserted[q] /\ queue'[q] = queue[q]
                                  /\ added'[q] = added[q] /\ pc'[q] = pc[q]
    BY DEF Abort, Rollback, Goto, TypeOK, UowTypeOK
  <1>3. TypeOK'
    BY <1>1 DEF Abort, Goto, TypeOK
  <1>4. Tracked(p)'
    BY <1>2, RangeEmpty DEF Tracked, InSession
  <1>5. \A q \in Procs \ {p} : Tracked(q)'
    BY <1>1, <1>2, OthersStayTracked DEF Abort
  <1> QED
    BY <1>1, <1>3, <1>4, <1>5

-------------------------------------------------------------------------------
\* Every step keeps the invariant and is a step of AtomicSeed, or a stutter.
LEMMA StepKeeps ==
    ASSUME IInv, [Next]_vars
    PROVE  /\ IInv' /\ app_env' = app_env
           /\ \/ Stored' = Stored
              \/ (\E p \in Procs : is_development(p)) /\ Stored' = Stored \cup Full
  <1>1. ASSUME NEW p \in Procs,
               Refuse(p) \/ CheckTables(p) \/ CreateTables(p) \/ FlushDone(p) \/ Rerun(p)
        PROVE  IInv' /\ app_env' = app_env /\ Stored' = Stored
    BY <1>1, MoveKeeps DEF Refuse, CheckTables, CreateTables, FlushDone, Rerun, uow, Stored
  <1>2. ASSUME NEW p \in Procs, Present(p) \/ Add(p) \/ AddAndFlush(p)
        PROVE  IInv' /\ app_env' = app_env /\ Stored' = Stored
    BY <1>2, PresentKeeps, AddKeeps, AddAndFlushKeeps DEF Present, Add, AddAndFlush, Look, Stored
  <1>3. ASSUME NEW p \in Procs, InsertRow(p) \/ StartCommit(p)
        PROVE  IInv' /\ app_env' = app_env /\ Stored' = Stored
    BY <1>3, InsertRowKeeps, StartCommitKeeps DEF InsertRow, Insert, StartCommit, Stored
  <1>4. ASSUME NEW p \in Procs, Complete(p)
        PROVE  IInv' /\ app_env' = app_env /\ is_development(p) /\ Stored' = Stored \cup Full
    BY <1>4, CompleteKeeps DEF Complete
  <1>5. ASSUME NEW p \in Procs, IntegrityError(p) \/ Crash(p)
        PROVE  IInv' /\ app_env' = app_env /\ Stored' = Stored
    <2>1. Abort(p) /\ crashes' \in Nat
      BY <1>5 DEF IntegrityError, Crash, IInv, TypeOK
    <2> QED
      BY <2>1, AbortKeeps DEF Abort
  <1>6. CASE UNCHANGED vars
    BY <1>6 DEF vars, uow, IInv, TypeOK, UowTypeOK, OneOwner, Tracked, InSession, is_development, Stored
  <1>7. CASE Next
    <2>1. PICK p \in Procs : Run(p) \/ Crash(p) \/ Rerun(p)
      BY <1>7 DEF Next
    <2> QED
      BY <2>1, <1>1, <1>2, <1>3, <1>4, <1>5 DEF Run
  <1> QED
    BY <1>6, <1>7

\* Type correctness of the runs and their sessions (seed_dev.py:48-112).
THEOREM TypeCorrect == Spec => []TypeOK
  <1>1. IInv /\ [Next]_vars => IInv'
    BY StepKeeps
  <1>2. IInv => TypeOK
    BY DEF IInv
  <1> QED
    BY InitEstablishes, <1>1, <1>2, PTL DEF Spec

\* models/role.py:35,50,68-77 and models/user.py:41: no seed row is ever
\* committed twice, however many runs overlap.
THEOREM SeedsEachRowOnce == Spec => []OneRowPerKey
  <1>1. IInv /\ [Next]_vars => IInv'
    BY StepKeeps
  <1>2. IInv => OneRowPerKey
    BY DEF IInv, OneOwner, OneRowPerKey
  <1> QED
    BY InitEstablishes, <1>1, <1>2, PTL DEF Spec

\* seed_dev.py:7: seed() implements the abstract specification; the database
\* goes from what it was to that plus all seed rows, in one step.
THEOREM ImplementsAtomicSeed == Spec => SeedsAtomically
  <1>1. Init => Atomic!Init
    BY InitEstablishes DEF Atomic!Init
  <1>2. IInv /\ [Next]_vars => IInv'
    BY StepKeeps
  <1>3. IInv /\ [Next]_vars =>
            [Atomic!SeedAll]_<<Stored, \E p \in Procs : is_development(p)>>
    <2> SUFFICES ASSUME IInv, [Next]_vars
                 PROVE  [Atomic!SeedAll]_<<Stored, \E p \in Procs : is_development(p)>>
      OBVIOUS
    <2>1. (\E p \in Procs : is_development(p))' = (\E p \in Procs : is_development(p))
      BY StepKeeps DEF is_development
    <2>2. CASE Stored' = Stored
      BY <2>1, <2>2
    <2>3. CASE (\E p \in Procs : is_development(p)) /\ Stored' = Stored \cup Full /\ Stored' # Stored
      BY <2>1, <2>3 DEF Atomic!SeedAll
    <2> QED
      BY <2>2, <2>3, StepKeeps
  <1> QED
    BY InitEstablishes, <1>1, <1>2, <1>3, PTL DEF Spec, SeedsAtomically, Atomic!Spec

-------------------------------------------------------------------------------
\* Until the seed is complete no run commits, so all runs look at the same table,
\* and row j is the one that each of them inserts first: the first missing
\* permission or role, or the first missing row where none of those is missing.
FlushedMissing == \E i \in 1..Len(Program) : Program[i] \in Flushed \ Stored
First(j) ==
    /\ Program[j] \notin Stored
    /\ FlushedMissing => Program[j] \in Flushed
    /\ \A i \in 1..(j - 1) : (FlushedMissing => Program[i] \in Flushed) => Program[i] \in Stored

\* It is what a run inserts first, has next to insert, or will have.
Leads(p) ==
    /\ inserted[p] # {} => \E j \in 1..Len(Program) : First(j) /\ Program[j] \in inserted[p]
    /\ (inserted[p] = {} /\ queue[p] # << >>) =>
          \E j \in 1..Len(Program) : First(j) /\ Program[j] = Head(queue[p])
    /\ (inserted[p] = {} /\ added[p] # << >>) =>
          \E j \in 1..Len(Program) : /\ Program[j] = Head(added[p]) /\ Program[j] \notin Stored
                                     /\ \A i \in 1..(j - 1) : Program[i] \in Stored
Unflushed(p) == /\ Range(added[p]) \cap Flushed = {}
                /\ pc[p] # "looking" => added[p] = << >>
LeadInv == /\ \A p \in Procs : Unflushed(p)
           /\ Full \subseteq Stored \/ \A p \in Procs : Leads(p)

LEMMA FirstIsOne ==
    ASSUME NEW i \in 1..Len(Program), NEW j \in 1..Len(Program), First(i), First(j) PROVE i = j
  <1>1. ASSUME NEW x \in 1..Len(Program), NEW y \in 1..Len(Program), First(x), First(y), x < y
        PROVE  FALSE
    <2>1. x \in 1..(y - 1)
      BY <1>1, ProgramType
    <2> QED
      BY <1>1, <2>1 DEF First
  <1> QED
    BY <1>1, ProgramType

LEMMA LeadInit == Init => LeadInv
  BY RangeEmpty DEF Init, LeadInv, Unflushed, Leads

LEMMA OthersLead ==
    ASSUME NEW q \in Procs, Leads(q), Stored' = Stored,
           added'[q] = added[q], inserted'[q] = inserted[q], queue'[q] = queue[q]
    PROVE  Leads(q)'
  BY DEF Leads, First, FlushedMissing

\* Only grants and users wait in session.new.
LEMMA UnflushedStep ==
    ASSUME TypeOK, \A q \in Procs : Unflushed(q), [Next]_vars
    PROVE  \A q \in Procs : Unflushed(q)'
  <1>1. ASSUME NEW p \in Procs, UNCHANGED added,
               \A q \in Procs \ {p} : pc'[q] = pc[q], pc[p] # "looking" \/ pc'[p] = "looking"
        PROVE  \A q \in Procs : Unflushed(q)'
    BY <1>1 DEF Unflushed
  <1>2. ASSUME NEW p \in Procs, Refuse(p) \/ CheckTables(p) \/ CreateTables(p) \/ Present(p)
               \/ InsertRow(p) \/ FlushDone(p) \/ Complete(p) \/ Rerun(p)
        PROVE  \A q \in Procs : Unflushed(q)'
    BY <1>1, <1>2 DEF Refuse, CheckTables, CreateTables, Present, Look, InsertRow, FlushDone, Complete,
       Rerun, Goto, TypeOK
  <1>3. ASSUME NEW p \in Procs, Add(p) PROVE \A q \in Procs : Unflushed(q)'
    <2>1. /\ added[p] \in Seq(Keys) /\ Program[at[p]] \in Keys \ Flushed /\ pc[p] = "looking"
          /\ pc' = pc /\ added' = [added EXCEPT ![p] = Append(@, Program[at[p]])]
      BY <1>3, ProgramType DEF Add, Look, TypeOK
    <2>2. Range(Append(added[p], Program[at[p]])) = Range(added[p]) \cup {Program[at[p]]}
      BY <2>1, RangeAppend
    <2> QED
      BY <2>1, <2>2 DEF Unflushed, TypeOK
  <1>4. ASSUME NEW p \in Procs, AddAndFlush(p) \/ StartCommit(p) \/ IntegrityError(p) \/ Crash(p)
        PROVE  \A q \in Procs : Unflushed(q)'
    <2>1. added' = [added EXCEPT ![p] = << >>] /\ \A q \in Procs \ {p} : pc'[q] = pc[q]
      BY <1>4 DEF AddAndFlush, StartCommit, IntegrityError, Crash, Abort, Goto, TypeOK
    <2> QED
      BY <2>1, RangeEmpty DEF Unflushed, TypeOK
  <1>5. CASE UNCHANGED vars
    BY <1>5 DEF vars, Unflushed
  <1> QED
    BY <1>2, <1>3, <1>4, <1>5 DEF Next, Run

\* The sessions of the others and the table stay what they are.
LEMMA LeadsStep ==
    ASSUME IInv, \A q \in Procs : Unflushed(q) /\ Leads(q), NEW p \in Procs,
           Run(p) \/ Crash(p) \/ Rerun(p), ~Complete(p)
    PROVE  \A q \in Procs : Leads(q)'
  <1> USE DEF IInv
  <1>1. Stored' = Stored
    BY DEF Run, Refuse, CheckTables, CreateTables, Present, Add, AddAndFlush, Look, InsertRow, Insert,
       FlushDone, StartCommit, IntegrityError, Crash, Abort, Rollback, Rerun, uow, Stored
  <1>2. ASSUME NEW q \in Procs \ {p} PROVE Leads(q)'
    <2>1. added'[q] = added[q] /\ inserted'[q] = inserted[q] /\ queue'[q] = queue[q]
      BY DEF Run, Refuse, CheckTables, CreateTables, Present, Add, AddAndFlush, Look, InsertRow, Insert,
         FlushDone, StartCommit, IntegrityError, Crash, Abort, Rollback, Rerun, Enqueue, uow, TypeOK, UowTypeOK
    <2> QED
      BY <1>1, <2>1, OthersLead
  <1>3. CASE Refuse(p) \/ CheckTables(p) \/ CreateTables(p) \/ Present(p) \/ FlushDone(p) \/ Rerun(p)
    <2>1. UNCHANGED <<added, inserted, queue>>
      BY <1>3 DEF Refuse, CheckTables, CreateTables, Present, Look, FlushDone, Rerun, uow
    <2> QED
      BY <1>1, <1>2, <2>1, OthersLead
  <1>4. CASE Add(p)
    <2> DEFINE k == Program[at[p]]
    <2>1. /\ at[p] \in 1..Len(Program) /\ k \in Keys /\ k \notin Stored /\ added[p] \in Seq(Keys)
          /\ pc[p] = "looking" /\ queue[p] = << >> /\ UNCHANGED <<inserted, queue>>
          /\ added'[p] = Append(added[p], k)
      BY <1>4, ProgramType DEF Add, Look, TypeOK, Visible, Tracked
    <2>2. CASE inserted[p] = {} /\ added[p] = << >>
      <3>1. \A i \in 1..(at[p] - 1) : Program[i] \in Stored
        BY <2>1, <2>2, RangeEmpty DEF Tracked, InSession
      <3>2. Head(added'[p]) = k
        BY <2>1, <2>2
      <3> QED
        BY <1>1, <1>2, <2>1, <2>2, <3>1, <3>2 DEF Leads
    <2>3. CASE inserted[p] = {} /\ added[p] # << >>
      <3>1. Head(added'[p]) = Head(added[p])
        BY <2>1, <2>3
      <3> QED
        BY <1>1, <1>2, <2>1, <2>3, <3>1 DEF Leads
    <2>4. CASE inserted[p] # {}
      BY <1>1, <1>2, <2>1, <2>4 DEF Leads, First, FlushedMissing
    <2> QED
      BY <2>2, <2>3, <2>4
  <1>5. CASE AddAndFlush(p)
    <2> DEFINE k == Program[at[p]]
    <2>1. /\ at[p] \in 1..Len(Program) /\ k \in Keys /\ k \in Flushed /\ k \notin Stored
          /\ added[p] \in Seq(Keys) /\ pc[p] = "looking" /\ queue[p] = << >>
          /\ inserted' = inserted /\ added'[p] = << >> /\ queue'[p] = <<k>> \o added[p]
      BY <1>5, ProgramType DEF AddAndFlush, Look, Enqueue, TypeOK, UowTypeOK, Visible, Tracked
    <2>2. Head(queue'[p]) = k
      BY <2>1
    <2>3. CASE inserted[p] = {}
      <3>1. ASSUME NEW i \in 1..(at[p] - 1), Program[i] \in Flushed PROVE Program[i] \in Stored
        BY <2>1, <2>3, <3>1, RangeEmpty DEF Tracked, InSession, Unflushed
      <3>2. First(at[p])
        BY <2>1, <3>1 DEF First, FlushedMissing
      <3> QED
        BY <1>1, <1>2, <2>1, <2>2, <2>3, <3>2 DEF Leads, First, FlushedMissing
    <2>4. CASE inserted[p] # {}
      BY <1>1, <1>2, <2>1, <2>4 DEF Leads, First, FlushedMissing
    <2> QED
      BY <2>3, <2>4
  <1>6. CASE InsertRow(p)
    <2>1. /\ inserted'[p] = inserted[p] \cup {Head(queue[p])} /\ queue[p] # << >> /\ added' = added
      BY <1>6 DEF InsertRow, Insert, TypeOK, UowTypeOK
    <2>2. \E j \in 1..Len(Program) : First(j) /\ Program[j] \in inserted'[p]
      BY <2>1 DEF Leads
    <2>3. inserted'[p] # {}
      BY <2>1
    <2> QED
      BY <1>1, <1>2, <2>2, <2>3 DEF Leads, First, FlushedMissing
  <1>7. CASE StartCommit(p)
    <2>1. /\ pc[p] = "looking" /\ at[p] = Len(Program) + 1 /\ queue[p] = << >> /\ inserted' = inserted
          /\ added'[p] = << >> /\ queue'[p] = added[p]
      BY <1>7, ProgramType DEF StartCommit, Enqueue, TypeOK, UowTypeOK, Tracked
    <2>2. CASE inserted[p] = {} /\ added[p] # << >>
      <3>1. PICK j \in 1..Len(Program) :
                 /\ Program[j] = Head(added[p]) /\ Program[j] \notin Stored
                 /\ \A i \in 1..(j - 1) : Program[i] \in Stored
        BY <2>2 DEF Leads
      <3>2. ~FlushedMissing
        BY <2>1, <2>2, ProgramType, RangeEmpty DEF FlushedMissing, Tracked, InSession, Unflushed
      <3>3. First(j)
        BY <3>1, <3>2 DEF First
      <3> QED
        BY <1>1, <1>2, <2>1, <2>2, <3>1, <3>3 DEF Leads, First, FlushedMissing
    <2>3. CASE inserted[p] # {} \/ added[p] = << >>
      BY <1>1, <1>2, <2>1, <2>3 DEF Leads, First, FlushedMissing
    <2> QED
      BY <2>2, <2>3
  <1>8. CASE IntegrityError(p) \/ Crash(p)
    <2>1. inserted'[p] = {} /\ queue'[p] = << >> /\ added'[p] = << >>
      BY <1>8 DEF IntegrityError, Crash, Abort, Rollback, TypeOK, UowTypeOK
    <2> QED
      BY <1>2, <2>1 DEF Leads
  <1> QED
    BY <1>3, <1>4, <1>5, <1>6, <1>7, <1>8 DEF Run

LEMMA LeadStep == ASSUME IInv, LeadInv, [Next]_vars PROVE LeadInv'
  <1>1. \A q \in Procs : Unflushed(q)'
    BY UnflushedStep DEF IInv, LeadInv
  <1>2. CASE Full \subseteq Stored
    <2>1. Full \subseteq Stored'
      BY <1>2, StepKeeps
    <2> QED
      BY <1>1, <2>1 DEF LeadInv, Full
  <1>3. CASE ~(Full \subseteq Stored)
    <2>1. CASE UNCHANGED vars
      <3>1. \A q \in Procs : Leads(q)'
        BY <1>3, <2>1, OthersLead DEF LeadInv, vars, uow, Stored
      <3> QED
        BY <1>1, <3>1 DEF LeadInv
    <2>2. ASSUME NEW p \in Procs, Run(p) \/ Crash(p) \/ Rerun(p) PROVE LeadInv'
      <3>1. CASE Complete(p)
        <4>1. Full \subseteq Stored'
          BY <3>1, CompleteKeeps
        <4> QED
          BY <1>1, <4>1 DEF LeadInv, Full
      <3>2. CASE ~Complete(p)
        <4>1. \A q \in Procs : Leads(q)'
          BY <1>3, <2>2, <3>2, LeadsStep DEF LeadInv
        <4> QED
          BY <1>1, <4>1 DEF LeadInv
      <3> QED
        BY <3>1, <3>2
    <2> QED
      BY <2>1, <2>2 DEF Next
  <1> QED
    BY <1>2, <1>3

\* Who is waited for has inserted the first row, and only one run has.
LEMMA LeaderIsAwaited ==
    ASSUME IInv, LeadInv, NEW p \in Procs, NEW q \in Procs, Waits(p, q)
    PROVE  \E j \in 1..Len(Program) : First(j) /\ Program[j] \in inserted[q]
  <1>1. queue[p] \in Seq(Keys) /\ queue[p] # << >> /\ Head(queue[p]) \in inserted[q]
    BY DEF Waits, IInv, TypeOK, UowTypeOK
  <1>2. Head(queue[p]) \in Full
    BY <1>1, RangeHeadTail DEF IInv, Tracked
  <1>3. Head(queue[p]) \notin Stored
    BY <1>1 DEF Waits, Duplicate, Visible
  <1> QED
    BY <1>1, <1>2, <1>3 DEF LeadInv, Leads

LEMMA OneIsAwaited == IInv /\ LeadInv => AllWaitForOne
  <1> SUFFICES ASSUME IInv, LeadInv, NEW p \in Procs, NEW q \in Procs, NEW x \in Procs, NEW y \in Procs,
                      Waits(p, q), Waits(x, y)
               PROVE  q = y
    BY DEF AllWaitForOne
  <1>1. PICK i \in 1..Len(Program) : First(i) /\ Program[i] \in inserted[q]
    BY LeaderIsAwaited
  <1>2. PICK j \in 1..Len(Program) : First(j) /\ Program[j] \in inserted[y]
    BY LeaderIsAwaited
  <1>3. i = j
    BY <1>1, <1>2, FirstIsOne
  <1>4. Program[i] \in Keys
    BY ProgramType
  <1> QED
    BY <1>1, <1>2, <1>3, <1>4 DEF IInv, OneOwner, TypeOK, UowTypeOK

\* seed_dev.py:57-110: for every seed program, database and number of runs, the
\* runs that wait all wait for one other.
THEOREM RunsWaitForOne == Spec => []AllWaitForOne
  <1>1. Init => IInv /\ LeadInv
    BY InitEstablishes, LeadInit
  <1>2. IInv /\ LeadInv /\ [Next]_vars => (IInv /\ LeadInv)'
    BY StepKeeps, LeadStep
  <1> QED
    BY <1>1, <1>2, OneIsAwaited, PTL DEF Spec

\* So the runs never wait in a circle, of any length: a seed needs no database
\* that detects deadlocks, and no retry.
THEOREM RunsNeverDeadlock == Spec => [](\A p \in Procs : ~Deadlocked(p))
  <1>1. AllWaitForOne => \A p \in Procs : ~Deadlocked(p)
    <2> SUFFICES ASSUME AllWaitForOne, NEW p \in Procs, Deadlocked(p) PROVE FALSE
      OBVIOUS
    <2>1. PICK S \in SUBSET Procs : /\ p \in S
                                    /\ \A x \in S : \E y \in S : Waits(x, y)
      BY DEF Deadlocked
    <2>2. PICK q \in S : Waits(p, q)
      BY <2>1
    <2>3. PICK r \in S : Waits(q, r)
      BY <2>1
    <2>4. q = r
      BY <2>2, <2>3 DEF AllWaitForOne
    <2> QED
      BY <2>3, <2>4 DEF Waits
  <1> QED
    BY <1>1, RunsWaitForOne, PTL
===============================================================================
