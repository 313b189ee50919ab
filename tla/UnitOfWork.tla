------------------------------ MODULE UnitOfWork ------------------------------
(***************************************************************************)
(* The insert side of an ORM session on PostgreSQL, as the code uses it:   *)
(* objects are added to the session, a flush sends their INSERTs one at a  *)
(* time, and the session either commits or rolls back everything           *)
(* (src/src/database.py: async_session_factory with autoflush off,         *)
(* get_db_context commits on success and rolls back on any exception).     *)
(*                                                                         *)
(* A row is known by its unique key.  With a unique index an INSERT of a   *)
(* committed key raises IntegrityError, and an INSERT of a key that        *)
(* another open transaction has inserted waits for that transaction.       *)
(***************************************************************************)
EXTENDS Integers, Sequences

CONSTANTS Procs,   \* the sessions' owners
          Keys,    \* unique keys of the rows in play
          Unique   \* the table has the unique index

VARIABLES committed, \* key -> number of committed rows that carry it
          inserted,  \* owner -> keys inserted by its open transaction
          queue      \* owner -> INSERTs its flush has still to send
uow == <<committed, inserted, queue>>

UowTypeOK == /\ committed \in [Keys -> Nat]
             /\ inserted \in [Procs -> SUBSET Keys]
             /\ queue \in [Procs -> Seq(Keys)]

Stored == {k \in Keys : committed[k] > 0}

\* Mutation: a SELECT sees what other transactions have not committed yet.
VisibleDirty(p) == Stored \cup UNION {inserted[q] : q \in Procs}

\* What a SELECT of p returns under READ COMMITTED; with autoflush off the
\* objects still in the queue are not seen.
Visible(p) == Stored \cup inserted[p]

\* Mutation: the index knows the inserts of the transaction itself only.
DuplicateOfOwn(p) == Unique /\ queue[p] # << >> /\ Head(queue[p]) \in inserted[p]

Duplicate(p) == Unique /\ queue[p] # << >> /\ Head(queue[p]) \in Visible(p)
Waits(p, q) == /\ Unique /\ queue[p] # << >> /\ ~Duplicate(p)
               /\ p # q /\ Head(queue[p]) \in inserted[q]

\* Mutation: only cycles of two are noticed.
DeadlockedPair(p) == \E q \in Procs : Waits(p, q) /\ Waits(q, p)

\* p is on a cycle of waiting transactions; PostgreSQL then aborts one of them.
Deadlocked(p) ==
    \E S \in SUBSET Procs :
        /\ p \in S
        /\ \A x \in S : (\E y \in S : Waits(x, y)) /\ (\E y \in S : Waits(y, x))

Enqueue(p, keys) == queue' = [queue EXCEPT ![p] = keys]

Insert(p) ==
    /\ queue[p] # << >> /\ ~Duplicate(p)
    /\ \A q \in Procs : ~Waits(p, q)
    /\ inserted' = [inserted EXCEPT ![p] = @ \cup {Head(queue[p])}]
    /\ queue' = [queue EXCEPT ![p] = Tail(@)]
    /\ UNCHANGED committed

\* Mutation: the transaction is committed while INSERTs are outstanding.
CommitEarly(p) ==
    /\ committed' = [k \in Keys |-> IF k \in inserted[p] THEN committed[k] + 1 ELSE committed[k]]
    /\ inserted' = [inserted EXCEPT ![p] = {}]
    /\ queue' = [queue EXCEPT ![p] = << >>]

Commit(p) ==
    /\ queue[p] = << >>
    /\ committed' = [k \in Keys |-> IF k \in inserted[p] THEN committed[k] + 1 ELSE committed[k]]
    /\ inserted' = [inserted EXCEPT ![p] = {}]
    /\ UNCHANGED queue

\* The exception path of get_db_context, and what the server does when the
\* client goes away.
Rollback(p) ==
    /\ inserted' = [inserted EXCEPT ![p] = {}]
    /\ queue' = [queue EXCEPT ![p] = << >>]
    /\ UNCHANGED committed

-------------------------------------------------------------------------------
\* The strengthening under which the unique index does its work: what an open
\* transaction has inserted is its own, and nobody has committed it.
OneOwner ==
    /\ \A k \in Keys : committed[k] <= 1
    /\ \A p \in Procs : \A k \in inserted[p] :
          committed[k] = 0 /\ \A q \in Procs \ {p} : k \notin inserted[q]
===============================================================================
