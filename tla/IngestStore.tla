----------------------------- MODULE IngestStore ------------------------------
(***************************************************************************)
(* Persisting what ingest() returns.  Several workers are handed batches   *)
(* of one source; a batch is the sequence of distinct row hashes that      *)
(* ingest() keeps (module Ingest), in the order it keeps them.  A worker   *)
(* selects each in turn and adds it to the session if it is not there (the *)
(* idiom of seed_dev.py), then leaves get_db_context, which flushes,       *)
(* inserts in that order and commits.  Any exception rolls the whole batch *)
(* back, and the batch is delivered again.  The worker loop around         *)
(* ingest() is not in the repository: it is modelled from what ingest.py   *)
(* and database.py offer it.                                               *)
(***************************************************************************)
EXTENDS UnitOfWork, SequencesExt, FiniteSets

CONSTANTS Deliveries, \* [Procs -> sequence of batches]: what each worker is given
          MaxCrashes  \* bound on the worker crashes of a behaviour

\* A batch is a result of ingest(): no hash twice (Ingest!OnePerHash).
ASSUME DeliveriesAssumption ==
    /\ Deliveries \in [Procs -> Seq(Seq(Keys))]
    /\ \A w \in Procs : \A d \in DOMAIN Deliveries[w] : IsInjective(Deliveries[w][d])
ASSUME MaxCrashesAssumption == MaxCrashes \in Nat

VARIABLES pc,      \* worker -> "ready", "looking" or "flushing"
          hand,    \* worker -> index of the delivery in hand
          todo,    \* worker -> the hashes of it still to look up
          fresh,   \* worker -> the objects added to the session
          crashes
vars == <<uow, pc, hand, todo, fresh, crashes>>

Batch(w) == Deliveries[w][hand[w]]
HasWork(w) == hand[w] <= Len(Deliveries[w])

Init == /\ committed = [k \in Keys |-> 0]
        /\ inserted = [w \in Procs |-> {}] /\ queue = [w \in Procs |-> << >>]
        /\ pc = [w \in Procs |-> "ready"] /\ hand = [w \in Procs |-> 1]
        /\ todo = [w \in Procs |-> << >>] /\ fresh = [w \in Procs |-> << >>]
        /\ crashes = 0

Begin(w) ==
    /\ pc[w] = "ready" /\ HasWork(w)
    /\ todo' = [todo EXCEPT ![w] = Batch(w)]
    /\ pc' = [pc EXCEPT ![w] = "looking"]
    /\ UNCHANGED <<uow, hand, fresh, crashes>>

\* SELECT by (source_id, source_row_hash); session.add if nothing came back.
LookUp(w) ==
    /\ pc[w] = "looking" /\ todo[w] # << >>
    /\ fresh' = IF Head(todo[w]) \in Visible(w) THEN fresh
                ELSE [fresh EXCEPT ![w] = Append(@, Head(todo[w]))]
    /\ todo' = [todo EXCEPT ![w] = Tail(@)]
    /\ UNCHANGED <<uow, pc, hand, crashes>>

\* session.commit() starts with a flush of everything added.
StartFlush(w) ==
    /\ pc[w] = "looking" /\ todo[w] = << >>
    /\ Enqueue(w, fresh[w])
    /\ fresh' = [fresh EXCEPT ![w] = << >>]
    /\ pc' = [pc EXCEPT ![w] = "flushing"]
    /\ UNCHANGED <<committed, inserted, hand, todo, crashes>>

InsertRow(w) == /\ pc[w] = "flushing" /\ Insert(w)
                /\ UNCHANGED <<pc, hand, todo, fresh, crashes>>

\* The commit is the acknowledgement: the next delivery comes.
Acknowledge(w) ==
    /\ pc[w] = "flushing" /\ Commit(w)
    /\ pc' = [pc EXCEPT ![w] = "ready"]
    /\ hand' = [hand EXCEPT ![w] = @ + 1]
    /\ UNCHANGED <<todo, fresh, crashes>>

\* Back to the start of the same delivery with nothing kept.
Retry(w) == /\ Rollback(w)
            /\ pc' = [pc EXCEPT ![w] = "ready"]
            /\ todo' = [todo EXCEPT ![w] = << >>]
            /\ fresh' = [fresh EXCEPT ![w] = << >>]
            /\ UNCHANGED hand

IntegrityError(w) == /\ pc[w] = "flushing" /\ Duplicate(w)
                     /\ Retry(w) /\ UNCHANGED crashes

DeadlockDetected(w) == /\ pc[w] = "flushing" /\ Deadlocked(w)
                       /\ Retry(w) /\ UNCHANGED crashes

Crash(w) == /\ crashes < MaxCrashes /\ pc[w] # "ready"
            /\ Retry(w) /\ crashes' = crashes + 1

Progress(w) == \/ Begin(w) \/ LookUp(w) \/ StartFlush(w) \/ Acknowledge(w)
               \/ IntegrityError(w) \/ DeadlockDetected(w)
Next == \E w \in Procs : Progress(w) \/ InsertRow(w) \/ Crash(w)

\* A worker keeps running.  An INSERT that waits for a key is woken whenever
\* the other transaction ends, so it is not overtaken at that key for ever.
Fairness == \A w \in Procs :
                /\ WF_vars(Progress(w))
                /\ \A k \in Keys : SF_vars(InsertRow(w) /\ queue[w] # << >> /\ Head(queue[w]) = k)
Spec == Init /\ [][Next]_vars
FairSpec == Spec /\ Fairness

-------------------------------------------------------------------------------
TypeOK == /\ UowTypeOK
          /\ pc \in [Procs -> {"ready", "looking", "flushing"}]
          /\ hand \in [Procs -> Nat \ {0}]
          /\ \A w \in Procs : hand[w] <= Len(Deliveries[w]) + 1
          /\ todo \in [Procs -> Seq(Keys)] /\ fresh \in [Procs -> Seq(Keys)]
          /\ crashes \in 0..MaxCrashes

\* db/migrations/001_initial.sql:93-94 with ingest.py:5.  However lookups,
\* inserts, crashes and redeliveries of different workers interleave, at most
\* one row per (source_id, source_row_hash) is ever committed.
AtMostOneRow == \A k \in Keys : committed[k] <= 1

\* database.py:61-70.  A delivery that was acknowledged is stored completely,
\* also where its lookup skipped hashes that some other worker was to store.
AcknowledgedIsStored ==
    \A w \in Procs : \A d \in 1..(hand[w] - 1) : Range(Deliveries[w][d]) \subseteq Stored

\* database.py:66-69.  Rows appear only by the commit of a worker that then has
\* its whole batch in the table: no half of a batch is ever visible.
WholeBatches ==
    [][committed' # committed =>
        \E w \in Procs : /\ hand'[w] = hand[w] + 1
                         /\ Stored' = Stored \cup Range(Batch(w))]_vars

\* Every delivery is eventually stored and acknowledged, in spite of unique
\* violations, of batches that hold common rows in opposite orders, of crashes.
EveryDeliveryStored == <>(\A w \in Procs : ~HasWork(w))
===============================================================================
