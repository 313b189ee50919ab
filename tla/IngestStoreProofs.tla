-------------------------- MODULE IngestStoreProofs ---------------------------
(***************************************************************************)
(* With the unique index of db/migrations/001_initial.sql:93-94, for any   *)
(* workers, hashes, deliveries and number of crashes: no hash is stored    *)
(* twice, what is acknowledged is stored, batches are stored whole.        *)
(***************************************************************************)
EXTENDS IngestStore, TLAPS

(* The sequences of a session, and what the steps of a unit of work keep.  *)
LEMMA RangeEmpty == Range(<< >>) = {}
  BY DEF Range

LEMMA RangeAppend ==
    ASSUME NEW S, NEW s \in Seq(S), NEW x \in S
    PROVE  Append(s, x) \in Seq(S) /\ Range(Append(s, x)) = Range(s) \cup {x}
  <1>1. /\ DOMAIN Append(s, x) = 1..(Len(s) + 1) /\ DOMAIN s = 1..Len(s) /\ Len(s) \in Nat
        /\ Append(s, x)[Len(s) + 1] = x
        /\ \A i \in 1..Len(s) : Append(s, x)[i] = s[i]
    OBVIOUS
  <1> QED
    BY <1>1 DEF Range

LEMMA RangeHeadTail ==
    ASSUME NEW S, NEW s \in Seq(S), s # << >>
    PROVE  /\ Head(s) \in S /\ Tail(s) \in Seq(S)
           /\ Range(s) = {Head(s)} \cup Range(Tail(s))
  <1>1. /\ DOMAIN s = 1..Len(s) /\ Len(s) \in Nat /\ Len(s) > 0 /\ Head(s) = s[1]
        /\ DOMAIN Tail(s) = 1..(Len(s) - 1)
        /\ \A i \in 1..(Len(s) - 1) : Tail(s)[i] = s[i + 1]
    OBVIOUS
  <1>2. ASSUME NEW x \in Range(s) PROVE x \in {Head(s)} \cup Range(Tail(s))
    <2>1. PICK i \in 1..Len(s) : x = s[i]
      BY <1>1 DEF Range
    <2>2. CASE i # 1
      <3>1. i - 1 \in 1..(Len(s) - 1) /\ Tail(s)[i - 1] = x
        BY <1>1, <2>1, <2>2
      <3> QED
        BY <1>1, <3>1 DEF Range
    <2> QED
      BY <1>1, <2>1, <2>2
  <1>3. ASSUME NEW x \in {Head(s)} \cup Range(Tail(s)) PROVE x \in Range(s)
    BY <1>1, <1>3 DEF Range
  <1> QED
    BY <1>2, <1>3

-------------------------------------------------------------------------------
\* An INSERT takes a key that is nobody's: it waits for another transaction's
\* and it fails on a committed one.
LEMMA InsertKeepsOwner ==
    ASSUME UowTypeOK, OneOwner, Unique = TRUE, NEW p \in Procs, Insert(p)
    PROVE  /\ UowTypeOK' /\ OneOwner'
           /\ Head(queue[p]) \in Keys /\ Range(queue[p]) = {Head(queue[p])} \cup Range(Tail(queue[p]))
  <1> DEFINE k == Head(queue[p])
  <1>1. /\ queue[p] \in Seq(Keys) /\ queue[p] # << >>
        /\ k \in Keys /\ Tail(queue[p]) \in Seq(Keys)
        /\ Range(queue[p]) = {k} \cup Range(Tail(queue[p]))
    BY RangeHeadTail DEF UowTypeOK, Insert
  <1>2. k \notin Stored \cup inserted[p]
    BY <1>1 DEF Insert, Duplicate, Visible
  <1>3. committed[k] = 0
    BY <1>1, <1>2 DEF Stored, UowTypeOK
  <1>4. \A q \in Procs \ {p} : k \notin inserted[q]
    BY <1>1 DEF Insert, Waits
  <1>5. inserted' = [inserted EXCEPT ![p] = @ \cup {k}] /\ committed' = committed
    BY DEF Insert
  <1>6. UowTypeOK'
    BY <1>1, <1>5 DEF UowTypeOK, Insert
  <1>7. OneOwner'
    BY <1>3, <1>4, <1>5 DEF OneOwner, UowTypeOK
  <1> QED
    BY <1>1, <1>6, <1>7

LEMMA CommitKeepsOwner ==
    ASSUME UowTypeOK, OneOwner, NEW p \in Procs, Commit(p)
    PROVE  UowTypeOK' /\ OneOwner' /\ Stored' = Stored \cup inserted[p]
  <1>1. /\ inserted' = [inserted EXCEPT ![p] = {}] /\ queue' = queue
        /\ \A k \in Keys : committed'[k] = IF k \in inserted[p] THEN committed[k] + 1 ELSE committed[k]
        /\ committed' = [k \in Keys |-> IF k \in inserted[p] THEN committed[k] + 1 ELSE committed[k]]
    BY DEF Commit
  <1>2. UowTypeOK'
    BY <1>1 DEF UowTypeOK
  <1>3. OneOwner'
    BY <1>1 DEF OneOwner, UowTypeOK
  <1>4. Stored' = Stored \cup inserted[p]
    BY <1>1 DEF Stored, UowTypeOK
  <1> QED
    BY <1>2, <1>3, <1>4

LEMMA RollbackKeepsOwner ==
    ASSUME UowTypeOK, OneOwner, NEW p \in Procs, Rollback(p)
    PROVE  UowTypeOK' /\ OneOwner' /\ Stored' = Stored
  BY RangeEmpty DEF UowTypeOK, OneOwner, Rollback, Stored

LEMMA EnqueueKeepsType ==
    ASSUME UowTypeOK, NEW p \in Procs, NEW keys \in Seq(Keys), Enqueue(p, keys),
           UNCHANGED <<committed, inserted>>
    PROVE  UowTypeOK'
  BY DEF UowTypeOK, Enqueue

-------------------------------------------------------------------------------
(* The workers.                                                            *)

\* What a worker has dealt with so far is in the table; the rest of its batch
\* is still in its hands.
Linked(w) ==
    /\ pc[w] # "ready" => /\ HasWork(w)
                          /\ inserted[w] \subseteq Range(Batch(w))
                          /\ Range(queue[w]) \cup Range(fresh[w]) \cup Range(todo[w])
                                \subseteq Range(Batch(w))
    /\ pc[w] = "looking" =>
          Range(Batch(w)) \subseteq Stored \cup Range(todo[w]) \cup Range(fresh[w])
    /\ pc[w] = "flushing" =>
          Range(Batch(w)) \subseteq Stored \cup inserted[w] \cup Range(queue[w])
    /\ pc[w] # "flushing" => inserted[w] = {} /\ queue[w] = << >>
    /\ pc[w] # "looking" => todo[w] = << >> /\ fresh[w] = << >>

IInv == TypeOK /\ OneOwner /\ (\A w \in Procs : Linked(w)) /\ AcknowledgedIsStored

LEMMA BatchType ==
    ASSUME TypeOK, NEW w \in Procs, HasWork(w)
    PROVE  Batch(w) \in Seq(Keys) /\ hand[w] \in Nat /\ hand[w] <= Len(Deliveries[w])
  <1>1. Deliveries[w] \in Seq(Seq(Keys))
    BY DeliveriesAssumption
  <1>2. hand[w] \in 1..Len(Deliveries[w])
    BY <1>1 DEF TypeOK, HasWork
  <1> QED
    BY <1>1, <1>2 DEF Batch

\* A worker that does not move keeps its link: the table only grows.
LEMMA OthersKeepLink ==
    ASSUME NEW q \in Procs, Linked(q), Stored \subseteq Stored',
           pc'[q] = pc[q], hand'[q] = hand[q], todo'[q] = todo[q], fresh'[q] = fresh[q],
           inserted'[q] = inserted[q], queue'[q] = queue[q]
    PROVE  Linked(q)'
  BY DEF Linked, HasWork, Batch

\* Nothing acknowledged is lost where the table only grows.
LEMMA KeepsAcknowledged ==
    ASSUME AcknowledgedIsStored, Stored \subseteq Stored', hand' = hand
    PROVE  AcknowledgedIsStored'
  BY DEF AcknowledgedIsStored

-------------------------------------------------------------------------------
LEMMA InitEstablishes == Init => IInv
  <1> SUFFICES ASSUME Init PROVE IInv
    OBVIOUS
  <1>1. TypeOK
    <2>1. ASSUME NEW w \in Procs PROVE Len(Deliveries[w]) \in Nat
      <3>1. Deliveries[w] \in Seq(Seq(Keys))
        BY DeliveriesAssumption
      <3> QED
        BY <3>1
    <2> QED
      BY <2>1, MaxCrashesAssumption DEF Init, TypeOK, UowTypeOK
  <1>2. OneOwner
    BY DEF Init, OneOwner
  <1>3. \A w \in Procs : Linked(w)
    BY RangeEmpty DEF Init, Linked
  <1>4. AcknowledgedIsStored
    BY DEF Init, AcknowledgedIsStored
  <1> QED
    BY <1>1, <1>2, <1>3, <1>4 DEF IInv

LEMMA BeginKeeps ==
    ASSUME IInv, NEW w \in Procs, Begin(w) PROVE IInv'
  <1> USE DEF IInv
  <1>1. Batch(w) \in Seq(Keys)
    BY BatchType DEF Begin
  <1>2. Stored' = Stored /\ OneOwner'
    BY DEF Begin, Stored, OneOwner, uow
  <1>3. TypeOK'
    BY <1>1 DEF Begin, TypeOK, UowTypeOK, uow
  <1>4. Linked(w)'
    BY <1>1, <1>2, RangeEmpty DEF Begin, Linked, HasWork, Batch, TypeOK, uow
  <1>5. \A q \in Procs \ {w} : Linked(q)'
    BY <1>2, OthersKeepLink DEF Begin, TypeOK, uow
  <1> QED
    BY <1>2, <1>3, <1>4, <1>5, KeepsAcknowledged DEF Begin

LEMMA LookUpKeeps ==
    ASSUME IInv, NEW w \in Procs, LookUp(w) PROVE IInv'
  <1> USE DEF IInv
  <1> DEFINE k == Head(todo[w])
  <1>1. /\ todo[w] \in Seq(Keys) /\ fresh[w] \in Seq(Keys) /\ k \in Keys
        /\ Tail(todo[w]) \in Seq(Keys) /\ Range(todo[w]) = {k} \cup Range(Tail(todo[w]))
        /\ Append(fresh[w], k) \in Seq(Keys)
        /\ Range(Append(fresh[w], k)) = Range(fresh[w]) \cup {k}
    BY RangeHeadTail, RangeAppend DEF LookUp, TypeOK
  <1>2. Stored' = Stored /\ OneOwner'
    BY DEF LookUp, Stored, OneOwner, uow
  <1>3. TypeOK'
    BY <1>1 DEF LookUp, TypeOK, UowTypeOK, uow
  <1>4. /\ pc[w] = "looking" /\ pc' = pc /\ hand' = hand /\ inserted' = inserted /\ queue' = queue
        /\ todo'[w] = Tail(todo[w])
        /\ fresh'[w] = IF k \in Stored \cup inserted[w] THEN fresh[w] ELSE Append(fresh[w], k)
    BY DEF LookUp, TypeOK, uow, Visible
  <1>5. Linked(w)'
    BY <1>1, <1>2, <1>4 DEF Linked, HasWork, Batch
  <1>6. \A q \in Procs \ {w} : Linked(q)'
    BY <1>2, OthersKeepLink DEF LookUp, TypeOK, uow
  <1> QED
    BY <1>2, <1>3, <1>4, <1>5, <1>6, KeepsAcknowledged

LEMMA StartFlushKeeps ==
    ASSUME IInv, NEW w \in Procs, StartFlush(w) PROVE IInv'
  <1> USE DEF IInv
  <1>1. UowTypeOK'
    BY EnqueueKeepsType DEF StartFlush, TypeOK
  <1>2. Stored' = Stored /\ OneOwner'
    BY DEF StartFlush, Stored, OneOwner
  <1>3. TypeOK'
    BY <1>1 DEF StartFlush, TypeOK
  <1>4. /\ pc[w] = "looking" /\ pc'[w] = "flushing" /\ queue'[w] = fresh[w]
        /\ todo[w] = << >> /\ todo' = todo /\ fresh'[w] = << >>
        /\ hand' = hand /\ inserted' = inserted
    BY DEF StartFlush, TypeOK, UowTypeOK, Enqueue
  <1>5. Linked(w)'
    BY <1>2, <1>4, RangeEmpty DEF Linked, HasWork, Batch
  <1>6. \A q \in Procs \ {w} : Linked(q)'
    BY <1>2, OthersKeepLink DEF StartFlush, Enqueue, TypeOK, UowTypeOK
  <1> QED
    BY <1>2, <1>3, <1>4, <1>5, <1>6, KeepsAcknowledged

LEMMA InsertRowKeeps ==
    ASSUME IInv, Unique = TRUE, NEW w \in Procs, InsertRow(w) PROVE IInv'
  <1> USE DEF IInv
  <1>1. /\ UowTypeOK' /\ OneOwner'
        /\ Head(queue[w]) \in Keys /\ Range(queue[w]) = {Head(queue[w])} \cup Range(Tail(queue[w]))
    BY InsertKeepsOwner DEF InsertRow, TypeOK
  <1>2. Stored' = Stored
    BY DEF InsertRow, Insert, Stored
  <1>3. TypeOK'
    BY <1>1 DEF InsertRow, TypeOK
  <1>4. /\ pc[w] = "flushing" /\ pc' = pc /\ hand' = hand /\ todo' = todo /\ fresh' = fresh
        /\ queue'[w] = Tail(queue[w]) /\ inserted'[w] = inserted[w] \cup {Head(queue[w])}
    BY DEF InsertRow, Insert, TypeOK, UowTypeOK
  <1>5. Linked(w)'
    BY <1>1, <1>2, <1>4 DEF Linked, HasWork, Batch
  <1>6. \A q \in Procs \ {w} : Linked(q)'
    BY <1>2, OthersKeepLink DEF InsertRow, Insert, TypeOK, UowTypeOK
  <1> QED
    BY <1>1, <1>2, <1>3, <1>4, <1>5, <1>6, KeepsAcknowledged

LEMMA AcknowledgeKeeps ==
    ASSUME IInv, NEW w \in Procs, Acknowledge(w)
    PROVE  IInv' /\ hand'[w] = hand[w] + 1 /\ Stored' = Stored \cup Range(Batch(w))
  <1> USE DEF IInv
  <1>1. UowTypeOK' /\ OneOwner' /\ Stored' = Stored \cup inserted[w]
    BY CommitKeepsOwner DEF Acknowledge, TypeOK
  <1>2. /\ pc[w] = "flushing" /\ pc'[w] = "ready" /\ queue[w] = << >> /\ queue' = queue
        /\ inserted'[w] = {} /\ todo' = todo /\ fresh' = fresh
    BY DEF Acknowledge, Commit, TypeOK, UowTypeOK
  <1>3. /\ HasWork(w) /\ hand[w] \in Nat /\ hand[w] + 1 <= Len(Deliveries[w]) + 1
    <2>1. HasWork(w)
      BY <1>2 DEF Linked
    <2>2. Deliveries[w] \in Seq(Seq(Keys))
      BY DeliveriesAssumption
    <2> QED
      BY <2>1, <2>2, BatchType DEF HasWork
  <1>4. hand'[w] = hand[w] + 1 /\ \A q \in Procs \ {w} : hand'[q] = hand[q]
    <2>1. hand' = [hand EXCEPT ![w] = @ + 1]
      BY DEF Acknowledge
    <2> QED
      BY <2>1, <1>3 DEF TypeOK
  <1>5. Range(Batch(w)) \subseteq Stored \cup inserted[w] /\ inserted[w] \subseteq Range(Batch(w))
    BY <1>2, RangeEmpty DEF Linked
  <1>6. Stored' = Stored \cup Range(Batch(w))
    BY <1>1, <1>5
  <1>7. TypeOK'
    BY <1>1, <1>3, <1>4 DEF Acknowledge, TypeOK
  <1>8. \A q \in Procs : Linked(q)'
    <2>1. Linked(w)'
      BY <1>2 DEF Linked
    <2>2. \A q \in Procs \ {w} : Linked(q)'
      BY <1>1, <1>4, OthersKeepLink DEF Acknowledge, Commit, TypeOK, UowTypeOK
    <2> QED
      BY <2>1, <2>2
  <1>9. AcknowledgedIsStored'
    <2> SUFFICES ASSUME NEW q \in Procs, NEW d \in 1..(hand'[q] - 1)
                 PROVE  Range(Deliveries[q][d]) \subseteq Stored'
      BY DEF AcknowledgedIsStored
    <2>1. CASE q = w /\ d = hand[w]
      BY <2>1, <1>6 DEF Batch
    <2>2. CASE ~(q = w /\ d = hand[w])
      <3>1. d \in 1..(hand[q] - 1)
        BY <2>2, <1>3, <1>4
      <3> QED
        BY <3>1, <1>6 DEF AcknowledgedIsStored
    <2> QED
      BY <2>1, <2>2
  <1> QED
    BY <1>1, <1>4, <1>6, <1>7, <1>8, <1>9

LEMMA RetryKeeps ==
    ASSUME IInv, NEW w \in Procs, Retry(w), crashes' \in 0..MaxCrashes
    PROVE  IInv' /\ Stored' = Stored
  <1> USE DEF IInv
  <1>1. UowTypeOK' /\ OneOwner' /\ Stored' = Stored
    BY RollbackKeepsOwner DEF Retry, TypeOK
  <1>2. TypeOK'
    BY <1>1 DEF Retry, TypeOK
  <1>3. Linked(w)'
    BY DEF Retry, Rollback, Linked, TypeOK, UowTypeOK
  <1>4. \A q \in Procs \ {w} : Linked(q)'
    BY <1>1, OthersKeepLink DEF Retry, Rollback, TypeOK, UowTypeOK
  <1> QED
    BY <1>1, <1>2, <1>3, <1>4, KeepsAcknowledged DEF Retry

-------------------------------------------------------------------------------
\* Every step keeps the invariant, and the table changes only as it should.
LEMMA StepKeeps ==
    ASSUME Unique = TRUE, IInv, [Next]_vars
    PROVE  /\ IInv'
           /\ committed' # committed =>
                 \E w \in Procs : hand'[w] = hand[w] + 1 /\ Stored' = Stored \cup Range(Batch(w))
  <1>1. ASSUME NEW w \in Procs, Begin(w) PROVE IInv' /\ committed' = committed
    BY <1>1, BeginKeeps DEF Begin, uow
  <1>2. ASSUME NEW w \in Procs, LookUp(w) PROVE IInv' /\ committed' = committed
    BY <1>2, LookUpKeeps DEF LookUp, uow
  <1>3. ASSUME NEW w \in Procs, StartFlush(w) PROVE IInv' /\ committed' = committed
    BY <1>3, StartFlushKeeps DEF StartFlush
  <1>4. ASSUME NEW w \in Procs, InsertRow(w) PROVE IInv' /\ committed' = committed
    BY <1>4, InsertRowKeeps DEF InsertRow, Insert
  <1>5. ASSUME NEW w \in Procs, Acknowledge(w)
        PROVE  IInv' /\ hand'[w] = hand[w] + 1 /\ Stored' = Stored \cup Range(Batch(w))
    BY <1>5, AcknowledgeKeeps
  <1>6. ASSUME NEW w \in Procs, IntegrityError(w) \/ DeadlockDetected(w) \/ Crash(w)
        PROVE  IInv' /\ committed' = committed
    <2>1. crashes' \in 0..MaxCrashes /\ Retry(w)
      BY <1>6, MaxCrashesAssumption DEF IntegrityError, DeadlockDetected, Crash, IInv, TypeOK
    <2> QED
      BY <2>1, RetryKeeps DEF Retry, Rollback
  <1>7. CASE UNCHANGED vars
    BY <1>7 DEF vars, uow, IInv, TypeOK, UowTypeOK, OneOwner, Linked, HasWork, Batch, Stored,
                AcknowledgedIsStored
  <1>8. CASE Next
    <2>1. PICK w \in Procs : Progress(w) \/ InsertRow(w) \/ Crash(w)
      BY <1>8 DEF Next
    <2> QED
      BY <2>1, <1>1, <1>2, <1>3, <1>4, <1>5, <1>6 DEF Progress
  <1> QED
    BY <1>7, <1>8

\* Type correctness of the workers and of their sessions (database.py:61-70),
\* of which the other theorems make use.
THEOREM TypeCorrect == ASSUME Unique = TRUE PROVE Spec => []TypeOK
  <1>1. IInv /\ [Next]_vars => IInv'
    BY StepKeeps
  <1>2. IInv => TypeOK
    BY DEF IInv
  <1> QED
    BY InitEstablishes, <1>1, <1>2, PTL DEF Spec

\* db/migrations/001_initial.sql:93-94: however many workers ingest whatever
\* batches, a (source_id, source_row_hash) is committed at most once.
THEOREM StoresAtMostOnce == ASSUME Unique = TRUE PROVE Spec => []AtMostOneRow
  <1>1. IInv /\ [Next]_vars => IInv'
    BY StepKeeps
  <1>2. IInv => AtMostOneRow
    BY DEF IInv, OneOwner, AtMostOneRow
  <1> QED
    BY InitEstablishes, <1>1, <1>2, PTL DEF Spec

\* database.py:61-70: an acknowledged delivery is in the table, also the rows
\* of it that were skipped because another worker had them.
THEOREM AcknowledgesWhatIsStored == ASSUME Unique = TRUE PROVE Spec => []AcknowledgedIsStored
  <1>1. IInv /\ [Next]_vars => IInv'
    BY StepKeeps
  <1>2. IInv => AcknowledgedIsStored
    BY DEF IInv
  <1> QED
    BY InitEstablishes, <1>1, <1>2, PTL DEF Spec

\* database.py:66-69: the table only ever grows by whole batches.
THEOREM StoresWholeBatches == ASSUME Unique = TRUE PROVE Spec => WholeBatches
  <1>1. IInv /\ [Next]_vars => IInv'
    BY StepKeeps
  <1>2. IInv /\ [Next]_vars =>
          [committed' # committed =>
             \E w \in Procs : /\ hand'[w] = hand[w] + 1
                              /\ Stored' = Stored \cup Range(Batch(w))]_vars
    BY StepKeeps
  <1> QED
    BY InitEstablishes, <1>1, <1>2, PTL DEF Spec, WholeBatches
===============================================================================
