-------------------------------- MODULE Ingest --------------------------------
(***************************************************************************)
(* ingest() of src/app/orchestrator/ingest.py as a loop over the rows it   *)
(* is given, called again and again.  One step is one turn of the loop.    *)
(* A raw row may hold a key that is not a string (csv.DictReader files the *)
(* surplus cells of a long line under None): normalise_row then raises     *)
(* and the call returns nothing.                                           *)
(***************************************************************************)
EXTENDS RowKey

CONSTANTS Sources,   \* source ids, as texts
          RawRows,   \* the rows a source may deliver
          Batches,   \* the row sequences a call may be given
          NoneKey,   \* a key that is not a string
          SourceCol, HashCol,   \* the keys "source_id" and "source_row_hash"
          MaxCalls   \* bound on the calls of a behaviour

Readable(raw) == \A i \in DOMAIN raw : raw[i].key # NoneKey
ASSUME RawRowsAssumption ==
    RawRows \subseteq Seq([key : Text, value : [type : STRING, text : Text]])
ASSUME KeysAssumption ==
    \A raw \in RawRows : Readable(raw) => DOMAIN normalise_row(raw) \subseteq Range(SortedKeys)
ASSUME SourcesAssumption == Sources \subseteq Text
ASSUME BatchesAssumption == Batches \subseteq Seq(RawRows)
ASSUME MaxCallsAssumption == MaxCalls \in Nat

VARIABLES calls,      \* calls begun so far
          pc,         \* "reading" while a call is in its loop, else "idle"
          source_id, rows, \* the arguments of the latest call
          n,          \* rows[1..n] have been read
          seen_hashes, new_rows,
          returned    \* every completed call: its source and its result
vars == <<calls, pc, source_id, rows, n, seen_hashes, new_rows, returned>>

Hash(i) == compute_source_row_hash(source_id, normalise_row(rows[i]))

\* {**norm, "source_id": source_id, "source_row_hash": h}
Output(source, h, norm) ==
    [k \in DOMAIN norm \cup {SourceCol, HashCol} |->
        IF k = HashCol THEN Str(h) ELSE IF k = SourceCol THEN Str(source) ELSE norm[k]]

HashOf(new_row) == new_row[HashCol].text

Init == /\ calls = 0 /\ pc = "idle"
        /\ source_id \in Sources /\ rows = << >> /\ n = 0
        /\ seen_hashes = {} /\ new_rows = << >> /\ returned = << >>

Call(s, batch) ==
    /\ pc = "idle" /\ calls < MaxCalls
    /\ calls' = calls + 1 /\ pc' = "reading"
    /\ source_id' = s /\ rows' = batch /\ n' = 0
    /\ seen_hashes' = {} /\ new_rows' = << >>
    /\ UNCHANGED returned

Turn == /\ pc = "reading" /\ n < Len(rows) /\ Readable(rows[n + 1])
        /\ n' = n + 1
        /\ UNCHANGED <<calls, pc, source_id, rows, returned>>

SkipSeen == /\ Turn
            /\ Hash(n + 1) \in seen_hashes
            /\ UNCHANGED <<seen_hashes, new_rows>>

\* Mutations: the hash is not remembered; the row goes to the wrong end.
KeepNewUnmarked ==
    /\ Turn /\ Hash(n + 1) \notin seen_hashes
    /\ new_rows' = Append(new_rows, Output(source_id, Hash(n + 1), normalise_row(rows[n + 1])))
    /\ UNCHANGED seen_hashes
KeepNewInFront ==
    /\ Turn /\ Hash(n + 1) \notin seen_hashes
    /\ seen_hashes' = seen_hashes \cup {Hash(n + 1)}
    /\ new_rows' = <<Output(source_id, Hash(n + 1), normalise_row(rows[n + 1]))>> \o new_rows

KeepNew == /\ Turn
           /\ Hash(n + 1) \notin seen_hashes
           /\ seen_hashes' = seen_hashes \cup {Hash(n + 1)}
           /\ new_rows' = Append(new_rows,
                 Output(source_id, Hash(n + 1), normalise_row(rows[n + 1])))

\* None.strip() raises AttributeError out of the loop: the locals are gone.
Raise == /\ pc = "reading" /\ n < Len(rows) /\ ~Readable(rows[n + 1])
         /\ pc' = "idle" /\ seen_hashes' = {} /\ new_rows' = << >> /\ n' = 0
         /\ UNCHANGED <<calls, source_id, rows, returned>>

Return == /\ pc = "reading" /\ n = Len(rows)
          /\ pc' = "idle"
          /\ returned' = Append(returned, [source |-> source_id, rows |-> new_rows])
          /\ UNCHANGED <<calls, source_id, rows, n, seen_hashes, new_rows>>

Next == \/ \E s \in Sources, batch \in Batches : Call(s, batch)
        \/ SkipSeen \/ KeepNew \/ Raise \/ Return

Spec == Init /\ [][Next]_vars

-------------------------------------------------------------------------------
\* Every row a call can return, and the types of the state: the index stays
\* inside the batch and everything kept or returned is some raw row normalised.
NewRow == {Output(s, compute_source_row_hash(s, normalise_row(raw)), normalise_row(raw)) :
             s \in Sources, raw \in RawRows}
NewHash == {HashOf(r) : r \in NewRow}
Result == [source : Sources, rows : Seq(NewRow)]
TypeOK == /\ calls \in 0..MaxCalls /\ pc \in {"idle", "reading"}
          /\ source_id \in Sources /\ rows \in Seq(RawRows) /\ n \in 0..Len(rows)
          /\ seen_hashes \subseteq NewHash
          /\ new_rows \in Seq(NewRow)
          /\ returned \in Seq(Result)

\* ingest.py:57-68.  What the loop has kept is exactly one row per distinct
\* hash among the rows it has read, no more and no fewer.
OnePerHash ==
    /\ \A a, b \in DOMAIN new_rows : HashOf(new_rows[a]) = HashOf(new_rows[b]) => a = b
    /\ {HashOf(new_rows[a]) : a \in DOMAIN new_rows} = {Hash(i) : i \in 1..n}

\* ingest.py:64-67.  Each kept row is the earliest of the rows with its hash,
\* and the kept rows are in the order in which their hashes first appeared:
\* everything read before row a's origin differs from a and from all after it.
FirstOccurrences ==
    \A a \in DOMAIN new_rows : \E i \in 1..n :
        /\ new_rows[a] = Output(source_id, Hash(i), normalise_row(rows[i]))
        /\ \A j \in 1..(i - 1), b \in a..Len(new_rows) : Hash(j) # HashOf(new_rows[b])

DelimiterFree(row) ==
    \A k \in DOMAIN row : \A t \in Range(k) \cup Range(row[k].text) : t \notin {"|", "="}

\* ingest.py:23-27.  Among rows without delimiters in their keys and values the
\* key is exact: two rows share it only when they have the same columns and
\* each column renders the same.
HashSeparates ==
    \A i, j \in 1..n :
        LET p == normalise_row(rows[i])
            q == normalise_row(rows[j])
        IN  (DelimiterFree(p) /\ DelimiterFree(q) /\ Hash(i) = Hash(j)) =>
                /\ DOMAIN p = DOMAIN q
                /\ \A k \in DOMAIN p : p[k].text = q[k].text

\* The items of a normalised row in some order of its columns.
Items(row, ks) == [i \in DOMAIN ks |-> [key |-> ks[i], value |-> row[ks[i]]]]

\* ingest.py:30-54.  Normalising is idempotent, whatever the order of the
\* columns: a normalised row that is handed in again (its two added columns
\* aside) normalises to itself, so it gets the same key.
NormalisedOnce ==
    \A i \in 1..n :
        LET norm == normalise_row(rows[i])
        IN  \A ks \in SetToSeqs(DOMAIN norm) : normalise_row(Items(norm, ks)) = norm
===============================================================================
