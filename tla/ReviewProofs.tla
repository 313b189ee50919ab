----------------------------- MODULE ReviewProofs -----------------------------
(***************************************************************************)
(* Review for any number of suggestions, reviewers, processes and          *)
(* decisions, which nobody keeps from overlapping: every state is          *)
(* explained, no suggestion returns to the queue, the state of each can be *)
(* told from the log, and the module implements AuditedRegister.  Then     *)
(* Workers for any number of threads: the Celery app settles.  Then        *)
(* Dispatch, for any number of roles, processes, changes of the grants and *)
(* copies of a task: a permission that is taken away is missed at most     *)
(* once by each process.                                                   *)
(***************************************************************************)
EXTENDS Dispatch, FiniteSetTheorems, TLAPS

\* What a reviewer has in hand was once the row, and the row only moves away
\* from the queue; what was decided is what review.py computes from it.
Held(p) ==
    /\ pc[p] # "idle" =>
          /\ loaded[p] \in [id : Suggestions, row : Row]
          /\ suggestions[loaded[p].id] # Absent
          /\ suggestions[loaded[p].id].confidence = loaded[p].row.confidence
          /\ loaded[p].row.state # "pending_review" =>
                suggestions[loaded[p].id].state # "pending_review"
    /\ pc[p] = "decided" => \E decision \in Decisions, r \in Reviewers :
          /\ updated[p].row = [loaded[p].row EXCEPT !.state = NewState(decision), !.reviewer_id = r]
          /\ entry[p] = audit_trail_entry(loaded[p].id, loaded[p].row, decision, r)

Base == TypeOK /\ \A p \in Processes : Held(p)

LEMMA FlushColumns ==
    ASSUME NEW current \in Row, NEW old \in Row, NEW new \in Row
    PROVE  LET row == Flush(current, old, new) IN
           /\ row \in Row
           /\ row.state = IF new.state # old.state THEN new.state ELSE current.state
           /\ row.confidence = IF new.confidence # old.confidence THEN new.confidence
                               ELSE current.confidence
           /\ row.reviewer_id = IF new.reviewer_id # old.reviewer_id THEN new.reviewer_id
                                ELSE current.reviewer_id
  BY DEF Flush, Row

LEMMA ProposedRow ==
    ASSUME NEW confidence \in Confidences
    PROVE  /\ make_suggestion(confidence) \in Row
           /\ make_suggestion(confidence).confidence = confidence
           /\ make_suggestion(confidence).reviewer_id = NoOne
           /\ make_suggestion(confidence).state =
                 IF should_auto_approve(confidence) THEN "approved" ELSE "pending_review"
  BY DEF make_suggestion, Row, States

\* Everything a commit does, in one place.
Committed(p, r, decision, s, row, new) ==
    /\ s \in Suggestions /\ s = loaded[p].id /\ pc[p] = "decided"
    /\ suggestions[s] \in Row /\ loaded[p].row \in Row /\ row \in Row
    /\ suggestions' = [suggestions EXCEPT ![s] = row]
    /\ row.state = IF NewState(decision) # loaded[p].row.state THEN NewState(decision)
                   ELSE suggestions[s].state
    /\ row.reviewer_id = IF r # loaded[p].row.reviewer_id THEN r ELSE suggestions[s].reviewer_id
    /\ row.confidence = suggestions[s].confidence
    /\ row.state # "pending_review"
    /\ new = [resource_id |-> s, action |-> decision, actor_id |-> r,
              before |-> loaded[p].row.state, after |-> NewState(decision)]
    /\ new \in Entry
    /\ audit_logs' = Append(audit_logs, new)

LEMMA CommitEffect ==
    ASSUME Base, NEW p \in Processes, CommitDecision(p)
    PROVE  \E r \in Reviewers, decision \in Decisions, s \in Suggestions, row \in Row, new \in Entry :
              Committed(p, r, decision, s, row, new)
  <1> DEFINE s == loaded[p].id
             old == loaded[p].row
             row == Flush(suggestions[s], old, updated[p].row)
  <1>1. pc[p] = "decided" /\ Held(p)
    BY DEF CommitDecision, Base
  <1>2. PICK decision \in Decisions, r \in Reviewers :
          /\ updated[p].row = [old EXCEPT !.state = NewState(decision), !.reviewer_id = r]
          /\ entry[p] = audit_trail_entry(s, old, decision, r)
    BY <1>1 DEF Held
  <1>3. /\ s \in Suggestions /\ old \in Row /\ suggestions[s] \in Row
        /\ suggestions[s].confidence = old.confidence
        /\ old.state # "pending_review" => suggestions[s].state # "pending_review"
    BY <1>1 DEF Held, Base, TypeOK
  <1>4. NewState(decision) \in {"approved", "rejected"}
    BY DEF NewState
  <1>5. /\ updated[p].row \in Row /\ updated[p].row.state = NewState(decision)
        /\ updated[p].row.reviewer_id = r /\ updated[p].row.confidence = old.confidence
    BY <1>2, <1>3, <1>4 DEF Row, States
  <1>6. /\ row \in Row
        /\ row.state = IF NewState(decision) # old.state THEN NewState(decision)
                       ELSE suggestions[s].state
        /\ row.reviewer_id = IF r # old.reviewer_id THEN r ELSE suggestions[s].reviewer_id
        /\ row.confidence = suggestions[s].confidence
    <2> HIDE DEF s, old
    <2> QED
      BY <1>3, <1>5, FlushColumns
  <1>7. row.state # "pending_review"
    BY <1>3, <1>4, <1>6
  <1>8. /\ entry[p] = [resource_id |-> s, action |-> decision, actor_id |-> r,
                       before |-> old.state, after |-> NewState(decision)]
        /\ entry[p] \in Entry
    BY <1>2, <1>3, <1>4 DEF audit_trail_entry, Entry, Row
  <1>9. suggestions' = [suggestions EXCEPT ![s] = row] /\ audit_logs' = Append(audit_logs, entry[p])
    BY DEF CommitDecision
  <1>10. Committed(p, r, decision, s, row, entry[p])
    <2> HIDE DEF row
    <2> QED
      BY <1>1, <1>3, <1>6, <1>7, <1>8, <1>9 DEF Committed
  <1> HIDE DEF s, row
  <1> QED
    BY <1>3, <1>6, <1>8, <1>10

\* Appending an entry.
LEMMA Appended ==
    ASSUME TypeOK, NEW new \in Entry, audit_logs' = Append(audit_logs, new)
    PROVE  /\ audit_logs' \in Seq(Entry) /\ Len(audit_logs) \in Nat
           /\ DOMAIN audit_logs = 1..Len(audit_logs)
           /\ DOMAIN audit_logs' = 1..(Len(audit_logs) + 1)
           /\ audit_logs'[Len(audit_logs) + 1] = new
           /\ \A i \in 1..Len(audit_logs) : audit_logs'[i] = audit_logs[i]
  BY DEF TypeOK

-------------------------------------------------------------------------------
LEMMA BaseInit == Init => Base
  BY DEF Init, Base, TypeOK, Held

\* A row that moves only away from the queue does not disturb who holds it.
LEMMA OthersHold ==
    ASSUME Base, NEW q \in Processes,
           pc'[q] = pc[q], loaded'[q] = loaded[q], updated'[q] = updated[q], entry'[q] = entry[q],
           \A s \in Suggestions : suggestions[s] # Absent =>
              /\ suggestions'[s] # Absent
              /\ suggestions'[s].confidence = suggestions[s].confidence
              /\ suggestions[s].state # "pending_review" => suggestions'[s].state # "pending_review"
    PROVE  Held(q)'
  <1>1. Held(q)
    BY DEF Base
  <1>2. CASE pc[q] = "idle"
    BY <1>2 DEF Held
  <1>3. CASE pc[q] # "idle"
    <2>1. /\ loaded[q] \in [id : Suggestions, row : Row]
          /\ suggestions[loaded[q].id] # Absent
          /\ suggestions[loaded[q].id].confidence = loaded[q].row.confidence
          /\ loaded[q].row.state # "pending_review" =>
                suggestions[loaded[q].id].state # "pending_review"
      BY <1>1, <1>3 DEF Held
    <2>2. loaded[q].id \in Suggestions
      BY <2>1
    <2>3. /\ suggestions'[loaded[q].id] # Absent
          /\ suggestions'[loaded[q].id].confidence = loaded[q].row.confidence
          /\ loaded[q].row.state # "pending_review" =>
                suggestions'[loaded[q].id].state # "pending_review"
      BY <2>1, <2>2
    <2>4. pc[q] = "decided" => \E decision \in Decisions, r \in Reviewers :
          /\ updated[q].row = [loaded[q].row EXCEPT !.state = NewState(decision), !.reviewer_id = r]
          /\ entry[q] = audit_trail_entry(loaded[q].id, loaded[q].row, decision, r)
      BY <1>1 DEF Held
    <2>5. /\ loaded'[q] \in [id : Suggestions, row : Row]
          /\ suggestions'[loaded'[q].id] # Absent
          /\ suggestions'[loaded'[q].id].confidence = loaded'[q].row.confidence
          /\ loaded'[q].row.state # "pending_review" =>
                suggestions'[loaded'[q].id].state # "pending_review"
      BY <2>1, <2>3
    <2>6. CASE pc[q] = "decided"
      <3>1. PICK decision \in Decisions, r \in Reviewers :
            /\ updated[q].row = [loaded[q].row EXCEPT !.state = NewState(decision), !.reviewer_id = r]
            /\ entry[q] = audit_trail_entry(loaded[q].id, loaded[q].row, decision, r)
        BY <2>4, <2>6
      <3>2. /\ updated'[q].row = [loaded'[q].row EXCEPT !.state = NewState(decision), !.reviewer_id = r]
            /\ entry'[q] = audit_trail_entry(loaded'[q].id, loaded'[q].row, decision, r)
        BY <3>1
      <3> QED
        BY <2>5, <3>2 DEF Held, audit_trail_entry
    <2>7. CASE pc[q] # "decided"
      BY <2>5, <2>7 DEF Held
    <2> QED
      BY <2>6, <2>7
  <1> QED
    BY <1>2, <1>3

\* What Next does to the table and to the log, step by step.
LEMMA BaseStep ==
    ASSUME Base, [Next]_vars
    PROVE  /\ Base'
           /\ \A s \in Suggestions : suggestions[s] # Absent =>
                 /\ suggestions'[s] # Absent
                 /\ suggestions'[s].confidence = suggestions[s].confidence
                 /\ suggestions[s].state # "pending_review" =>
                       suggestions'[s].state # "pending_review"
  <1> USE DEF Base
  <1>1. ASSUME NEW s \in Suggestions, NEW confidence \in Confidences, Propose(s, confidence)
        PROVE  /\ TypeOK'
               /\ \A q \in Processes : /\ pc'[q] = pc[q] /\ loaded'[q] = loaded[q]
                                       /\ updated'[q] = updated[q] /\ entry'[q] = entry[q]
               /\ \A x \in Suggestions : suggestions[x] # Absent => suggestions'[x] = suggestions[x]
    BY <1>1, ProposedRow DEF Propose, TypeOK
  <1>2. ASSUME NEW p \in Processes, NEW s \in Suggestions, Load(p, s)
        PROVE  Base' /\ suggestions' = suggestions
    <2>1. suggestions[s] \in Row /\ [id |-> s, row |-> suggestions[s]] \in [id : Suggestions, row : Row]
      BY <1>2 DEF Load, TypeOK
    <2>2. TypeOK'
      BY <1>2, <2>1 DEF Load, TypeOK
    <2>3. Held(p)'
      BY <1>2, <2>1 DEF Load, Held, TypeOK
    <2>4. \A q \in Processes \ {p} : Held(q)'
      BY <1>2, OthersHold DEF Load, TypeOK
    <2> QED
      BY <1>2, <2>2, <2>3, <2>4 DEF Load
  <1>3. ASSUME NEW p \in Processes, NEW decision \in Decisions, NEW r \in Reviewers,
               Decide(p, decision, r)
        PROVE  Base' /\ suggestions' = suggestions
    <2> DEFINE edits == IF decision = "edit" THEN "edited" ELSE "none"
               new == apply_review_decision(loaded[p].row, decision, r, edits)
               line == audit_trail_entry(loaded[p].id, loaded[p].row, decision, r)
    <2>1. Held(p) /\ pc[p] # "idle" /\ loaded[p] \in [id : Suggestions, row : Row]
      BY <1>3 DEF Decide, Held
    <2>2. NewState(decision) \in {"approved", "rejected"} /\ edits \in {"none", "edited"}
      BY DEF NewState
    <2>3. /\ new.row = [loaded[p].row EXCEPT !.state = NewState(decision), !.reviewer_id = r]
          /\ new \in [row : Row, review_edits : {"none", "edited"}] /\ line \in Entry
      BY <2>1, <2>2 DEF apply_review_decision, audit_trail_entry, Row, States, Entry
    <2>4. /\ updated' = [updated EXCEPT ![p] = new] /\ entry' = [entry EXCEPT ![p] = line]
          /\ pc' = [pc EXCEPT ![p] = "decided"]
          /\ suggestions' = suggestions /\ audit_logs' = audit_logs /\ loaded' = loaded
      BY <1>3 DEF Decide
    <2>5. TypeOK'
      <3> HIDE DEF new, line
      <3> QED
        BY <2>3, <2>4 DEF TypeOK
    <2>6. Held(p)'
      <3>1. updated'[p] = new /\ entry'[p] = line /\ pc'[p] = "decided"
        <4> HIDE DEF new, line
        <4> QED
          BY <2>4 DEF TypeOK
      <3>2. /\ updated'[p].row = [loaded'[p].row EXCEPT !.state = NewState(decision), !.reviewer_id = r]
            /\ entry'[p] = audit_trail_entry(loaded'[p].id, loaded'[p].row, decision, r)
        BY <2>3, <2>4, <3>1
      <3> HIDE DEF new, line
      <3>3. /\ loaded'[p] \in [id : Suggestions, row : Row]
            /\ suggestions'[loaded'[p].id] # Absent
            /\ suggestions'[loaded'[p].id].confidence = loaded'[p].row.confidence
            /\ loaded'[p].row.state # "pending_review" =>
                  suggestions'[loaded'[p].id].state # "pending_review"
        BY <2>1, <2>4 DEF Held
      <3> QED
        BY <3>2, <3>3 DEF Held, audit_trail_entry
    <2>7. \A q \in Processes \ {p} : Held(q)'
      <3> HIDE DEF new, line
      <3> QED
        BY <2>4, OthersHold DEF TypeOK
    <2> QED
      BY <2>4, <2>5, <2>6, <2>7
  <1>4. ASSUME NEW p \in Processes, CommitDecision(p)
        PROVE  /\ Base'
               /\ \A s \in Suggestions : suggestions[s] # Absent =>
                     /\ suggestions'[s] # Absent
                     /\ suggestions'[s].confidence = suggestions[s].confidence
                     /\ suggestions[s].state # "pending_review" =>
                           suggestions'[s].state # "pending_review"
    <2>1. PICK r \in Reviewers, decision \in Decisions, s \in Suggestions, row \in Row, new \in Entry :
            Committed(p, r, decision, s, row, new)
      BY <1>4, CommitEffect
    <2>2. \A x \in Suggestions : suggestions[x] # Absent =>
              /\ suggestions'[x] # Absent
              /\ suggestions'[x].confidence = suggestions[x].confidence
              /\ suggestions[x].state # "pending_review" =>
                    suggestions'[x].state # "pending_review"
      BY <2>1, AbsentAssumption DEF Committed, TypeOK
    <2>3. audit_logs' \in Seq(Entry)
      BY <2>1, Appended DEF Committed
    <2>4. TypeOK'
      BY <1>4, <2>1, <2>3 DEF Committed, CommitDecision, Release, TypeOK
    <2>5. pc'[p] = "idle"
      BY <1>4 DEF CommitDecision, Release, TypeOK
    <2>6. Held(p)'
      BY <2>5 DEF Held
    <2>7. \A q \in Processes \ {p} : Held(q)'
      BY <1>4, <2>2, OthersHold DEF CommitDecision, Release, TypeOK
    <2> QED
      BY <2>2, <2>4, <2>6, <2>7
  <1>5. ASSUME NEW p \in Processes, GiveUp(p) PROVE Base' /\ suggestions' = suggestions
    <2>1. TypeOK'
      BY <1>5 DEF GiveUp, Release, TypeOK
    <2>2. Held(p)'
      BY <1>5 DEF GiveUp, Release, Held, TypeOK
    <2>3. \A q \in Processes \ {p} : Held(q)'
      BY <1>5, OthersHold DEF GiveUp, Release, TypeOK
    <2> QED
      BY <1>5, <2>1, <2>2, <2>3 DEF GiveUp
  <1>6. CASE UNCHANGED vars
    <2>1. TypeOK'
      BY <1>6 DEF vars, TypeOK
    <2>2. \A q \in Processes : Held(q)'
      BY <1>6, OthersHold DEF vars
    <2> QED
      BY <1>6, <2>1, <2>2 DEF vars
  <1>7. ASSUME NEW s \in Suggestions, NEW confidence \in Confidences, Propose(s, confidence)
        PROVE  Base'
    BY <1>1, <1>7, OthersHold
  <1> QED
    BY <1>1, <1>2, <1>3, <1>4, <1>5, <1>6, <1>7 DEF Next

-------------------------------------------------------------------------------
\* What a step leaves to be said about the log: it is appended to by a commit,
\* and by nothing else; a proposal fills an absent row, the rest is unchanged.
LEMMA StepCases ==
    ASSUME Base, [Next]_vars
    PROVE  \/ suggestions' = suggestions /\ audit_logs' = audit_logs
           \/ /\ audit_logs' = audit_logs
              /\ \E s \in Suggestions, confidence \in Confidences : Propose(s, confidence)
           \/ \E p \in Processes : CommitDecision(p)
  BY DEF Next, vars, Load, Decide, GiveUp, Propose

LEMMA EntryType ==
    ASSUME TypeOK
    PROVE  \A i \in DOMAIN audit_logs : audit_logs[i].resource_id \in Suggestions
  <1>1. \A i \in DOMAIN audit_logs : audit_logs[i] \in Entry
    BY DEF TypeOK
  <1> QED
    BY <1>1 DEF Entry

\* Only what exists is decided on.
Logged == \A i \in DOMAIN audit_logs : suggestions[audit_logs[i].resource_id] # Absent

LEMMA LoggedStep == ASSUME Base, Logged, [Next]_vars PROVE Logged'
  <1>1. \A i \in DOMAIN audit_logs : audit_logs[i].resource_id \in Suggestions
    BY EntryType DEF Base
  <1>2. ASSUME audit_logs' = audit_logs PROVE Logged'
    BY <1>1, <1>2, BaseStep DEF Logged
  <1>3. ASSUME NEW p \in Processes, CommitDecision(p) PROVE Logged'
    <2>1. PICK r \in Reviewers, decision \in Decisions, s \in Suggestions, row \in Row, new \in Entry :
            Committed(p, r, decision, s, row, new)
      BY <1>3, CommitEffect
    <2>2. /\ DOMAIN audit_logs = 1..Len(audit_logs) /\ Len(audit_logs) \in Nat
          /\ DOMAIN audit_logs' = 1..(Len(audit_logs) + 1)
          /\ audit_logs'[Len(audit_logs) + 1] = new
          /\ \A i \in DOMAIN audit_logs : audit_logs'[i] = audit_logs[i]
      BY <2>1, Appended DEF Committed, Base
    <2>3. new.resource_id = s /\ suggestions'[s] = row /\ row # Absent
      BY <2>1, AbsentAssumption DEF Committed, Base, TypeOK
    <2>4. ASSUME NEW i \in 1..(Len(audit_logs) + 1)
          PROVE  suggestions'[audit_logs'[i].resource_id] # Absent
      <3>1. CASE i = Len(audit_logs) + 1
        BY <2>2, <2>3, <3>1
      <3>2. CASE i # Len(audit_logs) + 1
        <4>1. i \in DOMAIN audit_logs
          BY <2>2, <3>2
        <4> QED
          BY <1>1, <2>2, <4>1, BaseStep DEF Logged
      <3> QED
        BY <3>1, <3>2
    <2> QED
      BY <2>2, <2>4 DEF Logged
  <1> QED
    BY <1>2, <1>3, StepCases

LEMMA ExplainedStep ==
    ASSUME Base, Logged, StateExplained, [Next]_vars PROVE StateExplained'
  <1>1. CASE suggestions' = suggestions /\ audit_logs' = audit_logs
    BY <1>1 DEF StateExplained, Entries
  <1>2. ASSUME NEW s \in Suggestions, NEW confidence \in Confidences, Propose(s, confidence),
               audit_logs' = audit_logs
        PROVE  StateExplained'
    <2>1. Entries(s) = {} /\ suggestions[s] = Absent
      BY <1>2 DEF Propose, Entries, Logged
    <2>2. /\ suggestions'[s] = make_suggestion(confidence)
          /\ \A x \in Suggestions \ {s} : suggestions'[x] = suggestions[x]
      BY <1>2 DEF Propose, Base, TypeOK
    <2>3. \A x \in Suggestions : Entries(x)' = Entries(x)
      BY <1>2 DEF Entries
    <2> QED
      BY <1>2, <2>1, <2>2, <2>3, ProposedRow DEF StateExplained
  <1>3. ASSUME NEW p \in Processes, CommitDecision(p) PROVE StateExplained'
    <2>1. PICK r \in Reviewers, decision \in Decisions, s \in Suggestions, row \in Row, new \in Entry :
            Committed(p, r, decision, s, row, new)
      BY <1>3, CommitEffect
    <2> DEFINE n == Len(audit_logs) + 1
    <2>2. /\ DOMAIN audit_logs = 1..Len(audit_logs) /\ DOMAIN audit_logs' = 1..n
          /\ Len(audit_logs) \in Nat /\ n \in DOMAIN audit_logs'
          /\ audit_logs'[n] = new /\ \A i \in DOMAIN audit_logs : audit_logs'[i] = audit_logs[i]
      BY <2>1, Appended DEF Committed, Base
    <2>3. /\ \A x \in Suggestions : Entries(x) \subseteq Entries(x)'
          /\ \A x \in Suggestions \ {s} : Entries(x)' = Entries(x)
          /\ n \in Entries(s)' /\ audit_logs'[n].after = NewState(decision)
      BY <2>1, <2>2 DEF Committed, Entries
    <2>4. suggestions'[s] = row /\ \A x \in Suggestions \ {s} : suggestions'[x] = suggestions[x]
      BY <2>1 DEF Committed, Base, TypeOK
    <2>5. ASSUME NEW x \in Suggestions \ {s}, suggestions'[x] # Absent
          PROVE  /\ suggestions'[x].state = "pending_review" =>
                       ~should_auto_approve(suggestions'[x].confidence) /\ Entries(x)' = {}
                 /\ suggestions'[x].state = "approved" =>
                       \/ should_auto_approve(suggestions'[x].confidence)
                       \/ \E i \in Entries(x)' : audit_logs'[i].after = "approved"
                 /\ suggestions'[x].state = "rejected" =>
                       \E i \in Entries(x)' : audit_logs'[i].after = "rejected"
      <3>1. \A i \in Entries(x) : i \in DOMAIN audit_logs
        BY DEF Entries
      <3> HIDE DEF n
      <3> QED
        BY <2>2, <2>3, <2>4, <2>5, <3>1 DEF StateExplained
    <2>6. /\ row.state # "pending_review"
          /\ row.state = "approved" =>
                \/ should_auto_approve(row.confidence)
                \/ \E i \in Entries(s)' : audit_logs'[i].after = "approved"
          /\ row.state = "rejected" => \E i \in Entries(s)' : audit_logs'[i].after = "rejected"
      <3>1. \A i \in Entries(s) : i \in DOMAIN audit_logs
        BY DEF Entries
      <3>2. /\ row.state # "pending_review" /\ row.confidence = suggestions[s].confidence
            /\ suggestions[s] \in Row
            /\ row.state = NewState(decision) \/ row.state = suggestions[s].state
        BY <2>1 DEF Committed
      <3> HIDE DEF n
      <3>3. CASE row.state = NewState(decision)
        BY <2>3, <3>2, <3>3
      <3>4. CASE row.state = suggestions[s].state
        BY <2>2, <2>3, <3>1, <3>2, <3>4, AbsentAssumption DEF StateExplained
      <3> QED
        BY <3>2, <3>3, <3>4
    <2> QED
      BY <2>4, <2>5, <2>6 DEF StateExplained
  <1> QED
    BY <1>1, <1>2, <1>3, StepCases

-------------------------------------------------------------------------------
\* A commit adds one entry at the end, about one suggestion.
LEMMA CommitAdds ==
    ASSUME TypeOK, NEW s \in Suggestions, NEW new \in Entry, new.resource_id = s,
           audit_logs' = Append(audit_logs, new)
    PROVE  \E n \in Nat :
              /\ n \notin DOMAIN audit_logs /\ DOMAIN audit_logs' = DOMAIN audit_logs \cup {n}
              /\ \A i \in DOMAIN audit_logs : i \in Nat /\ i <= n /\ audit_logs'[i] = audit_logs[i]
              /\ audit_logs'[n] = new
              /\ Entries(s)' = Entries(s) \cup {n}
              /\ \A x \in Suggestions \ {s} : Entries(x)' = Entries(x)
  <1>1. PICK n \in Nat : n = Len(audit_logs) + 1
    BY DEF TypeOK
  <1>2. /\ DOMAIN audit_logs = 1..(n - 1) /\ DOMAIN audit_logs' = 1..n
        /\ audit_logs'[n] = new /\ \A i \in 1..(n - 1) : audit_logs'[i] = audit_logs[i]
    BY <1>1, Appended
  <1>3. n \notin DOMAIN audit_logs /\ DOMAIN audit_logs' = DOMAIN audit_logs \cup {n}
    BY <1>2
  <1>4. Entries(s)' = Entries(s) \cup {n}
    BY <1>2, <1>3 DEF Entries
  <1>5. \A x \in Suggestions \ {s} : Entries(x)' = Entries(x)
    BY <1>2, <1>3 DEF Entries
  <1>6. \A i \in DOMAIN audit_logs : i \in Nat /\ i <= n /\ audit_logs'[i] = audit_logs[i]
    BY <1>2
  <1> QED
    BY <1>2, <1>3, <1>4, <1>5, <1>6

LEMMA FollowStep ==
    ASSUME Base, Logged, StateFollowsLog, [Next]_vars PROVE StateFollowsLog'
  <1>1. CASE suggestions' = suggestions /\ audit_logs' = audit_logs
    BY <1>1 DEF StateFollowsLog, Changes, Entries, Proposed
  <1>2. ASSUME NEW s \in Suggestions, NEW confidence \in Confidences, Propose(s, confidence),
               audit_logs' = audit_logs
        PROVE  StateFollowsLog'
    <2>1. Changes(s) = {} /\ \A x \in Suggestions : Changes(x)' = Changes(x)
      BY <1>2 DEF Propose, Changes, Entries, Logged
    <2>2. /\ suggestions'[s] = make_suggestion(confidence)
          /\ \A x \in Suggestions \ {s} : suggestions'[x] = suggestions[x]
      BY <1>2 DEF Propose, Base, TypeOK
    <2>3. suggestions'[s].state = Proposed(suggestions'[s])
      BY <2>2, ProposedRow DEF Proposed
    <2> QED
      BY <1>2, <2>1, <2>2, <2>3 DEF StateFollowsLog, Proposed
  <1>3. ASSUME NEW p \in Processes, CommitDecision(p) PROVE StateFollowsLog'
    <2>1. PICK r \in Reviewers, decision \in Decisions, s \in Suggestions, row \in Row, new \in Entry :
            Committed(p, r, decision, s, row, new)
      BY <1>3, CommitEffect
    <2>2. PICK n \in Nat :
              /\ n \notin DOMAIN audit_logs
              /\ \A i \in DOMAIN audit_logs : i \in Nat /\ i <= n /\ audit_logs'[i] = audit_logs[i]
              /\ audit_logs'[n] = new
              /\ Entries(s)' = Entries(s) \cup {n}
              /\ \A x \in Suggestions \ {s} : Entries(x)' = Entries(x)
      BY <2>1, CommitAdds DEF Committed, Base
    <2>3. suggestions'[s] = row /\ \A x \in Suggestions \ {s} : suggestions'[x] = suggestions[x]
      BY <2>1 DEF Committed, Base, TypeOK
    <2>4. \A x \in Suggestions : Entries(x) \subseteq DOMAIN audit_logs
      BY DEF Entries
    <2>5. \A x \in Suggestions \ {s} : Changes(x)' = Changes(x)
      BY <2>2, <2>4 DEF Changes
    <2>6. Changes(s)' = IF new.before # new.after THEN Changes(s) \cup {n} ELSE Changes(s)
      BY <2>2, <2>4 DEF Changes
    <2>7. \A i \in Changes(s) : i \in DOMAIN audit_logs
      BY <2>4 DEF Changes
    <2>8. /\ row.state = IF new.before # new.after THEN new.after ELSE suggestions[s].state
          /\ Proposed(row) = Proposed(suggestions[s]) /\ suggestions[s] # Absent
      BY <2>1, AbsentAssumption DEF Committed, Proposed
    <2>9. /\ Changes(s)' = {} => row.state = Proposed(row)
          /\ \A i \in Changes(s)' : (\A j \in Changes(s)' : j <= i) => row.state = audit_logs'[i].after
      <3>1. CASE new.before = new.after
        BY <2>2, <2>6, <2>7, <2>8, <3>1 DEF StateFollowsLog
      <3>2. CASE new.before # new.after
        <4>1. ASSUME NEW i \in Changes(s)', \A j \in Changes(s)' : j <= i PROVE i = n
          <5>1. n <= i /\ (i # n => i \in DOMAIN audit_logs)
            BY <2>6, <2>7, <3>2, <4>1
          <5> QED
            BY <5>1, <2>2
        <4> QED
          BY <2>2, <2>6, <2>8, <3>2, <4>1
      <3> QED
        BY <3>1, <3>2
    <2>10. ASSUME NEW x \in Suggestions \ {s}, suggestions'[x] # Absent
           PROVE  /\ Changes(x)' = {} => suggestions'[x].state = Proposed(suggestions'[x])
                  /\ \A i \in Changes(x)' : (\A j \in Changes(x)' : j <= i) =>
                        suggestions'[x].state = audit_logs'[i].after
      <3>1. \A i \in Changes(x) : i \in DOMAIN audit_logs
        BY <2>4 DEF Changes
      <3> QED
        BY <2>2, <2>3, <2>5, <2>10, <3>1 DEF StateFollowsLog
    <2> QED
      BY <2>3, <2>9, <2>10 DEF StateFollowsLog, Proposed
  <1> QED
    BY <1>1, <1>2, <1>3, StepCases

-------------------------------------------------------------------------------
\* The states and the reviewers that a suggestion has had, told from the log;
\* what is in the row or in a process's hands is among them.
Had(s) == {Proposed(suggestions[s])} \cup {audit_logs[i].after : i \in Entries(s)}
Named(s) == {NoOne} \cup {audit_logs[i].actor_id : i \in Entries(s)}
Remembered ==
    /\ \A s \in Suggestions : suggestions[s] # Absent =>
          suggestions[s].state \in Had(s) /\ suggestions[s].reviewer_id \in Named(s)
    /\ \A p \in Processes : pc[p] # "idle" =>
          /\ loaded[p].row.state \in Had(loaded[p].id)
          /\ loaded[p].row.reviewer_id \in Named(loaded[p].id)

\* Whatever happens, nothing is forgotten.
LEMMA NothingForgotten ==
    ASSUME Base, Logged, [Next]_vars
    PROVE  \A s \in Suggestions : suggestions[s] # Absent =>
              Had(s) \subseteq Had(s)' /\ Named(s) \subseteq Named(s)'
  <1>1. \A s \in Suggestions : suggestions[s] # Absent =>
            Proposed(suggestions'[s]) = Proposed(suggestions[s])
    BY BaseStep DEF Proposed
  <1>2. ASSUME audit_logs' = audit_logs
        PROVE  \A s \in Suggestions : suggestions[s] # Absent =>
                  Had(s) \subseteq Had(s)' /\ Named(s) \subseteq Named(s)'
    BY <1>1, <1>2 DEF Had, Named, Entries
  <1>3. ASSUME NEW p \in Processes, CommitDecision(p), NEW s \in Suggestions, suggestions[s] # Absent
        PROVE  Had(s) \subseteq Had(s)' /\ Named(s) \subseteq Named(s)'
    <2>1. PICK r \in Reviewers, decision \in Decisions, x \in Suggestions, row \in Row, new \in Entry :
            Committed(p, r, decision, x, row, new)
      BY <1>3, CommitEffect
    <2>2. PICK n \in Nat :
              /\ \A i \in DOMAIN audit_logs : i \in Nat /\ i <= n /\ audit_logs'[i] = audit_logs[i]
              /\ Entries(x)' = Entries(x) \cup {n}
              /\ \A y \in Suggestions \ {x} : Entries(y)' = Entries(y)
      BY <2>1, CommitAdds DEF Committed, Base
    <2>3. \A i \in Entries(s) : i \in Entries(s)' /\ audit_logs'[i] = audit_logs[i]
      BY <2>2 DEF Entries
    <2> QED
      BY <1>1, <1>3, <2>3 DEF Had, Named
  <1> QED
    BY <1>2, <1>3, StepCases

LEMMA RememberedStep ==
    ASSUME Base, Logged, Remembered, [Next]_vars PROVE Remembered'
  <1>1. \A s \in Suggestions : suggestions[s] # Absent =>
            Had(s) \subseteq Had(s)' /\ Named(s) \subseteq Named(s)'
    BY NothingForgotten
  <1>2. \A p \in Processes : pc[p] # "idle" =>
            loaded[p].id \in Suggestions /\ suggestions[loaded[p].id] # Absent
    BY DEF Base, Held
  \* Whoever keeps what he has in hand.
  <1>3. ASSUME NEW p \in Processes, pc[p] # "idle", loaded'[p] = loaded[p]
        PROVE  /\ loaded'[p].row.state \in Had(loaded[p].id)'
               /\ loaded'[p].row.reviewer_id \in Named(loaded[p].id)'
    <2>1. /\ loaded[p].row.state \in Had(loaded[p].id) /\ loaded[p].row.reviewer_id \in Named(loaded[p].id)
          /\ loaded[p].id \in Suggestions /\ suggestions[loaded[p].id] # Absent
      BY <1>2, <1>3 DEF Remembered
    <2>2. PICK s \in Suggestions : s = loaded[p].id
      BY <2>1
    <2>3. Had(s) \subseteq Had(s)' /\ Named(s) \subseteq Named(s)'
      BY <1>1, <2>1, <2>2
    <2>4. Had(loaded[p].id)' = Had(s)' /\ Named(loaded[p].id)' = Named(s)'
      BY <1>3, <2>2 DEF Had, Named, Entries
    <2> QED
      BY <1>3, <2>1, <2>2, <2>3, <2>4
  \* Rows that keep their state and their reviewer.
  <1>4. ASSUME NEW s \in Suggestions, suggestions[s] # Absent, suggestions'[s] = suggestions[s]
        PROVE  suggestions'[s].state \in Had(s)' /\ suggestions'[s].reviewer_id \in Named(s)'
    BY <1>1, <1>4 DEF Remembered
  <1>5. ASSUME NEW s \in Suggestions, NEW confidence \in Confidences, Propose(s, confidence)
        PROVE  Remembered'
    <2>1. /\ suggestions'[s] = make_suggestion(confidence) /\ pc' = pc /\ loaded' = loaded
          /\ \A x \in Suggestions \ {s} : suggestions'[x] = suggestions[x]
      BY <1>5 DEF Propose, Base, TypeOK
    <2>2. suggestions'[s].state \in Had(s)' /\ suggestions'[s].reviewer_id \in Named(s)'
      BY <2>1, ProposedRow DEF Had, Named, Proposed
    <2> QED
      BY <1>3, <1>4, <2>1, <2>2 DEF Remembered
  <1>6. ASSUME NEW p \in Processes, NEW s \in Suggestions, Load(p, s) PROVE Remembered'
    <2>1. /\ suggestions' = suggestions /\ audit_logs' = audit_logs /\ suggestions[s] # Absent
          /\ loaded'[p].id = s /\ loaded'[p].row = suggestions[s]
          /\ \A q \in Processes \ {p} : pc'[q] = pc[q] /\ loaded'[q] = loaded[q]
      BY <1>6 DEF Load, Base, TypeOK
    <2>2. loaded'[p].row.state \in Had(s)' /\ loaded'[p].row.reviewer_id \in Named(s)'
      BY <1>4, <2>1
    <2>3. Had(loaded[p].id)' = Had(s)' /\ Named(loaded[p].id)' = Named(s)'
      BY <2>1 DEF Had, Named, Entries
    <2>4. ASSUME NEW q \in Processes, pc'[q] # "idle"
          PROVE  /\ loaded'[q].row.state \in Had(loaded[q].id)'
                 /\ loaded'[q].row.reviewer_id \in Named(loaded[q].id)'
      BY <1>3, <2>1, <2>2, <2>3, <2>4
    <2> QED
      BY <1>4, <2>1, <2>4 DEF Remembered
  <1>7. ASSUME NEW p \in Processes, NEW decision \in Decisions, NEW r \in Reviewers,
               Decide(p, decision, r)
        PROVE  Remembered'
    <2>1. /\ suggestions' = suggestions /\ loaded' = loaded
          /\ \A q \in Processes : pc'[q] # "idle" => pc[q] # "idle"
      BY <1>7 DEF Decide, Base, TypeOK
    <2> QED
      BY <1>3, <1>4, <2>1 DEF Remembered
  <1>8. ASSUME NEW p \in Processes, CommitDecision(p) PROVE Remembered'
    <2>1. PICK r \in Reviewers, decision \in Decisions, s \in Suggestions, row \in Row, new \in Entry :
            Committed(p, r, decision, s, row, new)
      BY <1>8, CommitEffect
    <2>2. PICK n \in Nat : audit_logs'[n] = new /\ Entries(s)' = Entries(s) \cup {n}
      BY <2>1, CommitAdds DEF Committed, Base
    <2>3. new.after = NewState(decision) /\ new.actor_id = r /\ suggestions[s] # Absent
      BY <2>1, AbsentAssumption DEF Committed
    <2>4. NewState(decision) \in Had(s)' /\ r \in Named(s)'
      BY <2>2, <2>3 DEF Had, Named
    <2>5. suggestions[s].state \in Had(s)' /\ suggestions[s].reviewer_id \in Named(s)'
      BY <1>1, <2>3 DEF Remembered
    <2>6. /\ suggestions'[s] = row /\ \A x \in Suggestions \ {s} : suggestions'[x] = suggestions[x]
          /\ row.state \in {NewState(decision), suggestions[s].state}
          /\ row.reviewer_id \in {r, suggestions[s].reviewer_id}
      BY <2>1 DEF Committed, Base, TypeOK
    <2>7. suggestions'[s].state \in Had(s)' /\ suggestions'[s].reviewer_id \in Named(s)'
      BY <2>4, <2>5, <2>6
    <2>8. pc'[p] = "idle" /\ \A q \in Processes \ {p} : pc'[q] = pc[q] /\ loaded'[q] = loaded[q]
      BY <1>8 DEF CommitDecision, Release, Base, TypeOK
    <2> QED
      BY <1>3, <1>4, <2>6, <2>7, <2>8 DEF Remembered
  <1>9. ASSUME NEW p \in Processes, GiveUp(p) PROVE Remembered'
    <2>1. /\ suggestions' = suggestions
          /\ pc'[p] = "idle" /\ \A q \in Processes \ {p} : pc'[q] = pc[q] /\ loaded'[q] = loaded[q]
      BY <1>9 DEF GiveUp, Release, Base, TypeOK
    <2> QED
      BY <1>3, <1>4, <2>1 DEF Remembered
  <1>10. CASE UNCHANGED vars
    BY <1>3, <1>4, <1>10 DEF vars, Remembered
  <1> QED
    BY <1>5, <1>6, <1>7, <1>8, <1>9, <1>10 DEF Next

\* A commit is a decision on the abstract register: it starts from what the
\* reviewer had in hand, and both halves of it were there once.
LEMMA RegisterStep ==
    ASSUME Base, Logged, Remembered, [Next]_vars
    PROVE  [Register!Next]_<<
              [s \in Suggestions |-> IF suggestions[s] = Absent THEN Absent
                 ELSE [first |-> Proposed(suggestions[s]), state |-> suggestions[s].state,
                       reviewer_id |-> suggestions[s].reviewer_id]],
              [i \in DOMAIN audit_logs |->
                 [resource_id |-> audit_logs[i].resource_id, actor_id |-> audit_logs[i].actor_id,
                  before |-> audit_logs[i].before, after |-> audit_logs[i].after]]>>
  <1> DEFINE shown(row) == IF row = Absent THEN Absent
                           ELSE [first |-> Proposed(row), state |-> row.state,
                                 reviewer_id |-> row.reviewer_id]
             line(e) == [resource_id |-> e.resource_id, actor_id |-> e.actor_id,
                         before |-> e.before, after |-> e.after]
             value == [s \in Suggestions |-> shown(suggestions[s])]
             log == [i \in DOMAIN audit_logs |-> line(audit_logs[i])]
  <1>1. CASE suggestions' = suggestions /\ audit_logs' = audit_logs
    BY <1>1 DEF Proposed
  <1>2. ASSUME NEW s \in Suggestions, NEW confidence \in Confidences, Propose(s, confidence)
        PROVE  Register!Create(s)
    <2>1. /\ suggestions[s] = Absent /\ suggestions' = [suggestions EXCEPT ![s] = make_suggestion(confidence)]
          /\ audit_logs' = audit_logs
      BY <1>2 DEF Propose
    <2> DEFINE v == make_suggestion(confidence).state
    <2>2. /\ v \in States /\ make_suggestion(confidence).reviewer_id = NoOne
          /\ Proposed(make_suggestion(confidence)) = v /\ make_suggestion(confidence) # Absent
      BY ProposedRow, AbsentAssumption DEF States, Proposed
    <2>3. value' = [value EXCEPT ![s] = [first |-> v, state |-> v, reviewer_id |-> NoOne]]
      <3> HIDE DEF v
      <3> QED
        BY <2>1, <2>2 DEF Base, TypeOK, Proposed, v
    <2>4. log' = log /\ value[s] = Absent
      BY <2>1
    <2> HIDE DEF shown, line, value, log, v
    <2>5. Register!Create(s)
      BY <2>2, <2>3, <2>4 DEF Register!Create, value, log, shown, line
    <2> QED
      BY <2>5
  <1>3. ASSUME NEW p \in Processes, CommitDecision(p)
        PROVE  Register!Next
    <2>1. PICK r \in Reviewers, decision \in Decisions, s \in Suggestions, row \in Row, new \in Entry :
            Committed(p, r, decision, s, row, new)
      BY <1>3, CommitEffect
    <2> DEFINE before == loaded[p].row.state
               after == NewState(decision)
               named == loaded[p].row.reviewer_id
               old == suggestions[s]
    <2>2. /\ before \in States /\ after \in States /\ named \in Reviewers \cup {NoOne}
          /\ row # Absent /\ old # Absent
      BY <2>1, AbsentAssumption DEF Committed, Row, NewState, States
    <2>3. before \in Had(s) /\ named \in Named(s)
      BY <2>1 DEF Committed, Remembered
    <2>4. /\ row.state = IF after # before THEN after ELSE old.state
          /\ row.reviewer_id = IF r # named THEN r ELSE old.reviewer_id
          /\ row.confidence = old.confidence
          /\ suggestions' = [suggestions EXCEPT ![s] = row]
      BY <2>1 DEF Committed
    <2>5. /\ value[s] = [first |-> Proposed(old), state |-> old.state, reviewer_id |-> old.reviewer_id]
          /\ value[s] # Absent
      <3>1. old.state \in States /\ old.reviewer_id \in Reviewers \cup {NoOne} /\ Proposed(old) \in States
        BY <2>1 DEF Committed, Row, Proposed, States
      <3>2. value[s] = [first |-> Proposed(old), state |-> old.state, reviewer_id |-> old.reviewer_id]
        BY <2>2
      <3>3. [first |-> Proposed(old), state |-> old.state, reviewer_id |-> old.reviewer_id]
                \in [first : States, state : States, reviewer_id : Reviewers \cup {NoOne}]
        BY <3>1
      <3> QED
        BY <3>2, <3>3, AbsentAssumption
    <2>6. value' = [value EXCEPT ![s] =
                       [first |-> value[s].first,
                        state |-> IF after # before THEN after ELSE value[s].state,
                        reviewer_id |-> IF r # named THEN r ELSE value[s].reviewer_id]]
      <3>1. shown(row) = [first |-> value[s].first,
                          state |-> IF after # before THEN after ELSE value[s].state,
                          reviewer_id |-> IF r # named THEN r ELSE value[s].reviewer_id]
        BY <2>2, <2>4, <2>5 DEF Proposed
      <3>2. value' = [value EXCEPT ![s] = shown(row)]
        <4>1. \A x \in Suggestions : suggestions'[x] = IF x = s THEN row ELSE suggestions[x]
          BY <2>4 DEF Base, TypeOK
        <4> QED
          BY <4>1 DEF Proposed
      <3> QED
        BY <3>1, <3>2
    <2>7. log' = Append(log, [resource_id |-> s, actor_id |-> r, before |-> before, after |-> after])
      <3>1. /\ DOMAIN audit_logs = 1..Len(audit_logs) /\ Len(audit_logs) \in Nat
            /\ DOMAIN audit_logs' = 1..(Len(audit_logs) + 1)
            /\ audit_logs'[Len(audit_logs) + 1] = new
            /\ \A i \in 1..Len(audit_logs) : audit_logs'[i] = audit_logs[i]
        BY <2>1, Appended DEF Base, Committed
      <3>2. line(new) = [resource_id |-> s, actor_id |-> r, before |-> before, after |-> after]
        BY <2>1 DEF Committed
      <3> HIDE DEF before, after
      <3> QED
        BY <3>1, <3>2
    <2>8. before \in {value[s].first} \cup {log[i].after : i \in {j \in DOMAIN log : log[j].resource_id = s}}
      BY <2>3, <2>5 DEF Had, Entries
    <2>9. named \in {NoOne} \cup {log[i].actor_id : i \in {j \in DOMAIN log : log[j].resource_id = s}}
      BY <2>3 DEF Named, Entries
    <2> HIDE DEF shown, line, value, log, before, after, named, old
    <2>10. Register!Decide(s, before, named, after, r)
      BY <2>5, <2>6, <2>7, <2>8, <2>9
         DEF Register!Decide, Register!Had, Register!Named, Register!About, value, log, shown, line
    <2> QED
      BY <2>2, <2>10 DEF Register!Next
  <1> QED
    BY <1>1, <1>2, <1>3, StepCases DEF Register!Next

-------------------------------------------------------------------------------
\* Type correctness of the tables and of what the processes hold (suggestions.py,
\* review.py, database.py:61-70), however their units of work overlap.
THEOREM TypeCorrect == Spec => []TypeOK
  <1>1. Base /\ [Next]_vars => Base'
    BY BaseStep
  <1>2. Base => TypeOK
    BY DEF Base
  <1> QED
    BY BaseInit, <1>1, <1>2, PTL DEF Spec

\* review.py:36: no decision and no mixture of two decisions computed from stale
\* copies puts a suggestion back into the review queue.
THEOREM QueueIsLeftForGood == Spec => NeverBackInQueue
  <1>1. Base /\ [Next]_vars => Base'
    BY BaseStep
  <1>2. Base /\ [Next]_vars =>
          [\A s \in Suggestions :
              (suggestions[s] # Absent /\ suggestions[s].state # "pending_review") =>
                  suggestions'[s].state # "pending_review"]_vars
    BY BaseStep
  <1> QED
    BY BaseInit, <1>1, <1>2, PTL DEF Spec, NeverBackInQueue

\* suggestions.py:31-50 with review.py:36: every state has a confidence or an
\* audited decision that accounts for it, however decisions overlap.
THEOREM StatesAreExplained == Spec => []StateExplained
  <1>1. Init => Base /\ Logged /\ StateExplained
    BY BaseInit DEF Init, Logged, StateExplained
  <1>2. Base /\ Logged /\ StateExplained /\ [Next]_vars => (Base /\ Logged /\ StateExplained)'
    BY BaseStep, LoggedStep, ExplainedStep
  <1> QED
    BY <1>1, <1>2, PTL DEF Spec

\* review.py:35-37 and 49-56: any number of decisions computed from stale copies
\* leave every suggestion in the state that the latest changing entry gives.
THEOREM LogTellsState == Spec => []StateFollowsLog
  <1>1. Init => Base /\ Logged /\ StateFollowsLog
    BY BaseInit DEF Init, Logged, StateFollowsLog
  <1>2. Base /\ Logged /\ StateFollowsLog /\ [Next]_vars => (Base /\ Logged /\ StateFollowsLog)'
    BY BaseStep, LoggedStep, FollowStep
  <1> QED
    BY <1>1, <1>2, PTL DEF Spec

\* review.py:21-56: table and log together implement the register with a log, each
\* decision of which starts from a state and a reviewer that the row once had.
THEOREM ReviewImplementsRegister == Spec => ImplementsRegister
  <1>1. Init => Register!Init
    BY DEF Init, Register!Init
  <1>2. Init => Base /\ Logged /\ Remembered
    BY BaseInit DEF Init, Logged, Remembered
  <1>3. Base /\ Logged /\ Remembered /\ [Next]_vars => (Base /\ Logged /\ Remembered)'
    BY BaseStep, LoggedStep, RememberedStep
  <1> QED
    BY <1>1, <1>2, <1>3, RegisterStep, PTL DEF Spec, ImplementsRegister, Register!Spec

-------------------------------------------------------------------------------
(* The Celery app and the broker.                                          *)
\* There are at most as many apps as threads, those being made included.
Builders == {c \in Reviewers : call[c] = "building"}
HasApp == /\ built \in Nat /\ celery_app \in 0..built /\ (celery_app = 0 => built = 0)
          /\ call \in [Reviewers -> {"idle", "building", "returning", "sending"}]
          /\ app \in [Reviewers -> 0..built] /\ queue \in [Reviewers -> 0..MaxCopies]
          /\ \A c \in Reviewers : /\ call[c] = "returning" => celery_app # 0
                                  /\ call[c] = "sending" => app[c] # 0
          /\ built + Cardinality(Builders) <= Cardinality(Reviewers)

LEMMA BuildersFinite == /\ IsFiniteSet(Builders) /\ Cardinality(Builders) \in Nat
                        /\ Cardinality(Builders) <= Cardinality(Reviewers)
                        /\ Cardinality(Reviewers) \in Nat
  <1>1. Builders \in SUBSET Reviewers
    BY DEF Builders
  <1> QED
    BY <1>1, ReviewersAssumption, FS_Subset, FS_CardinalityType

LEMMA HasAppInit == Tasks!Init => HasApp
  <1> SUFFICES ASSUME Tasks!Init PROVE HasApp
    OBVIOUS
  <1>1. /\ celery_app = 0 /\ built = 0 /\ queue = [c \in Reviewers |-> 0]
        /\ call = [c \in Reviewers |-> "idle"] /\ app = [c \in Reviewers |-> 0]
    BY DEF Tasks!Init
  <1>2. built + Cardinality(Builders) <= Cardinality(Reviewers)
    BY <1>1, BuildersFinite
  <1> QED
    BY <1>1, <1>2, BoundsAssumption DEF HasApp

LEMMA HasAppStep == HasApp /\ [Tasks!Next]_workersVars => HasApp'
  <1> SUFFICES ASSUME HasApp, [Tasks!Next]_workersVars PROVE HasApp'
    OBVIOUS
  <1>1. ASSUME UNCHANGED <<celery_app, built, call, app>>, queue' \in [Reviewers -> 0..MaxCopies]
        PROVE  HasApp'
    BY <1>1 DEF HasApp, Builders
  <1>2. ASSUME NEW c \in Reviewers, Tasks!get_celery_app(c) PROVE HasApp'
    <2>1. CASE celery_app = 0
      <3>1. Builders' \in SUBSET Reviewers
        BY DEF Builders
      <3>2. Cardinality(Builders') \in Nat /\ Cardinality(Builders') <= Cardinality(Reviewers)
        BY <3>1, ReviewersAssumption, FS_Subset, FS_CardinalityType
      <3> QED
        BY <1>2, <2>1, <3>2 DEF Tasks!get_celery_app, Tasks!At, HasApp
    <2>2. CASE celery_app # 0
      <3>1. Builders' = Builders
        BY <1>2, <2>2 DEF Tasks!get_celery_app, Tasks!At, HasApp, Builders
      <3> QED
        BY <1>2, <2>2, <3>1 DEF Tasks!get_celery_app, Tasks!At, HasApp
    <2> QED
      BY <2>1, <2>2
  <1>3. ASSUME NEW c \in Reviewers, Tasks!build_celery_app(c) PROVE HasApp'
    <2>1. c \in Builders /\ Builders' = Builders \ {c}
      BY <1>3 DEF Tasks!build_celery_app, Tasks!At, HasApp, Builders
    <2>2. Cardinality(Builders') = Cardinality(Builders) - 1 /\ Cardinality(Builders) \in Nat
      BY <2>1, BuildersFinite, FS_RemoveElement
    <2>3. CASE built' = built + 1 /\ celery_app' = built + 1 /\ Tasks!At(c, "building", "returning")
      BY <1>3, <2>2, <2>3, BuildersFinite DEF Tasks!build_celery_app, Tasks!At, HasApp
    <2>4. CASE UNCHANGED <<built, celery_app>> /\ Tasks!At(c, "building", "idle")
      BY <1>3, <2>2, <2>4, BuildersFinite DEF Tasks!build_celery_app, Tasks!At, HasApp
    <2> QED
      BY <1>3, <2>3, <2>4 DEF Tasks!build_celery_app
  <1>4. ASSUME NEW c \in Reviewers, Tasks!return_celery_app(c) PROVE HasApp'
    <2>1. Builders' = Builders
      BY <1>4 DEF Tasks!return_celery_app, Tasks!At, HasApp, Builders
    <2> QED
      BY <1>4, <2>1 DEF Tasks!return_celery_app, Tasks!At, HasApp
  <1>5. ASSUME NEW c \in Reviewers, Tasks!send_task(c) PROVE HasApp'
    <2>1. Builders' = Builders
      BY <1>5 DEF Tasks!send_task, Tasks!At, HasApp, Builders
    <2>2. PICK copies \in queue[c]..MaxCopies : queue' = [queue EXCEPT ![c] = copies]
      BY <1>5 DEF Tasks!send_task
    <2>3. queue' \in [Reviewers -> 0..MaxCopies]
      BY <2>2, BoundsAssumption DEF HasApp
    <2>4. UNCHANGED <<celery_app, built>>
      BY <1>5 DEF Tasks!send_task
    <2>5. app' \in [Reviewers -> 0..built] /\ call' \in [Reviewers -> {"idle", "building", "returning", "sending"}]
      BY <1>5 DEF Tasks!send_task, Tasks!At, HasApp
    <2>6. \A d \in Reviewers : /\ call'[d] = "returning" => celery_app # 0
                               /\ call'[d] = "sending" => app'[d] # 0
      BY <1>5 DEF Tasks!send_task, Tasks!At, HasApp
    <2> QED
      BY <2>1, <2>3, <2>4, <2>5, <2>6 DEF HasApp
  <1>6. ASSUME NEW c \in Reviewers, Tasks!Deliver(c) \/ Tasks!Redeliver(c) PROVE HasApp'
    <2>1. queue' \in [Reviewers -> 0..MaxCopies]
      BY <1>6, BoundsAssumption DEF Tasks!Deliver, Tasks!Redeliver, HasApp
    <2> QED
      BY <1>1, <1>6, <2>1 DEF Tasks!Deliver, Tasks!Redeliver
  <1>7. CASE UNCHANGED workersVars
    BY <1>1, <1>7 DEF workersVars, HasApp
  <1> QED
    BY <1>2, <1>3, <1>4, <1>5, <1>6, <1>7 DEF Tasks!Next, Tasks!enqueue

LEMMA AppStays ==
    ASSUME Tasks!Next, celery_app # 0, \A c \in Reviewers : call[c] # "building"
    PROVE celery_app' = celery_app
  BY DEF Tasks!Next, Tasks!enqueue, Tasks!get_celery_app, Tasks!build_celery_app, Tasks!At,
         Tasks!return_celery_app, Tasks!send_task, Tasks!Deliver, Tasks!Redeliver

\* workers.py:33-38: any number of threads may each make an app, but none of them
\* is handed None, and the global is not exchanged any more once the threads that
\* found None are through.
THEOREM CeleryAppSettles == Tasks!Spec => Tasks!AppSettles
  <1>1. HasApp' /\ [Tasks!Next]_workersVars =>
            [/\ (celery_app # 0 /\ \A c \in Reviewers : call[c] # "building")
                    => celery_app' = celery_app
             /\ \A c \in Reviewers : call'[c] = "sending" => app'[c] # 0]_workersVars
    BY AppStays DEF HasApp
  <1> QED
    BY HasAppInit, HasAppStep, <1>1, PTL DEF Tasks!Spec, Tasks!AppSettles, Tasks!queueVars, workersVars

-------------------------------------------------------------------------------
(* Decisions as tasks: what a step does to the tables of the review and to *)
(* the broker.                                                             *)
Acting == actor \in [Processes -> Reviewers \cup {NoOne}]

LEMMA ActingStep == Acting /\ [DispatchNext]_dispatchVars => Acting'
  <1> SUFFICES ASSUME Acting, [DispatchNext]_dispatchVars PROVE Acting'
    OBVIOUS
  <1>1. \/ actor' = actor
        \/ \E p \in Processes : actor' = [actor EXCEPT ![p] = NoOne]
        \/ \E p \in Processes, r \in Reviewers : actor' = [actor EXCEPT ![p] = r]
    BY DEF DispatchNext, dispatchVars, Suggest, Enqueue, Redeliver, Work, Complete, Abandon, Finish,
           Accept, Lose, Administer
  <1> QED
    BY <1>1 DEF Acting

LEMMA DispatchRefines ==
    Acting /\ DispatchNext => [Next]_vars /\ [Tasks!Next]_workersVars
  <1> SUFFICES ASSUME Acting, DispatchNext PROVE [Next]_vars /\ [Tasks!Next]_workersVars
    OBVIOUS
  <1>1. ASSUME NEW s \in Suggestions, NEW confidence \in Confidences, Suggest(s, confidence)
        PROVE  Next /\ UNCHANGED workersVars
    BY <1>1 DEF Suggest, Next
  <1>2. ASSUME NEW r \in Reviewers, Enqueue(r) \/ Redeliver(r)
        PROVE  UNCHANGED vars /\ Tasks!Next
    BY <1>2 DEF Enqueue, Redeliver, reviewVars, Tasks!Next
  <1>3. ASSUME NEW p \in Processes, Work(p) PROVE Next /\ UNCHANGED workersVars
    <2>1. actor[p] \in Reviewers
      BY <1>3 DEF Work, Acting
    <2> QED
      BY <1>3, <2>1 DEF Work, Next
  <1>4. ASSUME NEW p \in Processes, Complete(p) PROVE Next /\ UNCHANGED workersVars
    BY <1>4 DEF Complete, Finish, Next
  <1>5. ASSUME NEW p \in Processes, Abandon(p) PROVE [Next]_vars /\ UNCHANGED workersVars
    BY <1>5 DEF Abandon, Finish, Next, reviewVars
  <1>6. ASSUME NEW p \in Processes, NEW r \in Reviewers, Accept(p, r) \/ Lose(p, r)
        PROVE  UNCHANGED vars /\ Tasks!Next
    BY <1>6 DEF Accept, Lose, reviewVars, Tasks!Next
  <1>7. ASSUME Administer PROVE UNCHANGED vars /\ UNCHANGED workersVars
    BY <1>7 DEF Administer, reviewVars
  <1> QED
    BY <1>1, <1>2, <1>3, <1>4, <1>5, <1>6, <1>7 DEF DispatchNext

-------------------------------------------------------------------------------
\* A decision can be late only if a process has its task in hand when the
\* permission goes, and a process takes a task of a reviewer only with the
\* permission there again: what is in hand is counted together with what is late.
Busy(r) == {p \in Processes : actor[p] = r}
Accounted(r) == /\ May(r) => r \in ever /\ late[r] = 0
                /\ r \notin ever => late[r] = 0 /\ Busy(r) = {}
                /\ late[r] + Cardinality(Busy(r)) <= Cardinality(Processes)
Rightful == Acting /\ late \in [Reviewers -> Nat] /\ \A r \in Reviewers : Accounted(r)

LEMMA BusyFinite ==
    /\ Cardinality(Processes) \in Nat
    /\ \A r : /\ IsFiniteSet(Busy(r)) /\ Cardinality(Busy(r)) \in Nat
              /\ Cardinality(Busy(r)) <= Cardinality(Processes)
  <1>1. \A r : Busy(r) \in SUBSET Processes
    BY DEF Busy
  <1> QED
    BY <1>1, ProcessesAssumption, FS_Subset, FS_CardinalityType

LEMMA RightfulInit == DispatchInit => Rightful
  <1> SUFFICES ASSUME DispatchInit PROVE Rightful
    OBVIOUS
  <1>1. /\ Acting /\ late = [r \in Reviewers |-> 0] /\ ever = {r \in Reviewers : May(r)}
        /\ actor = [p \in Processes |-> NoOne]
    BY DEF DispatchInit, Acting
  <1>2. \A r \in Reviewers : Busy(r) = {}
    BY <1>1, NoOneAssumption DEF Busy
  <1> QED
    BY <1>1, <1>2, BusyFinite DEF Rightful, Accounted

\* The grants do not change in the actions of a task.
LEMMA SameRights == ASSUME UNCHANGED rightsVars PROVE \A r \in Reviewers : May(r)' = May(r)
  BY DEF rightsVars, May, Rights!has_permission, Rights!Granted

LEMMA RightfulStep == Rightful /\ [DispatchNext]_dispatchVars => Rightful'
  <1> SUFFICES ASSUME Rightful, [DispatchNext]_dispatchVars PROVE Rightful'
    OBVIOUS
  <1>1. Acting' /\ Acting /\ late \in [Reviewers -> Nat] /\ \A r \in Reviewers : Accounted(r)
    BY ActingStep DEF Rightful
  <1>2. ASSUME UNCHANGED <<rightsVars, actor, ever, late>> PROVE Rightful'
    <2>1. \A r \in Reviewers : Busy(r)' = Busy(r) /\ (May(r)' <=> May(r))
      BY <1>2, SameRights DEF Busy
    <2> QED
      BY <1>1, <1>2, <2>1 DEF Rightful, Accounted
  <1>3. ASSUME NEW p \in Processes, NEW r \in Reviewers, Accept(p, r) PROVE Rightful'
    <2>1. /\ actor[p] = NoOne /\ actor' = [actor EXCEPT ![p] = r] /\ May(r)
          /\ UNCHANGED <<rightsVars, ever, late>>
      BY <1>3 DEF Accept
    <2>2. \A q \in Reviewers : May(q)' <=> May(q)
      BY <2>1, SameRights
    <2>3. \A q \in Reviewers \ {r} : Busy(q)' = Busy(q)
      BY <1>1, <2>1, NoOneAssumption DEF Busy, Acting
    <2>4. Busy(r)' \in SUBSET Processes
      BY DEF Busy
    <2>5. Cardinality(Busy(r)') \in Nat /\ Cardinality(Busy(r)') <= Cardinality(Processes)
      BY <2>4, ProcessesAssumption, FS_Subset, FS_CardinalityType
    <2>6. Accounted(r)'
      BY <1>1, <2>1, <2>2, <2>5 DEF Accounted
    <2>7. \A q \in Reviewers \ {r} : Accounted(q)'
      BY <1>1, <2>1, <2>2, <2>3 DEF Accounted
    <2> QED
      BY <1>1, <2>1, <2>6, <2>7 DEF Rightful
  <1>4. ASSUME NEW p \in Processes, actor[p] # NoOne, Finish(p), UNCHANGED rightsVars,
               \/ late' = late
               \/ ~May(actor[p]) /\ late' = [late EXCEPT ![actor[p]] = @ + 1]
        PROVE  Rightful'
    <2>1. PICK r \in Reviewers : r = actor[p]
      BY <1>1, <1>4 DEF Acting
    <2>2. /\ actor' = [actor EXCEPT ![p] = NoOne] /\ ever' = ever
          /\ \A q \in Reviewers : May(q)' <=> May(q)
      BY <1>4, SameRights DEF Finish
    <2>3. /\ p \in Busy(r) /\ Busy(r)' = Busy(r) \ {p}
          /\ \A q \in Reviewers \ {r} : Busy(q)' = Busy(q)
      BY <1>1, <2>1, <2>2, NoOneAssumption DEF Busy, Acting
    <2>4. Cardinality(Busy(r)') = Cardinality(Busy(r)) - 1 /\ Cardinality(Busy(r)) \in Nat
      BY <2>3, BusyFinite, FS_RemoveElement
    <2>5. /\ late' \in [Reviewers -> Nat] /\ \A q \in Reviewers \ {r} : late'[q] = late[q]
          /\ late'[r] = late[r] \/ (~May(r) /\ late'[r] = late[r] + 1)
      BY <1>1, <1>4, <2>1
    <2>6. Accounted(r)'
      BY <1>1, <2>2, <2>3, <2>4, <2>5, BusyFinite DEF Accounted
    <2>7. \A q \in Reviewers \ {r} : Accounted(q)'
      BY <1>1, <2>2, <2>3, <2>5 DEF Accounted
    <2> QED
      BY <1>1, <2>5, <2>6, <2>7 DEF Rightful
  <1>5. ASSUME NEW p \in Processes, Complete(p) \/ Abandon(p) PROVE Rightful'
    BY <1>4, <1>5 DEF Complete, Abandon, Finish
  <1>6. CASE Administer
    <2>1. /\ ever' = ever \cup {r \in Reviewers : May(r)'} /\ actor' = actor
          /\ late' = [r \in Reviewers |-> IF May(r)' THEN 0 ELSE late[r]]
      BY <1>6 DEF Administer
    <2>2. \A r \in Reviewers : Busy(r)' = Busy(r)
      BY <2>1 DEF Busy
    <2>3. \A r \in Reviewers : Accounted(r)'
      BY <1>1, <2>1, <2>2, BusyFinite DEF Accounted
    <2> QED
      BY <1>1, <2>1, <2>3 DEF Rightful
  <1>7. ASSUME NEW s, NEW confidence, Suggest(s, confidence) PROVE Rightful'
    BY <1>2, <1>7 DEF Suggest
  <1>8. ASSUME NEW r \in Reviewers, Enqueue(r) \/ Redeliver(r) PROVE Rightful'
    BY <1>2, <1>8 DEF Enqueue, Redeliver
  <1>9. ASSUME NEW p \in Processes, NEW r \in Reviewers, Lose(p, r) PROVE Rightful'
    BY <1>2, <1>9 DEF Lose
  <1>10. ASSUME NEW p \in Processes, Work(p) PROVE Rightful'
    BY <1>2, <1>10 DEF Work
  <1>11. CASE UNCHANGED dispatchVars
    BY <1>2, <1>11 DEF dispatchVars
  <1> QED
    BY <1>3, <1>5, <1>6, <1>7, <1>8, <1>9, <1>10, <1>11 DEF DispatchNext

\* identity.py:33-43, review.py:17 and start_workers.sh:14-16: whatever is published
\* and delivered again, and however the grants change, between any two moments in
\* which a reviewer has the permission each process gets at most one decision of his
\* through, and none before he first has it.
THEOREM LateDecisionsAreFew == DispatchSpec => []LateDecisionsBounded
  <1>1. Rightful => LateDecisionsBounded
    BY BusyFinite DEF Rightful, Accounted, LateDecisionsBounded
  <1> QED
    BY RightfulInit, RightfulStep, <1>1, PTL DEF DispatchSpec

-------------------------------------------------------------------------------
\* The grants and the bookkeeping keep their types.
Recorded == /\ user_roles \subseteq Reviewers \X Roles /\ ever \subseteq Reviewers
            /\ role_permissions \subseteq Roles \X Permissions /\ changes \in 0..MaxChanges

LEMMA RecordedStep == Recorded /\ [DispatchNext]_dispatchVars => Recorded'
  <1> SUFFICES ASSUME Recorded, [DispatchNext]_dispatchVars PROVE Recorded'
    OBVIOUS
  <1>1. CASE Administer
    <2>1. ever' \subseteq Reviewers
      BY <1>1 DEF Administer, Recorded
    <2>2. changes' \in 0..MaxChanges
      BY <1>1, BoundsAssumption DEF Administer, Rights!Administer, Rights!Grant, Rights!Revoke,
         Rights!Allow, Rights!DeleteRole, Rights!Change, Recorded
    <2>3. user_roles' \subseteq Reviewers \X Roles
      BY <1>1 DEF Administer, Rights!Administer, Rights!Grant, Rights!Revoke, Rights!Allow,
         Rights!DeleteRole, Recorded
    <2>4. role_permissions' \subseteq Roles \X Permissions
      BY <1>1 DEF Administer, Rights!Administer, Rights!Grant, Rights!Revoke, Rights!Allow,
         Rights!DeleteRole, Recorded
    <2> QED
      BY <2>1, <2>2, <2>3, <2>4 DEF Recorded
  <1>2. UNCHANGED <<rightsVars, ever>> \/ Administer
    BY DEF DispatchNext, dispatchVars, Suggest, Enqueue, Redeliver, Work, Complete, Abandon, Finish,
           Accept, Lose
  <1> QED
    BY <1>1, <1>2 DEF rightsVars, Recorded

\* workers.py:33-38: the types of the composed state; among them, that there are
\* never more apps than threads, however often enqueue() is called and fails.
THEOREM DispatchTypeCorrect == DispatchSpec => []DispatchTypeOK
  <1> DEFINE IInv == Base /\ HasApp /\ Recorded /\ Rightful
  <1>1. DispatchInit => IInv
    BY BaseInit, HasAppInit, RightfulInit, BoundsAssumption DEF DispatchInit, Recorded
  <1>2. IInv /\ [DispatchNext]_dispatchVars => IInv'
    <2> SUFFICES ASSUME IInv, [DispatchNext]_dispatchVars PROVE IInv'
      OBVIOUS
    <2>1. [Next]_vars /\ [Tasks!Next]_workersVars
      BY DispatchRefines DEF Rightful, dispatchVars, reviewVars
    <2> QED
      BY <2>1, BaseStep, HasAppStep, RecordedStep, RightfulStep
  <1>3. IInv => DispatchTypeOK
    <2> SUFFICES ASSUME IInv PROVE DispatchTypeOK
      OBVIOUS
    <2>1. built <= Cardinality(Reviewers)
      BY BuildersFinite DEF HasApp
    <2>2. Tasks!TypeOK
      BY DEF HasApp, Tasks!TypeOK
    <2> QED
      BY <2>1, <2>2 DEF Base, Recorded, Rightful, Acting, DispatchTypeOK
  <1> QED
    BY <1>1, <1>2, <1>3, PTL DEF DispatchSpec
===============================================================================
