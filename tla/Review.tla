-------------------------------- MODULE Review --------------------------------
(***************************************************************************)
(* The life of a suggestion: make_suggestion, the decisions of concurrent  *)
(* reviewers (apply_review_decision, audit_trail_entry) and the audit log. *)
(* review.py leaves persistence and the audit entry to its caller, which   *)
(* the repository does not contain.  The caller is modelled as one unit of *)
(* work of database.py in some process: it loads the suggestion, without   *)
(* FOR UPDATE, which nothing asks of it, computes the new row and the      *)
(* audit entry from that copy, and commits both together.  The ORM writes  *)
(* the columns whose value differs from the loaded one.                    *)
(***************************************************************************)
EXTENDS Integers, Sequences

CONSTANTS Suggestions, Reviewers,
          Processes,   \* that carry decisions out, each one at a time
          Confidences, \* confidences in hundredths
          Absent, NoOne,
          MaxDecisions \* bound on the decisions of a behaviour

ASSUME ConfidencesAssumption == Confidences \subseteq 0..100
ASSUME NoOneAssumption == NoOne \notin Reviewers

States == {"pending_review", "approved", "rejected"}
Row == [confidence : Confidences, state : States,
        payload : {"proposed", "edited"}, reviewer_id : Reviewers \cup {NoOne}]
ASSUME AbsentAssumption == /\ Absent \notin Row
                           /\ Absent \notin [first : States, state : States,
                                         reviewer_id : Reviewers \cup {NoOne}]

VARIABLES suggestions, \* the table: suggestion -> its row, or Absent
          audit_logs,  \* the table, in the order of commits
          pc,          \* process -> "idle", "loaded" or "decided"
          loaded,      \* process -> the suggestion loaded and the row as it was
          updated,     \* process -> the dict apply_review_decision returned
          entry        \* process -> the dict audit_trail_entry returned
vars == <<suggestions, audit_logs, pc, loaded, updated, entry>>

AUTO_APPROVE_THRESHOLD == 85
should_auto_approve(confidence) == confidence >= AUTO_APPROVE_THRESHOLD

\* Mutation: the threshold itself is not enough.
make_suggestion_above(confidence) ==
    [confidence |-> confidence,
     state |-> IF confidence > AUTO_APPROVE_THRESHOLD THEN "approved" ELSE "pending_review",
     payload |-> "proposed", reviewer_id |-> NoOne]

make_suggestion(confidence) ==
    [confidence |-> confidence,
     state |-> IF should_auto_approve(confidence) THEN "approved" ELSE "pending_review",
     payload |-> "proposed", reviewer_id |-> NoOne]

Decisions == {"approve", "reject", "edit"}
NewState(decision) == IF decision = "approve" THEN "approved" ELSE "rejected"

\* Mutation: a decision is final, but the entry is written all the same.
apply_review_decision_once(suggestion, decision, reviewer_id, edits) ==
    [row |-> [suggestion EXCEPT !.state = IF @ = "pending_review" THEN NewState(decision) ELSE @,
                                !.reviewer_id = reviewer_id],
     review_edits |-> edits]

\* The edits are noted beside the row; the table has no column for them.
apply_review_decision(suggestion, decision, reviewer_id, edits) ==
    [row |-> [suggestion EXCEPT !.state = NewState(decision), !.reviewer_id = reviewer_id],
     review_edits |-> edits]

\* Mutation: the entry counts an edit as an approval.
audit_trail_edit_approves(id, suggestion, decision, reviewer_id) ==
    [resource_id |-> id, action |-> decision, actor_id |-> reviewer_id,
     before |-> suggestion.state,
     after |-> IF decision = "reject" THEN "rejected" ELSE "approved"]

audit_trail_entry(id, suggestion, decision, reviewer_id) ==
    [resource_id |-> id, action |-> decision, actor_id |-> reviewer_id,
     before |-> suggestion.state, after |-> NewState(decision)]

Init == /\ suggestions = [s \in Suggestions |-> Absent] /\ audit_logs = << >>
        /\ pc = [p \in Processes |-> "idle"]
        /\ loaded = [p \in Processes |-> Absent]
        /\ updated = [p \in Processes |-> Absent]
        /\ entry = [p \in Processes |-> Absent]

Propose(s, confidence) ==
    /\ suggestions[s] = Absent
    /\ suggestions' = [suggestions EXCEPT ![s] = make_suggestion(confidence)]
    /\ UNCHANGED <<audit_logs, pc, loaded, updated, entry>>

\* The suggestion is loaded whatever its state is, and whoever else has it in
\* hand; other decisions on it may be committed before this one is.
Load(p, s) ==
    /\ pc[p] = "idle" /\ suggestions[s] # Absent
    /\ loaded' = [loaded EXCEPT ![p] = [id |-> s, row |-> suggestions[s]]]
    /\ pc' = [pc EXCEPT ![p] = "loaded"]
    /\ UNCHANGED <<suggestions, audit_logs, updated, entry>>

Decide(p, decision, reviewer_id) ==
    /\ pc[p] = "loaded"
    /\ updated' = [updated EXCEPT ![p] =
            apply_review_decision(loaded[p].row, decision, reviewer_id,
                                  IF decision = "edit" THEN "edited" ELSE "none")]
    /\ entry' = [entry EXCEPT ![p] =
            audit_trail_entry(loaded[p].id, loaded[p].row, decision, reviewer_id)]
    /\ pc' = [pc EXCEPT ![p] = "decided"]
    /\ UNCHANGED <<suggestions, audit_logs, loaded>>

Release(p) == /\ pc' = [pc EXCEPT ![p] = "idle"]
              /\ loaded' = [loaded EXCEPT ![p] = Absent]
              /\ updated' = [updated EXCEPT ![p] = Absent]
              /\ entry' = [entry EXCEPT ![p] = Absent]

\* UPDATE suggestions SET the changed columns; INSERT INTO audit_logs; COMMIT.
Flush(current, old, new) ==
    [c \in DOMAIN current |-> IF new[c] # old[c] THEN new[c] ELSE current[c]]
CommitDecision(p) ==
    /\ pc[p] = "decided" /\ Len(audit_logs) < MaxDecisions
    /\ suggestions' = [suggestions EXCEPT ![loaded[p].id] =
                            Flush(@, loaded[p].row, updated[p].row)]
    /\ audit_logs' = Append(audit_logs, entry[p])
    /\ Release(p)

\* An unknown decision raises ValueError, a connection drops, the process
\* dies: the unit of work is rolled back.
GiveUp(p) == /\ pc[p] # "idle"
             /\ Release(p)
             /\ UNCHANGED <<suggestions, audit_logs>>

Next == \/ \E s \in Suggestions, confidence \in Confidences : Propose(s, confidence)
        \/ \E p \in Processes :
              \/ \E s \in Suggestions : Load(p, s)
              \/ \E decision \in Decisions, reviewer_id \in Reviewers : Decide(p, decision, reviewer_id)
              \/ CommitDecision(p)
              \/ GiveUp(p)
Spec == Init /\ [][Next]_vars

-------------------------------------------------------------------------------
Entry == [resource_id : Suggestions, action : Decisions, actor_id : Reviewers,
          before : States, after : {"approved", "rejected"}]
TypeOK == /\ suggestions \in [Suggestions -> Row \cup {Absent}]
          /\ audit_logs \in Seq(Entry)
          /\ pc \in [Processes -> {"idle", "loaded", "decided"}]
          /\ loaded \in [Processes -> [id : Suggestions, row : Row] \cup {Absent}]
          /\ updated \in [Processes -> [row : Row, review_edits : {"none", "edited"}] \cup {Absent}]
          /\ entry \in [Processes -> Entry \cup {Absent}]

Entries(s) == {i \in DOMAIN audit_logs : audit_logs[i].resource_id = s}
Changes(s) == {i \in Entries(s) : audit_logs[i].before # audit_logs[i].after}
Proposed(row) == IF should_auto_approve(row.confidence) THEN "approved" ELSE "pending_review"

\* audit.py:3-4, "the source of truth for what happened"; review.py:35-36, 54-55.
\* The state of a suggestion can be told from the log although decisions overlap
\* and are computed from copies: it is what the latest entry says whose state
\* after differs from the one before, or that of the proposal if there is none.
\* The latest entry of all may say something else.
StateFollowsLog ==
    \A s \in Suggestions : suggestions[s] # Absent =>
        /\ Changes(s) = {} => suggestions[s].state = Proposed(suggestions[s])
        /\ \A i \in Changes(s) :
              (\A j \in Changes(s) : j <= i) => suggestions[s].state = audit_logs[i].after

\* suggestions.py:31-50 and review.py:36.  What is in the queue has a low confidence
\* and no decision, what was approved without a decision has a high one, and
\* nothing is rejected without a decision.
StateExplained ==
    \A s \in Suggestions : suggestions[s] # Absent =>
        LET row == suggestions[s]
        IN  /\ row.state = "pending_review" => ~should_auto_approve(row.confidence) /\ Entries(s) = {}
            /\ row.state = "approved" => \/ should_auto_approve(row.confidence)
                                         \/ \E i \in Entries(s) : audit_logs[i].after = "approved"
            /\ row.state = "rejected" => \E i \in Entries(s) : audit_logs[i].after = "rejected"

\* README.md:25 and review.py:36.  A suggestion leaves the review queue for good.
NeverBackInQueue ==
    [][\A s \in Suggestions :
          (suggestions[s] # Absent /\ suggestions[s].state # "pending_review") =>
              suggestions'[s].state # "pending_review"]_vars

\* review.py:35-37, 49-56.  The table and the log together behave like a register
\* with a log, also of stale copies: no entry tells of a state that the suggestion
\* never had, and no reviewer is named in the row who has not decided on it.
Register == INSTANCE AuditedRegister WITH
    Objects <- Suggestions, Actors <- Reviewers,
    value <- [s \in Suggestions |-> IF suggestions[s] = Absent THEN Absent
                 ELSE [first |-> Proposed(suggestions[s]), state |-> suggestions[s].state,
                       reviewer_id |-> suggestions[s].reviewer_id]],
    log <- [i \in DOMAIN audit_logs |->
               [resource_id |-> audit_logs[i].resource_id, actor_id |-> audit_logs[i].actor_id,
                before |-> audit_logs[i].before, after |-> audit_logs[i].after]]
ImplementsRegister == Register!Spec
===============================================================================
