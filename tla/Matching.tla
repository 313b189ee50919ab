-------------------------------- MODULE Matching --------------------------------
(***************************************************************************)
(* Making suggestions (README.md:156-160): look up the active version of   *)
(* the template, score each of its rules, combine the scores, and let the  *)
(* confidence choose the state of the suggestion.  Meanwhile editors add   *)
(* versions and change their status; the repository leaves both to them    *)
(* and to the constraints of the table.                                    *)
(*                                                                         *)
(* score_confidence adds floats.  A number is counted in units of 1/One;   *)
(* Round(a, b) is the float nearest to a / b, where the arithmetic of the  *)
(* machine ends up after every operation.                                  *)
(***************************************************************************)
EXTENDS Templates, FiniteSets

CONSTANTS Round(_, _),   \* the float nearest to a quotient
          One,           \* the number 1, in units
          RoundingError, \* bound on the distance of a quotient from its float
          Threshold,     \* AUTO_APPROVE_THRESHOLD, in units
          Scores,        \* scores a rule may get
          MaxRules,      \* bound on the rules of a version
          Ids,           \* version rows
          MaxVersion,    \* bound on version numbers
          PayloadsInUse, \* payloads editors give to versions
          UniqueVersion, \* UNIQUE (template_id, version) is there
          Absent

ASSUME NumbersAssumption ==
    /\ One \in Nat \ {0} /\ RoundingError \in Nat /\ MaxRules \in Nat
    /\ Threshold \in 0..One /\ Scores \subseteq 0..One
\* What IEEE 754 says of the range in use: rounding is monotone and whole numbers
\* are floats, so a quotient up to a whole number rounds to at most that number.
ASSUME RoundAssumption ==
    \A a \in 0..(MaxRules * One), b \in 1..MaxRules :
        /\ Round(a, b) \in Nat
        /\ \A c \in 0..MaxRules : a <= (c * One) * b => Round(a, b) <= c * One
        /\ b * Round(a, b) - a <= b * RoundingError
        /\ a - b * Round(a, b) <= b * RoundingError
ASSUME PayloadsAssumption == PayloadsInUse \subseteq Payloads(0..MaxRules)

VARIABLES versions,   \* template_versions: id -> row or Absent
          pc,         \* "idle", "scoring" or "made"
          rules,      \* rules of the version looked up
          scored,     \* rules scored so far
          total,      \* the sum so far
          exact,      \* what it would be without rounding
          suggestion  \* the suggestion made, or Absent
scoring == <<rules, scored, total, exact>>
vars == <<versions, pc, scoring, suggestion>>

-------------------------------------------------------------------------------
(* score_confidence and make_suggestion.                                   *)
should_auto_approve(confidence) == confidence >= Threshold

make_suggestion(confidence) ==
    [confidence |-> confidence,
     state |-> IF should_auto_approve(confidence) THEN "approved" ELSE "pending_review"]

\* Mutation: the mean is taken on the way.
AddedHalved(score) == Round(total + score, 2)

\* One turn of sum().
Added(score) == Round(total + score, 1)

Mean == IF rules = 0 THEN 0 ELSE Round(total, rules)

-------------------------------------------------------------------------------
(* The table, its readers and its editors.                                 *)
Version == [version : 1..MaxVersion, status : Statuses, payload : PayloadsInUse]
Stored == {v \in Ids : versions[v] # Absent}
\* The lists that a query without ORDER BY may return.
Orders == {ids \in [1..Cardinality(Stored) -> Stored] :
              \A v \in Stored : \E i \in DOMAIN ids : \A j \in DOMAIN ids : ids[j] = v <=> j = i}
Listings == {[i \in DOMAIN ids |-> versions[ids[i]]] : ids \in Orders}
Answers == {latest_active_version("template", listing) : listing \in Listings}
RuleCount(payload) == IF payload.rules = "list" THEN payload.count ELSE 0

Init == /\ versions = [v \in Ids |-> Absent]
        /\ pc = "idle" /\ suggestion = Absent
        /\ rules = 0 /\ scored = 0 /\ total = 0 /\ exact = 0

\* A template without an active version is a TemplateNotFoundError.
LookUp == /\ pc # "scoring"
          /\ \E answer \in Answers : \E row \in answer : rules' = RuleCount(row.payload)
          /\ scored' = 0 /\ total' = 0 /\ exact' = 0
          /\ pc' = "scoring" /\ suggestion' = Absent
          /\ UNCHANGED versions

ScoreRule(score) == /\ pc = "scoring" /\ scored < rules
                    /\ scored' = scored + 1
                    /\ total' = Added(score) /\ exact' = exact + score
                    /\ UNCHANGED <<versions, pc, rules, suggestion>>

Make == /\ pc = "scoring" /\ scored = rules
        /\ suggestion' = make_suggestion(Mean) /\ pc' = "made"
        /\ UNCHANGED <<versions, scoring>>

\* An edit is a new draft; the table may have the constraint.
Draft(v, number, payload) ==
    /\ versions[v] = Absent
    /\ UniqueVersion => \A w \in Stored : versions[w].version # number
    /\ versions' = [versions EXCEPT ![v] =
                       [version |-> number, status |-> "draft", payload |-> payload]]
    /\ UNCHANGED <<pc, scoring, suggestion>>

\* A promotion validates the payload; whether it archives others is up to it.
SetStatus(v, status) ==
    /\ v \in Stored
    /\ status = "active" => validate_template_payload(versions[v].payload) = {}
    /\ versions' = [versions EXCEPT ![v].status = status]
    /\ UNCHANGED <<pc, scoring, suggestion>>

Next == \/ LookUp \/ Make \/ \E score \in Scores : ScoreRule(score)
        \/ \E v \in Ids : \/ \E number \in 1..MaxVersion, payload \in PayloadsInUse : Draft(v, number, payload)
                          \/ \E status \in Statuses : SetStatus(v, status)
Spec == Init /\ [][Next]_vars

-------------------------------------------------------------------------------
TypeOK == /\ versions \in [Ids -> Version \cup {Absent}]
          /\ pc \in {"idle", "scoring", "made"}
          /\ rules \in 0..MaxRules /\ scored \in 0..rules
          /\ total \in Nat /\ exact \in Nat
          /\ suggestion \in [confidence : Nat, state : {"approved", "pending_review"}] \cup {Absent}

\* suggestions.py:28.  Rounding never carries a confidence out of [0, 1].
ConfidenceInRange == suggestion # Absent => suggestion.confidence <= One

\* suggestions.py:28-33, README.md:41-42.  The mean the machine computes may fall
\* on the other side of the threshold than the mean of the scores does, but only
\* if that is within two rounding errors of it.
DecidedWithinRounding ==
    suggestion # Absent =>
        /\ suggestion.state = "approved" => exact + 2 * (rules * RoundingError) >= rules * Threshold
        /\ suggestion.state = "pending_review" => exact < rules * Threshold + 2 * (rules * RoundingError)

\* templates.py:24-28.  What the lookup answers depends on the table and not on
\* the order in which a query lists its rows, also when several versions are
\* active.  It takes the unique key on (template_id, version).
ReadersAgree == UniqueVersion => \A x, y \in Answers : x = y

\* templates.py:40-47, suggestions.py:26-27.  A suggestion from a promoted version
\* has a rule to score: the mean of no scores is never what decides.
SomethingScored == pc # "idle" => rules > 0
===============================================================================
