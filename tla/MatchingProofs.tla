----------------------------- MODULE MatchingProofs -----------------------------
(***************************************************************************)
(* Theorems about Matching, for every arithmetic that rounds as            *)
(* RoundAssumption says, every threshold and any number of rules.          *)
(***************************************************************************)
EXTENDS Matching, TLAPS

\* The sum stays below the number of scores, and as near to the exact sum as the
\* roundings so far allow.
Accurate == /\ total <= scored * One
            /\ total - exact <= scored * RoundingError
            /\ exact - total <= scored * RoundingError
\* What is active has been validated.
Validated == \A v \in Stored : versions[v].status = "active" =>
                validate_template_payload(versions[v].payload) = {}
Numbered == UniqueVersion => \A v, w \in Stored : versions[v].version = versions[w].version => v = w
MadeFromMean == suggestion # Absent => pc = "made" /\ scored = rules /\ suggestion = make_suggestion(Mean)

IInv == TypeOK /\ Accurate /\ Validated /\ Numbered /\ MadeFromMean /\ SomethingScored

LEMMA TimesMonotone == ASSUME NEW a \in Nat, NEW b \in Nat, NEW c \in Nat, a <= b
                       PROVE  a * c <= b * c
  <1>1. PICK d \in Nat : b = a + d
    <2>1. b - a \in Nat /\ b = a + (b - a)  OBVIOUS
    <2> QED  BY <2>1
  <1>2. b * c = a * c + d * c  BY <1>1
  <1>3. a * c \in Nat /\ d * c \in Nat  OBVIOUS
  <1> QED  BY <1>2, <1>3

LEMMA TimesSuccessor == ASSUME NEW a \in Nat, NEW c \in Nat
                        PROVE  (a + 1) * c = a * c + c /\ a * c \in Nat /\ 1 * c = c
  OBVIOUS

\* A payload without complaints has a rule.
LEMMA ValidHasRules ==
    ASSUME NEW payload \in PayloadsInUse, validate_template_payload(payload) = {}
    PROVE  RuleCount(payload) \in 1..MaxRules
  <1>1. payload \in Payloads(0..MaxRules)  BY PayloadsAssumption
  <1>2. "rules" \notin {k \in {"inputs", "outputs", "rules"} : payload[k] # "list"}
        /\ "rules" \notin {k \in {"rules"} : payload.count = 0}
    BY DEF validate_template_payload
  <1>3. payload.rules = "list" /\ payload.count # 0  BY <1>2
  <1> QED  BY <1>1, <1>3, NumbersAssumption DEF Payloads, RuleCount

\* What a lookup answers is an active row of the table.
LEMMA AnswersAreActive ==
    ASSUME TypeOK, NEW answer \in Answers, NEW row \in answer
    PROVE  \E v \in Stored : row = versions[v] /\ row.status = "active"
  <1>1. PICK ids \in Orders : answer = latest_active_version("template", [i \in DOMAIN ids |-> versions[ids[i]]])
    BY DEF Answers, Listings
  <1> DEFINE listing == [i \in DOMAIN ids |-> versions[ids[i]]]
  <1>2. PICK i \in DOMAIN listing : row = listing[i] /\ listing[i].status = "active"
    BY <1>1 DEF latest_active_version
  <1>3. ids[i] \in Stored  BY <1>2 DEF Orders
  <1> QED  BY <1>2, <1>3

\* RoundAssumption for a sum, which is a quotient by 1.
LEMMA SumRounds ==
    ASSUME NEW a \in 0..(MaxRules * One), NEW c \in 0..MaxRules, 1 \in 1..MaxRules, a <= c * One
    PROVE  /\ Round(a, 1) \in Nat /\ Round(a, 1) <= c * One
           /\ Round(a, 1) - a <= RoundingError /\ a - Round(a, 1) <= RoundingError
  <1>1. /\ Round(a, 1) \in Nat
        /\ a <= (c * One) * 1 => Round(a, 1) <= c * One
        /\ 1 * Round(a, 1) - a <= 1 * RoundingError
        /\ a - 1 * Round(a, 1) <= 1 * RoundingError
    BY RoundAssumption
  <1>2. One \in Nat /\ RoundingError \in Nat /\ c \in Nat /\ a \in Int  BY NumbersAssumption
  <1>3. c * One \in Nat /\ (c * One) * 1 = c * One  BY <1>2
  <1> QED  BY <1>1, <1>2, <1>3

LEMMA InitInv == Init => IInv
  BY NumbersAssumption DEF Init, IInv, TypeOK, Accurate, Validated, Numbered, MadeFromMean, SomethingScored, Stored

LEMMA LookUpInv == IInv /\ LookUp => IInv'
  <1> SUFFICES ASSUME IInv, LookUp PROVE IInv'
    OBVIOUS
  <1>1. PICK answer \in Answers : \E row \in answer : rules' = RuleCount(row.payload)
    BY DEF LookUp
  <1>2. PICK row \in answer : rules' = RuleCount(row.payload)  BY <1>1
  <1>3. PICK v \in Stored : row = versions[v] /\ row.status = "active"
    BY <1>2, AnswersAreActive DEF IInv
  <1>4. row.payload \in PayloadsInUse /\ validate_template_payload(row.payload) = {}
    BY <1>3 DEF IInv, TypeOK, Validated, Stored, Version
  <1>5. rules' \in 1..MaxRules  BY <1>2, <1>4, ValidHasRules
  <1>6. TypeOK'  BY <1>5, NumbersAssumption DEF IInv, LookUp, TypeOK
  <1>7. Accurate'  BY NumbersAssumption DEF LookUp, Accurate
  <1>8. (Validated /\ Numbered)'
    BY DEF IInv, LookUp, Validated, Numbered, Stored
  <1>9. (MadeFromMean /\ SomethingScored)'  BY <1>5, NumbersAssumption DEF LookUp, MadeFromMean, SomethingScored
  <1> QED  BY <1>6, <1>7, <1>8, <1>9 DEF IInv

LEMMA ScoreRuleInv == ASSUME NEW score \in Scores PROVE IInv /\ ScoreRule(score) => IInv'
  <1> SUFFICES ASSUME IInv, ScoreRule(score) PROVE IInv'
    OBVIOUS
  <1> DEFINE sum == total + score
  <1>1. /\ score \in Nat /\ score <= One /\ One \in Nat /\ RoundingError \in Nat /\ MaxRules \in Nat
        /\ scored \in Nat /\ rules \in Nat /\ scored + 1 <= rules /\ rules <= MaxRules /\ 1 \in 1..MaxRules
        /\ total \in Nat /\ exact \in Nat
    BY NumbersAssumption DEF IInv, TypeOK, ScoreRule
  <1>2. sum \in Nat /\ sum <= (scored + 1) * One
    BY <1>1, TimesSuccessor DEF IInv, Accurate
  <1>3. (scored + 1) * One <= MaxRules * One
    <2>1. scored + 1 \in Nat  BY <1>1
    <2> QED  BY <1>1, <2>1, TimesMonotone
  <1>4. sum \in 0..(MaxRules * One)
    BY <1>1, <1>2, <1>3, TimesSuccessor
  <1>5. /\ Round(sum, 1) \in Nat /\ Round(sum, 1) <= (scored + 1) * One
        /\ Round(sum, 1) - sum <= RoundingError /\ sum - Round(sum, 1) <= RoundingError
    <2>1. scored + 1 \in 0..MaxRules  BY <1>1
    <2> HIDE DEF sum
    <2> QED  BY <1>1, <1>2, <1>4, <2>1, SumRounds
  <1>6. total' = Round(sum, 1) /\ exact' = exact + score /\ scored' = scored + 1
    BY DEF ScoreRule, Added
  <1>7. total' \in Nat /\ total' <= scored' * One
    BY <1>1, <1>2, <1>5, <1>6, TimesSuccessor
  <1>8. TypeOK'
    BY <1>1, <1>6, <1>7 DEF IInv, TypeOK, ScoreRule
  <1>9. Accurate'
    <2>1. scored' * RoundingError = scored * RoundingError + RoundingError
      BY <1>1, <1>6, TimesSuccessor
    <2>2. total' - sum <= RoundingError /\ sum - total' <= RoundingError
      BY <1>1, <1>4, <1>5, <1>6
    <2>3. /\ total - exact <= scored * RoundingError
          /\ exact - total <= scored * RoundingError
          /\ scored * RoundingError \in Nat
      BY <1>1, TimesSuccessor DEF IInv, Accurate
    <2>4. /\ total' - exact' <= scored' * RoundingError
          /\ exact' - total' <= scored' * RoundingError
      BY <2>1, <2>2, <2>3, <1>1, <1>6, <1>7
    <2> QED  BY <2>4, <1>7 DEF Accurate
  <1>10. (Validated /\ Numbered)'
    BY DEF IInv, ScoreRule, Validated, Numbered, Stored
  <1>11. (MadeFromMean /\ SomethingScored)'
    BY DEF IInv, ScoreRule, MadeFromMean, SomethingScored
  <1> QED  BY <1>8, <1>9, <1>10, <1>11 DEF IInv

\* The mean of scores from 0..One is a number of 0..One, and times their number
\* it is as near to the sum as one more rounding allows.
LEMMA MeanBounds ==
    ASSUME IInv, pc # "idle", scored = rules
    PROVE  /\ Mean \in Nat /\ Mean <= One /\ rules \in 1..MaxRules
           /\ rules * Mean - total <= rules * RoundingError
           /\ total - rules * Mean <= rules * RoundingError
  <1>1. /\ rules \in 1..MaxRules /\ One \in Nat /\ MaxRules \in Nat /\ total \in Nat
        /\ total <= rules * One
    BY NumbersAssumption DEF IInv, TypeOK, SomethingScored, Accurate
  <1>2. rules * One <= MaxRules * One  BY <1>1, TimesMonotone
  <1>3. total \in 0..(MaxRules * One)  BY <1>1, <1>2, TimesSuccessor
  <1>4. Mean = Round(total, rules)  BY <1>1 DEF Mean
  <1>5. total <= (1 * One) * rules  BY <1>1
  <1>6. 1 \in 0..MaxRules  BY <1>1
  <1>7. /\ Mean \in Nat /\ Mean <= 1 * One
        /\ rules * Mean - total <= rules * RoundingError
        /\ total - rules * Mean <= rules * RoundingError
    BY <1>1, <1>3, <1>4, <1>5, <1>6, RoundAssumption
  <1> QED  BY <1>1, <1>7

LEMMA MakeInv == IInv /\ Make => IInv'
  <1> SUFFICES ASSUME IInv, Make PROVE IInv'
    OBVIOUS
  <1>1. Mean \in Nat  BY MeanBounds DEF Make
  <1>2. Mean' = Mean  BY DEF Make, Mean, scoring
  <1>3. suggestion' = make_suggestion(Mean)  BY DEF Make
  <1>4. TypeOK'
    BY <1>1, <1>3 DEF IInv, Make, TypeOK, scoring, make_suggestion
  <1>5. MadeFromMean'
    BY <1>2, <1>3 DEF Make, scoring, MadeFromMean, make_suggestion, should_auto_approve
  <1>6. (Accurate /\ Validated /\ Numbered /\ SomethingScored)'
    BY DEF IInv, Make, scoring, Accurate, Validated, Numbered, Stored, SomethingScored
  <1> QED  BY <1>4, <1>5, <1>6 DEF IInv

LEMMA DraftInv ==
    ASSUME NEW v \in Ids, NEW number \in 1..MaxVersion, NEW payload \in PayloadsInUse
    PROVE  IInv /\ Draft(v, number, payload) => IInv'
  <1> SUFFICES ASSUME IInv, Draft(v, number, payload) PROVE IInv'
    OBVIOUS
  <1> DEFINE row == [version |-> number, status |-> "draft", payload |-> payload]
  <1>1. row \in Version  BY DEF Version, Statuses
  <1>2. versions' = [versions EXCEPT ![v] = row]  BY DEF Draft
  <1>3. versions \in [Ids -> Version \cup {Absent}]  BY DEF IInv, TypeOK
  <1>4. TypeOK'  BY <1>1, <1>2, <1>3 DEF IInv, Draft, TypeOK, scoring
  <1>5. \A w \in Stored' : \/ w = v /\ versions'[w] = row
                           \/ w \in Stored /\ versions'[w] = versions[w]
    <2> SUFFICES ASSUME NEW w \in Stored'
                 PROVE  \/ w = v /\ versions'[w] = row
                        \/ w \in Stored /\ versions'[w] = versions[w]
      OBVIOUS
    <2>1. w \in Ids /\ versions'[w] # Absent  BY DEF Stored
    <2>2. CASE w = v
      <3>1. versions'[v] = row  BY <1>2, <1>3
      <3> QED  BY <2>2, <3>1
    <2>3. CASE w # v
      <3>1. versions'[w] = versions[w]  BY <1>2, <1>3, <2>1, <2>3
      <3> QED  BY <2>1, <3>1 DEF Stored
    <2> QED  BY <2>2, <2>3
  <1>6. Validated'  BY <1>5 DEF IInv, Validated
  <1>7. Numbered'
    <2> SUFFICES ASSUME UniqueVersion, NEW w \in Stored', NEW x \in Stored',
                        versions'[w].version = versions'[x].version
                 PROVE  w = x
      BY DEF Numbered
    <2>1. \A y \in Stored : versions[y].version # number  BY DEF Draft
    <2> QED  BY <1>5, <2>1 DEF IInv, Numbered
  <1>8. (Accurate /\ MadeFromMean /\ SomethingScored)'
    BY DEF IInv, Draft, scoring, Accurate, MadeFromMean, SomethingScored, Mean
  <1> QED  BY <1>4, <1>6, <1>7, <1>8 DEF IInv

LEMMA SetStatusInv ==
    ASSUME NEW v \in Ids, NEW status \in Statuses
    PROVE  IInv /\ SetStatus(v, status) => IInv'
  <1> SUFFICES ASSUME IInv, SetStatus(v, status) PROVE IInv'
    OBVIOUS
  <1>1. versions \in [Ids -> Version \cup {Absent}] /\ v \in Stored  BY DEF IInv, TypeOK, SetStatus
  <1>2. versions[v] \in Version  BY <1>1 DEF Stored
  <1> DEFINE row == [versions[v] EXCEPT !.status = status]
  <1>3. /\ row \in Version /\ row.status = status
        /\ row.version = versions[v].version /\ row.payload = versions[v].payload
    BY <1>2 DEF Version
  <1>4. versions' = [versions EXCEPT ![v] = row]  BY DEF SetStatus
  <1>5. TypeOK'  BY <1>1, <1>3, <1>4 DEF IInv, SetStatus, TypeOK, scoring
  <1>6. \A w \in Stored' : /\ w \in Stored
                           /\ \/ w = v /\ versions'[w] = row
                              \/ w # v /\ versions'[w] = versions[w]
    <2> SUFFICES ASSUME NEW w \in Stored'
                 PROVE  /\ w \in Stored
                        /\ \/ w = v /\ versions'[w] = row
                           \/ w # v /\ versions'[w] = versions[w]
      OBVIOUS
    <2>1. w \in Ids /\ versions'[w] # Absent  BY DEF Stored
    <2>2. CASE w = v
      <3>1. versions'[v] = row  BY <1>1, <1>4 DEF Stored
      <3> QED  BY <1>1, <2>2, <3>1
    <2>3. CASE w # v
      <3>1. versions'[w] = versions[w]  BY <1>1, <1>4, <2>1, <2>3
      <3> QED  BY <2>1, <2>3, <3>1 DEF Stored
    <2> QED  BY <2>2, <2>3
  <1>7. Validated'
    BY <1>3, <1>6 DEF IInv, Validated, SetStatus
  <1>8. Numbered'
    <2>1. \A w \in Stored' : w \in Stored /\ versions'[w].version = versions[w].version
      BY <1>3, <1>6
    <2> QED  BY <2>1 DEF IInv, Numbered
  <1>9. (Accurate /\ MadeFromMean /\ SomethingScored)'
    BY DEF IInv, SetStatus, scoring, Accurate, MadeFromMean, SomethingScored, Mean
  <1> QED  BY <1>5, <1>7, <1>8, <1>9 DEF IInv

LEMMA NextInv == IInv /\ [Next]_vars => IInv'
  <1> SUFFICES ASSUME IInv, [Next]_vars PROVE IInv'
    OBVIOUS
  <1>1. CASE LookUp  BY <1>1, LookUpInv
  <1>2. CASE Make  BY <1>2, MakeInv
  <1>3. CASE \E score \in Scores : ScoreRule(score)  BY <1>3, ScoreRuleInv
  <1>4. CASE \E v \in Ids, number \in 1..MaxVersion, payload \in PayloadsInUse : Draft(v, number, payload)
    BY <1>4, DraftInv
  <1>5. CASE \E v \in Ids, status \in Statuses : SetStatus(v, status)  BY <1>5, SetStatusInv
  <1>6. CASE UNCHANGED vars
    BY <1>6 DEF vars, scoring, IInv, TypeOK, Accurate, Validated, Numbered, MadeFromMean, SomethingScored,
                Stored, Mean
  <1> QED  BY <1>1, <1>2, <1>3, <1>4, <1>5, <1>6 DEF Next

LEMMA Invariance == Spec => []IInv
  BY InitInv, NextInv, PTL DEF Spec

\* The counters stay in bounds and a suggestion is pending or approved.
THEOREM TypeCorrect == Spec => []TypeOK
  <1>1. IInv => TypeOK  BY DEF IInv
  <1> QED  BY <1>1, Invariance, PTL

\* A suggestion is made from at least one score (templates.py:40-47).
THEOREM ScoresSomething == Spec => []SomethingScored
  <1>1. IInv => SomethingScored  BY DEF IInv
  <1> QED  BY <1>1, Invariance, PTL

\* The mean of scores between 0 and 1 is between 0 and 1, however the sum and the
\* quotient are rounded (suggestions.py:28).
THEOREM ConfidenceStaysInRange == Spec => []ConfidenceInRange
  <1>1. IInv => ConfidenceInRange
    <2> SUFFICES ASSUME IInv, suggestion # Absent PROVE suggestion.confidence <= One
      BY DEF ConfidenceInRange
    <2>1. pc # "idle" /\ scored = rules /\ suggestion.confidence = Mean  BY DEF IInv, MadeFromMean, make_suggestion
    <2> QED  BY <2>1, MeanBounds
  <1> QED  BY <1>1, Invariance, PTL

\* Rounding puts a suggestion on the wrong side of the threshold only if the mean
\* of its scores is within two rounding errors of it (suggestions.py:28-33).
THEOREM RoundingDecidesOnlyNearThreshold == Spec => []DecidedWithinRounding
  <1>1. IInv => DecidedWithinRounding
    <2> SUFFICES ASSUME IInv, suggestion # Absent PROVE DecidedWithinRounding
      BY DEF DecidedWithinRounding
    <2>1. /\ pc # "idle" /\ scored = rules
          /\ suggestion.state = (IF Mean >= Threshold THEN "approved" ELSE "pending_review")
      BY DEF IInv, MadeFromMean, make_suggestion, should_auto_approve
    <2> DEFINE slack == rules * RoundingError
    <2>2. /\ Mean \in Nat /\ rules \in Nat /\ rules > 0 /\ total \in Nat /\ exact \in Nat
          /\ Threshold \in Nat /\ RoundingError \in Nat /\ slack \in Nat
          /\ rules * Mean \in Nat /\ rules * Threshold \in Nat
      BY <2>1, MeanBounds, NumbersAssumption DEF IInv, TypeOK
    <2>3. rules * Mean - total <= slack /\ total - rules * Mean <= slack
      BY <2>1, MeanBounds
    <2>4. total - exact <= slack /\ exact - total <= slack
      BY <2>1 DEF IInv, Accurate
    <2>5. exact + 2 * slack >= rules * Mean /\ exact <= rules * Mean + 2 * slack
      BY <2>2, <2>3, <2>4
    <2>6. CASE Mean >= Threshold
      <3>1. rules * Mean >= rules * Threshold
        BY <2>2, <2>6, TimesMonotone, Threshold * rules = rules * Threshold, Mean * rules = rules * Mean
      <3> QED  BY <2>1, <2>2, <2>5, <2>6, <3>1 DEF DecidedWithinRounding
    <2>7. CASE ~(Mean >= Threshold)
      <3>1. (Mean + 1) * rules <= Threshold * rules
        BY <2>2, <2>7, TimesMonotone
      <3>2. rules * Mean < rules * Threshold
        BY <2>2, <3>1, TimesSuccessor, Threshold * rules = rules * Threshold, Mean * rules = rules * Mean
      <3> QED  BY <2>1, <2>2, <2>5, <2>7, <3>2 DEF DecidedWithinRounding
    <2> QED  BY <2>6, <2>7
  <1> QED  BY <1>1, Invariance, PTL

\* With the unique key on the number of a version, all readers of one state of the
\* table find the same version (templates.py:24-28).
THEOREM ReadersFindTheSame == Spec => []ReadersAgree
  <1>1. IInv => ReadersAgree
    <2> SUFFICES ASSUME IInv, UniqueVersion, NEW x \in Answers, NEW y \in Answers PROVE x = y
      BY DEF ReadersAgree
    <2> DEFINE latest == {versions[v] : v \in {w \in Stored : versions[w].status = "active" /\
                             \A z \in Stored : versions[z].status = "active" =>
                                 versions[z].version < versions[w].version \/ z = w}}
    <2>1. \A ids \in Orders :
             latest_active_version("template", [i \in DOMAIN ids |-> versions[ids[i]]]) = latest
      <3> SUFFICES ASSUME NEW ids \in Orders
                   PROVE  latest_active_version("template", [i \in DOMAIN ids |-> versions[ids[i]]]) = latest
        OBVIOUS
      <3> DEFINE listing == [i \in DOMAIN ids |-> versions[ids[i]]]
                 active == {i \in DOMAIN listing : listing[i].status = "active"}
                 first == {k \in active : \A j \in active :
                              \/ listing[j].version < listing[k].version
                              \/ listing[j].version = listing[k].version /\ k <= j}
      <3>1. latest_active_version("template", listing) = {listing[i] : i \in first}
        BY DEF latest_active_version
      <3>2. /\ DOMAIN listing = DOMAIN ids /\ \A i \in DOMAIN ids : ids[i] \in Stored /\ listing[i] = versions[ids[i]]
            /\ \A v \in Stored : \E i \in DOMAIN ids : ids[i] = v
        BY DEF Orders
      <3>3. ASSUME NEW i \in first PROVE listing[i] \in latest
        <4>1. i \in DOMAIN ids /\ ids[i] \in Stored /\ versions[ids[i]].status = "active"
          BY <3>2
        <4>2. ASSUME NEW z \in Stored, versions[z].status = "active"
              PROVE  versions[z].version < versions[ids[i]].version \/ z = ids[i]
          <5>1. PICK j \in DOMAIN ids : ids[j] = z  BY <3>2
          <5>2. j \in active  BY <3>2, <5>1, <4>2
          <5>3. \/ versions[z].version < versions[ids[i]].version
                \/ versions[z].version = versions[ids[i]].version
            BY <3>2, <5>1, <5>2, <4>1
          <5> QED  BY <5>3, <4>1 DEF IInv, Numbered
        <4> QED  BY <3>2, <4>1, <4>2
      <3>4. ASSUME NEW v \in Stored, versions[v].status = "active",
                   \A z \in Stored : versions[z].status = "active" =>
                       versions[z].version < versions[v].version \/ z = v
            PROVE  versions[v] \in {listing[i] : i \in first}
        <4>1. PICK i \in DOMAIN ids : \A j \in DOMAIN ids : ids[j] = v <=> j = i
          BY DEF Orders
        <4>2. i \in active /\ listing[i] = versions[v]  BY <3>2, <4>1, <3>4
        <4>3. ASSUME NEW j \in active
              PROVE  \/ listing[j].version < listing[i].version
                     \/ listing[j].version = listing[i].version /\ i <= j
          <5>1. ids[j] \in Stored /\ versions[ids[j]].status = "active" /\ listing[j] = versions[ids[j]]
            BY <3>2
          <5>2. CASE ids[j] = v
            <6>1. j = i /\ i <= i  BY <3>2, <4>1, <5>2 DEF Orders
            <6> QED  BY <6>1
          <5>3. CASE ids[j] # v  BY <3>4, <4>2, <5>1, <5>3
          <5> QED  BY <5>2, <5>3
        <4> QED  BY <4>2, <4>3
      <3>5. latest \subseteq {listing[i] : i \in first}  BY <3>4
      <3>6. {listing[i] : i \in first} \subseteq latest  BY <3>3
      <3> QED  BY <3>1, <3>5, <3>6
    <2>2. x = latest /\ y = latest  BY <2>1 DEF Answers, Listings
    <2> QED  BY <2>2
  <1> QED  BY <1>1, Invariance, PTL
===============================================================================
