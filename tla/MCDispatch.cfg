SPECIFICATION DispatchSpec
CONSTANTS
  r1 = r1
  p1 = p1
  p2 = p2
  reviewer = reviewer
  admin = admin
  Suggestions = {s1}
  Reviewers = {r1}
  Confidences <- LowConfidences
  Processes = {p1, p2}
  Absent = Absent
  NoOne = NoOne
  MaxDecisions = 3
  Roles = {reviewer, admin}
  Permissions = {review_suggestion}
  PERM_REVIEW_SUGGESTION = review_suggestion
  MaxCopies = 2
  MaxChanges = 2
CHECK_DEADLOCK FALSE
SYMMETRY Symmetry
INVARIANTS DispatchTypeOK LateDecisionsBounded
