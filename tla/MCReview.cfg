SPECIFICATION Spec
CONSTANTS
  s1 = s1
  r1 = r1
  r2 = r2
  p1 = p1
  p2 = p2
  Suggestions = {s1}
  Reviewers = {r1, r2}
  Confidences <- MCConfidences
  Processes = {p1, p2}
  Absent = Absent
  NoOne = NoOne
  MaxDecisions = 3
CHECK_DEADLOCK FALSE
SYMMETRY Symmetry
INVARIANTS StateFollowsLog StateExplained
PROPERTIES ImplementsRegister
