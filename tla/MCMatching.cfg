SPECIFICATION Spec
CONSTANTS
  v1 = v1
  v2 = v2
  Round <- MCRound
  One <- MCOne
  RoundingError = 8
  Threshold <- MCThreshold
  Scores <- MCScores
  MaxRules = 4
  Ids = {v1, v2}
  MaxVersion = 2
  PayloadsInUse <- MCPayloads
  UniqueVersion = TRUE
  Absent = Absent
INVARIANTS DecidedWithinRounding ReadersAgree SomethingScored
