SPECIFICATION Spec
CONSTANTS
  Blank = " "
  Lower <- MCLower
  IntLiteral <- MCInt
  FloatLiteral <- MCFloat
  SortedKeys <- MCSortedKeys
  Sources <- MCSources
  RawRows <- AllRawRows
  Batches <- AllBatches
  NoneKey <- MCNoneKey
  SourceCol <- MCSourceCol
  HashCol <- MCHashCol
  MaxCalls = 2
CHECK_DEADLOCK FALSE
INVARIANTS OnePerHash FirstOccurrences HashSeparates NormalisedOnce
