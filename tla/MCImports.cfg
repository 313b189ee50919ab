SPECIFICATION ImportsSpec
CONSTANTS
  Body <- Bodies
  Parent <- Packages
  Classes <- MappedClasses
  Entries <- AnyOrder
CHECK_DEADLOCK FALSE
INVARIANTS ImportsTypeOK MappedOnce SeedFindsTables
PROPERTIES AppModelsSuffices
