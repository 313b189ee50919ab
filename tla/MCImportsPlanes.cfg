SPECIFICATION ImportsSpec
CONSTANTS
  Body <- Bodies
  Parent <- Packages
  Classes <- MappedClasses
  Entries <- Commands
CHECK_DEADLOCK FALSE
INVARIANTS ImportsIndependently
