SPECIFICATION FairSpec
CONSTANTS
  Clients = {1, 2}
  Capacities = {1, 2}
  RoutesInUse <- MCRoutes
CHECK_DEADLOCK FALSE
INVARIANTS ConnectionsReturned LinesMatchAnswers OnlyUsersServed
PROPERTIES Answered
