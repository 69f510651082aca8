\* Calls from the client and from the tasks themselves. A fault ends everything.
CONSTANTS
  t1 = t1
  t2 = t2
  h1 = h1
  h2 = h2
  h3 = h3
  Tasks <- MCTasks
  Handles <- MCHandles
  Clients <- MCClients
  MaxStarts = 2
SPECIFICATION FairSpec
INVARIANTS
  TypeOK
  StopsOnlyItsOwn
PROPERTIES
  MutComesBack
CHECK_DEADLOCK FALSE
