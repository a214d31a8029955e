\* The server process, its children and its clients, whatever the application does with SIGINT.
SPECIFICATION FairSpec
CONSTANTS
  c1 = c1
  c2 = c2
  Nobody = Nobody
  Clients <- TwoClients
  AppDispositions <- AnyDisposition
  BacklogSize = 2
  MaxFailures = 1
INVARIANTS
  TypeOK
  EndsOnlyWhenStopped
  DescriptorsHeld
  NoZombies
PROPERTIES
  AnswersEnd
  PortFreed
  ImplementsLifecycle
CHECK_DEADLOCK FALSE
