\* The application of docs/server/server.c, which handles SIGINT itself.
SPECIFICATION FairSpec
CONSTANTS
  c1 = c1
  c2 = c2
  Nobody = Nobody
  Clients <- TwoClients
  AppDispositions <- HandledByApp
  BacklogSize = 2
  MaxFailures = 0
PROPERTIES
  StopEndsServer
CHECK_DEADLOCK FALSE
