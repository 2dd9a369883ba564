CONSTANTS
  Platforms = {"linux", "mac"}
  Fds <- FewFds
  HandlersAct = FALSE
  MaxServers = 2
  MaxClients = 3
  MaxOpened = 1
  MaxFails = 1
SPECIFICATION FairSpec
INVARIANTS
  TypeOK
  OpenIsWatched
  ReportsAlive
  OwnDescriptor
PROPERTIES
  ClientsServed
CHECK_DEADLOCK FALSE
