\* The Apple branch with a client that connects and says nothing.
CONSTANTS
  Fds <- TwoFds
  MaxConnections = 1
  Platform = "apple"
  ResponseLength = 1
  KeepAliveClients = {}
  Faults = {}
SPECIFICATION FairSpec
PROPERTIES
  StopCompletes
