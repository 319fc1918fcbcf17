\* The Apple branch, with any trouble at the start: progress if every client
\* says something.
CONSTANTS
  Fds <- TwoFds
  MaxConnections = 2
  Platform = "apple"
  ResponseLength = 1
  KeepAliveClients = {}
  Faults <- StartAndClientFaults
SPECIFICATION TalkativeSpec
PROPERTIES
  StopCompletes
