\* The Linux branch, whose waits all end: progress with any clients.
CONSTANTS
  Fds <- TwoFds
  MaxConnections = 2
  Platform = "linux"
  ResponseLength = 2
  KeepAliveClients = {}
  Faults <- ClientFaults
SPECIFICATION FairSpec
PROPERTIES
  StopCompletes
  AcceptedAreClosed
  BacklogIsAccepted
