\* Two clients, every runtime fault, descriptors that run out.
CONSTANTS
  Fds <- ThreeFds
  MaxConnections = 2
  Platform = "apple"
  ResponseLength = 2
  KeepAliveClients = {1}
  Faults <- RuntimeFaults
SPECIFICATION Spec
INVARIANTS
  TypeOK
  DescriptorOwnership
  AnswersReachTheirClient
  DrainedAtReturn
  OneTaskPerConnection
  NoTaskSleeps
PROPERTIES
  ImplementsContract
