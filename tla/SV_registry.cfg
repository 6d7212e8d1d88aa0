SPECIFICATION Spec
CONSTANTS
  h1 = h1
  h2 = h2
  local_host = local_host
  Host <- MCTwoHosts
  Placeholder = local_host
  SupervisorPorts <- MCSmallPort
  PortModulus = 16
  CrashAt <- MCAnywhere
INVARIANTS
  TypeOK
  HostsUnique
  WorkersMatchOdb
  RightWorker
PROPERTIES
  ImplementsRegistry
  ClientsServed
