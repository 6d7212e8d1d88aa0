SPECIFICATION Spec
CONSTANTS
  h1 = h1
  h2 = h2
  local_host = local_host
  Host <- MCTwoHosts
  Placeholder = local_host
  SupervisorPorts <- MCPort
  PortModulus = 65536
  CrashAt <- MCAnywhere
INVARIANTS
  WorkerPortAssertion
