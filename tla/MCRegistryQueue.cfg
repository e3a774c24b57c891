SPECIFICATION Spec
CONSTANTS
  a1 = a1
  a2 = a2
  a3 = a3
  p1 = p1
  p2 = p2
  p3 = p3
  p4 = p4
  r1 = r1
  r2 = r2
  r3 = r3
  n1 = n1
  n2 = n2
  n3 = n3
  ep = ep
  NoEndpoint = NoEndpoint
  NoRequest = NoRequest
  NoVm = NoVm
  Addr <- MCAddr
  Process <- MCProcess
  NameOf <- MCNameOf
  EndpointOf <- MCEndpointOf
  Capability <- MCCapability
  Offers <- MCOffers
  Request <- MCRequest
  Needs <- MCNeeds
  VmOf <- MCVmOf
  Poll = {}
  PendingQueueCap = 2
  MaxStrikes = 1
  MaxProgress = 0
  ProgressRequired = FALSE
  Clocks = {"heartbeat"}
SYMMETRY Symmetry
INVARIANTS TypeOK OneWorkerPerRequest QueueExclusive WorkConserving UniqueInstance
PROPERTIES NoOvertaking ReconnectKeepsAssignment ImplementsView EntersBySubmission
