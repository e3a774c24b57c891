SPECIFICATION FairSpec
CONSTANTS
  a1 = a1
  a2 = a2
  a3 = a3
  p1 = p1
  p2 = p2
  p3 = p3
  p4 = p4
  r1 = r1
  r2 = r2
  r3 = r3
  n1 = n1
  n2 = n2
  n3 = n3
  ep = ep
  NoEndpoint = NoEndpoint
  NoRequest = NoRequest
  NoVm = NoVm
  Addr <- MCFewAddrs
  Process <- MCOneProcess
  NameOf <- MCNameOf
  EndpointOf <- MCEndpointOf
  Capability <- MCCapability
  Offers <- MCOffers
  Request <- MCFewRequests
  Needs <- MCNeeds
  VmOf <- MCVmOf
  Poll = {q1, q2}
  PendingQueueCap = 1
  MaxStrikes = 2
  MaxProgress = 1
  ProgressRequired = FALSE
  Clocks = {"grace"}
INVARIANTS WaitersKnown
PROPERTIES LossIsGenuine PollsReturn
