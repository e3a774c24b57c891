SPECIFICATION FairSpec
CONSTANTS
  j1 = j1
  k1 = k1
  o1 = o1
  img = img
  prog = prog
  c1 = c1
  c2 = c2
  NoVersion = NoVersion
  NoRequest = NoRequest
  Request = {j1, k1, o1}
  SurfaceOf <- MCSurfaceOf
  SourceOf <- MCSourceOf
  ProgramOf <- MCProgramOf
  Image = {img}
  Program = {prog}
  Version = {"v1", "v2"}
  Call = {c1}
  Disconnects = TRUE
ACTION_CONSTRAINT OneSurface
INVARIANTS VerdictsAgree StashVerified WorkerReleased FailedNotQueued
PROPERTIES Settles
