SPECIFICATION Spec
CONSTANTS
  Base = 4
  kMagic = 251
  kMaxPayload = 200
  Samples <- WireSamples
  Nodes = {1, 2, 3}
  Thieves = {3}
  Policies = {"LoadAware"}
  kNodeTimeout = 2
  Load <- LoadOfPort
  MaxLoad = 1
  MaxMisses = 0
  MaxFaults = 1
INVARIANTS LoadRedistributed
