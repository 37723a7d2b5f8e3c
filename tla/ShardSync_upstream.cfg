SPECIFICATION Spec
CONSTANTS
  Hosts = {hA, hB}
  Nobody = Nobody
  Stamps = {0, 1}
  Details = {hA, hB, Nobody}
  ShardCount = 2
  Retries = 2
  MaxFaults = 2
  Conflicted = Conflicted
SYMMETRY HostSymmetry
INVARIANTS
  TypeOK
PROPERTIES
  UpstreamKeepsOutcomes
  OutcomeNeverLost
