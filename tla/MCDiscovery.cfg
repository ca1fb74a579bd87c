SPECIFICATION FairSpec
CONSTANTS
  Peers = {p1, p2}
  Names = {wanted, other}
  Addrs = {lan, loopback}
  Loopback = loopback
  Wanted = wanted
  Handlers = {h1}
  Probes = {b1}
  Cap = 2
  MaxChanges = 2
INVARIANTS
  DiscoveryTypeOK
  ListTellsTable
  FindPeerMissesNobody
PROPERTIES
  GoneAgesOut
