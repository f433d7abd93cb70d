SPECIFICATION FairSpec
CONSTANTS
  gw = gw
  a = a
  far = far
  R0 = R0
  R1 = R1
  m1 = m1
  m2 = m2
  own0 = own0
  own1 = own1
  i0 = i0
  i1 = i1
  None = None
  Zero = Zero
  Hosts = {gw, a}
  Macs = {m1, m2}
  Ifaces = {i0, i1}
  Dests = {a, far}
  MaxMoves = 1
  MaxWire = 2
  IPs <- MCIPs
  mac <- MCMac
  NextHops <- MCNextHops
  via <- MCVia
  InitAt <- MCInitAt
  Places <- MCPlaces
INVARIANTS TypeOK BindingsTrue SentToOwner LastOrFirst SilentNextHopUnknown
PROPERTIES Resolved
