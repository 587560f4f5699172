SPECIFICATION FairSpec
CONSTANTS
  a = a
  b = b
  c = c
  d = d
  e = e
  g = g
  h = h
  cpu = cpu
  rx = rx
  tx = tx
  odd = odd
  users = users
  eth0 = eth0
  eth1 = eth1
  n1 = n1
  n2 = n2
  m1 = m1
  m2 = m2
  f1 = f1
  f2 = f2
  v1 = v1
  v2 = v2
  u1 = u1
  u2 = u2
  onos = onos
  noVm = noVm
  Metric = {cpu, rx, tx, odd, users}
  Iface = {eth0, eth1}
  NoIface = NoIface
  Unfilled = Unfilled
  Params <- MCParams
  Mapped = {cpu, rx, tx}
  InterfaceMetric = {rx, tx}
  VropsMetric = {cpu, rx, tx}
  VduCharm = {b, g}
  VnfCharm = {f1}
  MgmtVdu = {a, g}
  Worlds <- MCWorlds
INVARIANT TypeOK
INVARIANT MeasuresTruthful
INVARIANT InterfaceTruthful
INVARIANT StatusTruthful
INVARIANT StatusReported
INVARIANT DeclaredOnly
INVARIANT SeriesDistinct
INVARIANT ValuesPresent
PROPERTY DeclaredCollected
PROPERTY CharmsCollected
PROPERTY Recovers
