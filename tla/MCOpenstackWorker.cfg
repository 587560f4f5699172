SPECIFICATION FairSpec
CONSTANTS
  a = a
  b = b
  c = c
  cpu = cpu
  rx = rx
  odd = odd
  Metric = {cpu, rx, odd}
  Iface = {eth}
  NoIface = NoIface
  Unfilled = Unfilled
  Params <- MCParams
  Mapped = {cpu, rx}
  InterfaceMetric = {rx}
  Name = {n1, n2}
  NoVnf = NoVnf
  Gone = Gone
  Layouts <- MCLayouts
  MaxVdurs = 2
  MaxScales = 2
INVARIANT TypeOK
INVARIANT CurrentVm
INVARIANT SurvivorsCollected
PROPERTY CompleteReturns
CHECK_DEADLOCK FALSE
