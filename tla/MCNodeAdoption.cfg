SPECIFICATION Spec
CONSTANTS
  m1 = m1
  m2 = m2
  ip1 = ip1
  ip2 = ip2
  ip3 = ip3
  c1 = c1
  c2 = c2
  t1 = t1
  t2 = t2
  NoIp = NoIp
  NoChannel = NoChannel
  NoNode = NoNode
  Macs = {m1, m2}
  IpsOf <- MovingIps
  ConfigsOf <- FirstNodeConfigs
  Txns = {t1, t2}
  Clients = {cl}
  MaxAnnouncements = 3
SYMMETRY Symmetry
INVARIANTS
  AddressIsNewest
  ClientChangeStays
  AdoptedNodeAccepted
