SPECIFICATION Spec
CONSTANTS
  Conns = {c1, c2, c3}
  MaxFd = 2
  NoConn = NoConn
CHECK_DEADLOCK FALSE
INVARIANTS
  DescriptorIsOwn
  NothingIsLeaked
PROPERTIES
  HungUpIsClosed
