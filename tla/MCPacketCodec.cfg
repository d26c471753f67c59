SPECIFICATION CodecSpec
CONSTANTS
  TxnNumbers = {t1, t2}
  NoPacket = NoPacket
INVARIANTS
  WireIsValid
  HandledAsMeant
  SwapStaysInPacket
