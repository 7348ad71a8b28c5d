SPECIFICATION FairSpec
CONSTANTS
  Small = k2
  Large = k3
  Senders <- SmallAndLarge
  PayloadSize <- SmallThenLarge
  SizeIn <- TwoThenNone
  Nobody = Nobody
  BufferSize = 2
  MaxConns = 2
  MaxPackets = 2
  TimeoutsInPackets = FALSE
INVARIANTS TypeOK
PROPERTIES Implements SendersReturn ListenerEnds
CHECK_DEADLOCK FALSE
