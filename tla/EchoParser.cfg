\* A pool of four pbufs, a window of three, segments of up to two, room for two
\* in the send buffer.
SPECIFICATION ParserSpec
CONSTANTS
  Pool = 4
  Burst = 2
  Window = 3
  SndBuf = 2
  Bytes = {0, 1}
INVARIANTS ChainAlive WindowMatches PoolIntact CommandsRepeat
PROPERTIES IsEcho
