\* What the comment on pbuf_free says.
SPECIFICATION Spec
CONSTANTS
  Pool = 4
  Burst = 2
  Window = 3
  SndBuf = 2
  Bytes = {0, 1}
PROPERTIES SentIsFreed
