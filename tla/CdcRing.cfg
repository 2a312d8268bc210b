\* Another port on its bus, both kinds of writer, no pacing, transfers may be lost.
SPECIFICATION Spec
CONSTANTS
  Size = 5
  Packet = 2
  Interval = 1
  Others = TRUE
  Writers <- MainAndIsr
  Paced = FALSE
  LosesXfers = TRUE
  Bytes = {0}
INVARIANTS WindowInBuffer TxAgrees
PROPERTIES LostXferIsForever
