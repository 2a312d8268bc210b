\* The only port, the main loop as the only writer, paced, nothing lost.
SPECIFICATION FairSpec
CONSTANTS
  Size = 4
  Packet = 2
  Interval = 1
  Others = FALSE
  Writers <- MainOnly
  Paced = TRUE
  LosesXfers = FALSE
  Bytes = {0, 1}
PROPERTIES IsByteStream
