\* The only port, the main loop and the interrupt both write, paced, nothing lost.
SPECIFICATION FairSpec
CONSTANTS
  Size = 4
  Packet = 2
  Interval = 1
  Others = FALSE
  Writers <- MainAndIsr
  Paced = TRUE
  LosesXfers = FALSE
  Bytes = {0, 1}
PROPERTIES LosesNoByte
