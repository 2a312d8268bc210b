\* Rings that fill up and wrap; a frame that takes three buffers of four.
SPECIFICATION FairSpec
CONSTANTS
  RxN = 4
  Frames = {"short", "long"}
  Pieces <- ShortAndLong
  None = None
  TxN = 3
  TxFrames = {"a", "b"}
  Mixed = "mixed"
  NoFrame = "none"
INVARIANTS RxWindow TxWindow OthersIntact
PROPERTIES RxIsQueue RxResumes TxIsQueue TxDrains
