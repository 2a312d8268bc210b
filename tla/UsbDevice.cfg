\* Everything a bus can do; descriptors shorter and longer than what hosts
\* ask for, ending at a packet's end and within it.
SPECIFICATION DeviceSpec
CONSTANTS
  devA = devA
  devB = devB
  NULL = NULL
  HostMay = {"busReset", "suspend", "wakeup"}
  CtlPorts = {devA, devB}
  Codings = {c1, c2}
  BootCoding = boot
  OtherData = other
  MaxPacket = 3
  DeviceDescriptor = 2
  Descriptors = {1, 2, 3, 4, 5, 6, 7}
  FirstBytes = 1
  FirstWish = 3
  Wishes = {1, 2, 3, 4, 5, 6, 7, 8}
  FramePorts = {devA, devB}
  FrameInterval = 5
  NoPort = NULL
INVARIANTS
  DeviceTypeOK Compact ListMatchesHosts TerminalMatches WholeAnswer
PROPERTIES CodingIsShared TransferEnds SameServed
