\* A configured port may be reset by its host.
SPECIFICATION Spec
CONSTANTS
  devA = devA
  devB = devB
  NULL = NULL
  HostMay = {"busReset"}
INVARIANTS DetachedNotListed
