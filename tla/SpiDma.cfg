\* A write when no transmission was begun is enough.
SPECIFICATION Spec
CONSTANTS
  Timeout = 3
  Word = 16
PROPERTIES WriteReturnsAsDocumented
