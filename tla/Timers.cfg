\* The clock wraps while timers run and while writes to the SPI are made.
SPECIFICATION TimersSpec
CONSTANTS
  Timeout = 3
  Word = 16
  Delays = {3, 5}
  NetTimers = {"tcp"}
  Interval <- EachFour
  MaxPass = 2
INVARIANTS NetTimersPunctual
PROPERTIES LedOnTime
