CONSTANTS
  Freq = 2
  MsPerSecond = 3
  Sleeps <- MCSleeps
  StartTimes <- MCStartTimes
  MinQuiet = 12
  MaxTicks = 24
SPECIFICATION Spec
INVARIANT SleepIsNotShort
