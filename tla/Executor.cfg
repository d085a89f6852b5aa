CONSTANTS
  FUTURE_COUNT = 2
  RTC_FREQ = 1
  Seconds <- Sleeps
  Slots = 3
SPECIFICATION FairSpec
INVARIANT TypeOK
PROPERTIES DueWakesLoneSleeper SleepAwaitEnds SerialEndsUnlessStalled
