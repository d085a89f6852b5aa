CONSTANTS
  FUTURE_COUNT = 3
  RTC_FREQ = 1
  Seconds <- Sleeps
  Slots = 2
SPECIFICATION FairSpec
PROPERTY EnrolledOrPanic
