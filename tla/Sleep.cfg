CONSTANTS
  Word = 16
  RTC_FREQ = 2
  Seconds <- Lengths
  MaxElapsed = 40
SPECIFICATION FairSpec
INVARIANT TypeOK
PROPERTIES NeverEarly NeverLate SleepEnds
