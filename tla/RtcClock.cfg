CONSTANTS
  NumRegs = 2
  Grace = 4
  Modulus = 3
SPECIFICATION FairSpec
INVARIANTS TypeOK ReadIsSnapshot
PROPERTIES WriteIsWhole CallsReturn
