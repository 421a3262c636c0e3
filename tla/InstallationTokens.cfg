CONSTANTS
  TTL = 60
  Skew = 1
  Period = 45
SPECIFICATION FairSpec
INVARIANTS TypeOK OutageIsBounded ConfigIsPreserved
PROPERTY OutageEnds
