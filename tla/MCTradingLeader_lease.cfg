CONSTANTS
  Procs = {p1, p2, p3}
  NoOne = none
  Dead = dead
  TTL = 3
  Interval = 1
  MaxDelay = 1
  MaxCrashes = 1
  MaxErrors = 3
SPECIFICATION FairSpec
INVARIANTS
  TypeOK
  LeaseAge
  OverrunBounded
PROPERTIES
  LeaseIsOwn
  Succession
