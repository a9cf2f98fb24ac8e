SPECIFICATION Spec
CONSTANTS
  t1 = t1
  t2 = t2
  Threads <- TwoThreads
  Window = 1
  TokenLen <- Lengths
  MaxIDs = 2
  MaxRev = 3
  MaxTime = 4
SYMMETRY Symmetry
INVARIANTS
  TypeOK
  NoEmptyPin
  ReadYourIsolatedWrites
  QuietToken
  PinnedAnswersAgree
  FullyConsistentReads
PROPERTY ImplementsTokenCache
