SPECIFICATION FairSpec
CONSTANTS
  Books = {b1, b2}
  NoBook = NoBook
  MaxVersion = 2
  MaxRestarts = 1
  Faults = TRUE
  ConcurrentDumps = FALSE
INVARIANTS TypeOK TableMatchesCache CleanIsBackedUp
PROPERTY EventuallyBackedUp
