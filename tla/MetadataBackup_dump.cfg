SPECIFICATION Spec
CONSTANTS
  Books = {b1, b2}
  NoBook = NoBook
  MaxVersion = 2
  MaxRestarts = 0
  Faults = FALSE
  ConcurrentDumps = TRUE
INVARIANT CleanIsBackedUp
