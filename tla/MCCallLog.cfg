\* An array of two cells, and one row more than it holds.
CONSTANTS
  n1 = n1  n2 = n2
  Numbers <- TwoNumbers
  NoNumber = NoNumber
  MaxHistory = 2
  MaxAdded = 3
  MaxTime = 1
SPECIFICATION Spec
SYMMETRY Symm
INVARIANTS
  TypeOK CacheIsNewest
PROPERTIES
  DeletesWhatIsShown ReadWasShown
