\* One second, in which every row keeps its place until rows are deleted.
CONSTANTS
  n1 = n1  n2 = n2
  Numbers <- TwoNumbers
  NoNumber = NoNumber
  MaxHistory = 2
  MaxAdded = 2
  MaxTime = 0
SPECIFICATION Spec
SYMMETRY Symm
PROPERTIES
  DeletesOnlyTicked
