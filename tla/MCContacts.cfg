\* An array of two cells and one contact more than it holds, a dock of one.
CONSTANTS
  t1 = t1
  Texts <- OneText
  Blank = Blank
  MaxContacts = 2
  DockSize = 1
  MaxAdded = 3
SPECIFICATION Spec
INVARIANTS
  TypeOK CopiesAreFresh
PROPERTIES
  DeletesWhatIsTicked
