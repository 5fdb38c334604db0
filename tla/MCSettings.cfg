\* Two addresses and an incomplete one, a queue and a table of two, a third user
\* agent, and the files of five earlier runs.
CONSTANTS
  a1 = a1  a2 = a2
  Users <- TwoUsers
  Blank = Blank
  Similar <- OneInTheOther
  Failures = {"FAILED"}
  MaxAccounts = 2
  QueueSize = 2
  MaxUas = 3
  EarlierFiles <- SomeFiles
  MaxSaves = 1
SPECIFICATION Spec
INVARIANTS
  TypeOK StatusIsFaithful EnabledHaveUa ScreenIsFile
PROPERTIES
  EditsTheOpened
