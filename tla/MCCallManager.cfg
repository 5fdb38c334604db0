\* More calls than slots.
CONSTANTS
  c1 = c1  c2 = c2  c3 = c3
  Calls <- ThreeCalls
  NoCall = NoCall
  NumUAs = 1
  MaxCalls = 2
  Silent = FALSE
  SessConn = FALSE
  Provisional = {"RINGING"}
SPECIFICATION Spec
SYMMETRY Symm3
INVARIANTS
  TypeOK OneSlotPerCall NoDanglingReference SlotIsFaithful
PROPERTIES
  NoOrphan IdleIsQuiet ClosedIsLogged LiveCallStaysTracked UntrackedOnlyWhenFull
  OthersAreHeld
