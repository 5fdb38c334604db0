\* Document against code: an answered call that is logged as missed.
CONSTANTS
  c1 = c1  c2 = c2  c3 = c3
  Calls <- TwoCalls
  NoCall = NoCall
  NumUAs = 1
  MaxCalls = 2
  Silent = FALSE
  SessConn = FALSE
  Provisional = {"RINGING"}
SPECIFICATION Spec
SYMMETRY Symm2
PROPERTIES
  AnsweredIsNotMissed
