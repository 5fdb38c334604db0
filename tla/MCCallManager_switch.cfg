\* Comment against code: the call the manager switches to.
CONSTANTS
  c1 = c1  c2 = c2  c3 = c3
  Calls <- ThreeCalls
  NoCall = NoCall
  NumUAs = 1
  MaxCalls = 3
  Silent = FALSE
  SessConn = FALSE
  Provisional = {"RINGING", "EARLY"}
SPECIFICATION Spec
SYMMETRY Symm3
PROPERTIES
  CloseSwitchesToLiveCall
