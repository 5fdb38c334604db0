\* Two accounts, INVITEs before their call, calls freed without an event.
CONSTANTS
  c1 = c1  c2 = c2  c3 = c3
  Calls <- TwoCalls
  NoCall = NoCall
  NumUAs = 2
  MaxCalls = 1
  Silent = TRUE
  SessConn = TRUE
  Provisional = {"RINGING", "EARLY"}
SPECIFICATION FairSpec
PROPERTIES
  DanglingIsRepaired
