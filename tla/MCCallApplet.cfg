\* Two calls, one other applet beside the home screen; the stack overflows.
CONSTANTS
  c1 = c1  c2 = c2
  homeApplet = homeApplet  callApplet = callApplet  contacts = contacts
  Calls <- TwoCalls
  NoCall = NoCall
  NumUAs = 1
  MaxCalls = 2
  Silent = FALSE
  SessConn = FALSE
  Provisional = {"RINGING"}
  Home <- homeApplet
  Call <- callApplet
  Others <- OneOther
  NoApplet = NoApplet
  MaxNav = 2
SPECIFICATION FairUiSpec
INVARIANTS
  UiTypeOK ScreenFollowsState EstablishedIsShown
PROPERTIES
  OnlyCallLeaves CallScreenEnds
