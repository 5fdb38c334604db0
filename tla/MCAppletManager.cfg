\* Every sequence of launches and backs, with a stack that fills up.
CONSTANTS
  home = home  call = call  contacts = contacts  messages = messages
  Applets <- FourApplets
  NoApplet = NoApplet
  Home <- home
  Background <- call
  MaxNav = 8
SPECIFICATION Spec
SYMMETRY Symm
INVARIANTS
  TypeOK RunningIsCurrent StackIsReady
PROPERTIES
  NoSelfReturnKept ImplementsHistory
\* The program ends with applet_manager_destroy().
CHECK_DEADLOCK FALSE
