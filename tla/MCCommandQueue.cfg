\* Two kinds of commands, three cells, and enough commands to go twice around.
CONSTANTS
  add = add  send = send
  Cmds <- TwoCmds
  NoCmd = NoCmd
  Size = 3
  MaxAccepted = 7
SPECIFICATION FairSpec
INVARIANTS
  TypeOK RingIsWhole
PROPERTIES
  ImplementsFifo AcceptedIsExecuted
