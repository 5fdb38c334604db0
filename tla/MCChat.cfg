\* Conversations that draw one message, a queue of one command.
CONSTANTS
  anna = anna  hanna = hanna  short = short
  Peers <- TwoPeers
  Written <- Forms
  Stored <- StoredForms
  Contains <- Containing
  MaxThreads = 2
  MaxShown = 1
  QueueSize = 1
  MaxAdded = 2
  MaxTime = 1
SPECIFICATION Spec
INVARIANTS
  TypeOK
PROPERTIES
  DeletesWhatIsTicked IncomingIsShown
