SPECIFICATION Spec

CONSTANTS
  Verbs <- AllVerbs
  Sessions <- RadioSessions
  QueueLimit = 1
  MaxRefused = 2
INVARIANT SuccessIsComplete
INVARIANT NoOpenNetwork
INVARIANT ConnectionsReleased
PROPERTY ConnectionsAreServices
PROPERTY SessionEnds
