\* Two connections and two callers; three messages.
CONSTANTS
  MaxConns = 2
  MaxCallers = 2
  MaxItems = 3
SPECIFICATION Spec
CHECK_DEADLOCK FALSE
INVARIANT ConnectionsAreSound
INVARIANT ServedAfterHandshake
PROPERTY PeerSettles
