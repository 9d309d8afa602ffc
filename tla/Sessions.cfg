SPECIFICATION Spec
CONSTANT Socket = {a, b, c}
CONSTANT None = None
CONSTANT MaxMessages = 0
INVARIANT NoGhostSession
INVARIANT NoPhantomKick
INVARIANT ZoneIsJoined
INVARIANT StateNamesReceiver
PROPERTY ImplementsPresence
PROPERTY LeavesForGood
