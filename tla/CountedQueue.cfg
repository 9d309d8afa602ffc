SPECIFICATION Spec
CONSTANT MaxPosted = 3
INVARIANT TypeOK
INVARIANT CounterNeverAhead
INVARIANT NothingInvented
INVARIANT InOrderOnce
PROPERTY ImplementsMailbox
PROPERTY EverythingArrives
