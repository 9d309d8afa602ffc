SPECIFICATION SafeSpec
CONSTANT Socket = {a, b}
CONSTANT None = None
CONSTANT MaxMessages = 2
SYMMETRY Clients
INVARIANT TypeOK
INVARIANT MessagesAccountedFor
INVARIANT LostOnlyWhenDue
