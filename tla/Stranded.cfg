SPECIFICATION Spec
CONSTANT Socket = {a, b}
CONSTANT None = None
CONSTANT MaxMessages = 0
PROPERTY EveryOpenClientJoins
