SPECIFICATION Spec
CONSTANT MaxSends = 4
CONSTANT MaxReads = 2
CHECK_DEADLOCK FALSE
INVARIANT TypeOK
INVARIANT OneWrite
INVARIANT SentInOrder
INVARIANT NeverStarved
INVARIANT DropsOnlyWhenBroken
INVARIANT CallbacksInOrder
PROPERTY ImplementsContract
PROPERTY SendsGoOut
PROPERTY EndsInClose
