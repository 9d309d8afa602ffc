CONSTANTS
    Callers = {c1, c2}
    Tasks = {t1, t2}
    Names = {n1, n2}
    Nothing = Nothing

SPECIFICATION Spec

INVARIANTS
    FindsStatement

PROPERTIES
    AnswersArrive

CHECK_DEADLOCK FALSE
