\* A pointer in rbx and nowhere else.
CONSTANTS
    Base = 100
    Space = 10
    Sizes = {1}
    Globals = {g}
    Stack = {s, sLast}
    lastStack = sLast
    rbx = rbx
    Discard = Discard
    Holders = {rbx}
    Interior = FALSE
    Finalizers = {0}
    MayFail = FALSE
SPECIFICATION Spec
INVARIANTS RegistersKept
