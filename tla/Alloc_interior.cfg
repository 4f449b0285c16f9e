\* Blocks of two sizes, with pointers into and behind them, on the stack.
CONSTANTS
    Base = 100
    Space = 11
    Sizes = {0, 1}
    Globals = {g}
    Stack = {s, sLast}
    lastStack = sLast
    rbx = rbx
    Discard = Discard
    Holders = {s}
    Interior = TRUE
    Finalizers = {0}
    MayFail = FALSE
SPECIFICATION Spec
INVARIANTS TypeOK NullMeansFull
PROPERTIES LiveUntouched ImplementsChunks
