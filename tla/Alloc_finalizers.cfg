\* Finalizers that save their argument or allocate; malloc may fail.  Two words
\* of the program: two blocks can be in use at once and point to each other.
\* The process may end: a fault after a failed initialization, or exit.
CONSTANTS
    Base = 100
    Space = 8
    Sizes = {1}
    Globals = {g1, g2}
    Stack = {s, sLast}
    lastStack = sLast
    rbx = rbx
    Discard = Discard
    Holders = {g1, g2}
    Interior = FALSE
    Finalizers = {0, 2, 3}
    MayFail = TRUE
SPECIFICATION FairSpec
PROPERTIES FinalizedFirst CollectionEnds
CHECK_DEADLOCK FALSE
