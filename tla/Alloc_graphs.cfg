\* Four blocks that point to each other in any way, from two global words.
CONSTANTS
    Base = 100
    Space = 13
    Sizes = {1}
    Globals = {g1, g2}
    Stack = {sLast}
    lastStack = sLast
    rbx = rbx
    Discard = Discard
    Holders = {g1, g2}
    Interior = FALSE
    Finalizers = {0}
    MayFail = FALSE
SPECIFICATION Spec
SYMMETRY Symmetry
INVARIANTS NoDangling Collected
