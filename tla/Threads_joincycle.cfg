\* Four threads, three of them in a circle of joins.
CONSTANTS
    TCB = {main, t1, t2, t3}
    Main = main
    Mutex = {}
    Cond = {}
    NULL = NULL
    readyQueue = readyQueue
    joiningList = joiningList
    ExitHolding = FALSE
    Reinit = FALSE
SPECIFICATION Spec
SYMMETRY Symmetry
INVARIANTS NeverAllJoining
