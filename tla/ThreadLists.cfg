\* Four addresses: three threads may join at the same time.
CONSTANTS
    TCB = {main, t, u, v}
    Main = main
    Mutex = {m}
    Cond = {c}
    NULL = NULL
    readyQueue = readyQueue
    joiningList = joiningList
    ExitHolding = FALSE
    Reinit = FALSE
    Garbage = {main}
    MaxRecords = 4
SYMMETRY Symmetry
SPECIFICATION Spec
INVARIANTS NextUnique
PROPERTIES ImplementsThreads
