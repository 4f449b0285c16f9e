\* Three addresses, two mutexes, two condition variables; owners may end, and
\* idle mutexes and condition variables may be initialised again.
CONSTANTS
    TCB = {main, t1, t2}
    Main = main
    Mutex = {m1, m2}
    Cond = {c1, c2}
    NULL = NULL
    readyQueue = readyQueue
    joiningList = joiningList
    ExitHolding = TRUE
    Reinit = TRUE
SPECIFICATION Spec
SYMMETRY Symmetry
INVARIANTS TypeOK Placement HeapExact JoinersListed Waiters
PROPERTIES ReadyInOrder HandOver JoinExact SignalHandsMutex
