\* Owners release what they lock before they end and before they join.
CONSTANTS
    TCB = {main, t1, t2, t3}
    Main = main
    Mutex = {m1}
    Cond = {c1}
    NULL = NULL
    readyQueue = readyQueue
    joiningList = joiningList
    ExitHolding = FALSE
    Reinit = FALSE
SPECIFICATION LiveSpec
INVARIANTS OwnerAlive
PROPERTIES FreeIsSafe WaiterServed ReadyRuns JoinReturns
