---------------------------- MODULE ThreadLists ----------------------------
(***************************************************************************)
(* Assignment4/thread.c down to its pointers: every list is a chain of     *)
(* next fields, its tail is found by a walk, and handlers assign to the    *)
(* fields one after the other.  It implements Threads, in which lists are  *)
(* sequences and existence records a function.                             *)
(*                                                                         *)
(* As there, a call up to the switch that ends it is one step.             *)
(***************************************************************************)
EXTENDS Integers, Sequences, FiniteSetsExt, Functions, SequencesExt

CONSTANTS
    TCB, Main, Mutex, Cond, NULL,
    readyQueue, joiningList,    \* as names of readyQueueHead and joiningList
    ExitHolding, Reinit,        \* what clients do, as in Threads
    Garbage,                    \* what memory may hold before it is initialised
    MaxRecords                  \* a bound on the existence records

ASSUME ThreadListsAssumption ==
    /\ MaxRecords \in Nat \ {0}
    /\ Garbage \subseteq TCB \cup {NULL}
    /\ Main \in TCB
    /\ NULL \notin TCB \cup Mutex \cup Cond
    /\ readyQueue \notin Mutex \cup Cond \cup {joiningList}
    /\ joiningList \notin Mutex \cup Cond
    /\ Mutex \cap Cond = {}
    /\ ExitHolding \in BOOLEAN /\ Reinit \in BOOLEAN

VARIABLES
    first,              \* readyQueueHead, joiningList, thread_mutex_t.waitList,
                        \* and thread_cond_t.waitingThread
    next,               \* TCB.next
    waitingThread, condVarMutex,
    terList,            \* the existence records, the newest first
    heap, waitingForCleanup,
    owner, initialized,
    mutexListHead, condListHead,
    nextObject,         \* thread_mutex_t.nextMutex, thread_cond_t.nextCond
    status

vars == <<first, next, waitingThread, condVarMutex, terList, heap, waitingForCleanup,
          owner, initialized, mutexListHead, condListHead, nextObject, status>>

threadVars   == <<waitingThread, terList, heap, waitingForCleanup>>
registryVars == <<initialized, mutexListHead, condListHead, nextObject>>

Object == Mutex \cup Cond
ListHead == {readyQueue, joiningList} \cup Object

Init ==
    /\ \E g \in [Object -> Garbage] :
           first = [h \in ListHead |-> CASE h = readyQueue -> Main
                                         [] h = joiningList -> NULL
                                         [] OTHER -> g[h]]
    /\ next = [t \in TCB |-> NULL]
    /\ waitingThread = [t \in TCB |-> NULL]
    /\ condVarMutex  = [t \in TCB |-> NULL]
    /\ terList = <<[tid |-> Main, terminated |-> FALSE]>>
    /\ heap = {Main}
    /\ waitingForCleanup = NULL
    /\ owner \in [Mutex -> Garbage]
    /\ initialized = {}
    /\ mutexListHead = NULL
    /\ condListHead = NULL
    /\ nextObject = [x \in Object |-> NULL]
    /\ status = "running"

-----------------------------------------------------------------------------
(* Walks *)

\* The nodes met from start on along nxt, up to NULL or to one that leads to a
\* node met before.
Walk(nxt, start) ==
    LET from[met \in Seq(DOMAIN nxt) \ {<<>>}] ==
            LET successor == nxt[Last(met)]
            IN  IF successor \in {NULL} \cup Range(met) THEN met
                ELSE from[Append(met, successor)]
    IN  IF start = NULL THEN <<>> ELSE from[<<start>>]

\* get*Tail, for a list that is not empty
TailOf(nxt, start) == Last(Walk(nxt, start))

\* The code, which looks for NULL only, never comes to the end of the chain.
Endless(nxt, start) == start # NULL /\ nxt[TailOf(nxt, start)] # NULL

\* Bug: t put behind the first one.
Behind_first(nxt, start, t) == [nxt EXCEPT ![start] = t]

\* get*Tail()->next = t
Behind(nxt, start, t) == [nxt EXCEPT ![TailOf(nxt, start)] = t]

\* t appended to list h, which may be empty
Appended(fst, nxt, h, t) ==
    IF fst[h] = NULL THEN <<[fst EXCEPT ![h] = t], nxt>>
    ELSE <<fst, Behind(nxt, fst[h], t)>>

Lists(pair) == first' = pair[1] /\ next' = pair[2]

thread_self == first[readyQueue]

NotAlone == next[thread_self] # NULL
readyQueueLength == Len(Walk(next, thread_self))

\* The running thread leaves the ready queue and goes to the end of list h.
Blocks(fst, nxt, h) ==
    Appended([fst EXCEPT ![readyQueue] = nxt[thread_self]],
             [nxt EXCEPT ![thread_self] = NULL], h, thread_self)

Records(t) == {k \in DOMAIN terList : terList[k].tid = t}

findTER(t) == Min(Records(t))

isThreadAlive(t) == Records(t) # {} /\ ~terList[findTER(t)].terminated

-----------------------------------------------------------------------------
(* Threads *)

thread_create ==
    \E t \in TCB \ heap :
        /\ status = "running"
        /\ Len(terList) < MaxRecords
        /\ next' = Behind([next EXCEPT ![t] = NULL], first[readyQueue], t)
        /\ waitingThread' = [waitingThread EXCEPT ![t] = NULL]
        /\ condVarMutex' = [condVarMutex EXCEPT ![t] = NULL]
        /\ terList' = <<[tid |-> t, terminated |-> FALSE]>> \o terList
        /\ heap' = heap \cup {t}
        /\ UNCHANGED <<first, waitingForCleanup, owner, registryVars, status>>

thread_yield ==
    /\ status = "running"
    /\ NotAlone
    /\ first' = [first EXCEPT ![readyQueue] = next[thread_self]]
    /\ next' = Behind([next EXCEPT ![thread_self] = NULL], next[thread_self], thread_self)
    /\ UNCHANGED <<threadVars, condVarMutex, owner, registryVars, status>>

thread_join ==
    \E t \in TCB :
        /\ status = "running"
        /\ isThreadAlive(t)
        /\ t # thread_self
        /\ waitingThread[t] = NULL
        /\ waitingThread[thread_self] # t
        /\ readyQueueLength # 1
        /\ Lists(Blocks(first, next, joiningList))
        /\ waitingThread' = [waitingThread EXCEPT ![t] = thread_self]
        /\ UNCHANGED <<terList, heap, waitingForCleanup, condVarMutex, owner,
                       registryVars, status>>

\* Whether the search in wakeupThread finds t before it follows NULL.
Joining(t) == t \in Range(Walk(next, first[joiningList]))

Before(t) == CHOOSE u \in TCB : Joining(u) /\ next[u] = t

\* Bug: t keeps the rest of joiningList.
wakeupThread_withRest(t) ==
    IF t = NULL THEN <<first, next>>
    ELSE LET n == Behind(next, first[readyQueue], t)
         IN  IF first[joiningList] = t
             THEN <<[first EXCEPT ![joiningList] = n[t]], n>>
             ELSE <<first, [n EXCEPT ![Before(t)] = n[t], ![t] = NULL]>>

\* The first and next fields after wakeupThread(t).  In the middle of the list
\* t is unlinked before it is appended to the ready queue.
wakeupThread(t) ==
    IF t = NULL THEN <<first, next>>
    ELSE IF first[joiningList] = t
    THEN LET n == Behind(next, first[readyQueue], t)
         IN  <<[first EXCEPT ![joiningList] = n[t]], [n EXCEPT ![t] = NULL]>>
    ELSE LET unlinked == [next EXCEPT ![Before(t)] = next[t]]
             n == Behind(unlinked, first[readyQueue], t)
         IN  <<first, [n EXCEPT ![t] = NULL]>>

\* Follows NULL if the joiner is not found, or nobody is ready.
cleanup ==
    LET self == thread_self
        awoken == wakeupThread(waitingThread[self])
    IN  /\ status = "running"
        /\ self # Main
        /\ ExitHolding \/ \A m \in Mutex \cap initialized : owner[m] # self
        /\ IF waitingThread[self] # NULL /\ ~Joining(waitingThread[self])
           THEN /\ status' = "crashed"
                /\ UNCHANGED <<first, next, threadVars>>
           ELSE /\ first' = [awoken[1] EXCEPT ![readyQueue] = awoken[2][self]]
                /\ next' = [awoken[2] EXCEPT ![self] = NULL]
                /\ terList' = [terList EXCEPT ![findTER(self)].terminated = TRUE]
                /\ heap' = heap \ {waitingForCleanup}
                /\ waitingForCleanup' = self
                /\ status' = IF first'[readyQueue] = NULL THEN "crashed" ELSE status
                /\ UNCHANGED waitingThread
        /\ UNCHANGED <<condVarMutex, owner, registryVars>>

MainReturns ==
    /\ status = "running"
    /\ thread_self = Main
    /\ status' = "exited"
    /\ UNCHANGED <<first, next, threadVars, condVarMutex, owner, registryVars>>

-----------------------------------------------------------------------------
(* Mutexes and condition variables *)

Idle(x) == first[x] = NULL /\ (x \in Mutex => owner[x] = NULL)
MayInit(x) == x \notin initialized \/ (Reinit /\ Idle(x))

\* x, its own next pointer cleared, put at the end of the chain from start, to
\* which head is the pointer; a chain without end is walked for ever.
Registers(x, start, head) ==
    LET cleared == [nextObject EXCEPT ![x] = NULL]
    IN  IF start = NULL
        THEN /\ head = x
             /\ nextObject' = cleared
             /\ initialized' = initialized \cup {x}
             /\ UNCHANGED status
        ELSE /\ head = start
             /\ IF Endless(cleared, start)
                THEN nextObject' = cleared /\ status' = "hung" /\ UNCHANGED initialized
                ELSE /\ nextObject' = Behind(cleared, start, x)
                     /\ initialized' = initialized \cup {x}
                     /\ UNCHANGED status

thread_mutex_init ==
    \E m \in Mutex :
        /\ status = "running"
        /\ MayInit(m)
        /\ owner' = [owner EXCEPT ![m] = NULL]
        /\ first' = [first EXCEPT ![m] = NULL]
        /\ Registers(m, mutexListHead, mutexListHead')
        /\ UNCHANGED <<next, threadVars, condVarMutex, condListHead>>

thread_cond_init ==
    \E c \in Cond :
        /\ status = "running"
        /\ MayInit(c)
        /\ first' = [first EXCEPT ![c] = NULL]
        /\ Registers(c, condListHead, condListHead')
        /\ UNCHANGED <<next, threadVars, condVarMutex, owner, mutexListHead>>

thread_mutex_lock ==
    \E m \in Mutex \cap initialized :
        /\ status = "running"
        /\ \/ /\ owner[m] = NULL
              /\ owner' = [owner EXCEPT ![m] = thread_self]
              /\ UNCHANGED <<first, next>>
           \/ /\ owner[m] \notin {NULL, thread_self}
              /\ NotAlone
              /\ Lists(Blocks(first, next, m))
              /\ UNCHANGED owner
        /\ UNCHANGED <<threadVars, condVarMutex, registryVars, status>>

\* The first and next fields after an unlock of m.
Unlocked(m) ==
    IF first[m] = NULL THEN <<first, next>>
    ELSE <<[first EXCEPT ![m] = next[first[m]]],
           Behind([next EXCEPT ![first[m]] = NULL], first[readyQueue], first[m])>>

\* The new owner is the first waiter, or nobody.
HandsOver(m) == owner' = [owner EXCEPT ![m] = first[m]]

thread_mutex_unlock ==
    \E m \in Mutex \cap initialized :
        /\ status = "running"
        /\ owner[m] = thread_self
        /\ Lists(Unlocked(m))
        /\ HandsOver(m)
        /\ UNCHANGED <<threadVars, condVarMutex, registryVars, status>>

thread_cond_wait ==
    \E c \in Cond \cap initialized, m \in Mutex \cap initialized :
        /\ status = "running"
        /\ owner[m] = thread_self
        /\ HandsOver(m)
        /\ LET u == Unlocked(m)
           IN  IF u[2][thread_self] = NULL
               THEN Lists(u) /\ UNCHANGED condVarMutex
               ELSE /\ Lists(Blocks(u[1], u[2], c))
                    /\ condVarMutex' = [condVarMutex EXCEPT ![thread_self] = m]
        /\ UNCHANGED <<threadVars, registryVars, status>>

thread_cond_signal ==
    \E c \in Cond \cap initialized :
        /\ status = "running"
        /\ first[c] # NULL
        /\ LET signalledThread == first[c]
               mu == condVarMutex[signalledThread]
               f == [first EXCEPT ![c] = next[signalledThread]]
               n == [next EXCEPT ![signalledThread] = NULL]
           IN  IF owner[mu] = NULL
               THEN /\ owner' = [owner EXCEPT ![mu] = signalledThread]
                    /\ Lists(Appended(f, n, readyQueue, signalledThread))
               ELSE /\ Lists(Appended(f, n, mu, signalledThread))
                    /\ UNCHANGED owner
        /\ UNCHANGED <<threadVars, condVarMutex, registryVars, status>>

Ended == status # "running" /\ UNCHANGED vars

Next ==
    \/ thread_create \/ thread_yield \/ thread_join \/ cleanup \/ MainReturns
    \/ thread_mutex_init \/ thread_mutex_lock \/ thread_mutex_unlock
    \/ thread_cond_init \/ thread_cond_wait \/ thread_cond_signal
    \/ Ended

Spec == Init /\ [][Next]_vars

-----------------------------------------------------------------------------
(* Properties *)

\* No TCB follows two others, or is the first of a list and follows one, or is
\* first in two lists, whether it is on a list or not; and what follows is
\* allocated (thread.h:41, thread.c:173-217).
NextUnique ==
    LET heads == {readyQueue, joiningList} \cup (Object \cap initialized)
        led == {t \in TCB : \E h \in heads : first[h] = t}
    IN  /\ \A t, u \in heap : next[t] # NULL =>
               /\ next[t] \in heap \ led
               /\ next[t] = next[u] => t = u
        /\ \A g, h \in heads : first[g] # NULL /\ first[g] = first[h] => g = h

lists ==
    [h \in ListHead |-> IF h \in Object \ initialized THEN <<>> ELSE Walk(next, first[h])]

\* A chain may be closed on itself.
Registry(start) == [chain |-> Walk(nextObject, start), looped |-> Endless(nextObject, start)]

Record(t) ==
    IF Records(t) = {} THEN "none" ELSE IF isThreadAlive(t) THEN "alive" ELSE "terminated"

newestRecords == [t \in TCB |-> Record(t)]

\* The lists are what Threads says: every assignment to a next field, in the
\* order the code makes them, amounts to its pushes, pops and moves, the newest
\* record of an address counts, and the registries are as described there
\* (thread.c:21-96, 113-131, 173-474).
T == INSTANCE Threads WITH
    list <- lists, ter <- newestRecords,
    mutexList <- Registry(mutexListHead), condList <- Registry(condListHead)

ImplementsThreads == T!Spec
=============================================================================
