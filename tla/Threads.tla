------------------------------ MODULE Threads ------------------------------
(***************************************************************************)
(* The user-level thread library of Assignment4/thread.c: cooperative      *)
(* threads, join, mutexes and condition variables over one field TCB.next  *)
(* that strings every thread on exactly one list.                          *)
(*                                                                         *)
(* The running thread is the head of the ready queue and nothing preempts  *)
(* it, so an API call up to the context switch that ends it is one action  *)
(* of that thread.  A call that fails without changing the state is a      *)
(* stuttering step; the conditions under which it fails are the negated    *)
(* guards.  createMainThreadIfNeeded (225-247) acts once, before the first *)
(* state of this model: ReadyNonEmpty says it never acts again.            *)
(*                                                                         *)
(* Malloc is external: thread_create receives any address not in use, in   *)
(* particular one that was freed; running out of memory is not modelled.   *)
(***************************************************************************)
EXTENDS Integers, Sequences, Functions, SequencesExt

CONSTANTS
    TCB,           \* the addresses malloc may return for a TCB
    Main,          \* the TCB of the main thread
    Mutex, Cond,   \* the mutexes and condition variables of the client
    NULL,
    readyQueue,    \* the list that readyQueueHead starts
    joiningList,   \* the list of the threads blocked in thread_join
    ExitHolding,   \* may a client thread end while it owns a mutex?
    Reinit         \* may a client initialise an idle mutex or cond again?

ASSUME ThreadsAssumption ==
    /\ Main \in TCB
    /\ NULL \notin TCB \cup Mutex \cup Cond
    /\ readyQueue \notin Mutex \cup Cond \cup {joiningList}
    /\ joiningList \notin Mutex \cup Cond
    /\ Mutex \cap Cond = {}
    /\ ExitHolding \in BOOLEAN /\ Reinit \in BOOLEAN

VARIABLES
    list,               \* every list of TCBs, by the head pointer it starts at
    waitingThread,      \* TCB.waitingThread: who joined this thread
    condVarMutex,       \* TCB.condVarMutex: the mutex to take when signalled
    ter,                \* what the newest existence record of an address says
    heap,               \* the TCBs that are malloc'ed and not freed
    waitingForCleanup,  \* the last thread that ended: freed by the next one
    owner,              \* thread_mutex_t.owner
    initialized,        \* the mutexes and conds thread_*_init returned 1 for
    mutexList,          \* the chain from mutexListHead along nextMutex
    condList,           \* the chain from condListHead along nextCond
    status              \* of the process

vars == <<list, waitingThread, condVarMutex, ter, heap, waitingForCleanup,
          owner, initialized, mutexList, condList, status>>

threadVars   == <<waitingThread, ter, heap, waitingForCleanup>>
registryVars == <<initialized, mutexList, condList>>

ListHead == {readyQueue, joiningList} \cup Mutex \cup Cond

\* The chains only ever grow at the end or are closed on their last element:
\* looped says that the last element's next pointer is that element.
Registry(S) == [chain : Seq(S), looped : BOOLEAN]

-----------------------------------------------------------------------------
(* Lists.  Name_what is Name with a fault, which a property must catch. *)

Elems(l, h)  == Range(l[h])
Listed(l)    == {t \in TCB : \E h \in ListHead : t \in Elems(l, h)}

Push_atHead(l, h, t) == [l EXCEPT ![h] = <<t>> \o @]

\* get*Tail()->next = t, or head = t if the list is empty; t->next = NULL
Push(l, h, t) == [l EXCEPT ![h] = Append(@, t)]

\* head = head->next
Pop(l, h) == [l EXCEPT ![h] = Tail(@)]

\* the head of list g is taken off and appended to list h
Move(l, g, h) == Push(Pop(l, g), h, Head(l[g]))

Position(s, t) == CHOOSE i \in DOMAIN s : s[i] = t

Unlink_cutsRest(l, h, t) == [l EXCEPT ![h] = SubSeq(@, 1, Position(@, t) - 1)]

\* t is unlinked from the middle of list h
Unlink(l, h, t) == [l EXCEPT ![h] = RemoveAt(@, Position(@, t))]

wakeupThread_ofNull(l, t) ==
    Push(IF t = NULL THEN l ELSE Unlink(l, joiningList, t), readyQueue, t)

wakeupThread_ofHead(l, t) ==
    IF t = NULL THEN l ELSE Move(l, joiningList, readyQueue)

wakeupThread_never(l, t) == l

wakeupThread(l, t) ==
    IF t = NULL THEN l
    ELSE Push(Unlink(l, joiningList, t), readyQueue, t)

-----------------------------------------------------------------------------
thread_self == Head(list[readyQueue])

isThreadAlive(t) == ter[t] = "alive"
Live             == {t \in TCB : isThreadAlive(t)}

readyQueueLength == Len(list[readyQueue])

Owns(t)  == {m \in Mutex \cap initialized : owner[m] = t}
Idle(x)  == list[x] = <<>> /\ (x \in Mutex => owner[x] = NULL)

Init ==
    /\ list = [h \in ListHead |-> IF h = readyQueue THEN <<Main>> ELSE <<>>]
    /\ waitingThread = [t \in TCB |-> NULL]
    /\ condVarMutex  = [t \in TCB |-> NULL]
    /\ ter = [t \in TCB |-> IF t = Main THEN "alive" ELSE "none"]
    /\ heap = {Main}
    /\ waitingForCleanup = NULL
    /\ owner \in [Mutex -> TCB \cup {NULL}]     \* stack garbage
    /\ initialized = {}
    /\ mutexList = [chain |-> <<>>, looped |-> FALSE]
    /\ condList  = [chain |-> <<>>, looped |-> FALSE]
    /\ status = "running"

-----------------------------------------------------------------------------
(* Threads. *)

thread_create ==
    \E t \in TCB \ heap :
        /\ status = "running"
        /\ list' = Push(list, readyQueue, t)
        /\ waitingThread' = [waitingThread EXCEPT ![t] = NULL]
        /\ condVarMutex'  = [condVarMutex  EXCEPT ![t] = NULL]
        /\ ter'  = [ter EXCEPT ![t] = "alive"]
        /\ heap' = heap \cup {t}
        /\ UNCHANGED <<waitingForCleanup, owner, registryVars, status>>

thread_yield_behindNext ==
    /\ status = "running"
    /\ readyQueueLength > 1
    /\ list' = [list EXCEPT ![readyQueue] =
                  <<@[2], @[1]>> \o SubSeq(@, 3, Len(@))]
    /\ UNCHANGED <<threadVars, condVarMutex, owner, registryVars, status>>

thread_yield ==
    /\ status = "running"
    /\ readyQueueLength > 1
    /\ list' = Move(list, readyQueue, readyQueue)
    /\ UNCHANGED <<threadVars, condVarMutex, owner, registryVars, status>>

JoinRefused_ifJoinedUnchecked(t) ==
    ~isThreadAlive(t) \/ t = thread_self \/ waitingThread[thread_self] = t
    \/ readyQueueLength = 1

\* The error checks of thread_join, in the order of the code.
JoinRefused(t) ==
    \/ ~isThreadAlive(t)
    \/ t = thread_self
    \/ waitingThread[t] # NULL
    \/ waitingThread[thread_self] = t
    \/ readyQueueLength = 1

thread_join ==
    \E t \in TCB :
        /\ status = "running"
        /\ ~JoinRefused(t)
        /\ list' = Move(list, readyQueue, joiningList)
        /\ waitingThread' = [waitingThread EXCEPT ![t] = thread_self]
        /\ UNCHANGED <<ter, heap, waitingForCleanup, condVarMutex, owner,
                       registryVars, status>>

StillAllocated_ownStackFreed == heap \ {thread_self}

\* cleanup runs on the stack of the thread that ends, so it frees the memory of
\* the thread that ended before.
StillAllocated == heap \ {waitingForCleanup}

\* A thread's function returns: threadStart calls cleanup, which wakes the
\* joiner, drops the thread from the ready queue and switches to the next one.
\* Following a NULL pointer, there or in wakeupThread, ends the process.
cleanup ==
    LET self   == thread_self
        joiner == waitingThread[self]
    IN  /\ status = "running"
        /\ self # Main
        /\ ExitHolding \/ Owns(self) = {}
        /\ list' = Pop(wakeupThread(list, joiner), readyQueue)
        /\ ter'  = [ter EXCEPT ![self] = "terminated"]
        /\ heap' = StillAllocated
        /\ waitingForCleanup' = self
        /\ status' = IF \/ joiner \notin Elems(list, joiningList) \cup {NULL}
                        \/ list'[readyQueue] = <<>>
                     THEN "crashed" ELSE status
        /\ UNCHANGED <<waitingThread, condVarMutex, owner, registryVars>>

\* The main thread returns from main: the process ends, whoever still waits.
MainReturns ==
    /\ status = "running"
    /\ thread_self = Main
    /\ status' = "exited"
    /\ UNCHANGED <<list, threadVars, condVarMutex, owner, registryVars>>

-----------------------------------------------------------------------------
(* Mutexes. *)

\* x is put at the end of a chain.  Its own next pointer has just been cleared:
\* if the chain already holds x, the walk to the tail stops at x, and x is made
\* its own successor.
Register(r, x) ==
    IF x \in ToSet(r.chain)
    THEN [chain |-> SubSeq(r.chain, 1, Position(r.chain, x)), looped |-> TRUE]
    ELSE [chain |-> Append(r.chain, x), looped |-> FALSE]

\* The walk to the tail of a chain closed on itself never ends.
WalkHangs(r, x) == r.looped /\ x \notin ToSet(r.chain)

ResetOwner_kept(m) == owner

\* mutex->owner = NULL
ResetOwner(m) == [owner EXCEPT ![m] = NULL]

MayInit(x) == x \notin initialized \/ (Reinit /\ Idle(x))

thread_mutex_init ==
    \E m \in Mutex :
        /\ status = "running"
        /\ MayInit(m)
        /\ owner' = ResetOwner(m)
        /\ IF WalkHangs(mutexList, m)
           THEN status' = "hung" /\ UNCHANGED <<mutexList, initialized>>
           ELSE /\ mutexList' = Register(mutexList, m)
                /\ initialized' = initialized \cup {m}
                /\ UNCHANGED status
        /\ UNCHANGED <<list, threadVars, condVarMutex, condList>>

\* Returns 1 with the mutex owned, at once or when the hand-over comes; asked
\* again by the owner, or with no other thread to run, it returns 0.
thread_mutex_lock ==
    \E m \in Mutex \cap initialized :
        /\ status = "running"
        /\ \/ /\ owner[m] = NULL
              /\ owner' = [owner EXCEPT ![m] = thread_self]
              /\ UNCHANGED list
           \/ /\ owner[m] \notin {NULL, thread_self}
              /\ readyQueueLength > 1
              /\ list' = Move(list, readyQueue, m)
              /\ UNCHANGED owner
        /\ UNCHANGED <<threadVars, condVarMutex, registryVars, status>>

\* Where the lists and the owner are left by an unlock of m.
UnlockedList(m)  == IF list[m] = <<>> THEN list ELSE Move(list, m, readyQueue)

UnlockedOwner_free(m) == [owner EXCEPT ![m] = NULL]

UnlockedOwner_last(m) ==
    [owner EXCEPT ![m] = IF list[m] = <<>> THEN NULL ELSE Last(list[m])]

UnlockedOwner(m) ==
    [owner EXCEPT ![m] = IF list[m] = <<>> THEN NULL ELSE Head(list[m])]

thread_mutex_unlock ==
    /\ status = "running"
    /\ \E m \in Owns(thread_self) :
        /\ list'  = UnlockedList(m)
        /\ owner' = UnlockedOwner(m)
    /\ UNCHANGED <<threadVars, condVarMutex, registryVars, status>>

-----------------------------------------------------------------------------
(* Condition variables. *)

thread_cond_init ==
    \E c \in Cond :
        /\ status = "running"
        /\ MayInit(c)
        /\ IF WalkHangs(condList, c)
           THEN status' = "hung" /\ UNCHANGED <<condList, initialized>>
           ELSE /\ condList' = Register(condList, c)
                /\ initialized' = initialized \cup {c}
                /\ UNCHANGED status
        /\ UNCHANGED <<list, threadVars, condVarMutex, owner, mutexList>>

\* The mutex is released first.  If that leaves no other thread to run the call
\* returns 0, and the mutex stays released.
thread_cond_wait ==
    /\ status = "running"
    /\ \E c \in Cond \cap initialized, m \in Owns(thread_self) :
        LET unlocked == UnlockedList(m) IN
        /\ owner' = UnlockedOwner(m)
        /\ \/ /\ Len(unlocked[readyQueue]) = 1
              /\ list' = unlocked
              /\ UNCHANGED condVarMutex
           \/ /\ Len(unlocked[readyQueue]) > 1
              /\ list' = Move(unlocked, readyQueue, c)
              /\ condVarMutex' = [condVarMutex EXCEPT ![thread_self] = m]
    /\ UNCHANGED <<threadVars, registryVars, status>>

thread_cond_signal_withoutMutex ==
    \E c \in Cond \cap initialized :
        /\ status = "running"
        /\ list[c] # <<>>
        /\ list' = Move(list, c, readyQueue)
        /\ UNCHANGED <<threadVars, condVarMutex, owner, registryVars, status>>

\* The first waiter gets its mutex if that is free, and queues for it if not.
thread_cond_signal ==
    \E c \in Cond \cap initialized :
        /\ status = "running"
        /\ list[c] # <<>>
        /\ LET signalledThread == Head(list[c])
               mu == condVarMutex[signalledThread]
           IN  \/ /\ owner[mu] = NULL
                  /\ owner' = [owner EXCEPT ![mu] = signalledThread]
                  /\ list' = Move(list, c, readyQueue)
               \/ /\ owner[mu] # NULL
                  /\ list' = Move(list, c, mu)
                  /\ UNCHANGED owner
        /\ UNCHANGED <<threadVars, condVarMutex, registryVars, status>>

-----------------------------------------------------------------------------
\* The process has ended, or is caught in a loop.
Ended == status # "running" /\ UNCHANGED vars

\* A call made by the running thread, which has one only while the process runs.
Next ==
    \/ thread_create \/ thread_yield \/ thread_join \/ cleanup \/ MainReturns
    \/ thread_mutex_init \/ thread_mutex_lock \/ thread_mutex_unlock
    \/ thread_cond_init \/ thread_cond_wait \/ thread_cond_signal
    \/ Ended

Spec == Init /\ [][Next]_vars

-----------------------------------------------------------------------------
(* Safety. *)

\* Every variable keeps to its type (thread.h:13-44).
TypeOK ==
    /\ list \in [ListHead -> Seq(TCB)]
    /\ waitingThread \in [TCB -> TCB \cup {NULL}]
    /\ condVarMutex \in [TCB -> Mutex \cup {NULL}]
    /\ ter \in [TCB -> {"none", "alive", "terminated"}]
    /\ heap \in SUBSET TCB
    /\ waitingForCleanup \in TCB \cup {NULL}
    /\ owner \in [Mutex -> TCB \cup {NULL}]
    /\ initialized \in SUBSET (Mutex \cup Cond)
    /\ mutexList \in Registry(Mutex)
    /\ condList \in Registry(Cond)
    /\ status \in {"running", "exited", "crashed", "hung"}

\* One next pointer serves all lists, so no thread may be on two of them or
\* twice on one.
OnePlace(l) ==
    /\ \A h \in ListHead : IsInjective(l[h])
    /\ \A g, h \in ListHead : g # h => Elems(l, g) \cap Elems(l, h) = {}

\* No thread is lost and none comes back: the threads on the lists are, once
\* each, those that were created and did not end (thread.c:21-96, 197-217).
Placement == OnePlace(list) /\ Listed(list) = Live

\* Nothing a list can lead to has been freed, and what is not freed is alive or
\* is the one thread whose memory waits for the next cleanup (thread.c:208-213).
HeapExact ==
    /\ heap = Live \cup ({waitingForCleanup} \ {NULL})
    /\ waitingForCleanup \notin Live

\* As long as the process runs some thread is ready, so that no API call takes
\* the process for one that has no main thread yet and drops the existence
\* records (thread.c:225-246).
ReadyNonEmpty == status = "running" => list[readyQueue] # <<>>

\* The joiners of live threads are exactly the threads on joiningList, one for
\* each: cleanup finds the joiner it looks for (thread.c:183-186, 201).
JoinersListed ==
    /\ \A t \in Live : waitingThread[t] # NULL =>
           /\ waitingThread[t] \in Elems(list, joiningList)
           /\ \A u \in Live : waitingThread[u] = waitingThread[t] => u = t
    /\ \A w \in Elems(list, joiningList) : \E t \in Live : waitingThread[t] = w

\* No two threads join each other: the "simple circular join" (thread.c:324).
NoMutualJoin ==
    \A t, u \in Live : waitingThread[t] = u => waitingThread[u] # t

\* A thread queues only for an initialised mutex that another address owns:
\* the wait list of a free mutex is empty (thread.c:371-411, 464-474).
LockQueues ==
    \A m \in Mutex : list[m] # <<>> =>
        m \in initialized /\ owner[m] \notin Elems(list, m) \cup {NULL}

\* A thread blocked on a condition variable has a mutex to come back with, and
\* does not own it (thread.c:433, 442, 459-464).
CondWaiters ==
    \A c \in Cond : \A t \in Elems(list, c) :
        /\ c \in initialized
        /\ condVarMutex[t] \in Mutex \cap initialized
        /\ owner[condVarMutex[t]] # t

\* Whoever waits for a mutex or a condition variable is served by what will
\* happen to it: there is an owner to hand the mutex over, and a mutex to come
\* back with (thread.c:371-474).
Waiters == LockQueues /\ CondWaiters

\* If clients release what they lock before they end, a mutex is never owned by
\* a thread that is gone, or by a new thread at its address (thread.c:208-213).
OwnerAlive ==
    ~ExitHolding =>
        \A m \in Mutex \cap initialized : owner[m] \in Live \cup {NULL}

\* "prevent another type of deadlock - all threads trying to join on another"
\* (thread.c:325).
NeverAllJoining == ~(Live \subseteq Elems(list, joiningList))

-----------------------------------------------------------------------------
(* What a step may do. *)

ReadyInOrderStep ==
    \A i \in 2..Len(list[readyQueue]) :
       \E j \in {i - 1, i} \cap DOMAIN list'[readyQueue] :
          list'[readyQueue][j] = list[readyQueue][i]

\* Ready threads run in the order they became ready: a thread that is not
\* running keeps its place or moves up by one (thread.c:298-305, 327-341).
ReadyInOrder == [][ReadyInOrderStep]_vars

HandOverStep ==
    \A m \in Mutex : list[m] # <<>> =>
       \/ owner'[m] = owner[m] /\ IsPrefix(list[m], list'[m])
       \/ /\ owner'[m] = Head(list[m])
          /\ list'[m] = Tail(list[m])
          /\ owner'[m] \in Range(list'[readyQueue])

\* No barging: while threads wait for a mutex it passes only to the first of
\* them, which thereby is ready, and nobody overtakes in its wait list
\* (thread.c:399-411).
HandOver == [][HandOverStep]_vars

JoinExactStep ==
    \A w \in TCB, t \in Live :
       waitingThread[t] = w /\ w \in Elems(list, joiningList) =>
          IF ter'[t] = "terminated"
          THEN w \in Range(list'[readyQueue])
          ELSE w \in Range(list'[joiningList])

\* thread_join blocks until its thread ends, and no longer: a thread leaves
\* joiningList, for the ready queue, in the step that ends the thread it joined
\* (thread.c:173-206, 335-341).
JoinExact == [][JoinExactStep]_vars

SignalHandsMutexStep ==
    \A c \in Cond : ~IsPrefix(list[c], list'[c]) =>
       LET w == Head(list[c])
           m == condVarMutex[w]
       IN  /\ list'[c] = Tail(list[c])
           /\ \/ owner[m] = NULL /\ owner'[m] = w /\ w \in Range(list'[readyQueue])
              \/ owner[m] # NULL /\ owner'[m] = owner[m] /\ list'[m] = Append(list[m], w)

\* A waiter leaves a condition variable in turn, and then either owns its mutex
\* and is ready, or is the last in the queue for it (thread.c:459-474).
SignalHandsMutex == [][SignalHandsMutexStep]_vars

FreeIsSafeStep ==
    \A t \in heap \ heap' :
       /\ t # thread_self /\ t \notin Live
       /\ \A h \in ListHead : t \notin Range(list'[h])
       /\ \A u \in Live : waitingThread[u] # t
       /\ ExitHolding \/ Owns(t) = {}

\* Memory is freed only when nothing refers to it: not a list, not the stack the
\* freeing code runs on, not the join of a live thread, and, if clients release
\* what they lock, no mutex (thread.c:208-213).
FreeIsSafe == [][FreeIsSafeStep]_vars

-----------------------------------------------------------------------------
(* Liveness.  The library never preempts, so everything rests on what client *)
(* threads do when they run; each fairness formula names one such promise.   *)

\* The call suspends or ends the running thread and another one runs.
Switches == /\ Next
            /\ list'[readyQueue] # <<>>
            /\ Head(list'[readyQueue]) # thread_self

\* A running thread that could yield does, or blocks, or ends.
ThreadsYield == WF_vars(Switches)

\* A thread that owns mutexes and runs again and again releases one of them.
OwnersUnlock == SF_vars(thread_mutex_unlock)

\* A thread that runs again and again returns from its function.
ThreadsReturn ==
    \A t \in TCB :
        SF_vars((cleanup \/ MainReturns) /\ thread_self = t)

\* No ready thread starves (thread.c:288-306).
ReadyRuns ==
    \A t \in TCB :
        t \in Elems(list, readyQueue) ~> status # "running" \/ thread_self = t

\* No thread waits for a mutex for ever (thread.c:374-389, 399-405).
WaiterServed ==
    \A t \in TCB, m \in Mutex :
        t \in Elems(list, m) ~> status # "running" \/ owner[m] = t

\* Threads that have joined each other in a circle, and those whose joins lead
\* into it: nobody of such a set will ever run.
InCircle(t) ==
    \E S \in SUBSET Elems(list, joiningList) :
        t \in S /\ \A w \in S : \E u \in S : waitingThread[u] = w

\* If threads return and none waits for a condition any more, whoever joins a
\* thread is back in the ready queue, unless main returns first; what else can
\* keep it, or crash the process, is a circle of joins that its own leads into,
\* which thread_join lets pass if it is one of three or more
\* (thread.c:201, 324-343).
JoinReturns ==
    ThreadsReturn /\ <>[](\A c \in Cond : list[c] = <<>>) =>
        \A t \in TCB :
            t \in Elems(list, joiningList) ~>
                status = "exited" \/ t \in Elems(list, readyQueue) \/ InCircle(t)
=============================================================================
