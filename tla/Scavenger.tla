------------------------------ MODULE Scavenger ------------------------------
(***************************************************************************)
(* The scavenger of bmalloc: Heap::concurrentScavenge (Heap.cpp), run by   *)
(* an AsyncTask (AsyncTask.h).                                             *)
(*                                                                         *)
(* Threads of the program free pages under the heap's lock and then call   *)
(* run(), which signals an atomic state word, wakes the sleeping scavenger *)
(* thread or creates one.  The thread gives the physical memory of free    *)
(* pages back, naps while the program allocates, sleeps when it is done    *)
(* and exits when nothing was asked of it for a second.                    *)
(***************************************************************************)
EXTENDS Naturals, FiniteSets

CONSTANTS
  Callers,  \* threads of the program
  Workers,  \* scavenger threads; one that returned may stand for a new one
  Pages,    \* pages and large ranges
  Kind,     \* whether a page is small (1), medium (2) or a large range (3)
  Free      \* not a thread: nobody holds the lock

Threads  == Callers \union Workers
LastKind == 3

ASSUME ScavengerAssumption ==
  /\ Callers \intersect Workers = {}
  /\ Free \notin Threads
  /\ Kind \in [Pages -> 1..LastKind]

VARIABLES
  state,       \* m_state: Exited, Sleeping, Running, Signaled
  mutex,       \* holder of m_conditionMutex
  heapLock,    \* holder of PerProcess<Heap>::mutex()
  allocating,  \* m_isAllocatingPages
  where,       \* page -> inUse, free (m_smallPages, ...: with physical memory),
               \*         decommit (in vmDeallocatePhysicalPages), vm (VMHeap)
  pc,          \* what a thread does; idle or none: nothing here
  kind,        \* a thread that scavenges: the kind of page it looks for
  page         \* a thread that decommits: the pages it took (at most one)

heap == <<allocating, where>>
vars == <<state, mutex, heapLock, heap, pc, kind, page>>

Scavenging == {"enter", "scan", "nap", "decommit", "lastnap"}
Running    == {"exchange", "lock", "notify", "create"}
CallerPC   == {"idle"} \union Running \union (Scavenging \ {"nap", "lastnap"})
WorkerPC   == {"none", "take", "sleep", "lock", "check", "wait", "waiting", "notified",
               "exit"} \union Scavenging

TypeOK ==
  /\ state \in {"Exited", "Sleeping", "Running", "Signaled"}
  /\ mutex \in Workers \union {Free}
  /\ heapLock \in Threads \union {Free}
  /\ allocating \in BOOLEAN
  /\ where \in [Pages -> {"inUse", "free", "decommit", "vm"}]
  /\ pc \in [Threads -> CallerPC \union WorkerPC]
  /\ \A c \in Callers : pc[c] \in CallerPC
  /\ \A w \in Workers : pc[w] \in WorkerPC
  /\ kind \in [Threads -> 1..LastKind]
  /\ page \in [Threads -> SUBSET Pages]

Init ==
  /\ state = "Exited"
  /\ mutex = Free /\ heapLock = Free
  /\ allocating = FALSE
  /\ where = [p \in Pages |-> "vm"]
  /\ pc = [t \in Threads |-> IF t \in Callers THEN "idle" ELSE "none"]
  /\ kind = [t \in Threads |-> 1]
  /\ page = [t \in Threads |-> {}]

Goto(t, label) == pc' = [pc EXCEPT ![t] = label]

-----------------------------------------------------------------------------
(* The program.                                                            *)

\* allocate...SlowCase, allocateLarge: the heap's own free pages first.
Allocate(c, p) ==
  /\ pc[c] = "idle" /\ heapLock = Free
  /\ \/ where[p] = "free"
     \/ where[p] = "vm" /\ \A q \in Pages : Kind[q] = Kind[p] => where[q] # "free"
  /\ where' = [where EXCEPT ![p] = "inUse"]
  /\ allocating' = TRUE
  /\ UNCHANGED <<state, mutex, heapLock, pc, kind, page>>

\* deallocate...Line, deallocateLarge; then run(), still under the lock.  It
\* returns at once when the task is already signaled.
Deallocate(c, p) ==
  /\ pc[c] = "idle" /\ heapLock = Free
  /\ where[p] = "inUse"
  /\ where' = [where EXCEPT ![p] = "free"]
  /\ IF state = "Signaled"
     THEN UNCHANGED <<heapLock, pc>>
     ELSE heapLock' = c /\ Goto(c, "exchange")
  /\ UNCHANGED <<state, mutex, allocating, kind, page>>

\* Fault: a thread that runs is not counted as one.
AfterExchangeCreates ==
  CASE state = "Signaled" -> "idle"
    [] state = "Sleeping" -> "lock"
    [] OTHER              -> "create"

\* runSlowCase(): where it goes on, by the state it replaced.
AfterExchange ==
  CASE state = "Exited"   -> "create"
    [] state = "Sleeping" -> "lock"
    [] OTHER              -> "idle"

Exchange(c) ==
  /\ pc[c] = "exchange"
  /\ state' = "Signaled"
  /\ Goto(c, AfterExchange)
  /\ heapLock' = IF AfterExchange = "idle" THEN Free ELSE heapLock
  /\ UNCHANGED <<mutex, heap, kind, page>>

\* The condition's mutex is taken and released, and only then is it notified.
LockAndUnlock(c) ==
  /\ pc[c] = "lock" /\ c \in Callers /\ mutex = Free
  /\ Goto(c, "notify")
  /\ UNCHANGED <<state, mutex, heapLock, heap, kind, page>>

Waiting == {w \in Workers : pc[w] = "waiting"}

Notify(c) ==
  /\ pc[c] = "notify"
  /\ \/ \E w \in Waiting : pc' = [pc EXCEPT ![c] = "idle", ![w] = "notified"]
     \/ Waiting = {} /\ Goto(c, "idle")
  /\ heapLock' = Free
  /\ UNCHANGED <<state, mutex, heap, kind, page>>

Create(c) ==
  /\ pc[c] = "create"
  /\ \E w \in Workers :
       /\ pc[w] = "none"
       /\ pc' = [pc EXCEPT ![c] = "idle", ![w] = "take"]
  /\ heapLock' = Free
  /\ UNCHANGED <<state, mutex, heap, kind, page>>

\* api::scavenge(): a thread of the program scavenges itself.
ScavengeNow(c) ==
  /\ pc[c] = "idle"
  /\ Goto(c, "enter")
  /\ UNCHANGED <<state, mutex, heapLock, heap, kind, page>>

-----------------------------------------------------------------------------
(* Heap::scavenge, by a scavenger thread or by one of the program, which   *)
(* does not nap.                                                           *)

Enter(t) ==
  /\ pc[t] = "enter" /\ heapLock = Free
  /\ heapLock' = t
  /\ kind' = [kind EXCEPT ![t] = 1]
  /\ Goto(t, "scan")
  /\ UNCHANGED <<state, mutex, heap, page>>

\* sleep(lock, duration): the lock is released meanwhile.
NapWhileAllocating(t) ==
  /\ pc[t] = "scan" /\ allocating
  /\ allocating' = FALSE
  /\ IF t \in Workers THEN Goto(t, "nap") /\ heapLock' = Free
     ELSE UNCHANGED <<pc, heapLock>>
  /\ UNCHANGED <<state, mutex, where, kind, page>>

FreePages(k) == {p \in Pages : where[p] = "free" /\ Kind[p] = k}

\* Fault: the page stays in its list until its memory is gone.
TakePageLate(t) ==
  /\ pc[t] = "scan" /\ ~allocating
  /\ \E p \in FreePages(kind[t]) : page' = [page EXCEPT ![t] = {p}]
  /\ Goto(t, "decommit")
  /\ heapLock' = Free
  /\ UNCHANGED <<state, mutex, heap, kind>>

\* A page is taken out of its list; deallocateSmallPage releases the lock while
\* the operating system takes the memory back.
TakePage(t) ==
  /\ pc[t] = "scan" /\ ~allocating
  /\ \E p \in FreePages(kind[t]) :
       /\ where' = [where EXCEPT ![p] = "decommit"]
       /\ page' = [page EXCEPT ![t] = {p}]
  /\ Goto(t, "decommit")
  /\ heapLock' = Free
  /\ UNCHANGED <<state, mutex, allocating, kind>>

Decommitted(t) ==
  /\ pc[t] = "decommit" /\ heapLock = Free
  /\ where' = [p \in Pages |-> IF p \in page[t] THEN "vm" ELSE where[p]]
  /\ page' = [page EXCEPT ![t] = {}]
  /\ heapLock' = t
  /\ Goto(t, "scan")
  /\ UNCHANGED <<state, mutex, allocating, kind>>

NextKind(t) ==
  /\ pc[t] = "scan" /\ ~allocating /\ FreePages(kind[t]) = {}
  /\ IF kind[t] < LastKind
     THEN /\ kind' = [kind EXCEPT ![t] = @ + 1]
          /\ UNCHANGED <<pc, heapLock>>
     ELSE /\ Goto(t, IF t \in Workers THEN "lastnap" ELSE "idle")
          /\ heapLock' = Free
          /\ UNCHANGED kind
  /\ UNCHANGED <<state, mutex, heap, page>>

NapEnds(t) ==
  /\ pc[t] = "nap" /\ heapLock = Free
  /\ heapLock' = t
  /\ Goto(t, "scan")
  /\ UNCHANGED <<state, mutex, heap, kind, page>>

\* The last sleep takes the lock again, which the return then releases.
LastNapEnds(t) ==
  /\ pc[t] = "lastnap" /\ heapLock = Free
  /\ Goto(t, "sleep")
  /\ UNCHANGED <<state, mutex, heapLock, heap, kind, page>>

-----------------------------------------------------------------------------
(* AsyncTask::entryPoint.  compare_exchange_weak may fail although the     *)
(* state is the expected one.                                              *)

TakeSignal(w) ==
  /\ pc[w] = "take" /\ state = "Signaled"
  /\ state' = "Running"
  /\ Goto(w, "enter")
  /\ UNCHANGED <<mutex, heapLock, heap, kind, page>>

NoSignal(w) ==
  /\ pc[w] = "take"
  /\ Goto(w, "sleep")
  /\ UNCHANGED <<state, mutex, heapLock, heap, kind, page>>

\* Fault: a plain store.
FallAsleepAnyway(w) ==
  /\ pc[w] = "sleep"
  /\ state' = "Sleeping"
  /\ Goto(w, "lock")
  /\ UNCHANGED <<mutex, heapLock, heap, kind, page>>

FallAsleep(w) ==
  /\ pc[w] = "sleep" /\ state = "Running"
  /\ state' = "Sleeping"
  /\ Goto(w, "lock")
  /\ UNCHANGED <<mutex, heapLock, heap, kind, page>>

StayAwake(w) ==
  /\ pc[w] = "sleep"
  /\ Goto(w, "exit")
  /\ UNCHANGED <<state, mutex, heapLock, heap, kind, page>>

\* m_condition.wait_for: with the mutex held the predicate is looked at, before
\* the wait releases the mutex and each time the thread wakes.
LockCondition(w) ==
  /\ pc[w] = "lock" /\ w \in Workers /\ mutex = Free
  /\ mutex' = w
  /\ Goto(w, "check")
  /\ UNCHANGED <<state, heapLock, heap, kind, page>>

CheckState(w) ==
  /\ pc[w] = "check"
  /\ IF state = "Sleeping" THEN Goto(w, "wait") /\ UNCHANGED mutex
     ELSE Goto(w, "exit") /\ mutex' = Free
  /\ UNCHANGED <<state, heapLock, heap, kind, page>>

BeginWait(w) ==
  /\ pc[w] = "wait"
  /\ mutex' = Free
  /\ Goto(w, "waiting")
  /\ UNCHANGED <<state, heapLock, heap, kind, page>>

\* Also without a notification.
WakeUp(w) ==
  /\ pc[w] \in {"waiting", "notified"} /\ mutex = Free
  /\ mutex' = w
  /\ Goto(w, "check")
  /\ UNCHANGED <<state, heapLock, heap, kind, page>>

\* exitDelay is over.
TimesOut(w) ==
  /\ pc[w] \in {"waiting", "notified"} /\ mutex = Free
  /\ Goto(w, "exit")
  /\ UNCHANGED <<state, mutex, heapLock, heap, kind, page>>

\* Fault: a plain store.
ExitAnyway(w) ==
  /\ pc[w] = "exit"
  /\ state' = "Exited"
  /\ Goto(w, "none")
  /\ UNCHANGED <<mutex, heapLock, heap, kind, page>>

Exit(w) ==
  /\ pc[w] = "exit" /\ state = "Sleeping"
  /\ state' = "Exited"
  /\ Goto(w, "none")
  /\ UNCHANGED <<mutex, heapLock, heap, kind, page>>

GoOn(w) ==
  /\ pc[w] = "exit"
  /\ Goto(w, "take")
  /\ UNCHANGED <<state, mutex, heapLock, heap, kind, page>>

-----------------------------------------------------------------------------
Run(c) == Exchange(c) \/ LockAndUnlock(c) \/ Notify(c) \/ Create(c)

Request(c) ==
  \/ \E p \in Pages : Allocate(c, p) \/ Deallocate(c, p)
  \/ ScavengeNow(c)

Scan(t)    == NapWhileAllocating(t) \/ TakePage(t) \/ NextKind(t)
Acquire(t) == Enter(t) \/ Decommitted(t) \/ NapEnds(t) \/ LastNapEnds(t)

Work(w) ==
  \/ TakeSignal(w) \/ NoSignal(w) \/ FallAsleep(w) \/ StayAwake(w)
  \/ LockCondition(w) \/ CheckState(w) \/ BeginWait(w)
  \/ Exit(w) \/ GoOn(w)

Sleep(w) == WakeUp(w) \/ TimesOut(w)

Next ==
  \/ \E c \in Callers : Request(c) \/ Run(c)
  \/ \E t \in Threads : Scan(t) \/ Acquire(t)
  \/ \E w \in Workers : Work(w) \/ Sleep(w)

Spec == Init /\ [][Next]_vars

\* Threads run; who spins on a lock that becomes free again and again gets it,
\* and an exchange does not fail for ever.  A thread that was notified wakes,
\* but the timeout of the wait is not counted on.
FairSpec ==
  /\ Spec
  /\ \A c \in Callers : WF_vars(Run(c)) /\ SF_vars(LockAndUnlock(c))
  /\ \A t \in Threads : WF_vars(Scan(t)) /\ SF_vars(Acquire(t))
  /\ \A w \in Workers :
       /\ WF_vars(Work(w)) /\ SF_vars(TakeSignal(w))
       /\ WF_vars(pc[w] = "notified" /\ Sleep(w))

-----------------------------------------------------------------------------
(* Properties.                                                             *)

Alive    == {w \in Workers : pc[w] # "none"}
Creating == {c \in Callers : pc[c] = "create"}

\* There is one scavenger thread, or a thread of the program about to create
\* it, except in the state Exited: an exiting thread and a caller that signals
\* at the same time neither leave the task without a thread nor with two.
OneScavenger ==
  Cardinality(Alive \union Creating) = IF state = "Exited" THEN 0 ELSE 1

\* A scavenger thread that sleeps although it was signaled is about to be
\* notified: the caller takes the condition's mutex, so that its notification
\* cannot come between the thread's look at the state and its wait.
NotifiedWhenSignaled ==
  state = "Signaled" /\ (\E w \in Workers : pc[w] \in {"wait", "waiting"})
    => \E c \in Callers : pc[c] \in {"lock", "notify"}

\* A thread that looks for pages of kind k, or will.
Ahead(w, k) ==
  \/ pc[w] = "enter"
  \/ pc[w] \in {"scan", "nap", "decommit"} /\ kind[w] <= k

\* A free page never stays behind: the task is signaled, or about to be, or
\* the scavenger thread has not come to the pages of its kind yet.
FreePagesAhead ==
  \A p \in Pages : where[p] = "free" =>
    \/ state = "Signaled"
    \/ \E c \in Callers : pc[c] = "exchange"
    \/ \E w \in Workers : Ahead(w, Kind[p])

\* No page that is being decommitted is given to the program or to another
\* scavenging thread while the lock is released.
DecommitsApart ==
  /\ \A p \in Pages :
       where[p] = "decommit" <=> \E t \in Threads : pc[t] = "decommit" /\ p \in page[t]
  /\ \A t, u \in Threads : t # u => page[t] \intersect page[u] = {}

\* Once the program stops allocating, every free page gives its memory back.
FreePagesScavenged ==
  <>[]~allocating => \A p \in Pages : where[p] = "free" ~> where[p] # "free"

\* Every request is followed by a run of the function that begins after it, and
\* there is one run at a time (RepeatedTask).
Abstract == INSTANCE RepeatedTask WITH
              requested <- state = "Signaled",
              busy      <- \E w \in Workers : pc[w] \in Scavenging

RunsAfterRequest == Abstract!FairSpec
=============================================================================
