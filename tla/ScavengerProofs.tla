---------------------------- MODULE ScavengerProofs ----------------------------
(***************************************************************************)
(* The scavenger's safety for any number of threads of the program, of     *)
(* places for scavenger threads, and of pages.                             *)
(***************************************************************************)
EXTENDS Scavenger, FiniteSetTheorems, TLAPS

LEMMA InitType == Init => TypeOK
<1> SUFFICES ASSUME Init PROVE TypeOK
  OBVIOUS
<1>1. "idle" \in CallerPC /\ "none" \in WorkerPC
  BY DEF CallerPC, WorkerPC
<1>2. /\ pc \in [Threads -> CallerPC \union WorkerPC]
      /\ \A c \in Callers : pc[c] \in CallerPC
      /\ \A w \in Workers : pc[w] \in WorkerPC
  BY <1>1, ScavengerAssumption DEF Init, Threads
<1>3. /\ where \in [Pages -> {"inUse", "free", "decommit", "vm"}]
      /\ kind \in [Threads -> 1..LastKind] /\ page \in [Threads -> SUBSET Pages]
  BY DEF Init, LastKind
<1>4. /\ state \in {"Exited", "Sleeping", "Running", "Signaled"}
      /\ mutex \in Workers \union {Free} /\ heapLock \in Threads \union {Free}
      /\ allocating \in BOOLEAN
  BY DEF Init
<1> QED BY <1>2, <1>3, <1>4 DEF TypeOK

\* Where a scavenger thread can go.
LEMMA WorkerMoves ==
  ASSUME TypeOK, NEW w \in Workers, NEW label \in WorkerPC,
         pc' = [pc EXCEPT ![w] = label]
  PROVE  /\ pc' \in [Threads -> CallerPC \union WorkerPC]
         /\ \A c \in Callers : pc'[c] \in CallerPC
         /\ \A u \in Workers : pc'[u] \in WorkerPC
  BY ScavengerAssumption DEF TypeOK, Threads

LEMMA WorkerLabels ==
  {"none", "take", "sleep", "lock", "check", "wait", "waiting", "notified", "exit", "enter"}
    \subseteq WorkerPC
  BY DEF WorkerPC, Scavenging

LEMMA ProgramType ==
  ASSUME TypeOK, NEW c \in Callers, Request(c) \/ Run(c)
  PROVE  TypeOK'
<1>0. c \in Threads /\ c \notin Workers /\ Threads = Callers \union Workers
  BY ScavengerAssumption DEF Threads
<1>1. ASSUME NEW p \in Pages, Allocate(c, p) PROVE TypeOK'
  BY <1>1 DEF Allocate, TypeOK
<1>2. ASSUME NEW p \in Pages, Deallocate(c, p) PROVE TypeOK'
  BY <1>0, <1>2 DEF Deallocate, Goto, TypeOK, CallerPC, Running
<1>3. CASE ScavengeNow(c)
  BY <1>0, <1>3 DEF ScavengeNow, Goto, TypeOK, heap, CallerPC, Scavenging
<1>4. CASE Exchange(c)
  <2>1. AfterExchange \in {"create", "lock", "idle"}
    BY DEF AfterExchange
  <2> QED BY <1>0, <1>4, <2>1 DEF Exchange, Goto, TypeOK, heap, CallerPC, Running
<1>5. CASE LockAndUnlock(c)
  BY <1>0, <1>5 DEF LockAndUnlock, Goto, TypeOK, heap, CallerPC, Running
<1>6. CASE Notify(c)
  <2>1. "idle" \in CallerPC /\ "notified" \in WorkerPC
    BY DEF CallerPC, WorkerPC
  <2>2. \/ \E w \in Workers : pc' = [pc EXCEPT ![c] = "idle", ![w] = "notified"]
        \/ pc' = [pc EXCEPT ![c] = "idle"]
    BY <1>6 DEF Notify, Waiting, Goto
  <2>3. /\ pc' \in [Threads -> CallerPC \union WorkerPC]
        /\ \A d \in Callers : pc'[d] \in CallerPC
        /\ \A w \in Workers : pc'[w] \in WorkerPC
    BY ScavengerAssumption, <1>0, <2>1, <2>2 DEF TypeOK
  <2> QED BY <1>6, <2>3 DEF Notify, TypeOK, heap
<1>7. CASE Create(c)
  <2>1. "idle" \in CallerPC /\ "take" \in WorkerPC
    BY DEF CallerPC, WorkerPC
  <2>2. \E w \in Workers : pc' = [pc EXCEPT ![c] = "idle", ![w] = "take"]
    BY <1>7 DEF Create
  <2>3. /\ pc' \in [Threads -> CallerPC \union WorkerPC]
        /\ \A d \in Callers : pc'[d] \in CallerPC
        /\ \A w \in Workers : pc'[w] \in WorkerPC
    BY ScavengerAssumption, <1>0, <2>1, <2>2 DEF TypeOK
  <2> QED BY <1>7, <2>3 DEF Create, TypeOK, heap
<1> QED BY <1>1, <1>2, <1>3, <1>4, <1>5, <1>6, <1>7 DEF Request, Run

LEMMA ScavengeType ==
  ASSUME TypeOK, NEW t \in Threads, Scan(t) \/ Acquire(t)
  PROVE  TypeOK'
<1>0. Threads = Callers \union Workers /\ Callers \intersect Workers = {}
  BY ScavengerAssumption DEF Threads
<1>1. CASE NapWhileAllocating(t)
  BY <1>0, <1>1 DEF NapWhileAllocating, Goto, TypeOK, WorkerPC, Scavenging
<1>2. CASE TakePage(t)
  BY <1>0, <1>2 DEF TakePage, FreePages, Goto, TypeOK, CallerPC, WorkerPC, Scavenging
<1>3. CASE NextKind(t)
  BY <1>0, <1>3 DEF NextKind, Goto, TypeOK, heap, CallerPC, WorkerPC, Scavenging, LastKind
<1>4. CASE Enter(t)
  BY <1>0, <1>4 DEF Enter, Goto, TypeOK, heap, CallerPC, WorkerPC, Scavenging, LastKind
<1>5. CASE Decommitted(t)
  BY <1>0, <1>5 DEF Decommitted, Goto, TypeOK, CallerPC, WorkerPC, Scavenging
<1>6. CASE NapEnds(t)
  BY <1>0, <1>6 DEF NapEnds, Goto, TypeOK, heap, CallerPC, WorkerPC, Scavenging, Running
<1>7. CASE LastNapEnds(t)
  BY <1>0, <1>7 DEF LastNapEnds, Goto, TypeOK, heap, CallerPC, WorkerPC, Scavenging, Running
<1> QED BY <1>1, <1>2, <1>3, <1>4, <1>5, <1>6, <1>7 DEF Scan, Acquire

LEMMA TaskType ==
  ASSUME TypeOK, NEW w \in Workers, Work(w) \/ Sleep(w)
  PROVE  TypeOK'
<1>1. CASE TakeSignal(w) \/ NoSignal(w)
  <2>1. pc' \in {[pc EXCEPT ![w] = "enter"], [pc EXCEPT ![w] = "sleep"]}
    BY <1>1 DEF TakeSignal, NoSignal, Goto
  <2> QED BY <1>1, <2>1, WorkerMoves, WorkerLabels DEF TakeSignal, NoSignal, TypeOK, heap
<1>2. CASE FallAsleep(w) \/ StayAwake(w)
  <2>1. pc' \in {[pc EXCEPT ![w] = "lock"], [pc EXCEPT ![w] = "exit"]}
    BY <1>2 DEF FallAsleep, StayAwake, Goto
  <2> QED BY <1>2, <2>1, WorkerMoves, WorkerLabels DEF FallAsleep, StayAwake, TypeOK, heap
<1>3. CASE LockCondition(w) \/ WakeUp(w)
  <2>1. pc' = [pc EXCEPT ![w] = "check"]
    BY <1>3 DEF LockCondition, WakeUp, Goto
  <2> QED BY <1>3, <2>1, WorkerMoves, WorkerLabels DEF LockCondition, WakeUp, TypeOK, heap
<1>4. CASE CheckState(w) \/ BeginWait(w)
  <2>1. pc' \in {[pc EXCEPT ![w] = "wait"], [pc EXCEPT ![w] = "exit"],
                 [pc EXCEPT ![w] = "waiting"]}
    BY <1>4 DEF CheckState, BeginWait, Goto
  <2> QED BY <1>4, <2>1, WorkerMoves, WorkerLabels DEF CheckState, BeginWait, TypeOK, heap
<1>5. CASE Exit(w) \/ GoOn(w) \/ TimesOut(w)
  <2>1. pc' \in {[pc EXCEPT ![w] = "none"], [pc EXCEPT ![w] = "take"],
                 [pc EXCEPT ![w] = "exit"]}
    BY <1>5 DEF Exit, GoOn, TimesOut, Goto
  <2> QED BY <1>5, <2>1, WorkerMoves, WorkerLabels DEF Exit, GoOn, TimesOut, TypeOK, heap
<1> QED BY <1>1, <1>2, <1>3, <1>4, <1>5 DEF Work, Sleep

LEMMA NextType == TypeOK /\ [Next]_vars => TypeOK'
<1>1. CASE UNCHANGED vars
  BY <1>1 DEF vars, heap, TypeOK
<1> QED BY <1>1, ProgramType, ScavengeType, TaskType DEF Next

\* Every reachable state is well typed, for any threads and pages.
THEOREM ScavengerTypes == Spec => []TypeOK
  BY InitType, NextType, PTL DEF Spec

-----------------------------------------------------------------------------
(* One scavenger thread.                                                   *)

Agents == Alive \union Creating

\* The thread that exists or is about to be created; it alone changes the state from
\* Sleeping to Exited, and only a caller that found Exited creates another.
One ==
  /\ state = "Exited" <=> Agents = {}
  /\ \A a, b \in Agents : a = b

LEMMA InitOne == Init => One
  BY ScavengerAssumption DEF Init, One, Agents, Alive, Creating, Threads

LEMMA SameAgents ==
  ASSUME One, Agents' = Agents, state' = "Exited" <=> state = "Exited"
  PROVE  One'
  BY DEF One

LEMMA ProgramOne ==
  ASSUME TypeOK, One, NEW c \in Callers, Request(c) \/ Run(c)
  PROVE  One'
<1>0. c \in Threads /\ c \notin Workers /\ Threads = Callers \union Workers
  BY ScavengerAssumption DEF Threads
<1>1. CASE Request(c)
  <2>1. UNCHANGED state /\ (UNCHANGED pc \/ /\ pc[c] = "idle"
                                            /\ pc' \in {[pc EXCEPT ![c] = "exchange"],
                                                        [pc EXCEPT ![c] = "enter"]})
    BY <1>1 DEF Request, Allocate, Deallocate, ScavengeNow, Goto
  <2>2. Agents' = Agents
    BY <1>0, <2>1 DEF TypeOK, Agents, Alive, Creating
  <2> QED BY <2>1, <2>2, SameAgents
<1>2. CASE Exchange(c)
  <2>1. CASE state = "Exited"
    <3>1. pc' = [pc EXCEPT ![c] = "create"] /\ state' = "Signaled"
      BY <1>2, <2>1 DEF Exchange, AfterExchange, Goto
    <3>2. Agents = {}
      BY <2>1 DEF One
    <3>3. Agents' = {c}
      BY <1>0, <3>1, <3>2 DEF TypeOK, Agents, Alive, Creating
    <3> QED BY <3>1, <3>3 DEF One
  <2>2. CASE state # "Exited"
    <3>1. pc[c] = "exchange" /\ state' = "Signaled"
          /\ pc' \in {[pc EXCEPT ![c] = "lock"], [pc EXCEPT ![c] = "idle"]}
      BY <1>2, <2>2 DEF Exchange, AfterExchange, Goto
    <3>2. Agents' = Agents
      BY <1>0, <3>1 DEF TypeOK, Agents, Alive, Creating
    <3> QED BY <2>2, <3>1, <3>2, SameAgents
  <2> QED BY <2>1, <2>2
<1>3. CASE LockAndUnlock(c)
  <2>1. UNCHANGED state /\ pc[c] = "lock" /\ pc' = [pc EXCEPT ![c] = "notify"]
    BY <1>3 DEF LockAndUnlock, Goto
  <2>2. Agents' = Agents
    BY <1>0, <2>1 DEF TypeOK, Agents, Alive, Creating
  <2> QED BY <2>1, <2>2, SameAgents
<1>4. CASE Notify(c)
  <2>1. /\ UNCHANGED state /\ pc[c] = "notify"
        /\ \/ \E w \in Workers : /\ pc[w] = "waiting"
                                 /\ pc' = [pc EXCEPT ![c] = "idle", ![w] = "notified"]
           \/ pc' = [pc EXCEPT ![c] = "idle"]
    BY <1>4 DEF Notify, Waiting, Goto
  <2>2. Agents' = Agents
    BY <1>0, <2>1 DEF TypeOK, Agents, Alive, Creating
  <2> QED BY <2>1, <2>2, SameAgents
<1>5. CASE Create(c)
  <2>1. PICK w \in Workers : pc[w] = "none" /\ pc' = [pc EXCEPT ![c] = "idle", ![w] = "take"]
    BY <1>5 DEF Create
  <2>2. UNCHANGED state /\ c \in Agents
    BY <1>5 DEF Create, Agents, Creating
  <2>3. Agents = {c}
    BY <2>2 DEF One
  <2>4. Agents' = {w}
    BY <1>0, <2>1, <2>3 DEF TypeOK, Agents, Alive, Creating
  <2> QED BY <2>2, <2>4 DEF One
<1> QED BY <1>1, <1>2, <1>3, <1>4, <1>5 DEF Run

LEMMA ScavengeOne ==
  ASSUME TypeOK, One, NEW t \in Threads, Scan(t) \/ Acquire(t)
  PROVE  One'
<1>0. Threads = Callers \union Workers /\ Callers \intersect Workers = {}
  BY ScavengerAssumption DEF Threads
<1>1. UNCHANGED state
  BY DEF Scan, NapWhileAllocating, TakePage, NextKind, Acquire, Enter, Decommitted, NapEnds,
         LastNapEnds
<1>2. pc[t] \in {"enter", "scan", "nap", "decommit", "lastnap"}
  BY DEF Scan, NapWhileAllocating, TakePage, NextKind, Acquire, Enter, Decommitted, NapEnds,
         LastNapEnds
<1>3. \/ UNCHANGED pc
      \/ \E label \in {"scan", "nap", "decommit", "lastnap"} : pc' = [pc EXCEPT ![t] = label]
      \/ t \in Callers /\ pc' = [pc EXCEPT ![t] = "idle"]
      \/ pc[t] = "lastnap" /\ pc' = [pc EXCEPT ![t] = "sleep"]
  BY <1>0 DEF Scan, NapWhileAllocating, TakePage, NextKind, Acquire, Enter, Decommitted,
         NapEnds, LastNapEnds, Goto
<1>4. Agents' = Agents
  BY <1>0, <1>2, <1>3 DEF TypeOK, Agents, Alive, Creating
<1> QED BY <1>1, <1>4, SameAgents

LEMMA TaskOne ==
  ASSUME TypeOK, One, NEW w \in Workers, Work(w) \/ Sleep(w)
  PROVE  One'
<1>0. w \in Threads /\ w \notin Callers
  BY ScavengerAssumption DEF Threads
<1>1. CASE Exit(w)
  <2>1. w \in Agents /\ state' = "Exited" /\ pc' = [pc EXCEPT ![w] = "none"]
    BY <1>1 DEF Exit, Goto, Agents, Alive
  <2>2. Agents = {w}
    BY <2>1 DEF One
  <2>3. Agents' = {}
    BY <1>0, <2>1, <2>2 DEF TypeOK, Agents, Alive, Creating
  <2> QED BY <2>1, <2>3 DEF One
<1>2. CASE ~Exit(w)
  <2>1. /\ pc[w] # "none"
        /\ \E label \in {"enter", "sleep", "lock", "exit", "check", "wait", "waiting", "take"} :
             pc' = [pc EXCEPT ![w] = label]
    BY <1>2 DEF Work, TakeSignal, NoSignal, FallAsleep, StayAwake, LockCondition, CheckState,
                BeginWait, GoOn, Sleep, WakeUp, TimesOut, Goto
  <2>2. state' = "Exited" <=> state = "Exited"
    BY <1>2 DEF Work, TakeSignal, NoSignal, FallAsleep, StayAwake, LockCondition, CheckState,
                BeginWait, GoOn, Sleep, WakeUp, TimesOut
  <2>3. Agents' = Agents
    BY <1>0, <2>1 DEF TypeOK, Agents, Alive, Creating
  <2> QED BY <2>2, <2>3, SameAgents
<1> QED BY <1>1, <1>2

LEMMA NextOne == TypeOK /\ One /\ [Next]_vars => One'
<1>1. CASE UNCHANGED vars
  BY <1>1 DEF vars, One, Agents, Alive, Creating
<1> QED BY <1>1, ProgramOne, ScavengeOne, TaskOne DEF Next

\* The atomic exchanges of AsyncTask never leave the task without a thread while
\* something was asked of it, nor make two.
THEOREM AlwaysOneScavenger == Spec => []OneScavenger
<1>1. One => OneScavenger
  <2> SUFFICES ASSUME One PROVE OneScavenger
    OBVIOUS
  <2>1. CASE state = "Exited"
    BY <2>1, FS_EmptySet DEF One, OneScavenger, Agents
  <2>2. CASE state # "Exited"
    <3>1. PICK a : Agents = {a}
      BY <2>2 DEF One
    <3> QED BY <2>2, <3>1, FS_Singleton DEF OneScavenger, Agents
  <2> QED BY <2>1, <2>2
<1> QED BY <1>1, InitType, NextType, InitOne, NextOne, PTL DEF Spec

-----------------------------------------------------------------------------
(* The pages.                                                              *)

\* Every page that is being decommitted is with the one thread that took it.
Taken ==
  /\ DecommitsApart
  /\ \A t \in Threads : pc[t] # "decommit" => page[t] = {}

LEMMA InitTaken == Init => Taken
  BY ScavengerAssumption DEF Init, Taken, DecommitsApart, Threads

\* Only TakePage and Decommitted change which pages are taken.
LEMMA SameTaken ==
  ASSUME TypeOK, Taken, UNCHANGED page,
         \A p \in Pages : where'[p] = "decommit" <=> where[p] = "decommit",
         \A t \in Threads : pc'[t] = "decommit" <=> pc[t] = "decommit"
  PROVE  Taken'
  BY DEF Taken, DecommitsApart

LEMMA ScavengeTaken ==
  ASSUME TypeOK, Taken, NEW t \in Threads, Scan(t) \/ Acquire(t)
  PROVE  Taken'
<1>1. CASE TakePage(t)
  <2>1. PICK p \in Pages : /\ where[p] = "free"
                           /\ where' = [where EXCEPT ![p] = "decommit"]
                           /\ page' = [page EXCEPT ![t] = {p}]
    BY <1>1 DEF TakePage, FreePages
  <2>2. pc[t] = "scan" /\ pc' = [pc EXCEPT ![t] = "decommit"]
    BY <1>1 DEF TakePage, Goto
  <2>3. page[t] = {} /\ \A u \in Threads : p \notin page[u]
    BY <2>1, <2>2 DEF Taken, DecommitsApart
  <2> QED BY <2>1, <2>2, <2>3 DEF TypeOK, Taken, DecommitsApart
<1>2. CASE Decommitted(t)
  <2>1. /\ pc[t] = "decommit" /\ pc' = [pc EXCEPT ![t] = "scan"]
        /\ where' = [p \in Pages |-> IF p \in page[t] THEN "vm" ELSE where[p]]
        /\ page' = [page EXCEPT ![t] = {}]
    BY <1>2 DEF Decommitted, Goto
  <2> QED BY <2>1 DEF TypeOK, Taken, DecommitsApart
<1>3. CASE ~TakePage(t) /\ ~Decommitted(t)
  <2>1. UNCHANGED <<page, where>> /\ pc[t] \in {"enter", "scan", "nap", "lastnap"}
    BY <1>3 DEF Scan, NapWhileAllocating, NextKind, Acquire, Enter, NapEnds, LastNapEnds, heap
  <2>2. UNCHANGED pc \/ \E label \in {"scan", "nap", "lastnap", "idle", "sleep"} :
                          pc' = [pc EXCEPT ![t] = label]
    BY <1>3 DEF Scan, NapWhileAllocating, NextKind, Acquire, Enter, NapEnds, LastNapEnds, Goto
  <2>3. \A u \in Threads : pc'[u] = "decommit" <=> pc[u] = "decommit"
    BY <2>1, <2>2 DEF TypeOK
  <2> QED BY <2>1, <2>3, SameTaken
<1> QED BY <1>1, <1>2, <1>3

LEMMA OtherTaken ==
  ASSUME TypeOK, Taken,
         \/ \E c \in Callers : Request(c) \/ Run(c)
         \/ \E w \in Workers : Work(w) \/ Sleep(w)
  PROVE  Taken'
<1>0. Threads = Callers \union Workers /\ Callers \intersect Workers = {}
  BY ScavengerAssumption DEF Threads
<1>1. ASSUME NEW c \in Callers, Request(c) \/ Run(c) PROVE Taken'
  <2>1. UNCHANGED page /\ \A p \in Pages : where'[p] = "decommit" <=> where[p] = "decommit"
    BY <1>1 DEF Request, Allocate, Deallocate, ScavengeNow, Run, Exchange, LockAndUnlock,
                Notify, Create, heap, TypeOK
  <2>2. \A t \in Threads : pc'[t] = "decommit" <=> pc[t] = "decommit"
    <3>1. CASE Request(c) \/ LockAndUnlock(c)
      BY <3>1 DEF Request, Allocate, Deallocate, ScavengeNow, LockAndUnlock, Goto, TypeOK
    <3>2. CASE Exchange(c)
      BY <3>2 DEF Exchange, AfterExchange, Goto, TypeOK
    <3>3. CASE Notify(c)
      BY <1>0, <3>3 DEF Notify, Waiting, Goto, TypeOK
    <3>4. CASE Create(c)
      BY <1>0, <3>4 DEF Create, TypeOK
    <3> QED BY <1>1, <3>1, <3>2, <3>3, <3>4 DEF Run
  <2> QED BY <2>1, <2>2, SameTaken
<1>2. ASSUME NEW w \in Workers, Work(w) \/ Sleep(w) PROVE Taken'
  <2>1. UNCHANGED <<page, where>>
    BY <1>2 DEF Work, TakeSignal, NoSignal, FallAsleep, StayAwake, LockCondition, CheckState,
                BeginWait, Exit, GoOn, Sleep, WakeUp, TimesOut, heap
  <2>2. /\ pc[w] # "decommit"
        /\ \E label \in WorkerPC \ {"decommit"} : pc' = [pc EXCEPT ![w] = label]
    BY <1>2, WorkerLabels
    DEF Work, TakeSignal, NoSignal, FallAsleep, StayAwake, LockCondition, CheckState,
        BeginWait, Exit, GoOn, Sleep, WakeUp, TimesOut, Goto
  <2>3. \A t \in Threads : pc'[t] = "decommit" <=> pc[t] = "decommit"
    BY <1>0, <2>2 DEF TypeOK
  <2> QED BY <2>1, <2>3, SameTaken
<1> QED BY <1>1, <1>2

\* A page whose memory goes back to the operating system without the lock is with one
\* scavenging thread, and the program cannot get it.
THEOREM AlwaysDecommitsApart == Spec => []DecommitsApart
<1>1. TypeOK /\ Taken /\ [Next]_vars => Taken'
  <2>1. CASE UNCHANGED vars
    BY <2>1 DEF vars, heap, Taken, DecommitsApart
  <2> QED BY <2>1, ScavengeTaken, OtherTaken DEF Next
<1>2. Taken => DecommitsApart
  BY DEF Taken
<1> QED BY <1>1, <1>2, InitType, NextType, InitTaken, PTL DEF Spec

-----------------------------------------------------------------------------
(* Free pages are ahead of the scavenger.                                  *)

LEMMA ProgramAhead ==
  ASSUME TypeOK, FreePagesAhead, NEW c \in Callers, Request(c) \/ Run(c)
  PROVE  FreePagesAhead'
<1>0. c \in Threads /\ c \notin Workers /\ Threads = Callers \union Workers
  BY ScavengerAssumption DEF Threads
<1>1. ASSUME NEW p \in Pages, Allocate(c, p) PROVE FreePagesAhead'
  BY <1>1 DEF Allocate, FreePagesAhead, Ahead, TypeOK
<1>2. ASSUME NEW p \in Pages, Deallocate(c, p) PROVE FreePagesAhead'
  <2>1. /\ UNCHANGED <<state, kind>> /\ where' = [where EXCEPT ![p] = "free"]
        /\ \/ state = "Signaled"
           \/ pc[c] = "idle" /\ pc' = [pc EXCEPT ![c] = "exchange"]
    BY <1>2 DEF Deallocate, Goto
  <2>2. CASE state = "Signaled"
    BY <2>1, <2>2 DEF FreePagesAhead
  <2>3. CASE state # "Signaled"
    BY <1>0, <2>1, <2>3 DEF FreePagesAhead, TypeOK
  <2> QED BY <2>2, <2>3
<1>3. CASE ScavengeNow(c)
  BY <1>0, <1>3 DEF ScavengeNow, Goto, FreePagesAhead, Ahead, TypeOK, heap
<1>4. CASE Exchange(c)
  BY <1>4 DEF Exchange, FreePagesAhead
<1>5. CASE LockAndUnlock(c)
  BY <1>0, <1>5 DEF LockAndUnlock, Goto, FreePagesAhead, Ahead, TypeOK, heap
<1>6. CASE Notify(c) \/ Create(c)
  <2>1. UNCHANGED <<state, where, kind>>
    BY <1>6 DEF Notify, Create, heap
  <2>2. \A d \in Callers : pc[d] = "exchange" => pc'[d] = "exchange"
    BY <1>0, <1>6 DEF Notify, Waiting, Create, Goto, TypeOK
  <2>3. \A w \in Workers : pc'[w] = pc[w] \/ pc[w] \in {"waiting", "none"}
    BY <1>0, <1>6 DEF Notify, Waiting, Create, Goto, TypeOK
  <2> QED BY <2>1, <2>2, <2>3 DEF FreePagesAhead, Ahead
<1> QED BY <1>1, <1>2, <1>3, <1>4, <1>5, <1>6 DEF Request, Run

LEMMA ScavengeAhead ==
  ASSUME TypeOK, FreePagesAhead, NEW t \in Threads, Scan(t) \/ Acquire(t)
  PROVE  FreePagesAhead'
<1>0. Threads = Callers \union Workers /\ Callers \intersect Workers = {}
  BY ScavengerAssumption DEF Threads
<1>1. /\ UNCHANGED state
      /\ \A c \in Callers : pc[c] = "exchange" => pc'[c] = "exchange"
      /\ \A u \in Threads \ {t} : pc'[u] = pc[u] /\ kind'[u] = kind[u]
      /\ \A p \in Pages : where'[p] = "free" => where[p] = "free"
  <2>1. CASE NapWhileAllocating(t)
    BY <1>0, <2>1 DEF NapWhileAllocating, Goto, TypeOK
  <2>2. CASE TakePage(t)
    BY <1>0, <2>2 DEF TakePage, FreePages, Goto, TypeOK
  <2>3. CASE NextKind(t)
    BY <1>0, <2>3 DEF NextKind, Goto, TypeOK, heap
  <2>4. CASE Decommitted(t)
    BY <1>0, <2>4 DEF Decommitted, Goto, TypeOK
  <2>5. CASE Enter(t) \/ NapEnds(t) \/ LastNapEnds(t)
    BY <1>0, <2>5 DEF Enter, NapEnds, LastNapEnds, Goto, TypeOK, heap
  <2> QED BY <2>1, <2>2, <2>3, <2>4, <2>5 DEF Scan, Acquire
<1>2. ASSUME NEW p \in Pages, where'[p] = "free", t \in Workers, Ahead(t, Kind[p])
      PROVE  Ahead(t, Kind[p])'
  <2>0. Kind[p] \in 1..LastKind /\ kind[t] \in 1..LastKind /\ LastKind = 3
    BY ScavengerAssumption DEF TypeOK, LastKind
  <2>1. CASE Enter(t)
    BY <2>0, <2>1 DEF Enter, Goto, Ahead, TypeOK
  <2>2. CASE NapWhileAllocating(t) \/ TakePage(t) \/ Decommitted(t) \/ NapEnds(t)
    BY <1>2, <2>2 DEF NapWhileAllocating, TakePage, Decommitted, NapEnds, Goto, Ahead, TypeOK
  <2>3. CASE NextKind(t)
    <3>1. where[p] = "free" /\ pc[t] = "scan" /\ kind[t] <= Kind[p]
      BY <1>1, <1>2, <2>3 DEF NextKind, Ahead
    <3>2. Kind[p] # kind[t]
      BY <2>3, <3>1 DEF NextKind, FreePages
    <3>3. kind[t] < Kind[p] /\ kind[t] < LastKind
      BY <2>0, <3>1, <3>2
    <3>4. UNCHANGED pc /\ kind' = [kind EXCEPT ![t] = @ + 1]
      BY <2>3, <3>3 DEF NextKind
    <3> QED BY <2>0, <3>1, <3>3, <3>4 DEF Ahead, TypeOK
  <2>4. CASE LastNapEnds(t)
    BY <1>2, <2>4 DEF LastNapEnds, Ahead
  <2> QED BY <2>1, <2>2, <2>3, <2>4 DEF Scan, Acquire
<1>3. ASSUME NEW p \in Pages, NEW w \in Workers, w # t, Ahead(w, Kind[p])
      PROVE  Ahead(w, Kind[p])'
  BY <1>0, <1>1, <1>3 DEF Ahead
<1>4. SUFFICES ASSUME NEW p \in Pages, where'[p] = "free"
      PROVE  \/ state = "Signaled"
             \/ \E c \in Callers : pc'[c] = "exchange"
             \/ \E w \in Workers : Ahead(w, Kind[p])'
  BY <1>1 DEF FreePagesAhead, Ahead
<1>5. \/ state = "Signaled"
      \/ \E c \in Callers : pc[c] = "exchange"
      \/ \E w \in Workers : Ahead(w, Kind[p])
  BY <1>1, <1>4 DEF FreePagesAhead
<1> QED BY <1>1, <1>2, <1>3, <1>4, <1>5

LEMMA TaskAhead ==
  ASSUME TypeOK, FreePagesAhead, NEW w \in Workers, Work(w) \/ Sleep(w)
  PROVE  FreePagesAhead'
<1>0. w \in Threads /\ w \notin Callers /\ Threads = Callers \union Workers
  BY ScavengerAssumption DEF Threads
<1>1. CASE TakeSignal(w)
  BY <1>0, <1>1 DEF TakeSignal, Goto, FreePagesAhead, Ahead, TypeOK, heap
<1>2. CASE ~TakeSignal(w)
  <2>1. UNCHANGED <<where, kind>> /\ (state = "Signaled" => state' = "Signaled")
    BY <1>2 DEF Work, NoSignal, FallAsleep, StayAwake, LockCondition, CheckState, BeginWait,
                Exit, GoOn, Sleep, WakeUp, TimesOut, heap
  <2>2. /\ pc[w] \notin {"enter", "scan", "nap", "decommit"}
        /\ \A u \in Threads \ {w} : pc'[u] = pc[u]
    BY <1>2 DEF Work, NoSignal, FallAsleep, StayAwake, LockCondition, CheckState, BeginWait,
                Exit, GoOn, Sleep, WakeUp, TimesOut, Goto, TypeOK
  <2> QED BY <1>0, <2>1, <2>2 DEF FreePagesAhead, Ahead
<1> QED BY <1>1, <1>2

\* A page that is freed while the scavenger runs is not left behind: the scavenger has
\* not come to it yet, or will be, or is, asked to run again.
THEOREM AlwaysAhead == Spec => []FreePagesAhead
<1>1. Init => FreePagesAhead
  BY DEF Init, FreePagesAhead
<1>2. TypeOK /\ FreePagesAhead /\ [Next]_vars => FreePagesAhead'
  <2>1. CASE UNCHANGED vars
    BY <2>1 DEF vars, heap, FreePagesAhead, Ahead
  <2> QED BY <2>1, ProgramAhead, ScavengeAhead, TaskAhead DEF Next
<1> QED BY <1>1, <1>2, InitType, NextType, PTL DEF Spec

-----------------------------------------------------------------------------
(* The sleeping scavenger is woken.                                        *)

Notifier(c) == pc[c] \in {"lock", "notify"}
Asleep(w)   == pc[w] \in {"wait", "waiting"}

\* A caller keeps the heap's lock until it has notified, so that a scavenger which woke
\* by itself cannot run again and fall asleep meanwhile; a scavenger that looked at the
\* state keeps the condition's mutex until it waits; one that runs has not looked.
Notified ==
  /\ \A c \in Callers : pc[c] \in Running => heapLock = c
  /\ \A t \in Threads : pc[t] = "scan" => heapLock = t
  /\ \A c \in Callers : Notifier(c) =>
       \/ state = "Signaled"
       \/ state = "Running" /\ \A w \in Workers : pc[w] \in {"none", "enter"}
  /\ \A c \in Callers, w \in Workers : pc[c] = "notify" => pc[w] # "wait"
  /\ \A w \in Workers : pc[w] \in {"check", "wait"} => mutex = w
  /\ state = "Running" =>
       \A w \in Workers : pc[w] \in Scavenging \union {"none", "take", "sleep", "exit"}
  /\ NotifiedWhenSignaled

LEMMA InitNotified == Init => Notified
  BY ScavengerAssumption DEF Init, Notified, NotifiedWhenSignaled, Notifier, Running, Threads

\* Agents has one element at most.
LEMMA OneWorker ==
  ASSUME One, NEW u \in Workers, NEW w \in Workers, pc[u] # "none", pc[w] # "none"
  PROVE  u = w
  BY DEF One, Agents, Alive

LEMMA RunNotified ==
  ASSUME TypeOK, One, Notified, NEW c \in Callers, Run(c)
  PROVE  Notified'
<1>0. /\ c \in Threads /\ c \notin Workers /\ c # Free
      /\ Threads = Callers \union Workers /\ Callers \intersect Workers = {}
  BY ScavengerAssumption DEF Threads
<1>1. pc[c] \in Running /\ heapLock = c /\ \A d \in Callers : pc[d] \in Running => d = c
  BY DEF Run, Exchange, LockAndUnlock, Notify, Create, Running, Notified
<1>2. CASE Exchange(c)
  <2>1. /\ state' = "Signaled" /\ UNCHANGED mutex
        /\ \/ state = "Sleeping" /\ pc' = [pc EXCEPT ![c] = "lock"] /\ UNCHANGED heapLock
           \/ state = "Exited" /\ pc' = [pc EXCEPT ![c] = "create"] /\ UNCHANGED heapLock
           \/ /\ state \in {"Running", "Signaled"}
              /\ pc' = [pc EXCEPT ![c] = "idle"] /\ heapLock' = Free
    BY <1>2 DEF Exchange, AfterExchange, Goto, TypeOK
  <2>2. state = "Exited" => \A w \in Workers : pc[w] = "none"
    BY DEF One, Agents, Alive
  <2>3. state = "Running" => \A w \in Workers : ~Asleep(w)
    BY DEF Notified, Asleep, Scavenging
  <2>4. NotifiedWhenSignaled'
    <3>0. \A w \in Workers : pc'[w] = pc[w]
      BY <1>0, <2>1 DEF TypeOK
    <3>1. CASE state = "Sleeping"
      BY <1>0, <2>1, <3>1 DEF NotifiedWhenSignaled, TypeOK
    <3>2. CASE state \in {"Exited", "Running"}
      BY <2>2, <2>3, <3>0, <3>2 DEF NotifiedWhenSignaled, Asleep
    <3>3. CASE state = "Signaled"
      <4>1. \A d \in Callers : ~Notifier(d)
        BY <1>1, <1>2 DEF Exchange, Notifier, Running
      <4> QED BY <3>0, <3>3, <4>1 DEF Notified, NotifiedWhenSignaled, Notifier
    <3> QED BY <3>1, <3>2, <3>3 DEF TypeOK
  <2> QED BY <1>0, <1>1, <2>1, <2>4 DEF Notified, Notifier, Running, TypeOK
<1>3. CASE LockAndUnlock(c)
  <2>1. /\ mutex = Free /\ pc[c] = "lock" /\ pc' = [pc EXCEPT ![c] = "notify"]
        /\ UNCHANGED <<state, mutex, heapLock>>
    BY <1>3 DEF LockAndUnlock, Goto
  <2>2. \A w \in Workers : pc[w] # "wait"
    BY <2>1, ScavengerAssumption DEF Notified, Threads
  <2> QED BY <1>0, <1>1, <2>1, <2>2
      DEF Notified, NotifiedWhenSignaled, Notifier, Running, TypeOK
<1>4. CASE Notify(c)
  <2>1. /\ pc[c] = "notify" /\ heapLock' = Free /\ UNCHANGED <<state, mutex>>
        /\ \/ \E w \in Workers : /\ pc[w] = "waiting"
                                 /\ pc' = [pc EXCEPT ![c] = "idle", ![w] = "notified"]
           \/ /\ \A w \in Workers : pc[w] # "waiting"
              /\ pc' = [pc EXCEPT ![c] = "idle"]
    BY <1>4 DEF Notify, Waiting, Goto
  <2>2. \A w \in Workers : pc'[w] \notin {"wait", "waiting"}
    <3>1. \A w \in Workers : pc[w] # "wait"
      BY <2>1 DEF Notified
    <3> QED BY <1>0, <2>1, <3>1, OneWorker DEF TypeOK
  <2>3. \A d \in Callers : pc'[d] = IF d = c THEN "idle" ELSE pc[d]
    BY <1>0, <2>1 DEF TypeOK
  <2>4. \A w \in Workers : pc'[w] = pc[w] \/ (pc[w] = "waiting" /\ pc'[w] = "notified")
    <3>1. \A w \in Workers : w \in Threads /\ w # c
      BY <1>0
    <3> QED BY <2>1, <3>1 DEF TypeOK
  <2>5. state = "Running" => \A w \in Workers : pc[w] # "waiting"
    BY DEF Notified, Scavenging
  <2>6. \A t \in Threads : pc'[t] # "scan"
    BY <1>0, <1>1, <2>3, <2>4 DEF Notified
  <2> QED BY <1>0, <1>1, <2>1, <2>2, <2>3, <2>4, <2>5, <2>6
      DEF Notified, NotifiedWhenSignaled, Notifier, Running
<1>5. CASE Create(c)
  <2>1. PICK w \in Workers : pc[w] = "none" /\ pc' = [pc EXCEPT ![c] = "idle", ![w] = "take"]
    BY <1>5 DEF Create
  <2>2. heapLock' = Free /\ UNCHANGED <<state, mutex>> /\ pc[c] = "create"
    BY <1>5 DEF Create
  <2>3. \A d \in Callers : pc'[d] = IF d = c THEN "idle" ELSE pc[d]
    BY <1>0, <2>1 DEF TypeOK
  <2>4. \A u \in Workers : pc'[u] = IF u = w THEN "take" ELSE pc[u]
    BY <1>0, <2>1 DEF TypeOK
  <2>5. \A t \in Threads : pc'[t] # "scan"
    BY <1>0, <1>1, <2>3, <2>4 DEF Notified
  <2>6. \A d \in Callers : pc'[d] \notin Running
    BY <1>1, <2>3 DEF Running
  <2>7. \A u \in Workers : u # w => pc[u] = "none"
    BY <1>0, <2>2 DEF One, Agents, Alive, Creating
  <2>8. NotifiedWhenSignaled'
    BY <2>4, <2>7 DEF NotifiedWhenSignaled
  <2> QED BY <2>2, <2>3, <2>4, <2>5, <2>6, <2>7, <2>8 DEF Notified, Notifier, Running
<1> QED BY <1>2, <1>3, <1>4, <1>5 DEF Run

LEMMA RequestNotified ==
  ASSUME TypeOK, Notified, NEW c \in Callers, Request(c)
  PROVE  Notified'
<1>0. c \in Threads /\ c \notin Workers /\ Threads = Callers \union Workers
  BY ScavengerAssumption DEF Threads
<1>1. /\ UNCHANGED <<state, mutex>>
      /\ \/ UNCHANGED <<pc, heapLock>>
         \/ heapLock = Free /\ heapLock' = c /\ pc' = [pc EXCEPT ![c] = "exchange"]
         \/ /\ UNCHANGED heapLock
            /\ pc[c] = "idle" /\ pc' = [pc EXCEPT ![c] = "enter"]
  BY DEF Request, Allocate, Deallocate, ScavengeNow, Goto
<1>2. \A w \in Workers : pc'[w] = pc[w]
  BY <1>0, <1>1 DEF TypeOK
<1>3. CASE UNCHANGED pc /\ UNCHANGED heapLock
  BY <1>1, <1>3 DEF Notified, NotifiedWhenSignaled, Notifier
<1>4. CASE heapLock = Free /\ heapLock' = c /\ pc' = [pc EXCEPT ![c] = "exchange"]
  <2>1. \A t \in Threads : t # Free
    BY ScavengerAssumption
  <2>2. \A d \in Callers : pc[d] \notin Running
    BY <1>0, <1>4, <2>1 DEF Notified
  <2> QED BY <1>0, <1>1, <1>2, <1>4, <2>1, <2>2
      DEF Notified, NotifiedWhenSignaled, Notifier, Running, TypeOK
<1>5. CASE UNCHANGED heapLock /\ pc[c] = "idle" /\ pc' = [pc EXCEPT ![c] = "enter"]
  BY <1>0, <1>1, <1>2, <1>5 DEF Notified, NotifiedWhenSignaled, Notifier, Running, TypeOK
<1> QED BY <1>1, <1>3, <1>4, <1>5

LEMMA ScavengeNotified ==
  ASSUME TypeOK, Notified, NEW t \in Threads, Scan(t) \/ Acquire(t)
  PROVE  Notified'
<1>0. /\ Threads = Callers \union Workers /\ Callers \intersect Workers = {}
      /\ \A u \in Threads : u # Free
  BY ScavengerAssumption DEF Threads
<1>1. UNCHANGED <<state, mutex>> /\ pc[t] \in Scavenging
  BY DEF Scan, NapWhileAllocating, TakePage, NextKind, Acquire, Enter, Decommitted, NapEnds,
         LastNapEnds, Scavenging
\* It has the heap's lock, or takes it when it is free: no caller is about to notify.
<1>2. heapLock \in {Free, t}
  BY DEF Scan, NapWhileAllocating, TakePage, NextKind, Acquire, Enter, Decommitted, NapEnds,
         LastNapEnds, Notified
<1>3. /\ \E label \in (Scavenging \ {"enter"}) \union {"idle", "sleep"} :
           pc' = [pc EXCEPT ![t] = label] /\ (label = "scan" => heapLock' = t)
  <2>1. CASE NapWhileAllocating(t)
    <3>1. CASE t \in Workers
      BY <2>1, <3>1 DEF NapWhileAllocating, Goto, Scavenging
    <3>2. CASE t \notin Workers
      <4>1. pc' = [pc EXCEPT ![t] = "scan"] /\ heapLock' = heapLock /\ pc[t] = "scan"
        BY <2>1, <3>2 DEF NapWhileAllocating, TypeOK
      <4> QED BY <4>1 DEF Notified, Scavenging
    <3> QED BY <3>1, <3>2
  <2>2. CASE NextKind(t)
    <3>1. CASE kind[t] < LastKind
      <4>1. pc' = [pc EXCEPT ![t] = "scan"] /\ heapLock' = heapLock /\ pc[t] = "scan"
        BY <2>2, <3>1 DEF NextKind, TypeOK
      <4> QED BY <4>1 DEF Notified, Scavenging
    <3>2. CASE ~(kind[t] < LastKind)
      BY <2>2, <3>2 DEF NextKind, Goto, Scavenging
    <3> QED BY <3>1, <3>2
  <2>3. CASE TakePage(t) \/ Acquire(t)
    BY <2>3 DEF TakePage, Acquire, Enter, Decommitted, NapEnds, LastNapEnds, Goto, Scavenging
  <2> QED BY <2>1, <2>2, <2>3 DEF Scan
<1>4. \A u \in Threads : u # t => pc'[u] = pc[u] /\ pc[u] # "scan"
  BY <1>0, <1>2, <1>3 DEF TypeOK, Notified
<1>5. \A c \in Callers : pc[c] \notin Running /\ pc'[c] \notin Running
  <2>1. \A c \in Callers : pc[c] \notin Running
    BY <1>0, <1>1, <1>2 DEF Notified, Running, Scavenging
  <2> QED BY <1>0, <1>3, <1>4, <2>1 DEF Running, Scavenging, TypeOK
<1>6. pc'[t] \in Scavenging \union {"idle", "sleep"} /\ (pc'[t] = "scan" => heapLock' = t)
  BY <1>3 DEF TypeOK
<1>7. t \in Workers => pc'[t] # "idle"
  BY NextType, ScavengeType DEF TypeOK, WorkerPC, Scavenging
<1> QED BY <1>0, <1>1, <1>4, <1>5, <1>6, <1>7
    DEF Notified, NotifiedWhenSignaled, Notifier, Running, Scavenging

LEMMA TaskNotified ==
  ASSUME TypeOK, One, Notified, NEW w \in Workers, Work(w) \/ Sleep(w)
  PROVE  Notified'
<1>0. w \in Threads /\ w \notin Callers /\ w # Free /\ Threads = Callers \union Workers
  BY ScavengerAssumption DEF Threads
<1>1. UNCHANGED heapLock /\ pc[w] # "none"
  BY DEF Work, TakeSignal, NoSignal, FallAsleep, StayAwake, LockCondition, CheckState,
         BeginWait, Exit, GoOn, Sleep, WakeUp, TimesOut
<1>2. \A u \in Workers : u # w => pc[u] = "none"
  BY <1>1, OneWorker
<1>3. \E label \in WorkerPC \ {"scan"} : pc' = [pc EXCEPT ![w] = label]
  BY WorkerLabels DEF Work, TakeSignal, NoSignal, FallAsleep, StayAwake, LockCondition,
     CheckState, BeginWait, Exit, GoOn, Sleep, WakeUp, TimesOut, Goto
<1>4. /\ \A c \in Callers : pc'[c] = pc[c]
      /\ \A u \in Workers : u # w => pc'[u] = "none"
      /\ pc'[w] # "scan"
  BY <1>0, <1>2, <1>3 DEF TypeOK
<1>5. /\ \A c \in Callers : pc'[c] \in Running => heapLock' = c
      /\ \A t \in Threads : pc'[t] = "scan" => heapLock' = t
  BY <1>0, <1>1, <1>4 DEF Notified
<1>6. SUFFICES
        /\ \A c \in Callers : Notifier(c) =>
             \/ state' = "Signaled"
             \/ state' = "Running" /\ pc'[w] \in {"none", "enter"}
        /\ \A c \in Callers : pc[c] = "notify" => pc'[w] # "wait"
        /\ pc'[w] \in {"check", "wait"} => mutex' = w
        /\ state' = "Running" => pc'[w] \in Scavenging \union {"none", "take", "sleep", "exit"}
        /\ (state' = "Signaled" /\ pc'[w] \in {"wait", "waiting"}) => \E c \in Callers : Notifier(c)
  BY <1>4, <1>5 DEF Notified, NotifiedWhenSignaled, Notifier
<1>7. CASE TakeSignal(w)
  BY <1>0, <1>7 DEF TakeSignal, Goto, TypeOK, Scavenging
<1>8. CASE NoSignal(w) \/ StayAwake(w) \/ GoOn(w)
  BY <1>0, <1>8 DEF NoSignal, StayAwake, GoOn, Goto, TypeOK, Notified
<1>9. CASE FallAsleep(w) \/ Exit(w)
  BY <1>0, <1>9 DEF FallAsleep, Exit, Goto, TypeOK, Notified
<1>10. CASE LockCondition(w)
  BY <1>0, <1>10 DEF LockCondition, Goto, TypeOK, Notified, Scavenging
<1>11. CASE CheckState(w)
  <2>1. pc[w] = "check" /\ mutex = w /\ UNCHANGED state
    BY <1>11 DEF CheckState, Notified
  <2>2. \/ state = "Sleeping" /\ pc'[w] = "wait" /\ UNCHANGED mutex
        \/ pc'[w] = "exit"
    BY <1>0, <1>11 DEF CheckState, Goto, TypeOK
  <2> QED BY <2>1, <2>2 DEF Notified, Notifier
<1>12. CASE BeginWait(w)
  BY <1>0, <1>12 DEF BeginWait, Goto, TypeOK, Notified, NotifiedWhenSignaled, Notifier,
                     Scavenging
<1>13. CASE Sleep(w)
  BY <1>0, <1>13 DEF Sleep, WakeUp, TimesOut, Goto, TypeOK, Notified, Scavenging
<1> QED BY <1>7, <1>8, <1>9, <1>10, <1>11, <1>12, <1>13 DEF Work

LEMMA NextNotified == TypeOK /\ One /\ Notified /\ [Next]_vars => Notified'
<1>1. CASE UNCHANGED vars
  BY <1>1 DEF vars, Notified, NotifiedWhenSignaled, Notifier
<1> QED BY <1>1, RunNotified, RequestNotified, ScavengeNotified, TaskNotified DEF Next

\* A request never finds the scavenger asleep for good: the lock that the caller takes
\* and releases orders its notification behind the beginning of the wait.
THEOREM AlwaysNotified == Spec => []NotifiedWhenSignaled
<1>1. Notified => NotifiedWhenSignaled
  BY DEF Notified
<1> QED
  BY <1>1, InitType, NextType, InitOne, NextOne, InitNotified, NextNotified, PTL DEF Spec

-----------------------------------------------------------------------------
(* The scavenger implements RepeatedTask.                                  *)

Busy   == \E w \in Workers : pc[w] \in Scavenging
Mapped == <<state = "Signaled", Busy>>

\* What no other action does: only an exchange signals, only TakeSignal begins to
\* scavenge, only the end of the last nap ends it.
LEMMA SameMapped ==
  ASSUME state' = "Signaled" <=> state = "Signaled",
         \A w \in Workers : pc'[w] \in Scavenging <=> pc[w] \in Scavenging
  PROVE  UNCHANGED Mapped
<1>1. Busy' <=> Busy
  BY DEF Busy
<1>2. (state = "Signaled")' = (state = "Signaled")
  OBVIOUS
<1>3. Busy' = Busy
  BY <1>1 DEF Busy
<1> QED BY <1>2, <1>3 DEF Mapped

LEMMA ProgramMapped ==
  ASSUME TypeOK, NEW c \in Callers, Request(c) \/ Run(c)
  PROVE  [Abstract!Next]_Mapped
<1>0. c \in Threads /\ c \notin Workers /\ Threads = Callers \union Workers
  BY ScavengerAssumption DEF Threads
<1>1. \A w \in Workers : pc'[w] \in Scavenging <=> pc[w] \in Scavenging
  <2>1. CASE Request(c)
    BY <1>0, <2>1 DEF Request, Allocate, Deallocate, ScavengeNow, Goto, TypeOK
  <2>2. CASE Exchange(c) \/ LockAndUnlock(c)
    BY <1>0, <2>2 DEF Exchange, LockAndUnlock, Goto, TypeOK
  <2>3. CASE Notify(c)
    BY <1>0, <2>3 DEF Notify, Waiting, Goto, TypeOK, Scavenging
  <2>4. CASE Create(c)
    BY <1>0, <2>4 DEF Create, TypeOK, Scavenging
  <2> QED BY <2>1, <2>2, <2>3, <2>4 DEF Run
<1>2. CASE Exchange(c)
  <2>1. (state = "Signaled")' = TRUE
    BY <1>2 DEF Exchange
  <2>2. Busy' = Busy
    BY <1>1 DEF Busy
  <2> QED BY <2>1, <2>2 DEF Abstract!Next, Abstract!Request, Busy
<1>3. CASE ~Exchange(c)
  <2>1. UNCHANGED state
    BY <1>3 DEF Request, Allocate, Deallocate, ScavengeNow, Run, LockAndUnlock, Notify, Create
  <2> QED BY <1>1, <2>1, SameMapped
<1> QED BY <1>2, <1>3

LEMMA ScavengeMapped ==
  ASSUME TypeOK, One, NEW t \in Threads, Scan(t) \/ Acquire(t)
  PROVE  [Abstract!Next]_Mapped
<1>0. Threads = Callers \union Workers /\ Callers \intersect Workers = {}
  BY ScavengerAssumption DEF Threads
<1>1. UNCHANGED state
  BY DEF Scan, NapWhileAllocating, TakePage, NextKind, Acquire, Enter, Decommitted, NapEnds,
         LastNapEnds
<1>2. CASE t \in Workers /\ LastNapEnds(t)
  <2>1. pc[t] = "lastnap" /\ pc' = [pc EXCEPT ![t] = "sleep"]
    BY <1>2 DEF LastNapEnds, Goto
  <2>2. Busy /\ \A w \in Workers : pc[w] \in Scavenging => w = t
    BY <1>2, <2>1 DEF Busy, Scavenging, One, Agents, Alive
  <2>3. ~Busy'
    BY <2>1, <2>2 DEF Busy, Scavenging, TypeOK
  <2> QED BY <1>1, <2>2, <2>3 DEF Abstract!Next, Abstract!Finish, Busy
<1>3. CASE ~(t \in Workers /\ LastNapEnds(t))
  <2>1. pc[t] \in Scavenging
    BY DEF Scan, NapWhileAllocating, TakePage, NextKind, Acquire, Enter, Decommitted, NapEnds,
           LastNapEnds, Scavenging
  <2>2. \/ UNCHANGED pc
        \/ \E label \in Scavenging : pc' = [pc EXCEPT ![t] = label]
        \/ t \notin Workers /\ \E label : pc' = [pc EXCEPT ![t] = label]
    BY <1>3 DEF Scan, NapWhileAllocating, TakePage, NextKind, Acquire, Enter, Decommitted,
                NapEnds, LastNapEnds, Goto, Scavenging
  <2>3. \A w \in Workers : pc'[w] \in Scavenging <=> pc[w] \in Scavenging
    BY <1>0, <2>1, <2>2 DEF TypeOK
  <2> QED BY <1>1, <2>3, SameMapped
<1> QED BY <1>2, <1>3

LEMMA TaskMapped ==
  ASSUME TypeOK, One, NEW w \in Workers, Work(w) \/ Sleep(w)
  PROVE  [Abstract!Next]_Mapped
<1>0. w \in Threads
  BY DEF Threads
<1>1. CASE TakeSignal(w)
  <2>1. /\ pc[w] = "take" /\ pc' = [pc EXCEPT ![w] = "enter"]
        /\ state = "Signaled" /\ state' = "Running"
    BY <1>1 DEF TakeSignal, Goto
  <2>2. ~Busy
    BY <2>1 DEF Busy, Scavenging, One, Agents, Alive
  <2>3. Busy'
    BY <1>0, <2>1 DEF Busy, Scavenging, TypeOK
  <2> QED BY <2>1, <2>2, <2>3 DEF Abstract!Next, Abstract!Begin, Busy
<1>2. CASE ~TakeSignal(w)
  <2>1. state' = "Signaled" <=> state = "Signaled"
    BY <1>2 DEF Work, NoSignal, FallAsleep, StayAwake, LockCondition, CheckState, BeginWait,
                Exit, GoOn, Sleep, WakeUp, TimesOut
  <2>2. /\ pc[w] \notin Scavenging
        /\ \E label : label \notin Scavenging /\ pc' = [pc EXCEPT ![w] = label]
    BY <1>2 DEF Work, NoSignal, FallAsleep, StayAwake, LockCondition, CheckState, BeginWait,
                Exit, GoOn, Sleep, WakeUp, TimesOut, Goto, Scavenging
  <2>3. \A u \in Workers : pc'[u] \in Scavenging <=> pc[u] \in Scavenging
    BY <1>0, <2>2 DEF TypeOK
  <2> QED BY <2>1, <2>3, SameMapped
<1> QED BY <1>1, <1>2

\* The function runs once at a time, and begins only after a request that no earlier run
\* began after: the task takes only the steps of RepeatedTask.
THEOREM RunsByRequest == Spec => Abstract!Spec
<1>1. Init => Abstract!Init
  <2> SUFFICES ASSUME Init PROVE Abstract!Init
    OBVIOUS
  <2>1. (state = "Signaled") = FALSE
    BY DEF Init
  <2>2. Busy = FALSE
    BY ScavengerAssumption DEF Init, Busy, Scavenging, Threads
  <2> QED BY <2>1, <2>2 DEF Abstract!Init, Busy
<1>2. TypeOK /\ One /\ [Next]_vars => [Abstract!Next]_(Abstract!vars)
  <2> SUFFICES ASSUME TypeOK, One, [Next]_vars PROVE [Abstract!Next]_Mapped
    BY DEF Mapped, Busy, Abstract!vars
  <2>1. CASE UNCHANGED vars
    BY <2>1, SameMapped DEF vars
  <2> QED BY <2>1, ProgramMapped, ScavengeMapped, TaskMapped DEF Next
<1> QED BY <1>1, <1>2, InitType, NextType, InitOne, NextOne, PTL DEF Spec, Abstract!Spec
=============================================================================
