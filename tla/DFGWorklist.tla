------------------------------ MODULE DFGWorklist ------------------------------
(***************************************************************************)
(* The concurrent compiler of JavaScriptCore: the worklist of plans        *)
(* (DFGWorklist.cpp), their stages (DFGPlan.cpp), the safepoints of the    *)
(* compiler threads (DFGSafepoint.cpp) and the garbage collections that    *)
(* suspend them (Heap.cpp).                                                *)
(*                                                                         *)
(* Several virtual machines share the worklist, each run by a thread of    *)
(* its own.  A collection takes m_rightToRun of every compiler thread; one *)
(* that compiles gives it away at safepoints only, where its plan may be   *)
(* cancelled.  Critical sections of m_lock are single steps.               *)
(***************************************************************************)
EXTENDS Naturals, FiniteSets, SequencesExt

CONSTANTS
  VMs,
  Plans,          \* each is compiled once
  Keys,           \* compilation keys: code block and mode
  KeyOf, VMOf,    \* plan -> key, key -> virtual machine
  NThreads,       \* compiler threads
  MaxCollections, \* bound: collections
  Mortal,         \* virtual machines that may be destroyed
  Nobody, Self,   \* who holds a lock that no virtual machine does: nobody, the thread
  NoPlan

Threads == 1..NThreads

ASSUME WorklistAssumption ==
  /\ NThreads \in Nat \ {0} /\ MaxCollections \in Nat
  /\ KeyOf \in [Plans -> Keys] /\ VMOf \in [Keys -> VMs]
  /\ Mortal \subseteq VMs
  /\ Nobody \notin VMs /\ Self \notin VMs /\ Nobody # Self /\ NoPlan \notin Plans

VARIABLES
  plans,       \* m_plans: key -> plan
  queue,       \* m_queue
  ready,       \* m_readyPlans
  stage,       \* Plan::stage; New: not made yet
  suspension,  \* holder of m_suspensionLock
  right,       \* thread -> holder of its m_rightToRun
  safepoint,   \* thread -> m_safepoint is set
  cancelled,   \* thread -> a safepoint of its plan has m_didGetCancelled
  pc,          \* what a compiler thread does
  job,         \* its plan
  vm,          \* what the thread of a virtual machine does
  want,        \* the key it is about to compile, or has to be told about
  next,        \* the compiler thread it suspends or resumes next
  collecting,  \* m_operationInProgress
  collections  \* how many collections were begun

worklist == <<plans, queue, ready, stage>>
locks    == <<suspension, right>>
threads  == <<safepoint, cancelled, pc, job>>
vms      == <<vm, want, next, collecting, collections>>
vars     == <<worklist, locks, threads, vms>>

VMOfPlan(p) == VMOf[KeyOf[p]]
Known(v)    == {plans[k] : k \in {k \in Keys : VMOf[k] = v /\ plans[k] # NoPlan}}

TypeOK ==
  /\ plans \in [Keys -> Plans \union {NoPlan}]
  /\ queue \in Seq(Plans) /\ ready \in Seq(Plans)
  /\ stage \in [Plans -> {"New", "Preparing", "Compiling", "Compiled", "Ready", "Cancelled"}]
  /\ suspension \in VMs \union {Nobody}
  /\ right \in [Threads -> VMs \union {Nobody, Self}]
  /\ safepoint \in [Threads -> BOOLEAN] /\ cancelled \in [Threads -> BOOLEAN]
  /\ pc \in [Threads -> {"fetch", "asleep", "start", "check", "compile", "safepoint",
                         "compiled", "publish"}]
  /\ job \in [Threads -> Plans \union {NoPlan}]
  /\ \A t \in Threads : pc[t] \in {"fetch", "asleep"} \equiv job[t] = NoPlan
  /\ vm \in [VMs -> {"runs", "look", "enqueue", "wait", "asleep", "remove", "suspend", "mark",
                     "cancel", "resume", "gone"}]
  /\ want \in [VMs -> SUBSET Keys]
  /\ next \in [VMs -> 0..NThreads]
  /\ collecting \in [VMs -> BOOLEAN]
  /\ collections \in 0..MaxCollections

Init ==
  /\ plans = [k \in Keys |-> NoPlan]
  /\ queue = <<>> /\ ready = <<>>
  /\ stage = [p \in Plans |-> "New"]
  /\ suspension = Nobody
  /\ right = [t \in Threads |-> Nobody]
  /\ safepoint = [t \in Threads |-> FALSE] /\ cancelled = [t \in Threads |-> FALSE]
  /\ pc = [t \in Threads |-> "fetch"]
  /\ job = [t \in Threads |-> NoPlan]
  /\ vm = [v \in VMs |-> "runs"] /\ want = [v \in VMs |-> {}]
  /\ next = [v \in VMs |-> 0]
  /\ collecting = [v \in VMs |-> FALSE] /\ collections = 0

Goto(t, label) == pc' = [pc EXCEPT ![t] = label]
Step(v, label) == vm' = [vm EXCEPT ![v] = label]

-----------------------------------------------------------------------------
(* A compiler thread: Worklist::runThread.                                 *)

Fetch(t) ==
  /\ pc[t] = "fetch"
  /\ IF queue = <<>>
     THEN Goto(t, "asleep") /\ UNCHANGED <<queue, job>>
     ELSE /\ queue' = Tail(queue)
          /\ job' = [job EXCEPT ![t] = Head(queue)]
          /\ Goto(t, "start")
  /\ UNCHANGED <<plans, ready, stage, locks, safepoint, cancelled, vms>>

TakeRight(t, label) ==
  /\ right[t] = Nobody
  /\ right' = [right EXCEPT ![t] = Self]
  /\ Goto(t, label)

GiveRight(t, label) ==
  /\ right' = [right EXCEPT ![t] = Nobody]
  /\ Goto(t, label)

Start(t) ==
  /\ pc[t] = "start"
  /\ TakeRight(t, "check")
  /\ UNCHANGED <<worklist, suspension, safepoint, cancelled, job, vms>>

Drop(t) == job' = [job EXCEPT ![t] = NoPlan]

NotifyCompiling(t) ==
  /\ pc[t] = "check"
  /\ IF stage[job[t]] = "Cancelled"
     THEN GiveRight(t, "fetch") /\ Drop(t) /\ UNCHANGED stage
     ELSE /\ stage' = [stage EXCEPT ![job[t]] = "Compiling"]
          /\ Goto(t, "compile")
          /\ UNCHANGED <<right, job>>
  /\ UNCHANGED <<plans, queue, ready, suspension, safepoint, cancelled, vms>>

\* Safepoint::begin.
BeginSafepoint(t) ==
  /\ pc[t] = "compile"
  /\ safepoint' = [safepoint EXCEPT ![t] = TRUE]
  /\ GiveRight(t, "safepoint")
  /\ UNCHANGED <<worklist, suspension, cancelled, job, vms>>

\* Fault: the thread goes on without the right to run.
LeaveSafepoint(t) ==
  /\ pc[t] = "safepoint"
  /\ Goto(t, IF cancelled[t] THEN "compiled" ELSE "compile")
  /\ safepoint' = [safepoint EXCEPT ![t] = FALSE]
  /\ UNCHANGED <<worklist, locks, cancelled, job, vms>>

\* ~Safepoint, and what follows: a plan that was cancelled is not compiled on.
EndSafepoint(t) ==
  /\ pc[t] = "safepoint"
  /\ TakeRight(t, IF cancelled[t] THEN "compiled" ELSE "compile")
  /\ safepoint' = [safepoint EXCEPT ![t] = FALSE]
  /\ UNCHANGED <<worklist, suspension, cancelled, job, vms>>

EndCompile(t) ==
  /\ pc[t] = "compile"
  /\ Goto(t, "compiled")
  /\ UNCHANGED <<worklist, locks, safepoint, cancelled, job, vms>>

NotifyCompiled(t) ==
  /\ pc[t] = "compiled"
  /\ IF stage[job[t]] = "Cancelled"
     THEN GiveRight(t, "fetch") /\ Drop(t) /\ UNCHANGED stage
     ELSE /\ stage' = [stage EXCEPT ![job[t]] = "Compiled"]
          /\ GiveRight(t, "publish")
          /\ UNCHANGED job
  /\ cancelled' = [cancelled EXCEPT ![t] = FALSE]
  /\ UNCHANGED <<plans, queue, ready, suspension, safepoint, vms>>

\* Fault: signal instead of broadcast.
WakeOne ==
  \/ \E v \in VMs : vm[v] = "asleep" /\ vm' = [vm EXCEPT ![v] = "wait"]
  \/ (\A v \in VMs : vm[v] # "asleep") /\ UNCHANGED vm

\* m_planCompiled.broadcast().
WakeAll == vm' = [v \in VMs |-> IF vm[v] = "asleep" THEN "wait" ELSE vm[v]]

NotifyReady(t) ==
  /\ pc[t] = "publish"
  /\ Drop(t) /\ Goto(t, "fetch")
  /\ IF stage[job[t]] = "Cancelled"
     THEN UNCHANGED <<stage, ready, vm>>
     ELSE /\ stage' = [stage EXCEPT ![job[t]] = "Ready"]
          /\ ready' = Append(ready, job[t])
          /\ WakeAll
  /\ UNCHANGED <<plans, queue, locks, safepoint, cancelled, want, next, collecting, collections>>

-----------------------------------------------------------------------------
(* The thread of a virtual machine: compiling (DFGDriver.cpp,              *)
(* JITOperations.cpp), waiting, being destroyed (VM.cpp).                  *)

Complete(p, v) == VMOfPlan(p) = v /\ stage[p] = "Ready"

\* One turn of the loop over m_readyPlans: the last plan is moved to the place of one
\* that goes, and the loop looks at that place again (stay = 0) or not (stay = 1).
SweepOne(a, gone, stay) ==
  IF a.at > Len(a.list) THEN a
  ELSE IF a.list[a.at] \in gone
       THEN [list |-> Front([a.list EXCEPT ![a.at] = Last(a.list)]), at |-> a.at + stay]
       ELSE [a EXCEPT !.at = @ + 1]

\* m_readyPlans without those of gone.
Sweep(gone, stay) ==
  FoldLeft(LAMBDA a, p : SweepOne(a, gone, stay), [list |-> ready, at |-> 1], ready).list

\* m_queue without them: a new queue is filled from the old one.
Requeue(gone) == FoldLeft(LAMBDA q, p : IF p \in gone THEN q ELSE Append(q, p), <<>>, queue)

\* removeAllReadyPlansForVM.
RemoveAllReady(v) ==
  LET mine == {p \in ToSet(ready) : Complete(p, v)}
  IN  /\ ready' = Sweep(mine, 0)
      /\ plans' = [k \in Keys |-> IF k \in {KeyOf[p] : p \in mine} THEN NoPlan ELSE plans[k]]

\* completeAllReadyPlansForVM, up to the second critical section; a plan that was
\* asked for and is completed here is not compiled again at once.
CompleteAllReady(v, k) ==
  /\ vm[v] = "runs" /\ VMOf[k] = v
  /\ RemoveAllReady(v)
  /\ IF plans[k] # NoPlan /\ plans'[k] = NoPlan
     THEN UNCHANGED <<vm, want>>
     ELSE Step(v, "look") /\ want' = [want EXCEPT ![v] = {k}]
  /\ UNCHANGED <<queue, stage, locks, threads, next, collecting, collections>>

Look(v) ==
  /\ vm[v] = "look"
  /\ IF \A k \in want[v] : plans[k] = NoPlan
     THEN Step(v, "enqueue") /\ UNCHANGED want
     ELSE Step(v, "runs") /\ want' = [want EXCEPT ![v] = {}]
  /\ UNCHANGED <<worklist, locks, threads, next, collecting, collections>>

\* m_planEnqueued.signal().
Signal ==
  \/ \E t \in Threads : pc[t] = "asleep" /\ Goto(t, "fetch")
  \/ (\A t \in Threads : pc[t] # "asleep") /\ UNCHANGED pc

\* Worklist::enqueue of a new plan.
Enqueue(v) ==
  /\ vm[v] = "enqueue"
  /\ \E p \in Plans :
       /\ stage[p] = "New" /\ KeyOf[p] \in want[v]
       /\ stage' = [stage EXCEPT ![p] = "Preparing"]
       /\ plans' = [plans EXCEPT ![KeyOf[p]] = p]
       /\ queue' = Append(queue, p)
  /\ Signal
  /\ want' = [want EXCEPT ![v] = {}]
  /\ Step(v, "runs")
  /\ UNCHANGED <<ready, locks, safepoint, cancelled, job, next, collecting, collections>>

\* No plan of the model is left for the key.
GiveUp(v) ==
  /\ vm[v] = "enqueue"
  /\ \A p \in Plans : KeyOf[p] \in want[v] => stage[p] # "New"
  /\ want' = [want EXCEPT ![v] = {}]
  /\ Step(v, "runs")
  /\ UNCHANGED <<worklist, locks, threads, next, collecting, collections>>

\* waitUntilAllPlansForVMAreReady, by completeAllPlansForVM or ~VM.
Wait(v) ==
  /\ vm[v] = "runs"
  /\ Step(v, "wait")
  /\ UNCHANGED <<worklist, locks, threads, want, next, collecting, collections>>

AllReady(v) == \A p \in Known(v) : stage[p] = "Ready"

WaitLoop(v) ==
  /\ vm[v] = "wait"
  /\ Step(v, IF AllReady(v) THEN "remove" ELSE "asleep")
  /\ UNCHANGED <<worklist, locks, threads, want, next, collecting, collections>>

\* The plans are completed, or thrown away by ~VM.
RemoveReady(v) ==
  /\ vm[v] = "remove"
  /\ RemoveAllReady(v)
  /\ \/ Step(v, "runs")
     \/ v \in Mortal /\ Step(v, "gone")
  /\ UNCHANGED <<queue, stage, locks, threads, want, next, collecting, collections>>

-----------------------------------------------------------------------------
(* A collection, which may also come between looking and enqueueing:       *)
(* Heap::collect, suspendAllThreads, removeDeadPlans, resumeAllThreads.    *)

BeginCollection(v) ==
  /\ vm[v] \in {"runs", "enqueue"} /\ collections < MaxCollections
  /\ suspension = Nobody
  /\ suspension' = v
  /\ Step(v, "suspend")
  /\ next' = [next EXCEPT ![v] = NThreads]
  /\ collections' = collections + 1
  /\ UNCHANGED <<worklist, right, threads, want, collecting>>

Suspend(v) ==
  /\ vm[v] = "suspend" /\ next[v] > 0
  /\ right[next[v]] = Nobody
  /\ right' = [right EXCEPT ![next[v]] = v]
  /\ next' = [next EXCEPT ![v] = @ - 1]
  /\ UNCHANGED <<worklist, suspension, threads, vm, want, collecting, collections>>

AllSuspended(v) ==
  /\ vm[v] = "suspend" /\ next[v] = 0
  /\ collecting' = [collecting EXCEPT ![v] = TRUE]
  /\ Step(v, "mark")
  /\ UNCHANGED <<worklist, locks, threads, want, next, collections>>

\* Fault: the plans go out of m_plans only.
ForgetPlans(v) ==
  /\ vm[v] = "mark"
  /\ \E dead \in SUBSET Known(v) :
       /\ stage' = [p \in Plans |-> IF p \in dead THEN "Cancelled" ELSE stage[p]]
       /\ plans' = [k \in Keys |-> IF plans[k] \in dead THEN NoPlan ELSE plans[k]]
  /\ Step(v, "cancel")
  /\ UNCHANGED <<queue, ready, locks, threads, want, next, collecting, collections>>

\* Marking has found the code of some plans dead: removeDeadPlans under m_lock.
RemoveDeadPlans(v) ==
  /\ vm[v] = "mark"
  /\ \E dead \in SUBSET Known(v) :
       LET stage2 == [p \in Plans |-> IF p \in dead THEN "Cancelled" ELSE stage[p]]
           gone   == {p \in Plans : stage2[p] = "Cancelled"}
       IN  /\ stage' = stage2
           /\ plans' = [k \in Keys |-> IF plans[k] \in dead THEN NoPlan ELSE plans[k]]
           /\ IF dead = {} THEN UNCHANGED <<queue, ready>>
              ELSE /\ queue' = Requeue(gone)
                   /\ ready' = Sweep(gone, 1)
  /\ Step(v, "cancel")
  /\ UNCHANGED <<locks, threads, want, next, collecting, collections>>

AtDeadSafepoint(t, v) ==
  safepoint[t] /\ VMOfPlan(job[t]) = v /\ ~cancelled[t] /\ stage[job[t]] = "Cancelled"

Finish(v) ==
  /\ collecting' = [collecting EXCEPT ![v] = FALSE]
  /\ next' = [next EXCEPT ![v] = NThreads]
  /\ Step(v, "resume")

\* Fault: the safepoints are not told.
SkipSafepoints(v) ==
  /\ vm[v] = "cancel"
  /\ Finish(v)
  /\ UNCHANGED <<worklist, locks, threads, want, collections>>

\* The rest of removeDeadPlans, without m_lock, and the end of the collection.
CancelSafepoints(v) ==
  /\ vm[v] = "cancel"
  /\ cancelled' = [t \in Threads |-> cancelled[t] \/ AtDeadSafepoint(t, v)]
  /\ Finish(v)
  /\ UNCHANGED <<worklist, locks, safepoint, pc, job, want, collections>>

Resume(v) ==
  /\ vm[v] = "resume" /\ next[v] > 0
  /\ right' = [right EXCEPT ![next[v]] = Nobody]
  /\ next' = [next EXCEPT ![v] = @ - 1]
  /\ UNCHANGED <<worklist, suspension, threads, vm, want, collecting, collections>>

\* Fault: the last thread is not resumed.
MostResumed(v) ==
  /\ vm[v] = "resume" /\ next[v] = 1
  /\ suspension' = Nobody
  /\ Step(v, IF want[v] = {} THEN "runs" ELSE "enqueue")
  /\ UNCHANGED <<worklist, right, threads, want, next, collecting, collections>>

\* The code that was interrupted goes on.
AllResumed(v) ==
  /\ vm[v] = "resume" /\ next[v] = 0
  /\ suspension' = Nobody
  /\ Step(v, IF want[v] = {} THEN "runs" ELSE "enqueue")
  /\ UNCHANGED <<worklist, right, threads, want, next, collecting, collections>>

-----------------------------------------------------------------------------
ThreadStep(t) ==
  \/ Fetch(t) \/ Start(t) \/ NotifyCompiling(t)
  \/ BeginSafepoint(t) \/ EndSafepoint(t) \/ EndCompile(t)
  \/ NotifyCompiled(t) \/ NotifyReady(t)

Collection(v) ==
  \/ Suspend(v) \/ AllSuspended(v) \/ RemoveDeadPlans(v) \/ CancelSafepoints(v)
  \/ Resume(v) \/ AllResumed(v)

Compilation(v) == Look(v) \/ Enqueue(v) \/ GiveUp(v)
Waiting(v)     == WaitLoop(v) \/ RemoveReady(v)

Next ==
  \/ \E t \in Threads : ThreadStep(t)
  \/ \E v \in VMs : \/ \E k \in Keys : CompleteAllReady(v, k)
                     \/ Compilation(v) \/ Wait(v) \/ Waiting(v)
                     \/ BeginCollection(v) \/ Collection(v)

\* The system schedules every thread; compiling a plan ends, whatever the number of
\* its safepoints.  Nothing has to start.
Fairness ==
  /\ \A t \in Threads : WF_vars(ThreadStep(t)) /\ SF_vars(EndCompile(t))
  /\ \A v \in VMs : WF_vars(Compilation(v) \/ Waiting(v) \/ Collection(v))

Spec == Init /\ [][Next]_vars
FairSpec == Spec /\ Fairness

-----------------------------------------------------------------------------
(* Properties.                                                             *)

Running(t) == pc[t] \in {"check", "compile", "compiled"}

\* A thread that works on a plan has the right to, and no virtual machine marks or
\* cancels meanwhile, the plan's own (runThread asserts that before and after
\* compileInThread) or another.
RunsApartFromCollector ==
  \A t \in Threads : Running(t) =>
    /\ right[t] = Self
    /\ \A v \in VMs : ~collecting[v]

\* A plan that m_plans knows is in exactly one place: waiting in m_queue, with one
\* thread, or in m_readyPlans; a collection takes a plan out of m_plans and m_queue
\* together, and a thread meets a cancelled plan only if it took it before.
PlanInOnePlace ==
  \A p \in Plans :
    LET queued == {i \in DOMAIN queue : queue[i] = p}
        held   == {t \in Threads : job[t] = p}
        listed == {i \in DOMAIN ready : ready[i] = p}
        known  == plans[KeyOf[p]] = p
        live   == stage[p] \in {"Preparing", "Compiling", "Compiled"}
    IN  /\ known \equiv (live \/ (stage[p] = "Ready" /\ listed # {}))
        /\ known => Cardinality(queued) + Cardinality(held) + Cardinality(listed) = 1
        /\ queued # {} => stage[p] = "Preparing"
        /\ stage[p] = "Cancelled" => Cardinality(held) + Cardinality(listed) <= 1

\* A compilation takes the cancel path exactly when its plan was cancelled, as
\* compileInThread asserts: what a collection did at the safepoint of a thread and
\* what it did to the plan agree when the thread goes on.
CancelPath ==
  \A t \in Threads :
    /\ pc[t] = "compile" => stage[job[t]] = "Compiling"
    /\ pc[t] = "compiled" => (cancelled[t] \equiv stage[job[t]] = "Cancelled")

\* A key is compiled once at a time (enqueue asserts it), whatever happens between
\* looking for a plan and adding one.
EnqueuedOnce ==
  \A v \in VMs : \A k \in want[v] : vm[v] # "look" => plans[k] = NoPlan

\* Every plan that is enqueued is compiled or cancelled: no wakeup of a compiler
\* thread is lost, and collections do not stop the threads for ever.
PlansFinish ==
  \A p \in Plans : []<>(stage[p] \in {"New", "Ready", "Cancelled"})

\* A thread that waits for its plans goes on; one that collects comes to an end.
WaitersReturn ==
  \A v \in VMs : []<>(vm[v] \in {"runs", "gone"})
=============================================================================
