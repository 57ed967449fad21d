---------------------------- MODULE WorkQueueWin ----------------------------
(***************************************************************************)
(* WorkQueue of the Windows port (Platform/win/WorkQueueWin.cpp): a heap   *)
(* of functions ordered by the time at which they were dispatched, and a   *)
(* worker thread that is launched when there is none and ends when nothing *)
(* is due.                                                                 *)
(*                                                                         *)
(* Everything happens under m_workItemQueueLock.  The worker keeps it      *)
(* while it runs a function, and since a CRITICAL_SECTION is recursive,    *)
(* the function itself may dispatch.                                       *)
(*                                                                         *)
(* PlatformProofs extends this module together with WaitForMessage, so the *)
(* names that every specification has carry a prefix here.                 *)
(***************************************************************************)
EXTENDS Naturals

CONSTANTS
  Functions,      \* functions to dispatch, each by one call
  Dispatches,     \* pairs <<f, g>>: f, when it runs, may dispatch g
  MaxTime         \* bound: the readings of the clock

ASSUME WorkQueueAssumption ==
  /\ Dispatches \subseteq Functions \X Functions
  /\ MaxTime \in Nat

VARIABLES
  clock,    \* now()
  queue,    \* m_workItemQueue
  prevent,  \* m_preventAsyncWorkerThreadLaunch
  worker,   \* none, launched, locked (m_workItemQueueLock is its), running
  current,  \* the function that runs
  sleeping, \* functions in dispatchAfter, with the time they sleep until
  called,   \* functions dispatch or dispatchAfter was called for
  runs,     \* history: how often a function ran
  setBack   \* history: the clock has been set back

workQueueVars == <<clock, queue, prevent, worker, current, sleeping, called, runs, setBack>>

Time  == 0..MaxTime
Items == [due : Time, fn : Functions]
None  == {}

\* The types; of note, at most one function is running.
WorkQueueTypeOK ==
  /\ clock \in Time
  /\ queue \subseteq Items
  /\ prevent \in BOOLEAN
  /\ worker \in {"none", "launched", "locked", "running"}
  /\ current \in {None} \union {{f} : f \in Functions}
  /\ sleeping \subseteq Items
  /\ called \subseteq Functions
  /\ runs \in [Functions -> Nat]
  /\ setBack \in BOOLEAN

WorkQueueInit ==
  /\ clock = 0
  /\ queue = {} /\ prevent = FALSE
  /\ worker = "none" /\ current = None
  /\ sleeping = {} /\ called = {}
  /\ runs = [f \in Functions |-> 0]
  /\ setBack = FALSE

-----------------------------------------------------------------------------
\* WorkQueue::dispatch, by a thread that can take the lock.  std::async is taken
\* to return a future that does not wait for the thread when it is destroyed.
Dispatch(f) ==
  /\ queue' = queue \union {[due |-> clock, fn |-> f]}
  /\ prevent' = TRUE
  /\ worker' = IF prevent THEN worker ELSE "launched"

Unlocked == worker \in {"none", "launched"}

Call(f) ==
  /\ Unlocked /\ f \notin called
  /\ called' = called \union {f}
  /\ Dispatch(f)
  /\ UNCHANGED <<clock, current, sleeping, runs, setBack>>

\* The running function calls dispatch: the lock is already its own.
CallFromFunction(f) ==
  /\ worker = "running" /\ f \notin called
  /\ \E g \in current : <<g, f>> \in Dispatches
  /\ called' = called \union {f}
  /\ Dispatch(f)
  /\ UNCHANGED <<clock, current, sleeping, runs, setBack>>

\* WorkQueue::dispatchAfter: a thread of its own sleeps, then dispatches.
DispatchAfter(f, until) ==
  /\ f \notin called /\ clock <= until
  /\ called' = called \union {f}
  /\ sleeping' = sleeping \union {[due |-> until, fn |-> f]}
  /\ UNCHANGED <<clock, queue, prevent, worker, current, runs, setBack>>

SleepEnds ==
  /\ Unlocked
  /\ \E s \in sleeping :
       /\ s.due <= clock
       /\ sleeping' = sleeping \ {s}
       /\ Dispatch(s.fn)
  /\ UNCHANGED <<clock, current, called, runs, setBack>>

-----------------------------------------------------------------------------
(* WorkQueue::asyncWorkerThreadMain.                                       *)

Start ==
  /\ worker = "launched"
  /\ worker' = "locked"
  /\ UNCHANGED <<clock, queue, prevent, current, sleeping, called, runs, setBack>>

\* The front of the heap: with compareWorkItem, an item dispatched last.
Latest == {i \in queue : \A j \in queue : j.due <= i.due}

\* Fault: a function dispatched at this very moment is not due.
DueStrictly == {i \in Latest : i.due < clock}

Due == {i \in Latest : i.due <= clock}

RunFront ==
  /\ worker = "locked"
  /\ \E i \in Due :
       /\ current' = {i.fn}
       /\ runs' = [runs EXCEPT ![i.fn] = @ + 1]
  /\ worker' = "running"
  /\ UNCHANGED <<clock, queue, prevent, sleeping, called, setBack>>

\* Fault: pop_back without pop_heap drops the last element of the vector.
PopAny == {queue \ {i} : i \in queue}

\* pop_heap and pop_back: among items of the same time, push_heap leaves the one
\* that was in front, so that is what ran, unless a later one was dispatched.
PopFront ==
  LET ran == {i \in Latest : {i.fn} = current}
  IN  {queue \ {i} : i \in IF ran # {} THEN ran ELSE Latest}

FunctionReturns ==
  /\ worker = "running"
  /\ queue' \in PopFront
  /\ worker' = "locked" /\ current' = None
  /\ UNCHANGED <<clock, prevent, sleeping, called, runs, setBack>>

\* Fault: the flag is not reset, and no worker is launched again.
EndWithoutReset ==
  /\ worker = "locked" /\ Due = {}
  /\ worker' = "none"
  /\ UNCHANGED <<clock, queue, prevent, current, sleeping, called, runs, setBack>>

End ==
  /\ worker = "locked" /\ Due = {}
  /\ worker' = "none" /\ prevent' = FALSE
  /\ UNCHANGED <<clock, queue, current, sleeping, called, runs, setBack>>

-----------------------------------------------------------------------------
SetClock ==
  /\ clock' \in Time \ {clock}
  /\ setBack' = (setBack \/ clock' < clock)
  /\ UNCHANGED <<queue, prevent, worker, current, sleeping, called, runs>>

Tick == SetClock /\ clock' > clock

Worker == Start \/ RunFront \/ FunctionReturns \/ End

WorkQueueNext ==
  \/ \E f \in Functions : Call(f) \/ CallFromFunction(f)
  \/ \E f \in Functions, until \in Time : DispatchAfter(f, until)
  \/ SleepEnds \/ Worker \/ SetClock

WorkQueueSpec == WorkQueueInit /\ [][WorkQueueNext]_workQueueVars

\* Threads run, functions return, and time goes on.
FairSpec ==
  /\ WorkQueueSpec
  /\ WF_workQueueVars(Worker) /\ SF_workQueueVars(SleepEnds) /\ WF_workQueueVars(Tick)

-----------------------------------------------------------------------------
\* A function that does not dispatch to its own queue runs at most once for its one
\* call, however calls, sleepers and the end of the worker interleave and whatever the
\* clock does.  (One that does dispatch may run again: the later item is popped.)
RunsOnce ==
  \A f \in Functions : (\A g \in Functions : <<f, g>> \notin Dispatches) =>
    runs[f] + (IF \E i \in queue : i.fn = f /\ current # {f} THEN 1 ELSE 0) <= 1

\* Whenever something is queued a worker will look at it: one that ends saw an
\* empty queue and has let the next dispatch launch another.
NothingStranded == ~setBack /\ queue # {} => prevent /\ worker # "none"

\* f was popped in place of the function that dispatched it, which then ran again.
Replaced(f) == \E g \in Functions : <<g, f>> \in Dispatches /\ runs[g] > 1

\* Every function that was dispatched runs, unless the clock was set back or the function
\* that dispatched it, being popped too late, ran a second time in its place.
EverythingRuns ==
  \A f \in Functions : (f \in called) ~> (runs[f] > 0 \/ setBack \/ Replaced(f))

\* Also after the clock was set back, a worker that is launched runs everything in the
\* queue (asyncWorkerThreadMain), whoever launched it, unless it finds the clock behind
\* an item: what an earlier worker left is not left again once its time has come.
WorkerRunsTheRest ==
  \A f \in Functions :
    (worker # "none" /\ \E i \in queue : i.fn = f)
      ~> (runs[f] > 0 \/ Replaced(f) \/ \E i \in queue : i.due > clock)

=============================================================================
