# WebKit2 in TLA+

A verification of the concurrent parts of WebKit: its processes and their
messages (`Source/WebKit2`, with the Windows/Cairo port's platform files), the
concurrent compiler of its JavaScript engine (`Source/JavaScriptCore/dfg`) and the
background thread of its allocator (`Source/bmalloc`). TLA+ modules translated from
the C++, TLC configurations that model-check them on small instances, and theorems
checked by TLAPS. Paths below are relative to `src/Source/WebKit2/` unless they
start with `Source/`.

The subject is what makes this code hard to test: threads that wait on each
other, messages that overtake each other, processes that die and are launched
again, caches in several processes that must agree, and a file that must survive a
crash. Layout, the JavaScript language, graphics and the rest of the engines are not
modelled.

## 1. Inventory

| Component | State it keeps | Operations | Interacts with |
|---|---|---|---|
| **IPC connection** `Platform/IPC/Connection.cpp`, `unix/`, `win/` | outgoing and incoming queues, pending sync replies, "should wait" flag, client, transport handle | `sendMessage`, `sendSyncMessage` (+ secondary thread), `waitForSyncReply`, `dispatchMessage`, `processIncomingMessage`, `invalidate`, `connectionDidClose` | the peer's connection, the client run loop, its work queue, the completion port |
| **SyncMessageState** (same file) | the queue of messages to dispatch while waiting, the set of scheduled connections, a semaphore | `processIncomingMessage`, `dispatchMessages`, `wait` | all the connections of a run loop |
| **waitForMessage** (same file) | the registered `WaitForMessageState` | wait, hand over, interrupt, close | the work queue, the incoming queue |
| **Work queue, Windows** `Platform/win/WorkQueueWin.cpp` | a heap of timed functions, a "do not launch" flag | `dispatch`, `dispatchAfter`, worker | every user of `WorkQueue` |
| **Local storage** `WebProcess/Storage/StorageAreaMap.cpp`, `UIProcess/Storage/StorageManager.cpp` | per process: a cached copy, a seed, pending markers; UI process: the area | get, set, remove, clear, their acknowledgements, change events, deletion of all entries | the connection (messages cross), the database |
| **Local storage database** `UIProcess/Storage/LocalStorageDatabase.cpp` | collected changes, "clear" and "scheduled" flags, the SQLite file | import, `setItem`, `removeItem`, `clear`, timed update, `close` | `StorageArea`, the tracker, the file system |
| Database tracker `UIProcess/Storage/LocalStorageDatabaseTracker.cpp` | origins with a file | open, delete, list | the databases |
| Child processes `Shared/ChildProcessProxy.cpp`, `UIProcess/WebProcessProxy.cpp`, `UIProcess/Launcher` | launch state, pending messages, connection | connect, abort, terminate, crash, relaunch | the connection |
| **Network process** `UIProcess/Network/NetworkProcessProxy.cpp`, `NetworkProcess/`, `WebProcess/Network` | UI process: FIFO of replies due, requests to send; network process: its connections, active loads and serial loads that wait; web processes: the connection, loads scheduled and failing | launch, crash, relaunch, create connection, schedule, cancel, finish loads, serial loading | child processes, the connection |
| **Process throttler** `UIProcess/ProcessThrottler.cpp`, `WebProcess/WebProcess.cpp` | counts of two kinds of token, suspend-message count, timeout; web process: a cleanup timer | take and drop tokens, suspend, cancel, answer, time out | the web process |
| **bmalloc scavenger** `Source/bmalloc/bmalloc/AsyncTask.h`, `Heap.cpp`, `VMHeap.h` | an atomic state word, a mutex and a condition; free pages, "is allocating" flag | `run`, the task's thread, `scavenge`, allocate, deallocate | every thread of every process |
| **DFG worklist** `Source/JavaScriptCore/dfg/DFGWorklist.cpp`, `DFGSafepoint.cpp`, `DFGPlan.cpp`, `heap/Heap.cpp` | plans by key, queue, ready plans; per thread the right to run and a safepoint | enqueue, compile, complete, wait, suspend and resume all threads, remove dead plans | virtual machines, the collector |
| Indexed database process `DatabaseProcess/IndexedDB` | task queues of two threads, metadata | open, transactions, shutdown | the web processes |
| Drawing area handshake `UIProcess/DrawingAreaProxyImpl.cpp`, `WebProcess/WebPage/DrawingAreaImpl.cpp` | backing-store state ids | update, resize, wait | `waitForMessage` |
| Back/forward list `UIProcess/WebBackForwardList.cpp` | entries, current index | add, go, evict, close | the page |
| Page load state, page proxies, plug-ins, downloads, injected bundle, C API | mostly forwarding | | |

What is hard about them, and the properties that make each correct:

* **Connection.** A main thread that waits for a sync reply dispatches other
  messages meanwhile, so sends and handlers nest to any depth; replies come in any
  order, late or never; two paths lead from the wire to the handlers; either side
  may close or die at any moment. Correct means: no wake-up is lost, a reply
  reaches the activation that waits for it, no request is lost or handled twice,
  two processes that send synchronously at once do not deadlock, what does not need
  the deadlock-avoiding path is not reordered, a close releases every waiter.
* **SyncMessageState.** One queue serves several connections, drained from nested
  activations. Correct means: the set of scheduled connections matches the calls on
  the run loop, nothing is stranded or duplicated, order is kept per connection.
* **waitForMessage.** Two mutexes and a condition variable. Correct means: what is
  handed over is returned, an interruption is noticed, a message already there is
  found.
* **Work queue.** Correct means: every function runs, once, and on a queue used
  for its order, in that order.
* **Local storage.** Copies are written before the area is. Correct means: copies
  converge, a process keeps seeing its own last write, markers never get stuck.
* **Database.** Correct means: what the file will hold is what scripts read, a crash
  gives a state the area really had, closing loses nothing, nothing stale is written.

* **Network process.** Requests and answers are matched by order only, while the
  process may fail to launch, die and be launched again, and each end learns of it at
  its own time. Correct means: answers go to who asked, the process is initialized
  before it is used, no load is lost, doubled or left waiting for nobody.
* **Throttler.** Requests, withdrawals, answers, the timeout and new tokens cross each
  other. Correct means: a process in use is never suspended, one out of use always is,
  and an answer is never taken for the answer to a later request.
* **Scavenger.** One atomic word decides who wakes, creates or ends the thread, and the
  heap's lock is dropped in the middle of a loop. Correct means: one thread, no lost
  signal, no page given back while in use, no free page forgotten.
* **DFG worklist.** Compiler threads work beside the program and must stop for each
  collection of each virtual machine; a plan may die in one at any stage. Correct means:
  the collector never meets a working thread, the four places a plan can be in agree,
  everything enqueued ends, no waiter is forgotten.

`PROJECT.json` lists every hazard at its line with the properties that cover it,
and the hazards no property covers with the reason.

## 2. Modules

| Module | Models | Instantiated by |
|---|---|---|
| `Connection` | both ends of one connection, with three threads each | `MCConnection` |
| `SyncMessageState` | the shared queue, several connections, nested run loops | `MCSyncMessageState` |
| `WaitForMessage` | one waiter against the work queue | `MCWaitForMessage` |
| `WorkQueueWin` | the Windows work queue | `MCWorkQueueWin` |
| `LocalStorage` | several `StorageAreaMap`s and one `StorageArea` | `MCLocalStorage` |
| `LocalStorageDatabase` | `StorageArea` over `LocalStorageDatabase` and its file | `MCLocalStorageDatabase` |
| `DurableItems` | the abstract promise of a persistent area | refined by `LocalStorageDatabase` (`Durable`) |
| `NetworkProcess` | UI process, network process and several web processes: launches, connections, loads | `MCNetworkProcess` |
| `ProcessThrottler` | the throttler and its web process | `MCProcessThrottler` |
| `SuspendableProcess` | the abstract promise: suspended only after a preparation, which ends | refined by `ProcessThrottler` (`PreparesBeforeSuspending`) |
| `Scavenger` | threads of the program, the scavenger task and its heap | `MCScavenger` |
| `RepeatedTask` | the abstract task: each request is followed by a run, one run at a time | refined by `Scavenger` (`RunsAfterRequest`) |
| `DFGWorklist` | compiler threads, virtual machines that compile, wait and collect | `MCDFGWorklist` |
| `ConnectionProofs`, `SyncMessageStateProofs`, `LocalStorageProofs`, `LocalStorageDatabaseProofs`, `ScavengerProofs`, `DFGWorklistProofs` | theorems about the module they are named for | TLAPS |
| `PlatformProofs` | theorems about `WaitForMessage` and `WorkQueueWin` | TLAPS |
| `ChildProcessProofs` | theorems about `ProcessThrottler` and `NetworkProcess` | TLAPS |

The last two extend two components each, so `WorkQueueWin` and `NetworkProcess` prefix
what every module defines: `WorkQueueInit`, `NetworkNext`, `NetworkSpec` and so on.

Definitions that begin with the comment "Fault:" are deliberately wrong variants of
the definition that follows them. They are not used by any specification; each one
replaces the right definition once, to see that a property notices.

### Connection

Two processes, the ends of one connection. Each has a main thread (`stack`, a
sequence of activations, innermost last), a connection work queue that writes and
reads, and possibly a secondary thread that sends synchronously. The frames of
`stack` are handlers and the phases of `dispatchMessages` (`swap`: about to take
the queue; `drain`: dispatching what it took) and `waitForSyncReply` (`check`,
`sleep`); a step is one critical section, or what a thread does between two.

| Code | Model |
|---|---|
| `m_outgoingMessages`, `m_incomingMessages`, `m_messagesToDispatchWhileWaitingForSyncReply` | `out`, `incoming`, `syncQueue` |
| `m_pendingSyncReplies`, `m_secondaryThreadPendingSyncReplyMap` | `pending`, `second` |
| `BinarySemaphore`, `m_shouldWaitForSyncReplies` | `semaphore`, `shouldWait` |
| `isValid()` (the client), `m_isConnected` | `client`, `connected` |
| functions dispatched to the client run loop | `runLoop`: `one` = `dispatchOneMessage`, `sync` = the SyncMessageState call, `close` = the lambda of `connectionDidClose` |
| the message flags | `marked` = `shouldDispatchMessageWhenWaitingForSyncReply()`, computed as `sendMessage` does (with `m_onlySendMessages...WhenProcessing...` set for web processes) |
| `DelayedReply` | `delayed`: requests whose reply encoder a handler kept |
| the transport | `wire`, at most `WireCapacity` messages a direction; `Unix` selects blocking writes (ConnectionUnix.cpp), otherwise overlapped I/O and the completion port (ConnectionWin.cpp, NonblockIoHandle.cpp); `Resets` lets a peer's death be reported as an error of the pending read |

Merged: the append under the lock and the wake-up right after it in
`SyncMessageState::processIncomingMessage`; the notifications of
`connectionDidClose`; closing the handle after a read-side close on Windows. Left
out: work-queue message receivers, the Mach transport, `SpinRunLoopWhileWaitingForReply`.

### SyncMessageState, WaitForMessage

`SyncMessageState` keeps the one shared object and abstracts each connection to the
messages it delivers. `stack` holds activations of `dispatchMessages` (with the
vector taken and the messages to put back), handlers, waits and nested run loops
(`WebPage::runModal`). `WaitForMessage` has one step per critical section, because
the gaps between them are the point; a timeout or a spurious wake-up is possible in
any wait.

### WorkQueueWin

The heap is the set `queue` of timed functions; its front is any item with the
latest time, because `compareWorkItem` orders the heap that way. `prevent` is
`m_preventAsyncWorkerThreadLaunch`. The worker holds the lock while a function
runs; `Mutex` is a recursive `CRITICAL_SECTION`, so the function may dispatch.
`std::async` is taken not to wait for the thread when its future is dropped.

### LocalStorage

`toManager[p]` and `toProcess[p]` are the messages between process `p` and the UI
process, in order; the reply of the synchronous `GetValues` (`reply[p]`) is not
ordered with them. `Runnable` says which request StorageManager's work queue runs
next: the oldest, or on Windows any of those waiting (`QueueInOrder`). Quota is
counted in items. Left out: creation and destruction of maps, session storage,
cloning, DOM event dispatch, scripts that run while `GetValues` waits.

### LocalStorageDatabase

Everything is on StorageManager's queue, so a task runs to its end unless the
process dies. A task that writes has a step up to its transaction (`UpdateDatabase`,
`BeginClose`: SQLite commits the `DELETE` on its own), `Commit`, and for a close
`FinishClose`; `Crash` can come in between. `IOErrors` lets the file fail to open,
the table fail to be created, imports fail and statements fail. `since` is a history
variable for the refinement. `StorageArea::clear()` empties the map before it closes
the database; the model does it in `FinishClose`, in the same task. Left out:
schema migration, sudden-termination bookkeeping, a failing COUNT query.

`DurableItems` is what an area promises: items change; a save makes the file one of
the states the items had since the last save; deletion saves the empty area; a crash,
and nothing else, takes the items back to what is saved. `Durable` instantiates it
with `items <- Visible` (what scripts read now or after the next import) and
`saved <- Disk`.

### NetworkProcess

The UI process (`proxy`, `launching`, `stashed`, `numPending`, `replies`), one network
process at a time (`endpoints`, `serial`, `registered`, `active`, `pending`) and web
processes (`web`, `connection`, `want`, `load`), with the messages between each two of
them in order. An endpoint is a number that is never given twice; a web process whose
endpoint is no longer in `endpoints` has a connection that will be reported closed once
what was received on it is handled. `GetNetworkProcessConnection` is a synchronous
message, so a web process that asks does nothing else. A launch may end with a null
identifier (`DidFailToLaunch`); the network process dies in any state but the last time
(`MaxLaunches`), and web processes exit at any time.

| Code | Model |
|---|---|
| `m_pendingMessages`, `m_numPendingConnectionRequests`, `m_pendingConnectionReplies` | `stashed`, `numPending`, `replies` |
| `m_webProcessConnections`, `m_serialLoadingEnabled` | `endpoints`, `serial` |
| `m_networkResourceLoaders`, `m_activeLoaders`, `m_pendingSerialLoaders` (taken last in, first out) | `registered`, `active`, `pending` |
| `m_webResourceLoaders`, `m_internallyFailedResourceLoaders` | `load[l] = "scheduled"`, `"failing"` |

Left out: synchronous loads, `setDefersLoading`, downloads, authentication, process
suppression, supplements.

### ProcessThrottler

`Prepare` and `Update` are the two branches of `updateAssertion()`, which every token
constructor and destructor runs in the same step. `toWeb` and `toUI` are the messages in
both directions; the web process either finishes at once or keeps its cleanup timer
running, because whether all layers can be marked volatile depends on the display
server. A crash loses what was sent to the process, not what it sent. `cleaned` and
`expired` are history variables.

### Scavenger

`pc` says where a thread is in `AsyncTask::run`, in `AsyncTask::entryPoint` or in the
scavenging loops, which `bmalloc::api::scavenge` also runs on a thread of the program.
Each atomic operation and each lock is a step; `compare_exchange_weak` may fail without
reason (`NoSignal`, `StayAwake`, `GoOn`), the wait may end without reason or time out.
Small and medium pages and large ranges are three kinds of page, scavenged in this
order; a page is in use, free with memory, on its way back, or with the VM heap. Left
out: XLarge objects, the caches of threads, splitting and merging of large ranges.

### DFGWorklist

A step is one critical section of `m_lock`, or of the lock of one thread
(`m_rightToRun`), which a collection takes one by one (`next`). A compiler thread
fetches a plan, takes the right to run, compiles with any number of safepoints and
publishes; each virtual machine has a thread that completes ready plans, compiles a key
again, waits for all its plans or collects. A plan is known to be live or not at
`RemoveDeadPlans`, as the collector finds; what dies is cancelled in `m_plans` first
and at safepoints afterwards (`CancelSafepoints`). Left out: the FTL worklist, which
has the same class, `dump()`, compilation on the main thread, spurious wake-ups; the
worklist is never destroyed.

## 3. Runs

Each `.cfg` has the name of its run. `CHECK_DEADLOCK FALSE` is given where the bounded
budgets (sends, operations, functions) simply run out.

| Run | Shows |
|---|---|
| `Connection_safe` | sync and async sends from both processes, nested, from a secondary thread, with delayed replies, timeouts, an invalidation, invalid messages, failing reads and writes: `TypeOK`, `NoLostWakeup`, `PendingMatchesStack`, `RequestInOnePlace`, `UnmarkedSyncOvertakesNothing` |
| `Connection_live` | the web process waits on its main and its secondary thread, without timeouts, while the UI process sends and may crash: every wait ends unless the crash was a read error and stays unnoticed (`SyncReturnsUnlessCut`), and while both ends are up every message is dispatched (`EveryMessageDispatched`), over a transport that holds one message |
| `SyncMessageState_nested` | two connections, nested waits and nested run loops: `ScheduledOnce`, `NoDuplicates`, `EverythingDispatched` |
| `WaitForMessage_safe` | two waits, two matching messages, one sync and one other: `RestInOrder`, `LostOnlyWhenHandedOver` |
| `WorkQueueWin_nested` | a function that dispatches and a clock that may be set back: `RunsOnce`, `EverythingRuns`, `WorkerRunsTheRest` |
| `LocalStorage_copies` | two writers of two items, one of which also clears, room for one item, deletion of all entries: `QuietCopiesAgree`, `OwnChangeShows`, `MarkersMatchAcks` |
| `LocalStorageDatabase_crash` | `NothingLost`, and `Durable` (refinement) with crashes |
| `LocalStorageDatabase_errors` | I/O errors and batches of one item: `CollectedGetsWritten`, `LostOnlyByFailure` |
| `NetworkProcess_relaunch` | two web processes, three loads, two launches: `RepliesMatchRequests`, `LoadInOnePlace`, `InitializedFirst`; every request is answered and every load ends (`RequestsAnswered`, `LoadsEnd`) |
| `ProcessThrottler_race` | two tokens of each kind, up to five requests under way, a process that dies: `AnswersMatchRequests`, `AssertionFollowsTokens`, `AnswerSuspendsCleaned`, `PreparesBeforeSuspending` (refinement with liveness) |
| `Scavenger_races` | two threads, a small page and a large range: `OneScavenger`, `DecommitsApart`, `FreePagesScavenged`, `RunsAfterRequest` (refinement with liveness) |
| `DFGWorklist_collect` | two virtual machines, one of them mortal, two compiler threads, three plans, a collection: `RunsApartFromCollector`, `PlanInOnePlace`, `CancelPath`, `PlansFinish`, `WaitersReturn` |

Each module defines a few invariants more than its run lists. The type invariants of all
modules, and `SavedWhenIdle`, `NoStaleWrite`, `StrandedWhenRobbed`, `NothingStranded` of
`WorkQueueWin`, `NoLostHandover`, `FreePagesAhead`, `NotifiedWhenSignaled`,
`EnqueuedOnce`, and `RequestInOnePlace` and `PendingWaitsForActive` of `NetworkProcess`,
are theorems (section 4).

Some properties are conditioned, most on a history variable, because the code breaks them
in one way that is known, and they show that it is the only way:

* `Connection`, `SyncReturnsUnlessCut`: a request of either thread may stay for ever only
  if from some time on both processes sit in a blocking write on a full socket
  (`BothWritesBlock`), or the process has lost its peer by a failing read and has neither
  been told nor found out by a failing write (`CloseUnnoticed`). `MainSyncReturns` and
  `SecondarySyncReturns`, of one thread each, have no such condition. With `Resets` and
  `Unix` both `FALSE` neither can happen and the three say the same.
* `SyncMessageState`, `robbed`: connections whose scheduled call ran, in a nested run loop,
  while another activation of `dispatchMessages` held messages of theirs. Only such
  messages can be left behind (`StrandedWhenRobbed`, which is proved), and a message is
  never dispatched only if messages of such a connection lie in the queue for ever with
  nothing to take them (`EverythingDispatched`).
* `WaitForMessage`: a received message is lost only from the hands of a waiter that gives
  up or is handed a second one (`LostOnlyWhenHandedOver`).
* `WorkQueueWin`, `setBack`: the clock has been set back. Only then can the queue hold items
  with no worker to come (`NothingStranded`, `EverythingRuns`); once the clock has caught up and a
  worker is launched it leaves nothing (`WorkerRunsTheRest`). `RunsOnce` speaks of functions
  that do not dispatch; for a function that another one dispatches, `EverythingRuns` allows
  that the other ran twice in its place (`Replaced`).
* `LocalStorageDatabase`: what scripts read for a key parts from what will be in the file
  only in a step in which the file does not open or cannot be read, the clear fails, or a
  statement of the batch with that key fails (`LostOnlyByFailure`).
* `LocalStorage`, `hurt`: copies from which a remote clear took a pending change, or which it
  made look loaded, until they are reset. All others agree with the area when quiet.
* `ProcessThrottler`, `expired`: the timeout has suspended the process before. From then on
  an answer may be missing (see below), and `AnswersMatchRequests` only says that there is
  never one too many.
* `NetworkProcess`, `nullLaunch`: a launch failed; requests made before are never answered
  (`UIProcess/Network/NetworkProcessProxy.cpp:188-191`, "FIXME: Do better cleanup here.").

Disagreements between the code and its own comments and assertions, met while
modelling. Each is reproduced by checking the property named, which the module defines,
with the constants of the run named and the changes given:

| Where | What happens | Property, and constants |
|---|---|---|
| `Platform/IPC/Connection.cpp:845` | a kept reply encoder, then a sync send of the same process: deadlock (the FIXME in `dispatchMessage`) | `MainSyncReturns`, `Connection_live` with `DelayedReplies = TRUE`, `Resets = FALSE` |
| `Platform/IPC/unix/ConnectionUnix.cpp:534` | two full sockets and blocking writes: both work queues stop reading | `MainSyncReturns`, `Connection_live` with `Unix = TRUE`, `Sends22`, no crash and no secondary thread |
| `Platform/IPC/win/ConnectionWin.cpp:153` | the peer's death is reported as an error, `completeCloseHandler` is empty, the waiter is not released | `MainSyncReturns`, `Connection_live` |
| `Platform/IPC/win/ConnectionWin.cpp:176` | `connectionDidClose` runs twice, against the assertion at `Connection.cpp:703` | `ClosedOnce`, `Connection_safe` |
| `Platform/IPC/Connection.cpp:217` | messages put back go behind later ones of their connection | `InArrivalOrder`, `SyncMessageState_nested` |
| `Platform/IPC/Connection.cpp:217` | put back after a nested run loop used up the scheduled call: nothing dispatches them | `NothingStranded`, `SyncMessageState_nested` |
| `Platform/IPC/Connection.cpp:450` | a message handed over while the waiter gives up is destroyed | `NothingDropped`, `WaitForMessage_safe` |
| `Platform/IPC/Connection.cpp:422` | a message that comes between scan and registration is waited for although it is queued | `NotAlreadyQueued`, `WaitForMessage_safe` |
| `WebProcess/Storage/StorageAreaMap.cpp:252` | a remote clear makes an unloaded copy look loaded; if the area holds the copy's own later item, the copy stays empty | `EventsDoNotLoad`, `LocalStorage_copies` |
| `Platform/IPC/Connection.cpp:525` | after `invalidate()` a secondary thread waits for ever: nothing signals its semaphore | `SecondarySyncReturns`, `Connection_live` with `MayInvalidate = {web}`, `MayCrash = {}`, `Resets = FALSE`, `Sends11` |
| `Platform/IPC/Connection.cpp:444` | an interruption that comes before the waiter sleeps is not noticed; `Connection.h:79`: "Use this to make waitForMessage be interrupted immediately by any incoming sync messages." | `InterruptedImmediately` (invariant), `WaitForMessage_safe` |
| `WebProcess/Storage/StorageAreaMap.cpp:265` | a remote clear wipes pending local changes; line 254: "Any changes that were made locally after the clear must still be kept around in the new map." | `PendingSurvivesRemoteClear` (action property), `LocalStorage_copies` with `Keys = {k1}`, `Quota = 2`, `MaxDeletes = 0` |
| `UIProcess/Storage/LocalStorageDatabase.cpp:288` | a database that failed to open is opened again by the next update; line 75: `ASSERT(!m_failedToOpenDatabase)` | `OpenedOnce` (action property), `LocalStorageDatabase_errors` |
| `WebProcess/WebProcess.cpp:990` | "If we've lost our connection to the network process (e.g. it crashed) try to re-establish it": if the process asked dies before it answers, the reply is null and the web process crashes | `Reestablished` (invariant), `NetworkProcess_relaunch` |
| `NetworkProcess/NetworkResourceLoadScheduler.cpp:29` | "This request might be from WebProcess we've lost our connection to. If so we should just skip it": `connectionToWebProcess()` is never cleared, so an aborted serial load stays in the queue and is started later | `LostLoadsSkipped` (invariant), `NetworkProcess_relaunch` |
| `Platform/win/WorkQueueWin.cpp:50` | the latest task runs first: two changes of one item are applied in the wrong order and a copy stays different from the area | `QuietCopiesAgree`, `LocalStorage_copies` with `QueueInOrder = FALSE` |

### Bounds

* `MaxSends` (`Sends12`: one from the UI process, two from the web process): messages each
  process originates. That gives the nestings that matter: a request handled inside a wait
  that is itself inside a handler, crossing requests, and an asynchronous message that may
  be overtaken. `Sends11` suffices for crossing requests while
  both processes may go away; `Sends22` is what two full sockets need. `WireCapacity` 8 is
  never reached; 1 is the smallest transport that fills up.
* `MaxMessages`, `MaxSyncSends` 2 with two connections: a message put back while another
  of the same connection arrives, inside a second activation.
* `MaxWaits` 2 with two matching messages, one sync message and another one: a second
  wait finds what a first left.
* `MaxTime` 2 with three functions: one due, one later, one dispatched in between.
* `MaxOps` 3 per process and `MaxDeletes` 1: load, change and change again, with a
  deletion crossing; two keys, one value (an item is set or removed, so two changes can still disagree) and
  `Quota` 1, so that a second item is refused.
* `MaxChanges` 4 or 5, `MaxCrashes` up to 2, two keys, up to two values, batches of one or
  two: with one, an update of two items needs a second batch.
* `MaxLaunches` 2: the network process may die in any state and is launched again; two
  loads of one web process and one of another, so that a serial load waits for either.
* `MaxForeground`, `MaxBackground` 2: a token that is not the last one of its kind;
  `MaxRequests` 5, which bounds requests not answered, lets a second and third
  preparation begin before the answer to the first.
* One scavenger thread at a time (a second one would be an error that `OneScavenger` sees
  in the state word and the callers), two pages of different kinds: one scavenged
  while the other is freed behind the loop.
* `MaxCollections` 1 over all virtual machines, with plans of both: it may be of the
  plan's machine or the other, at any stage of any plan. A run with 2 also passes
  (555,172 states); the listed run stays with 1 for its duration.
* The crash of the peer is in `Connection_live`: the UI process dies, the web process may
  wait on two threads. `SyncReturnsUnlessCut` also passes with `Sends11`, both processes
  mortal and an invalidation by the UI process (128,033 states). In `Connection_safe` the
  invalidation takes the web process through the same closing steps.
* No run uses symmetry.
* The runs of `Connection` have the Windows transport (`Unix = FALSE`), the port this tree
  is for; the steps common to both are the same actions. With `Unix = TRUE`, `Sends22`, no
  crash and no secondary thread, `SyncReturnsUnlessCut` passes too (249,118 states): of the
  ways in which writes can block only the mutual one holds up a sync send for ever.

### Fairness

* `Connection`: weak fairness of each process's main thread, work queue, secondary
  thread and of answering a kept reply encoder: threads are scheduled, handlers
  return, and a delayed reply is sent some day. The application is never obliged to
  send, fail, close or crash, and timeouts never fire on their own.
* `SyncMessageState`: weak fairness of the client thread (handlers and nested loops end).
* `WorkQueueWin`: weak fairness of the worker and of the clock, strong fairness of a
  sleeper that needs the lock, which is free again and again.
* `LocalStorageDatabase`: weak fairness of the running task and of the update timer.
* `NetworkProcess`: weak fairness of the UI process, the network process and each web
  process: run loops go on, launches and loads end. Nobody has to load, cancel or die.
* `ProcessThrottler`: weak fairness of the timeout, nothing else. A web process that
  hangs never answers, so only the timeout can be counted on.
* `Scavenger`: weak fairness of every thread; strong fairness of taking the spin locks,
  which are free again and again, and of the weak exchange that starts a run, which does
  not fail for ever. The one-second timeout of the wait is not counted on.
* `DFGWorklist`: weak fairness of every compiler thread and virtual machine, strong
  fairness of the end of a compilation, which has at most two safepoints in the code.

## 4. Proofs

All theorems hold for every value of the constants that satisfies the assumption in the
module, and of nothing else unless a table says so.

### ConnectionProofs

| Theorem | Statement |
|---|---|
| `ConnectionTypes` | `Spec => []TypeOK` |
| `RepliesAreStacked` | `Spec => []PendingMatchesStack` |
| `SleepersAreWoken` | `Spec => []NoLostWakeup` |
| `RequestsStayUnique` | `Spec => []RequestInOnePlace` |
| `SyncKeepsItsTurn` | `Spec => []UnmarkedSyncOvertakesNothing` |

They hold for any capacity of the transport, any number of messages, any depth of nesting
and every choice of transport, timeouts, crashes and kept replies.

* `TypeOK` is inductive by itself.
* `PendingMatchesStack` counts the waiting activations below each one (`Depth`). What an
  action does to a stack is a push or a pop, so lemmas `PlainPushed`, `WaitPushed`,
  `WaitPopped`, `WaitReplaced` and `SameIds` say what each does to the count. A second
  conjunct is needed to know what a pop uncovers: only the innermost activation sleeps.
  `Nested` is both.
* `NoLostWakeup` is not inductive: a message may have come, and the semaphore have been
  reset, before the thread falls asleep. `Woken` adds that a queued message has set the
  semaphore or the thread is at `swap`, about to take it; this is why `waitForSyncReply`
  dispatches after every wake-up and before it looks at its reply. `Nested` gives that a
  thread which sleeps has a pending reply, which `connectionDidClose` tests before it
  signals.
* `RequestInOnePlace` counts the places of a request in queues and activations. `OnceOnly`
  says of every id that `Total`, the sum of where the request is on its way, where it is
  here (queued, to be dispatched, handled, or its encoder kept), where its reply is on its
  way, and where it is answered, is at most one, and exactly one while both ends are up and
  it is waited for. Each action is one of a few movements, each with a lemma: `NewRequest`,
  `WrittenOnce`, `QueuedOnce`, `HandlerDone`, `AnsweredOnce`, `LostOnce`. `Sorted` keeps
  messages in the queue of their kind, so that a place is not counted for two.
* `UnmarkedSyncOvertakesNothing` needs the order of everything a message may pass.
  `InLine`: incoming queue, transport and outgoing queue of a direction keep the order of
  sending. `Ordered`: the functions on the run loop match the two queues they empty
  (`Turns`: a `dispatchOneMessage` for each message, and one call for the queue of
  synchronous messages, behind what was sent before), except between the two locks of the
  function that empties it (`Resetting`). `InTurnFirst` is the property over all that is
  still to come; `OldestIsFirst` is its hard case, a message dispatched with an idle stack.

### SyncMessageStateProofs

| Theorem | Statement |
|---|---|
| `SyncTypes` | `Spec => []TypeOK` |
| `AlwaysScheduledOnce` | `Spec => []ScheduledOnce` |
| `NeverDuplicated` | `Spec => []NoDuplicates` |
| `OnlyStrandedWhenRobbed` | `Spec => []StrandedWhenRobbed` |

`ScheduledOnce` is inductive with the types. `Apart` adds to `NoDuplicates` that the two
sequences an activation holds have nothing in common and that no message is numbered
beyond what has arrived, so that a new one is new. `Owned` says, for every message in the
queue or in an activation that will put it back, who answers for it: a call on the run
loop, an activation about to swap, or a call that was taken away (`robbed`).

### PlatformProofs

| Theorem | Statement |
|---|---|
| `WaitTypes` | `Spec => []TypeOK`, of `WaitForMessage` |
| `HandoverIsNoticed` | `Spec => []NoLostHandover` |
| `RestStaysInOrder` | `Spec => []RestInOrder` |
| `OnlyTheWaiterLoses` | `Spec => LostOnlyWhenHandedOver` |
| `WorkQueueTypes` | `WorkQueueSpec => []WorkQueueTypeOK` |
| `NothingIsStranded` | `WorkQueueSpec => []NothingStranded` |
| `RunsAtMostOnce` | `WorkQueueSpec => []RunsOnce` |

`RestInOrder` speaks of positions in `received`; `Follows` says the same of the elements
of a sequence, so that appending, dispatching the first and taking one out of the middle
are lemmas about sequences. `Placed` adds that what was received is distinct and that
dispatched, queued, handed-over and returned messages are apart. `NextLoses` needs the
types alone, and that nothing is in the slot while nobody is registered: `RemovedMembers`
says that taking one message out of the queue leaves every other.

`Working` says that `prevent` is set exactly while there is a worker, and that what is
queued is due until the clock is set back. A worker ends when no item at the front is due,
so its queue is empty then: a queue that is not empty has a front, which `LatestExists`
gets from `Least`, the least element of a set of natural numbers (well-foundedness of
`<`). `Once` says that each function has one item at most, queued or asleep, and has not
run while it has one, unless it is the one that runs or dispatches to its own queue.

### LocalStorageProofs

| Theorem | Statement | Further assumption |
|---|---|---|
| `StorageTypes` | `Spec => []TypeOK` | none |
| `MarkersAreExact` | `Spec => []MarkersMatchAcks` | none |
| `OwnChangesShow` | `Spec => []OwnChangeShows` | `QueueInOrder` |
| `CopiesAgree` | `Spec => []QuietCopiesAgree` | `QueueInOrder` |

They hold for any processes, keys, values and quota, any number of changes and of
deletions. `QueueInOrder` is what the code counts on and the Windows work queue does not
give (see the findings); the first two theorems need no order.

* Markers: for each copy, `Marked` equates every pending marker with the requests of the
  current seed that are queued for the manager or being handled plus the acknowledgements
  queued for the process (`Underway`). `Proper` says which messages may be in the queues.
* Copies: `QuietCopiesAgree` says nothing until all queues are empty, so `Settled` says
  what holds before. `Agreeing` looks at the last message on its way to a process that
  touches a key: if it is a change of another process it brings the area's value, and if it
  is an acknowledgement, or there is none, the copy has the value already. `OwnLast` is the
  same towards the manager: the last own change of a key on its way is what the copy shows.
  `Ranked` and `Fresh` order the seeds along the queue, and `Gets` says that a GetValues is
  answered while the process waits. That `dispatchStorageEvent` skips exactly the right
  changes is where markers come in: an own change or its acknowledgement under way has a
  marker (`OwnMarked`, `AckMarked`), and with nothing under way there is none (`Unmarked`).

Before the proof TLC checked the whole invariant with the constants of
`LocalStorage_copies` (953,965 states).

### LocalStorageDatabaseProofs

`LocalStorageDatabaseProofs` proves, for every set of keys and values, every batch size
and every number of changes and crashes (`LocalStorageDatabaseAssumption` is all that is
assumed of the constants):

| Theorem | Statement | Further assumption |
|---|---|---|
| `TypeCorrect` | `Spec => []TypeOK` | none |
| `NoStaleWrites` | `Spec => []NoStaleWrite` | none: holds with I/O errors |
| `ErrorsLoseTheirOwn` | `Spec => LostOnlyByFailure` | none: holds with I/O errors |
| `ChangesAreKept` | `Spec => []NothingLost` | no I/O errors |
| `IdleIsSaved` | `Spec => []SavedWhenIdle` | no I/O errors |
| `ItemsAreDurable` | `Spec => Durable` | no I/O errors; finitely many keys, not more than a batch |

The argument:

* `NoStaleWrite` is not inductive alone: a step that drops the area's items would break it
  unless nothing is collected without a database. `Shape` says how the objects hang
  together (a database implies an import, an import an area; no file, no items; nothing
  collected without a scheduled update). `IInv == TypeOK /\ Shape /\ NoStaleWrite` is
  inductive (`Initially`, `Step`).
* Without I/O errors `Due` adds that a due clear or change is scheduled and that a task
  which writes has dealt with the clear. `NInv == IInv /\ Due /\ NothingLost` is
  inductive: every step moves changes between four places (the file, the clear that is
  due, the batch, the collected changes), which lemma `Overlays` adds up. With nothing
  under way the sum is the file alone (`QuietIsSaved`), which gives `SavedWhenIdle`.
* For the refinement `Remembered` says that what scripts read is in `since`, and so is
  the empty area while a clear is due. `PromiseStep` shows case by case that a step is a
  step of `DurableItems` or changes none of its variables. One batch is needed: with more,
  a crash between two batches leaves a mixture of two states, which the abstract
  specification rightly excludes.

### ChildProcessProofs

| Theorem | Statement |
|---|---|
| `ThrottlerTypes` | `Spec => []TypeOK` |
| `AssertionAlwaysFollows` | `Spec => []AssertionFollowsTokens` |
| `AnswersAlwaysMatch` | `Spec => []AnswersMatchRequests` |
| `AnswerSuspends` | `Spec => AnswerSuspendsCleaned` |
| `SuspendsByPreparing` | `Spec => Abstract!Spec`, the safety part of `PreparesBeforeSuspending` |

`AnswersMatchRequests` counts messages in queues; lemmas `RequestsOfAppend` and
`RequestsOfTail` say how sending and handling one change the count. `Counted` adds what
makes the inequality inductive: a dead process has nothing to read, a preparation's
request is the last message sent, and a process that will never answer leaves the count
above what is owed. `Alternate` adds, for the time before a timeout and a crash, that
requests and withdrawals alternate in the queue, so that a request never meets a cleanup
that is still going on; that gives equality. For the refinement, a request is only sent
when no preparation is going on (`PreparationEnds`, from `AssertionFollowsTokens`).

| Theorem | Statement |
|---|---|
| `NetworkStateTypes` | `NetworkSpec => []NetworkTypeOK` |
| `AnswersFindTheirRequest` | `NetworkSpec => []RepliesMatchRequests` |
| `InitializesBeforeConnecting` | `NetworkSpec => []InitializedFirst` |
| `ConnectionRequestsStayUnique` | `NetworkSpec => []RequestInOnePlace` |
| `LoadsStayInOnePlace` | `NetworkSpec => []LoadInOnePlace` |
| `NoLoadWaitsForNothing` | `NetworkSpec => []PendingWaitsForActive` |

They hold for any web processes, loads (also infinitely many) and number of launches.
`NetworkInv` is inductive; its parts need one another:

* `Typed` is more than `NetworkTypeOK`: only finitely many loads are registered, which
  makes aborting them in some order possible, and a web process that asks has no
  connection. That `Tail(replies)` is a sequence needs `RepliesMatchRequests`: an answer
  finds a request.
* `Launched` relates proxy, launcher, process and the two queues of messages kept for a
  launch; `FlushCount` counts what `didFinishLaunching` sends. `InitializesNext` says that
  a process not yet initialized handles that message next.
* `WaitsWhileAsking`: request and reply of a web process that waits add up to one, and to
  none before and after, unless it exited.
* `LoadsKept`: a load not yet scheduled is nowhere, and nobody tells the network process
  to remove a load that is scheduled; so a scheduled one, over a connection still open at
  the other end, is in one place (`Share`). `Owned` (messages are about the sender's own
  loads) and `Known` (no endpoint is known before it was made, so a new one is nobody's)
  keep steps of other processes apart.
* `RemoveLoaders` is a fold over the aborted loads. `StepsOfRemoval` unfolds `FoldLeft` to
  the states it goes through, and `CountUp` carries what `OneRemoved` says of one
  `removeLoader` along them; it argues with the least counterexample and a set, because
  the induction theorems of the library take an operator.

### ScavengerProofs

| Theorem | Statement |
|---|---|
| `ScavengerTypes` | `Spec => []TypeOK` |
| `AlwaysOneScavenger` | `Spec => []OneScavenger` |
| `AlwaysDecommitsApart` | `Spec => []DecommitsApart` |
| `AlwaysAhead` | `Spec => []FreePagesAhead` |
| `AlwaysNotified` | `Spec => []NotifiedWhenSignaled` |
| `RunsByRequest` | `Spec => Abstract!Spec`, the safety part of `RunsAfterRequest` |

`One` relates the state word to where the scavenger thread is, and says that a caller
about to create a thread excludes one; `Taken` relates pages to the threads that took
them; `Notified` says who holds the condition's mutex while the state is tested and
waited for, which is what the empty critical section in `runSlowCase` is for.

For the refinement, an exchange of a caller is a `Request` of `RepeatedTask` or, when the
state was `Signaled` already, changes nothing; `TakeSignal` is `Begin` and needs `One`, so
that no other thread scavenges; the end of the last nap is `Finish`, again by `One`. All
other steps leave both mapped variables alone (`SameMapped`), those of a program thread
that scavenges by itself included.

### DFGWorklistProofs

| Theorem | Statement |
|---|---|
| `ThreadsApartFromCollector` | `Spec => []RunsApartFromCollector` |
| `OnePlanPerKey` | `Spec => []EnqueuedOnce` |
| `WorklistTypes` | `Spec => []TypeOK` |
| `PlansStayInOnePlace` | `Spec => []PlanInOnePlace` |
| `CancelsAgree` | `Spec => []CancelPath` |

They hold for any virtual machines, keys and plans and any number of compiler threads.
`Steady`, the conjunction of `TypeOK` and the four parts below, is inductive.

`Rights` says who holds each thread's right to run at each stage of a suspension, and
that only the holder of the suspension lock collects; `Wanted` that a virtual machine
looked for a plan of its own key before it adds one, and that nobody else adds plans
with that key.

`Placed` is `PlanInOnePlace` in a form that steps preserve: nothing is queued, held or
listed twice (`Singly`); the stage of a plan tells where it can be (`Queued`, `Listed`,
`AtWork`); what `m_plans` knows has its own key and is not dead (`Named`), what is alive is
known and queued or held (`Alive`), and what is ready is known exactly while it is listed
(`Finished`). `PlacedOnce` turns it into the counts of the property.

`Told` relates the flags of a thread's safepoint to the death of its plan: a plan can be
dead at a safepoint without its thread having been told only while its virtual machine is
still cancelling safepoints. `Rights` is needed to keep that: no thread leaves its
safepoint then, because the collector holds the right to run.

The loops of the worklist over `m_queue` and `m_readyPlans` are folds in the model.
`Folding` gives `FoldLeft` its recursion, `CountUp` carries a fact along it (with the least
counterexample, since the induction theorems of the library take an operator).
`RequeueFacts` says that the new queue has the plans that stay and each once. `SweepFacts`
says that a sweep loses no plan that stays and doubles none; the sweep of
`removeAllReadyPlansForVM` looks again at the place it filled and leaves none of the plans
to be removed, that of `removeDeadPlans` does not and may (section 5).

Every invariant and action property that a run checks is the property of a theorem. Only model-checked:
liveness of all modules, and with it the fairness part of the refinements (there is no
backend for fairness).

## 5. Limits

* `RunsOnce` does not hold when a function dispatches to the queue it runs on: the worker
  pops the front after the call, and the front is then the new item. No text of the
  repository promises otherwise, so it is noted here.
* A clock that is set back can leave the work queue with items but no worker until the
  next dispatch.
* `loadValuesIfNeeded` may be re-entered through messages dispatched while it waits (the
  FIXME in it); the model does not run scripts there.
* Failed statements lose the rest of their batch silently: with I/O errors nothing is
  claimed of what the file holds, only that no stale value is written, that every
  collected change gets its turn, and that the rest of the changes is not touched.
* After the timeout has suspended a process, a new token sends no withdrawal, so a later
  request can meet a cleanup that is still going on and only restart it: two requests, one
  answer. `m_suspendMessageCount` then never returns to zero and from then on only the
  timeout suspends the process. `WebProcess/WebProcess.cpp:1165-1166` says that
  "the UI process strictly expects one or the other". The same holds after a crash.
* The sweep of `m_readyPlans` in `Source/JavaScriptCore/dfg/DFGWorklist.cpp:273-278` does
  not look at the plan it moved into the place of a cancelled one, so a cancelled plan can
  stay listed; it does no harm, as `PlanInOnePlace` shows, because whoever completes it
  finds it cancelled.
* A plan that is cancelled at a safepoint is no longer waited for when its virtual machine
  is destroyed (`Source/JavaScriptCore/runtime/VM.cpp:297`: "Make sure concurrent
  compilations are done"), although its thread still goes through the rest of
  `compileInThread` with it.
* After a launch of the network process that failed, requests for connections made before
  are never answered, and their web processes wait for ever.

## 6. Plan

Done: the modules above, in the order Connection, SyncMessageState, WaitForMessage,
LocalStorage, LocalStorageDatabase with its proofs, WorkQueueWin, ProcessThrottler,
Scavenger, NetworkProcess and DFGWorklist with theirs.

Next, in this order:

1. Web processes in `ChildProcessProxy`: abort, termination counter, responsiveness timer
   and relaunch (`WebProcessProxy`), as a module beside `NetworkProcess`.
2. `LocalStorageDatabaseTracker` and the lifetimes of maps and areas (several origins,
   processes that come and go, session storage) composed with `LocalStorage` and
   `LocalStorageDatabase`.
3. `DrawingArea`: backing-store state ids with `waitForMessage`.
4. `WebBackForwardList` as operators checked against a reference; `PageLoadState`.
5. The indexed database's two task queues.
6. Composition of `Connection` with `SyncMessageState` for three processes.

Proofs to add: those of the modules above, as they come.
