----------------------------- MODULE Connection -----------------------------
(***************************************************************************)
(* The IPC connection between two WebKit2 processes                        *)
(* (Source/WebKit2/Platform/IPC/Connection.cpp): synchronous requests with *)
(* nested dispatch, the two incoming paths, closing, timeouts and the      *)
(* secondary-thread variant.                                               *)
(*                                                                         *)
(* Each process has a main thread (the client run loop), a connection work *)
(* queue (on Windows also the completion port that reads) and possibly a   *)
(* secondary thread.  The main thread is a stack of activations, because a *)
(* synchronous send dispatches messages while it waits and a handler may   *)
(* send synchronously again.                                               *)
(***************************************************************************)
EXTENDS Naturals, Sequences, FiniteSets, SequencesExt

CONSTANTS
  Procs,              \* the two processes at the ends of the connection
  OnlyWhenProcessing, \* processes with m_onlySendMessagesAsDispatchWhen...
  ExitOnFailure,      \* processes with m_shouldExitOnSyncMessageSendFailure
  WithSecondary,      \* processes whose secondary thread sends sync messages
  MayInvalidate,      \* processes whose client may call invalidate()
  MayCrash,           \* processes that may die
  Timeouts,           \* whether sync sends carry a finite timeout
  DelayedReplies,     \* whether sync handlers may keep the reply encoder
  Unix,               \* the transport of ConnectionUnix.cpp, not ConnectionWin.cpp
  Resets,             \* whether the death of a peer may be reported as an error
  WireCapacity,       \* bound: messages the transport holds in one direction
  MaxSends            \* bound: how many messages each process originates

ASSUME ConnectionAssumption ==
  /\ \E p, q \in Procs : p # q /\ Procs = {p, q}
  /\ OnlyWhenProcessing \subseteq Procs
  /\ ExitOnFailure \subseteq Procs
  /\ {Timeouts, DelayedReplies, Unix, Resets} \subseteq BOOLEAN
  /\ WireCapacity \in Nat \ {0}
  /\ MaxSends \in [Procs -> Nat]

VARIABLES
  alive,       \* the process exists
  client,      \* m_client is set, i.e. isValid()
  connected,   \* m_isConnected
  reading,     \* the socket handler is registered, or an overlapped read pending
  closing,     \* invalidate() has queued platformInvalidate
  lastId,      \* ids handed out so far (m_syncRequestID for sync requests)
  out,         \* m_outgoingMessages
  writing,     \* the work queue is inside sendOutgoingMessages
  wire,        \* messages written by the peer and not read yet
  incoming,    \* m_incomingMessages
  syncQueue,   \* m_messagesToDispatchWhileWaitingForSyncReply
  scheduled,   \* the connection is in m_didScheduleDispatchMessagesWorkSet
  runLoop,     \* functions dispatched to the client run loop
  semaphore,   \* m_waitForSyncReplySemaphore
  shouldWait,  \* m_shouldWaitForSyncReplies
  pending,     \* m_pendingSyncReplies
  stack,       \* activations of the main thread, innermost last
  delayed,     \* requests whose reply encoder a handler kept
  second       \* the secondary thread's pending sync reply

netVars    == <<out, writing, wire, connected, reading, closing>>
inVars     == <<incoming, syncQueue, scheduled, runLoop>>
syncVars   == <<semaphore, shouldWait, pending>>
threadVars == <<stack, delayed, second>>
procVars   == <<alive, client, lastId>>
vars       == <<netVars, inVars, syncVars, threadVars, procVars>>

Ids     == UNION {1..MaxSends[p] : p \in Procs}
Message == [kind : {"async", "sync", "reply"}, id : Ids, marked : BOOLEAN]
NoMsg   == [kind |-> "none", id |-> 0, marked |-> FALSE]
Frame   == [at : {"handler", "swap", "drain", "check", "sleep"},
            msg : Message \union {NoMsg}, todo : Seq(Message), id : Ids \union {0}]

Peer(p) == CHOOSE q \in Procs : q # p

Handler(m)  == [at |-> "handler", msg |-> m, todo |-> <<>>, id |-> 0]
Swap        == [at |-> "swap", msg |-> NoMsg, todo |-> <<>>, id |-> 0]
Drain(s)    == [at |-> "drain", msg |-> NoMsg, todo |-> s, id |-> 0]
Wait(ph, i) == [at |-> ph, msg |-> NoMsg, todo |-> <<>>, id |-> i]

Top(p)      == Last(stack[p])
At(p, where) == stack[p] # <<>> /\ Top(p).at = where
IsWait(f)   == f.at \in {"check", "sleep"}

\* The activations that wait, and how many of them there are up to the i-th.
Waits(frames)    == {i \in DOMAIN frames : IsWait(frames[i])}
Depth(frames, i) == Cardinality({j \in Waits(frames) : j <= i})

\* Application code runs on the main thread: an event handler of its own, or
\* the handler of a message.
AppCodeRuns(p) == alive[p] /\ (stack[p] # <<>> => Top(p).at = "handler")

\* The types; of note, a pending reply, a frame and a message in transit carry
\* only ids that createSyncMessageEncoder handed out.
TypeOK ==
  /\ alive \in [Procs -> BOOLEAN]
  /\ client \in [Procs -> BOOLEAN]
  /\ connected \in [Procs -> BOOLEAN]
  /\ reading \in [Procs -> BOOLEAN]
  /\ closing \in [Procs -> BOOLEAN]
  /\ lastId \in [Procs -> Nat]
  /\ out \in [Procs -> Seq(Message)]
  /\ writing \in [Procs -> BOOLEAN]
  /\ wire \in [Procs -> Seq(Message)]
  /\ incoming \in [Procs -> Seq(Message)]
  /\ syncQueue \in [Procs -> Seq(Message)]
  /\ scheduled \in [Procs -> BOOLEAN]
  /\ runLoop \in [Procs -> Seq({"one", "sync", "close"})]
  /\ semaphore \in [Procs -> BOOLEAN]
  /\ shouldWait \in [Procs -> BOOLEAN]
  /\ pending \in [Procs -> Seq([id : Ids, got : BOOLEAN])]
  /\ stack \in [Procs -> Seq(Frame)]
  /\ delayed \in [Procs -> SUBSET Ids]
  /\ second \in [Procs -> [id : Ids \union {0}, got : BOOLEAN, signalled : BOOLEAN]]

NoSecond == [id |-> 0, got |-> FALSE, signalled |-> FALSE]

Init ==
  /\ alive = [p \in Procs |-> TRUE]
  /\ client = [p \in Procs |-> TRUE]
  /\ connected = [p \in Procs |-> TRUE]
  /\ reading = [p \in Procs |-> TRUE]
  /\ closing = [p \in Procs |-> FALSE]
  /\ lastId = [p \in Procs |-> 0]
  /\ out = [p \in Procs |-> <<>>]
  /\ writing = [p \in Procs |-> FALSE]
  /\ wire = [p \in Procs |-> <<>>]
  /\ incoming = [p \in Procs |-> <<>>]
  /\ syncQueue = [p \in Procs |-> <<>>]
  /\ scheduled = [p \in Procs |-> FALSE]
  /\ runLoop = [p \in Procs |-> <<>>]
  /\ semaphore = [p \in Procs |-> FALSE]
  /\ shouldWait = [p \in Procs |-> TRUE]
  /\ pending = [p \in Procs |-> <<>>]
  /\ stack = [p \in Procs |-> <<>>]
  /\ delayed = [p \in Procs |-> {}]
  /\ second = [p \in Procs |-> NoSecond]

-----------------------------------------------------------------------------
(* Main thread: sending.                                                   *)

\* m_inDispatchMessageMarkedDispatchWhenWaitingForSyncReplyCount > 0
ProcessingMarked(p) ==
  \E i \in DOMAIN stack[p] : stack[p][i].at = "handler" /\ stack[p][i].msg.marked

\* Connection::sendMessage with or without DispatchMessageEvenWhenWaiting...
SendMessage(p, kind, id, even) ==
  LET marked == even /\ (p \notin OnlyWhenProcessing \/ ProcessingMarked(p))
      m      == [kind |-> kind, id |-> id, marked |-> marked]
  IN  out' = IF client[p] THEN [out EXCEPT ![p] = Append(@, m)] ELSE out

\* ++m_syncRequestID; and the fault that hands out the value before.
IdBeforeIncrement(p) == lastId[p]
NextId(p) == lastId[p] + 1

NewId(p) ==
  /\ lastId[p] < MaxSends[p]
  /\ lastId' = [lastId EXCEPT ![p] = @ + 1]

SendAsync(p, even) ==
  /\ AppCodeRuns(p)
  /\ client[p]
  /\ NewId(p)
  /\ SendMessage(p, "async", NextId(p), even)
  /\ UNCHANGED <<alive, client, writing, wire, connected, reading, closing, inVars, syncVars, threadVars>>

\* Connection::sendSyncMessage up to the first dispatchMessages(0) of waitForSyncReply.
SendSync(p) ==
  /\ AppCodeRuns(p)
  /\ client[p] /\ shouldWait[p]
  /\ NewId(p)
  /\ LET id == NextId(p) IN
       /\ pending' = [pending EXCEPT ![p] = Append(@, [id |-> id, got |-> FALSE])]
       /\ SendMessage(p, "sync", id, TRUE)
       /\ stack' = [stack EXCEPT ![p] = Append(Append(@, Wait("check", id)), Swap)]
  /\ UNCHANGED <<alive, client, writing, wire, connected, reading, closing, inVars,
                 semaphore, shouldWait, delayed, second>>

\* didFailToSendSyncMessage: the process exits, or the caller gets nothing.
FailedSync(p) == alive' = [alive EXCEPT ![p] = p \notin ExitOnFailure]

SendSyncFails(p) ==
  /\ AppCodeRuns(p)
  /\ ~client[p] \/ ~shouldWait[p]
  /\ NewId(p)
  /\ FailedSync(p)
  /\ UNCHANGED <<client, netVars, inVars, syncVars, threadVars>>

\* Connection::invalidate: platformInvalidate runs later on the work queue.
Invalidate(p) ==
  /\ p \in MayInvalidate
  /\ AppCodeRuns(p)
  /\ client[p]
  /\ client' = [client EXCEPT ![p] = FALSE]
  /\ closing' = [closing EXCEPT ![p] = TRUE]
  /\ UNCHANGED <<alive, lastId, out, writing, wire, connected, reading, inVars, syncVars, threadVars>>

-----------------------------------------------------------------------------
(* Main thread: dispatching and waiting.                                   *)

\* Connection::dispatchMessage: nothing happens once the client is gone.
Dispatch(p, frames, m) ==
  stack' = [stack EXCEPT ![p] = IF client[p] THEN Append(frames, Handler(m)) ELSE frames]

\* dispatchOneMessage, run by the client run loop.
DispatchOneMessage(p) ==
  /\ alive[p] /\ stack[p] = <<>> /\ runLoop[p] # <<>> /\ Head(runLoop[p]) = "one"
  /\ runLoop' = [runLoop EXCEPT ![p] = Tail(@)]
  /\ IF incoming[p] = <<>>
     THEN UNCHANGED <<incoming, stack>>
     ELSE /\ incoming' = [incoming EXCEPT ![p] = Tail(@)]
          /\ Dispatch(p, stack[p], Head(incoming[p]))
  /\ UNCHANGED <<procVars, netVars, syncQueue, scheduled, syncVars, delayed, second>>

\* Fault: the connection stays in the work set.
ResetForgotten(p) ==
  /\ alive[p] /\ stack[p] = <<>> /\ runLoop[p] # <<>> /\ Head(runLoop[p]) = "sync"
  /\ runLoop' = [runLoop EXCEPT ![p] = Tail(@)]
  /\ stack' = [stack EXCEPT ![p] = Append(@, Swap)]
  /\ UNCHANGED <<procVars, netVars, incoming, syncQueue, scheduled, syncVars, delayed, second>>

\* dispatchMessageAndResetDidScheduleDispatchMessagesForConnection, first lock.
ResetDidSchedule(p) ==
  /\ alive[p] /\ stack[p] = <<>> /\ runLoop[p] # <<>> /\ Head(runLoop[p]) = "sync"
  /\ runLoop' = [runLoop EXCEPT ![p] = Tail(@)]
  /\ scheduled' = [scheduled EXCEPT ![p] = FALSE]
  /\ stack' = [stack EXCEPT ![p] = Append(@, Swap)]
  /\ UNCHANGED <<procVars, netVars, incoming, syncQueue, syncVars, delayed, second>>

\* The lambda connectionDidClose dispatched: the client is nulled, then told.
DispatchDidClose(p) ==
  /\ alive[p] /\ stack[p] = <<>> /\ runLoop[p] # <<>> /\ Head(runLoop[p]) = "close"
  /\ runLoop' = [runLoop EXCEPT ![p] = Tail(@)]
  /\ client' = [client EXCEPT ![p] = FALSE]
  /\ UNCHANGED <<alive, lastId, netVars, incoming, syncQueue, scheduled, syncVars, threadVars>>

\* dispatchMessages swaps the queue out for a vector of its own.
SwapMessages(p) ==
  /\ alive[p] /\ At(p, "swap")
  /\ stack' = [stack EXCEPT ![p] = Append(Front(@), Drain(syncQueue[p]))]
  /\ syncQueue' = [syncQueue EXCEPT ![p] = <<>>]
  /\ UNCHANGED <<procVars, netVars, incoming, scheduled, runLoop, syncVars, delayed, second>>

\* ... then dispatch its messages one after the other without it.
DrainNext(p) ==
  /\ alive[p] /\ At(p, "drain") /\ Top(p).todo # <<>>
  /\ Dispatch(p, Append(Front(stack[p]), Drain(Tail(Top(p).todo))), Head(Top(p).todo))
  /\ UNCHANGED <<procVars, netVars, inVars, syncVars, delayed, second>>

DrainDone(p) ==
  /\ alive[p] /\ At(p, "drain") /\ Top(p).todo = <<>>
  /\ stack' = [stack EXCEPT ![p] = Front(@)]
  /\ UNCHANGED <<procVars, netVars, inVars, syncVars, delayed, second>>

\* Fault: the reply is sent although the handler kept its encoder.
FinishHandlerRepliesAnyway(p) ==
  /\ alive[p] /\ At(p, "handler")
  /\ stack' = [stack EXCEPT ![p] = Front(@)]
  /\ LET m == Top(p).msg IN
       IF m.kind # "sync" THEN UNCHANGED <<out, delayed>>
       ELSE /\ SendMessage(p, "reply", m.id, FALSE)
            /\ \/ UNCHANGED delayed
               \/ DelayedReplies /\ delayed' = [delayed EXCEPT ![p] = @ \union {m.id}]
  /\ UNCHANGED <<procVars, writing, wire, connected, reading, closing, inVars, syncVars, second>>

\* The handler returns.  dispatchSyncMessage sends the reply, unless a
\* DelayedReply handler kept the encoder.
FinishHandler(p) ==
  /\ alive[p] /\ At(p, "handler")
  /\ stack' = [stack EXCEPT ![p] = Front(@)]
  /\ LET m == Top(p).msg IN
       IF m.kind # "sync" THEN UNCHANGED <<out, delayed>>
       ELSE \/ SendMessage(p, "reply", m.id, FALSE) /\ UNCHANGED delayed
            \/ /\ DelayedReplies
               /\ delayed' = [delayed EXCEPT ![p] = @ \union {m.id}]
               /\ UNCHANGED out
  /\ UNCHANGED <<procVars, writing, wire, connected, reading, closing, inVars, syncVars, second>>

\* The handler found its message invalid: didReceiveInvalidMessage, whose
\* clients drop the connection.  A sync request that did not decode gets no reply.
FinishInvalid(p) ==
  /\ p \in MayInvalidate
  /\ alive[p] /\ At(p, "handler") /\ client[p]
  /\ stack' = [stack EXCEPT ![p] = Front(@)]
  /\ client' = [client EXCEPT ![p] = FALSE]
  /\ closing' = [closing EXCEPT ![p] = TRUE]
  /\ \/ UNCHANGED out
     \/ Top(p).msg.kind = "sync" /\ SendMessage(p, "reply", Top(p).msg.id, FALSE)
  /\ UNCHANGED <<alive, lastId, writing, wire, connected, reading, inVars, syncVars, delayed, second>>

SendDelayedReply(p) ==
  /\ AppCodeRuns(p)
  /\ \E id \in delayed[p] :
       /\ delayed' = [delayed EXCEPT ![p] = @ \ {id}]
       /\ SendMessage(p, "reply", id, FALSE)
  /\ UNCHANGED <<procVars, writing, wire, connected, reading, closing, inVars, syncVars, stack, second>>

\* Fault: the oldest pending reply is popped.
ReturnPopsOldest(p, replied) ==
  /\ stack' = [stack EXCEPT ![p] = Front(@)]
  /\ pending' = [pending EXCEPT ![p] = Tail(@)]
  /\ IF replied THEN UNCHANGED alive ELSE FailedSync(p)

\* sendSyncMessage returns: pop the pending reply, and fail without one.
ReturnFromSync(p, replied) ==
  /\ stack' = [stack EXCEPT ![p] = Front(@)]
  /\ pending' = [pending EXCEPT ![p] = Front(@)]
  /\ IF replied THEN UNCHANGED alive ELSE FailedSync(p)

\* One turn of the loop of waitForSyncReply, after dispatchMessages(0).
CheckSyncReply(p) ==
  /\ alive[p] /\ At(p, "check")
  /\ LET top == Last(pending[p]) IN
       IF top.got \/ ~shouldWait[p] \/ ~client[p]
       THEN ReturnFromSync(p, top.got)
       ELSE /\ stack' = [stack EXCEPT ![p] = Append(Front(@), Wait("sleep", Top(p).id))]
            /\ UNCHANGED <<alive, pending>>
  /\ UNCHANGED <<client, lastId, netVars, inVars, semaphore, shouldWait, delayed, second>>

\* BinarySemaphore::wait returns true and resets the semaphore.
WakeUp(p) ==
  /\ alive[p] /\ At(p, "sleep") /\ semaphore[p]
  /\ semaphore' = [semaphore EXCEPT ![p] = FALSE]
  /\ stack' = [stack EXCEPT ![p] = Append(Append(Front(@), Wait("check", Top(p).id)), Swap)]
  /\ UNCHANGED <<procVars, netVars, inVars, shouldWait, pending, delayed, second>>

\* BinarySemaphore::wait returns false.
SyncTimesOut(p) ==
  /\ Timeouts
  /\ alive[p] /\ At(p, "sleep") /\ ~semaphore[p]
  /\ ReturnFromSync(p, FALSE)
  /\ UNCHANGED <<client, lastId, netVars, inVars, semaphore, shouldWait, delayed, second>>

-----------------------------------------------------------------------------
(* The connection work queue (and, on Windows, the completion port).       *)

\* The peer sees the end of the connection: a dead process, or a closed handle.
Gone(p) == ~alive[p] \/ ~(connected[p] \/ reading[p])

\* sendOutgoingMessages writes until the queue is empty.
WriteMessage(p) ==
  /\ alive[p] /\ connected[p] /\ out[p] # <<>>
  /\ ~Gone(Peer(p)) /\ Len(wire[Peer(p)]) < WireCapacity
  /\ out' = [out EXCEPT ![p] = Tail(@)]
  /\ wire' = [wire EXCEPT ![Peer(p)] = Append(@, Head(out[p]))]
  /\ writing' = [writing EXCEPT ![p] = Tail(out[p]) # <<>>]
  /\ UNCHANGED <<procVars, connected, reading, closing, inVars, syncVars, threadVars>>

\* The transport is full: poll(POLLOUT) on Unix, a pending overlapped write on Windows.
WriteBlocks(p) ==
  /\ alive[p] /\ connected[p] /\ out[p] # <<>> /\ ~writing[p]
  /\ ~Gone(Peer(p)) /\ Len(wire[Peer(p)]) = WireCapacity
  /\ writing' = [writing EXCEPT ![p] = TRUE]
  /\ UNCHANGED <<procVars, out, wire, connected, reading, closing, inVars, syncVars, threadVars>>

\* The peer is gone: the message is taken off the queue and lost.
LoseMessage(p) ==
  /\ alive[p] /\ connected[p] /\ out[p] # <<>> /\ Gone(Peer(p))
  /\ out' = [out EXCEPT ![p] = Tail(@)]
  /\ writing' = [writing EXCEPT ![p] = FALSE]

WriteFails(p) ==
  /\ LoseMessage(p)
  /\ UNCHANGED <<procVars, wire, connected, reading, closing, inVars, syncVars, threadVars>>

\* Fault: connectionDidClose forgets the threads that wait on a semaphore of their own.
DidCloseForgetsSecondary(p) ==
  /\ connected' = [connected EXCEPT ![p] = FALSE]
  /\ shouldWait' = [shouldWait EXCEPT ![p] = FALSE]
  /\ semaphore' = [semaphore EXCEPT ![p] = @ \/ pending[p] # <<>>]
  /\ runLoop' = [runLoop EXCEPT ![p] = Append(@, "close")]
  /\ UNCHANGED <<procVars, wire, closing, incoming, syncQueue, scheduled,
                 pending, stack, delayed, second>>

\* connectionDidClose
DidClose(p) ==
  /\ connected' = [connected EXCEPT ![p] = FALSE]
  /\ shouldWait' = [shouldWait EXCEPT ![p] = FALSE]
  /\ semaphore' = [semaphore EXCEPT ![p] = @ \/ pending[p] # <<>>]
  /\ second' = [second EXCEPT ![p].signalled = @ \/ second[p].id # 0]
  /\ runLoop' = [runLoop EXCEPT ![p] = Append(@, "close")]
  /\ UNCHANGED <<procVars, wire, closing, incoming, syncQueue, scheduled,
                 pending, stack, delayed>>

\* Windows: a write reports Shutdown; the overlapped read is still pending.
WriteShutsDown(p) ==
  /\ ~Unix
  /\ LoseMessage(p)
  /\ DidClose(p)
  /\ UNCHANGED reading

CanRead(p) == alive[p] /\ reading[p] /\ ~(Unix /\ writing[p])

\* processIncomingSyncReply: innermost request first, then the secondary thread.
ProcessSyncReply(p, m) ==
  LET hits == {i \in DOMAIN pending[p] : pending[p][i].id = m.id} IN
  IF hits # {}
  THEN /\ pending' = [pending EXCEPT ![p] =
                        [i \in DOMAIN @ |-> IF i \in hits THEN [@[i] EXCEPT !.got = TRUE] ELSE @[i]]]
       /\ semaphore' = [semaphore EXCEPT ![p] = @ \/ Len(pending[p]) \in hits]
       /\ UNCHANGED second
  ELSE /\ second' = IF second[p].id = m.id
                    THEN [second EXCEPT ![p].got = TRUE, ![p].signalled = TRUE]
                    ELSE second
       /\ UNCHANGED <<pending, semaphore>>

\* Fault: the thread that waits is not woken for a message to dispatch.
ProcessMarkedSilently(p, m) ==
  /\ syncQueue' = [syncQueue EXCEPT ![p] = Append(@, m)]
  /\ scheduled' = [scheduled EXCEPT ![p] = TRUE]
  /\ runLoop' = IF scheduled[p] THEN runLoop ELSE [runLoop EXCEPT ![p] = Append(@, "sync")]
  /\ UNCHANGED semaphore

\* Fault: by the kind of message.
SyncIsTakenOutOfTurn(m) == m.kind = "sync"

\* shouldDispatchMessageWhenWaitingForSyncReply: the message skips m_incomingMessages.
TakenOutOfTurn(m) == m.kind # "reply" /\ m.marked

\* SyncMessageState::processIncomingMessage
ProcessMarked(p, m) ==
  /\ syncQueue' = [syncQueue EXCEPT ![p] = Append(@, m)]
  /\ scheduled' = [scheduled EXCEPT ![p] = TRUE]
  /\ runLoop' = IF scheduled[p] THEN runLoop ELSE [runLoop EXCEPT ![p] = Append(@, "sync")]
  /\ semaphore' = [semaphore EXCEPT ![p] = TRUE]

\* Connection::processIncomingMessage
ProcessIncomingMessage(p) ==
  /\ CanRead(p) /\ wire[p] # <<>>
  /\ wire' = [wire EXCEPT ![p] = Tail(@)]
  /\ LET m == Head(wire[p]) IN
       \/ /\ m.kind = "reply"
          /\ ProcessSyncReply(p, m)
          /\ UNCHANGED inVars
       \/ /\ TakenOutOfTurn(m)
          /\ ProcessMarked(p, m)
          /\ UNCHANGED <<incoming, pending, second>>
       \/ /\ m.kind # "reply" /\ ~TakenOutOfTurn(m)
          /\ incoming' = [incoming EXCEPT ![p] = Append(@, m)]
          /\ runLoop' = [runLoop EXCEPT ![p] = Append(@, "one")]
          /\ UNCHANGED <<syncQueue, scheduled, semaphore, pending, second>>
  /\ UNCHANGED <<procVars, out, writing, connected, reading, closing, shouldWait, stack, delayed>>

\* platformInvalidate, queued by invalidate(): on Unix behind the writes already
\* queued; on Windows, where the latest item of a work queue runs first, before them,
\* and the handle is closed later.
PlatformInvalidate(p) ==
  /\ alive[p] /\ closing[p]
  /\ Unix /\ connected[p] => out[p] = <<>>
  /\ closing' = [closing EXCEPT ![p] = FALSE]
  /\ connected' = [connected EXCEPT ![p] = FALSE]
  /\ reading' = [reading EXCEPT ![p] = @ /\ ~Unix]
  /\ UNCHANGED <<procVars, out, writing, wire, inVars, syncVars, threadVars>>

\* Windows: the thread of the completion port closes the handle.
PerformClose(p) ==
  /\ ~Unix
  /\ alive[p] /\ ~connected[p] /\ reading[p]
  /\ reading' = [reading EXCEPT ![p] = FALSE]
  /\ UNCHANGED <<procVars, out, writing, wire, connected, closing, inVars, syncVars, threadVars>>

\* The peer hung up and everything it wrote has been read.
ConnectionDidClose(p) ==
  /\ CanRead(p) /\ wire[p] = <<>> /\ Gone(Peer(p))
  /\ DidClose(p)
  /\ reading' = [reading EXCEPT ![p] = FALSE]
  /\ UNCHANGED <<out, writing>>

\* Windows: the pending read fails (ERROR_BROKEN_PIPE, WSAECONNRESET), which calls
\* completeCloseHandler, an empty function.
ReadFails(p) ==
  /\ Resets /\ ~Unix
  /\ CanRead(p) /\ Gone(Peer(p))
  /\ reading' = [reading EXCEPT ![p] = FALSE]
  /\ UNCHANGED <<procVars, out, writing, wire, connected, closing, inVars, syncVars, threadVars>>

-----------------------------------------------------------------------------
(* A secondary thread, crashes, and the specification.                     *)

\* sendSyncMessageFromSecondaryThread: no flags, a semaphore of its own.
SecondarySendSync(p) ==
  /\ p \in WithSecondary
  /\ alive[p] /\ second[p].id = 0
  /\ client[p] /\ shouldWait[p]
  /\ NewId(p)
  /\ second' = [second EXCEPT ![p] = [id |-> NextId(p), got |-> FALSE, signalled |-> FALSE]]
  /\ SendMessage(p, "sync", NextId(p), FALSE)
  /\ UNCHANGED <<alive, client, writing, wire, connected, reading, closing, inVars, syncVars, stack, delayed>>

SecondaryReturns(p) ==
  /\ alive[p] /\ second[p].id # 0
  /\ second[p].signalled \/ Timeouts
  /\ second' = [second EXCEPT ![p] = NoSecond]
  /\ UNCHANGED <<procVars, netVars, inVars, syncVars, stack, delayed>>

Crash(p) ==
  /\ p \in MayCrash
  /\ alive[p]
  /\ alive' = [alive EXCEPT ![p] = FALSE]
  /\ UNCHANGED <<client, lastId, netVars, inVars, syncVars, threadVars>>

AppSends(p) ==
  \/ \E even \in BOOLEAN : SendAsync(p, even)
  \/ SendSync(p)
  \/ SendSyncFails(p)
  \/ SecondarySendSync(p)
  \/ Invalidate(p)
  \/ FinishInvalid(p)

MainThread(p) ==
  \/ DispatchOneMessage(p) \/ ResetDidSchedule(p) \/ DispatchDidClose(p)
  \/ SwapMessages(p) \/ DrainNext(p) \/ DrainDone(p)
  \/ FinishHandler(p) \/ CheckSyncReply(p) \/ WakeUp(p)

WorkQueue(p) ==
  \/ WriteMessage(p) \/ WriteBlocks(p) \/ WriteFails(p) \/ WriteShutsDown(p)
  \/ ProcessIncomingMessage(p) \/ ConnectionDidClose(p) \/ ReadFails(p)
  \/ PlatformInvalidate(p) \/ PerformClose(p)

Next ==
  \E p \in Procs :
    \/ AppSends(p) \/ MainThread(p) \/ WorkQueue(p)
    \/ SendDelayedReply(p) \/ SecondaryReturns(p)
    \/ SyncTimesOut(p) \/ Crash(p)

\* Threads run; the application is under no obligation to send, fail or close,
\* but a kept reply encoder is eventually used.
Fairness ==
  \A p \in Procs :
    /\ WF_vars(MainThread(p))
    /\ WF_vars(WorkQueue(p))
    /\ WF_vars(SendDelayedReply(p))
    /\ WF_vars(SecondaryReturns(p))

Spec == Init /\ [][Next]_vars
FairSpec == Spec /\ Fairness

-----------------------------------------------------------------------------
(* Properties.                                                             *)

\* A main thread asleep in waitForSyncReply never misses its wake-up: when its
\* reply is there, the connection has closed or was invalidated by a handler that
\* ran during the wait, or a message is to be dispatched, the semaphore is set.
NoLostWakeup ==
  \A p \in Procs :
    At(p, "sleep") /\ (\/ Last(pending[p]).got
                       \/ ~shouldWait[p]
                       \/ ~client[p]
                       \/ syncQueue[p] # <<>>)
      => semaphore[p]

\* The assertions m_pendingSyncReplies.last().syncRequestID == syncRequestID of
\* sendSyncMessage and waitForSyncReply: whatever is nested, the stack of pending
\* replies lists the activations that wait, outermost first.
PendingMatchesStack ==
  \A p \in Procs :
    /\ Cardinality(Waits(stack[p])) = Len(pending[p])
    /\ \A i \in Waits(stack[p]) : stack[p][i].id = pending[p][Depth(stack[p], i)].id

\* Messages for p, from the sender's queue to the vector a dispatchMessages holds.
Undispatched(p) ==
  UNION {ToSet(s) : s \in {out[Peer(p)], wire[p], incoming[p], syncQueue[p]}
                             \union {f.todo : f \in ToSet(stack[p])}}

Requests(p) == {pending[p][i].id : i \in DOMAIN pending[p]} \union ({second[p].id} \ {0})

Answered(p, id) ==
  \/ \E i \in DOMAIN pending[p] : pending[p][i].id = id /\ pending[p][i].got
  \/ second[p].id = id /\ second[p].got

\* Where an outstanding request of p, or its reply, can be.
Places(p, id) ==
  LET q == Peer(p) IN
  { x \in {"request", "handler", "delayed", "reply", "answered"} :
      CASE x = "request"  -> \E m \in Undispatched(q) : m.kind = "sync" /\ m.id = id
        [] x = "handler"  -> \E f \in ToSet(stack[q]) :
                                f.at = "handler" /\ f.msg.kind = "sync" /\ f.msg.id = id
        [] x = "delayed"  -> id \in delayed[q]
        [] x = "reply"    -> \E m \in Undispatched(p) : m.kind = "reply" /\ m.id = id
        [] x = "answered" -> Answered(p, id) }

\* While both ends are up, an outstanding synchronous request is in exactly one
\* place: it is neither lost (its sender would wait for ever) nor handled or
\* answered twice; and a broken connection can lose it but never duplicate it.
RequestInOnePlace ==
  \A p \in Procs : \A id \in Requests(p) :
    LET q == Peer(p) IN
    /\ \A x, y \in Places(p, id) : x = y
    /\ client[q] /\ ~Gone(p) /\ ~Gone(q) => Places(p, id) # {}

\* WebProcess.cpp: "the asynchronous messages that are used for notifying the UI
\* process ... are always delivered before the synchronous policy messages": a sync
\* message that did not need the deadlock-avoiding path overtakes no earlier message.
UnmarkedSyncOvertakesNothing ==
  \A p \in Procs : \A f \in ToSet(stack[p]) :
    f.at = "handler" /\ f.msg.kind = "sync" /\ ~f.msg.marked
      => \A m \in Undispatched(p) : m.kind = "reply" \/ m.id > f.msg.id

\* Without any condition: waitForSyncReply of the main thread ends, or its process does.
MainSyncReturns ==
  \A p \in Procs : \A id \in 1..MaxSends[p] :
    (\E i \in DOMAIN pending[p] : pending[p][i].id = id)
      ~> (~alive[p] \/ ~\E i \in DOMAIN pending[p] : pending[p][i].id = id)

\* So does the wait of sendSyncMessageFromSecondaryThread.
SecondarySyncReturns ==
  \A p \in WithSecondary : (second[p].id # 0) ~> (second[p].id = 0 \/ ~alive[p])

\* Unix: both work queues are in poll(POLLOUT) on a full socket, and nobody reads.
BothWritesBlock ==
  Unix /\ \A p \in Procs : alive[p] /\ writing[p] /\ Len(wire[p]) = WireCapacity

\* Windows: the death of the peer was an error of the read, and nobody was told.
CloseUnnoticed(p) == connected[p] /\ ~reading[p] /\ Gone(Peer(p))

\* Without timeouts a request of either thread returns: two processes never wait for each
\* other, the end of the connection releases every nested wait and the semaphore of the
\* secondary thread (connectionDidClose), also when it comes while a request is being
\* registered.  The two ways known in which it does not are the only ones: from some
\* time on both processes sit in a blocking write (ConnectionUnix.cpp, the poll of
\* sendOutgoingMessage), or the end of the connection went to the empty
\* completeCloseHandler (ConnectionWin.cpp).
SyncReturnsUnlessCut ==
  \A p \in Procs :
    \/ <>[](BothWritesBlock \/ CloseUnnoticed(p))
    \/ \A id \in 1..MaxSends[p] : id \in Requests(p) ~> id \notin Requests(p) \/ ~alive[p]

\* A message that sendMessage accepted reaches the peer's client, unless an end
\* of the connection goes away.
EveryMessageDispatched ==
  \A p \in Procs : \A id \in 1..MaxSends[Peer(p)] :
    (\E m \in Undispatched(p) : m.kind # "reply" /\ m.id = id)
      ~> (\/ ~\E m \in Undispatched(p) : m.kind # "reply" /\ m.id = id
          \/ Gone(p) \/ Gone(Peer(p)) \/ ~client[p])

\* "ASSERT(m_shouldWaitForSyncReplies)" (connectionDidClose): it runs once.
ClosedOnce ==
  [][\A p \in Procs : runLoop'[p] = Append(runLoop[p], "close") => shouldWait[p]]_vars

=============================================================================
