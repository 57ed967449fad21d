-------------------------- MODULE SyncMessageState --------------------------
(***************************************************************************)
(* Connection::SyncMessageState (Platform/IPC/Connection.cpp): the queue   *)
(* that all the connections of one client run loop share, holding the      *)
(* messages to be dispatched even while a synchronous reply is awaited.    *)
(*                                                                         *)
(* Work queues of the connections append to it; the run loop drains it     *)
(* one connection at a time, and a thread that waits for a sync reply      *)
(* drains all of it, from inside a handler if need be.                     *)
(***************************************************************************)
EXTENDS Naturals, Sequences, SequencesExt

CONSTANTS
  Connections,     \* connections whose client run loop this is
  NestedRunLoops,  \* whether a handler may run the run loop (modal dialogs)
  MaxMessages,     \* bound: marked messages that arrive on each connection
  MaxSyncSends     \* bound: synchronous sends (and nested loops) of this thread

ASSUME SyncMessageStateAssumption ==
  /\ NestedRunLoops \in BOOLEAN
  /\ MaxMessages \in Nat
  /\ MaxSyncSends \in Nat

VARIABLES
  arrived,   \* messages received so far, per connection
  queue,     \* m_messagesToDispatchWhileWaitingForSyncReply
  workSet,   \* m_didScheduleDispatchMessagesWorkSet
  tasks,     \* calls dispatched to the run loop, by connection
  semaphore, \* m_waitForSyncReplySemaphore
  stack,     \* activations of the client thread, innermost last
  syncSends, \* waits and nested loops entered so far
  last,      \* history: number of the last message dispatched, per connection
  robbed     \* history: connections whose call ran while others held their messages

vars == <<arrived, queue, workSet, tasks, semaphore, stack, syncSends, last, robbed>>

All     == "all"   \* dispatchMessages(0)
Message == [conn : Connections, n : Nat]
Frame   == [at : {"swap", "loop", "handler", "wait", "nested"},
            allowed : Connections \union {All},
            todo : Seq(Message), back : Seq(Message)]

Activation(where, c, todo, back) == [at |-> where, allowed |-> c, todo |-> todo, back |-> back]
Plain(where) == Activation(where, All, <<>>, <<>>)

Top    == Last(stack)
At(where) == stack # <<>> /\ Top.at = where

\* Messages that activations of dispatchMessages have taken and not dispatched.
Held == UNION {ToSet(f.todo) \union ToSet(f.back) : f \in ToSet(stack)}

\* Connections with messages that dispatchMessages(other) took and will put back.
Waiting == UNION {{m.conn : m \in ToSet(f.todo) \union ToSet(f.back)} \ {f.allowed} :
                    f \in {g \in ToSet(stack) : g.allowed # All}}

\* The types; of note, only calls for one connection are dispatched to the run
\* loop, so dispatchMessages(0) is called by waitForSyncReply alone.
TypeOK ==
  /\ arrived \in [Connections -> Nat]
  /\ queue \in Seq(Message)
  /\ workSet \in SUBSET Connections
  /\ tasks \in Seq(Connections)
  /\ semaphore \in BOOLEAN
  /\ stack \in Seq(Frame)
  /\ syncSends \in Nat
  /\ last \in [Connections -> Nat]
  /\ robbed \subseteq Connections

Init ==
  /\ arrived = [c \in Connections |-> 0]
  /\ queue = <<>>
  /\ workSet = {}
  /\ tasks = <<>>
  /\ semaphore = FALSE
  /\ stack = <<>>
  /\ syncSends = 0
  /\ last = [c \in Connections |-> 0]
  /\ robbed = {}

-----------------------------------------------------------------------------
\* Fault: the call is dispatched once per message.
ScheduleEveryTime(c) ==
  /\ arrived[c] < MaxMessages
  /\ arrived' = [arrived EXCEPT ![c] = @ + 1]
  /\ queue' = Append(queue, [conn |-> c, n |-> arrived[c] + 1])
  /\ workSet' = workSet \union {c}
  /\ tasks' = Append(tasks, c)
  /\ semaphore' = TRUE
  /\ UNCHANGED <<stack, syncSends, last, robbed>>

\* SyncMessageState::processIncomingMessage, on the work queue of c.
ProcessIncomingMessage(c) ==
  /\ arrived[c] < MaxMessages
  /\ arrived' = [arrived EXCEPT ![c] = @ + 1]
  /\ queue' = Append(queue, [conn |-> c, n |-> arrived[c] + 1])
  /\ workSet' = workSet \union {c}
  /\ tasks' = IF c \in workSet THEN tasks ELSE Append(tasks, c)
  /\ semaphore' = TRUE
  /\ UNCHANGED <<stack, syncSends, last, robbed>>

\* Fault: the connection stays in the work set.
DispatchWithoutReset ==
  /\ tasks # <<>>
  /\ stack # <<>> => Top.at = "nested"
  /\ tasks' = Tail(tasks)
  /\ stack' = Append(stack, Activation("swap", Head(tasks), <<>>, <<>>))
  /\ UNCHANGED <<arrived, queue, workSet, semaphore, syncSends, last, robbed>>

\* dispatchMessageAndResetDidScheduleDispatchMessagesForConnection, taken from
\* the run loop when the thread is idle or inside a nested run loop.
DispatchAndReset ==
  /\ tasks # <<>>
  /\ stack # <<>> => Top.at = "nested"
  /\ tasks' = Tail(tasks)
  /\ workSet' = workSet \ {Head(tasks)}
  /\ stack' = Append(stack, Activation("swap", Head(tasks), <<>>, <<>>))
  /\ robbed' = robbed \union (Waiting \intersect {Head(tasks)})
  /\ UNCHANGED <<arrived, queue, semaphore, syncSends, last>>

\* Fault: the queue is copied, not swapped out.
CopyQueue ==
  /\ At("swap")
  /\ stack' = Append(Front(stack), Activation("loop", Top.allowed, queue, <<>>))
  /\ UNCHANGED <<arrived, queue, workSet, tasks, semaphore, syncSends, last, robbed>>

\* dispatchMessages: swap the queue out under the lock.
SwapQueue ==
  /\ At("swap")
  /\ stack' = Append(Front(stack), Activation("loop", Top.allowed, queue, <<>>))
  /\ queue' = <<>>
  /\ UNCHANGED <<arrived, workSet, tasks, semaphore, syncSends, last, robbed>>

\* A message of another connection is set aside.
SetAside ==
  /\ At("loop") /\ Top.todo # <<>>
  /\ Top.allowed \notin {All, Head(Top.todo).conn}
  /\ stack' = Append(Front(stack), Activation("loop", Top.allowed, Tail(Top.todo),
                                            Append(Top.back, Head(Top.todo))))
  /\ UNCHANGED <<arrived, queue, workSet, tasks, semaphore, syncSends, last, robbed>>

\* Any other message is dispatched: its handler runs.
DispatchMessage ==
  /\ At("loop") /\ Top.todo # <<>>
  /\ Top.allowed \in {All, Head(Top.todo).conn}
  /\ stack' = Front(stack) \o <<Activation("loop", Top.allowed, Tail(Top.todo), Top.back),
                              Plain("handler")>>
  /\ last' = [last EXCEPT ![Head(Top.todo).conn] = Head(Top.todo).n]
  /\ UNCHANGED <<arrived, queue, workSet, tasks, semaphore, syncSends, robbed>>

\* The messages set aside are appended to the queue, and dispatchMessages returns.
PutBack ==
  /\ At("loop") /\ Top.todo = <<>>
  /\ queue' = queue \o Top.back
  /\ stack' = Front(stack)
  /\ UNCHANGED <<arrived, workSet, tasks, semaphore, syncSends, last, robbed>>

HandlerReturns ==
  /\ At("handler")
  /\ stack' = Front(stack)
  /\ UNCHANGED <<arrived, queue, workSet, tasks, semaphore, syncSends, last, robbed>>

\* waitForSyncReply: dispatch everything first.
BeginWait ==
  /\ stack # <<>> => Top.at = "handler"
  /\ syncSends < MaxSyncSends
  /\ syncSends' = syncSends + 1
  /\ stack' = stack \o <<Plain("wait"), Plain("swap")>>
  /\ UNCHANGED <<arrived, queue, workSet, tasks, semaphore, last, robbed>>

\* The semaphore was signalled, by a message or for a reply.
WakeUp ==
  /\ At("wait") /\ semaphore
  /\ semaphore' = FALSE
  /\ stack' = Append(stack, Plain("swap"))
  /\ UNCHANGED <<arrived, queue, workSet, tasks, syncSends, last, robbed>>

\* The reply is there (it signals the same semaphore), or the wait timed out.
EndWait ==
  /\ At("wait")
  /\ stack' = Front(stack)
  /\ UNCHANGED <<arrived, queue, workSet, tasks, semaphore, syncSends, last, robbed>>

EnterRunLoop ==
  /\ NestedRunLoops
  /\ At("handler")
  /\ syncSends < MaxSyncSends
  /\ syncSends' = syncSends + 1
  /\ stack' = Append(stack, Plain("nested"))
  /\ UNCHANGED <<arrived, queue, workSet, tasks, semaphore, last, robbed>>

LeaveRunLoop ==
  /\ At("nested")
  /\ stack' = Front(stack)
  /\ UNCHANGED <<arrived, queue, workSet, tasks, semaphore, syncSends, last, robbed>>

ClientThread ==
  \/ DispatchAndReset \/ SwapQueue \/ SetAside \/ DispatchMessage \/ PutBack
  \/ HandlerReturns \/ WakeUp \/ EndWait \/ LeaveRunLoop

Next ==
  \/ \E c \in Connections : ProcessIncomingMessage(c)
  \/ ClientThread \/ BeginWait \/ EnterRunLoop

\* Handlers return, replies (or timeouts) come, nested loops are left.
Spec == Init /\ [][Next]_vars
FairSpec == Spec /\ WF_vars(ClientThread)

-----------------------------------------------------------------------------
\* The assertion m_didScheduleDispatchMessagesWorkSet.contains(connection): a
\* connection is in the work set exactly when one call for it is under way.
ScheduledOnce ==
  /\ \A c \in Connections : c \in workSet <=> c \in ToSet(tasks)
  /\ \A i, j \in DOMAIN tasks : tasks[i] = tasks[j] => i = j

\* A queued message is never stranded: a call on the run loop, or an activation
\* about to take the queue, will dispatch messages of its connection.
NothingStranded ==
  \A m \in ToSet(queue) :
    \/ m.conn \in workSet
    \/ At("swap") /\ Top.allowed \in {m.conn, All}

\* Only a call that ran, in a nested run loop, while another activation held
\* messages of its connection leaves some stranded when they are put back.
StrandedWhenRobbed ==
  \A m \in ToSet(queue) :
    \/ m.conn \in workSet \union robbed
    \/ At("swap") /\ Top.allowed \in {m.conn, All}

\* A message is queued once, or held once by one dispatchMessages.
NoDuplicates ==
  /\ \A i, j \in DOMAIN queue : queue[i] = queue[j] => i = j
  /\ ToSet(queue) \intersect Held = {}
  /\ \A f, g \in DOMAIN stack :
       LET inside(k) == ToSet(stack[k].todo) \union ToSet(stack[k].back) IN
       f # g => inside(f) \intersect inside(g) = {}

\* Messages of one connection are dispatched in the order in which they arrived.
InArrivalOrder ==
  [][\A c \in Connections : last[c] <= last'[c]]_last

\* Messages of c lie in the queue, and no call or activation is about to take them.
Stranded(c) ==
  /\ c \notin workSet
  /\ \E m \in ToSet(queue) : m.conn = c
  /\ ~(At("swap") /\ Top.allowed \in {c, All})

\* Every message that arrives is dispatched, whatever waits and nested run loops held
\* it meanwhile, unless messages of its connection stay stranded for ever; and that
\* happens to a connection only after its call ran while others held its messages.
EverythingDispatched ==
  \A c \in Connections :
    \/ <>[](Stranded(c) /\ c \in robbed)
    \/ \A n \in 1..MaxMessages :
         (\E m \in ToSet(queue) \union Held : m.conn = c /\ m.n = n)
           ~> ~\E m \in ToSet(queue) \union Held : m.conn = c /\ m.n = n

=============================================================================
