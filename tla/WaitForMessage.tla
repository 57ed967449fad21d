--------------------------- MODULE WaitForMessage ---------------------------
(***************************************************************************)
(* Connection::waitForMessage (Platform/IPC/Connection.cpp) against the    *)
(* connection work queue: the client thread scans the incoming queue,      *)
(* registers a WaitForMessageState and waits on a condition variable; the  *)
(* work queue hands a matching message over directly, interrupts the wait  *)
(* for a sync message, or reports that the connection closed.              *)
(*                                                                         *)
(* The steps are the critical sections of the two mutexes.                 *)
(***************************************************************************)
EXTENDS Naturals, Sequences, FiniteSets, SequencesExt

CONSTANTS
  Awaited,    \* incoming messages that match the wait
  Syncs,      \* incoming sync messages (not marked for dispatch while waiting)
  Others,     \* any other incoming message
  Interrupt,  \* InterruptWaitingIfSyncMessageArrives was given
  MaxWaits    \* bound: calls of waitForMessage

Messages == Awaited \union Syncs \union Others

ASSUME WaitForMessageAssumption ==
  /\ IsFiniteSet(Messages)
  /\ Awaited \intersect (Syncs \union Others) = {}
  /\ Syncs \intersect Others = {}
  /\ Interrupt \in BOOLEAN
  /\ MaxWaits \in Nat

VARIABLES
  received,    \* history: messages read from the transport, in order
  incoming,    \* m_incomingMessages
  open,        \* the connection has not closed
  pc,          \* where the client thread is
  registered,  \* m_waitingForMessage is not null
  slot,        \* m_waitingForMessage->decoder: empty, or the message
  interrupted, \* m_waitingForMessage->messageWaitingInterrupted
  notified,    \* the condition variable was notified during the wait
  dispatched,  \* messages dispatched from the run loop, in order
  returned,    \* messages a call of waitForMessage returned
  waits        \* calls so far

vars == <<received, incoming, open, pc, registered, slot, interrupted, notified,
          dispatched, returned, waits>>

\* The types; of note, m_waitingForMessage->decoder only ever holds a message
\* that matches the wait.
TypeOK ==
  /\ received \in Seq(Messages)
  /\ incoming \in Seq(Messages)
  /\ open \in BOOLEAN
  /\ pc \in {"run loop", "scanned", "loop", "asleep", "giving up"}
  /\ registered \in BOOLEAN
  /\ slot \in SUBSET Awaited
  /\ interrupted \in BOOLEAN
  /\ notified \in BOOLEAN
  /\ dispatched \in Seq(Messages)
  /\ returned \in SUBSET Messages
  /\ waits \in 0..MaxWaits

Init ==
  /\ received = <<>>
  /\ incoming = <<>>
  /\ open = TRUE
  /\ pc = "run loop"
  /\ registered = FALSE
  /\ slot = {}
  /\ interrupted = FALSE
  /\ notified = FALSE
  /\ dispatched = <<>>
  /\ returned = {}
  /\ waits = 0

Matches == {i \in DOMAIN incoming : incoming[i] \in Awaited}

-----------------------------------------------------------------------------
(* The client thread.                                                      *)

DispatchOneMessage ==
  /\ pc = "run loop" /\ incoming # <<>>
  /\ incoming' = Tail(incoming)
  /\ dispatched' = Append(dispatched, Head(incoming))
  /\ UNCHANGED <<received, open, pc, registered, slot, interrupted, notified, returned, waits>>

\* First critical section: a match already in the queue is returned at once.
ScanIncoming ==
  /\ pc = "run loop" /\ waits < MaxWaits
  /\ waits' = waits + 1
  /\ IF Matches # {}
     THEN \E i \in Matches :
            /\ \A j \in Matches : i <= j
            /\ incoming' = RemoveAt(incoming, i)
            /\ returned' = returned \union {incoming[i]}
            /\ UNCHANGED pc
     ELSE pc' = "scanned" /\ UNCHANGED <<incoming, returned>>
  /\ UNCHANGED <<received, open, registered, slot, interrupted, notified, dispatched>>

\* Second critical section: m_waitingForMessage = &waitingForMessage.
Register ==
  /\ pc = "scanned"
  /\ pc' = "loop"
  /\ registered' = TRUE
  /\ slot' = {} /\ interrupted' = FALSE /\ notified' = FALSE
  /\ UNCHANGED <<received, incoming, open, dispatched, returned, waits>>

\* Head of the loop, under m_waitForMessageMutex: take the message or wait.
TakeMessage ==
  /\ pc = "loop" /\ slot # {}
  /\ returned' = returned \union slot
  /\ pc' = "run loop"
  /\ registered' = FALSE
  /\ slot' = {} /\ interrupted' = FALSE /\ notified' = FALSE
  /\ UNCHANGED <<received, incoming, open, dispatched, waits>>

FallAsleep ==
  /\ pc = "loop" /\ slot = {}
  /\ pc' = "asleep"
  /\ notified' = FALSE
  /\ UNCHANGED <<received, incoming, open, registered, slot, interrupted, dispatched, returned, waits>>

\* wait_for returns: cv_status::timeout, or a notification (or a spurious wake-up).
WaitReturns(timedOut) ==
  /\ pc = "asleep"
  /\ pc' = IF timedOut \/ interrupted THEN "giving up" ELSE "loop"
  /\ notified' = FALSE
  /\ UNCHANGED <<received, incoming, open, registered, slot, interrupted, dispatched, returned, waits>>

\* After the loop, with the lock released: m_waitingForMessage = nullptr.
GiveUp ==
  /\ pc = "giving up"
  /\ pc' = "run loop"
  /\ registered' = FALSE
  /\ slot' = {} /\ interrupted' = FALSE /\ notified' = FALSE
  /\ UNCHANGED <<received, incoming, open, dispatched, returned, waits>>

-----------------------------------------------------------------------------
(* The connection work queue.                                              *)

\* Fault: the message is handed over and queued as well.
HandOverAndQueue(m) ==
  /\ open /\ m \notin ToSet(received)
  /\ received' = Append(received, m)
  /\ incoming' = Append(incoming, m)
  /\ IF registered /\ m \in Awaited
     THEN slot' = {m} /\ notified' = TRUE
     ELSE UNCHANGED <<slot, notified>>
  /\ UNCHANGED <<open, pc, registered, interrupted, dispatched, returned, waits>>

\* Fault: returns after the interruption, as after the hand-over.
InterruptAndReturn(m) ==
  /\ open /\ m \notin ToSet(received)
  /\ received' = Append(received, m)
  /\ \/ /\ registered /\ m \in Awaited
        /\ slot' = {m} /\ notified' = TRUE
        /\ UNCHANGED <<incoming, interrupted>>
     \/ /\ registered /\ Interrupt /\ m \in Syncs
        /\ interrupted' = TRUE /\ notified' = TRUE
        /\ UNCHANGED <<incoming, slot>>
     \/ /\ ~registered \/ m \in Others \/ (m \in Syncs /\ ~Interrupt)
        /\ incoming' = Append(incoming, m)
        /\ UNCHANGED <<slot, interrupted, notified>>
  /\ UNCHANGED <<open, pc, registered, dispatched, returned, waits>>

\* The tail of Connection::processIncomingMessage.
ProcessIncomingMessage(m) ==
  /\ open /\ m \notin ToSet(received)
  /\ received' = Append(received, m)
  /\ IF registered /\ m \in Awaited
     THEN /\ slot' = {m}
          /\ notified' = TRUE
          /\ UNCHANGED <<incoming, interrupted>>
     ELSE /\ IF registered /\ Interrupt /\ m \in Syncs
             THEN interrupted' = TRUE /\ notified' = TRUE
             ELSE UNCHANGED <<interrupted, notified>>
          /\ incoming' = Append(incoming, m)
          /\ UNCHANGED slot
  /\ UNCHANGED <<open, pc, registered, dispatched, returned, waits>>

\* The part of connectionDidClose that is about the waiter.
ConnectionDidClose ==
  /\ open
  /\ open' = FALSE
  /\ interrupted' = (interrupted \/ registered)
  /\ notified' = TRUE
  /\ UNCHANGED <<received, incoming, pc, registered, slot, dispatched, returned, waits>>

ClientThread ==
  \/ DispatchOneMessage \/ ScanIncoming \/ Register \/ TakeMessage \/ FallAsleep
  \/ WaitReturns(FALSE) \/ WaitReturns(TRUE) \/ GiveUp

Next ==
  \/ ClientThread
  \/ \E m \in Messages : ProcessIncomingMessage(m)
  \/ ConnectionDidClose

Spec == Init /\ [][Next]_vars

-----------------------------------------------------------------------------
\* A message handed to the waiter wakes it: it never sleeps on with the message
\* in its WaitForMessageState.
NoLostHandover == pc = "asleep" /\ slot # {} => notified

\* Waiting takes messages out of the middle of the queue but never duplicates
\* one or changes the order of the rest.
RestInOrder ==
  LET rest == dispatched \o incoming
      position(m) == CHOOSE i \in DOMAIN received : received[i] = m IN
  /\ \A i, j \in DOMAIN rest : i < j => position(rest[i]) < position(rest[j])
  /\ ToSet(rest) \intersect (slot \union returned) = {}
  /\ slot \intersect returned = {}

\* Messages that were received and are neither dispatched, returned, queued nor held.
Lost == ToSet(received) \ (ToSet(dispatched \o incoming) \union returned \union slot)

\* A message that was received is dispatched, returned, or still held: giving up
\* ("We timed out, lost our connection, or a sync message came in") drops nothing.
NothingDropped == Lost = {}

\* The only messages lost are those in m_waitingForMessage->decoder when the waiter gives
\* up (waitForMessage does not look at it after wait_for reports a timeout or an
\* interruption), or when a second match is handed over before the waiter has taken
\* the first: scanning, interrupting, closing and dispatching lose none.
LostOnlyWhenHandedOver ==
  [][\A m \in Lost' \ Lost : m \in slot /\ (pc = "giving up" \/ slot' # {})]_vars

\* "Use this to make waitForMessage be interrupted immediately by any incoming sync
\* messages" (Connection.h): an interrupted waiter does not sleep on.
InterruptedImmediately == pc = "asleep" /\ interrupted => notified

\* The wait was entered because the message was not in the incoming queue ("First,
\* check if this message is already in the incoming messages queue"), so while it
\* lasts the message is not there either.
NotAlreadyQueued == pc = "asleep" => Matches = {}

=============================================================================
