--------------------------- MODULE ProcessThrottler ---------------------------
(***************************************************************************)
(* The throttler of a web process (UIProcess/ProcessThrottler.cpp) and the *)
(* web process' side of the conversation (WebProcess.cpp).                 *)
(*                                                                         *)
(* Parts of the UI process hold activity tokens.  When the last one goes,  *)
(* the web process is asked to prepare for its suspension: it answers that *)
(* it is ready, or, when the request was withdrawn before, that it stopped *)
(* preparing.  A timeout suspends it whatever it answers.                  *)
(***************************************************************************)
EXTENDS Integers, Sequences, FiniteSets

CONSTANTS
  MaxForeground,  \* bound: foreground tokens (visible pages)
  MaxBackground,  \* bound: background tokens (callbacks, a page load)
  MaxRequests     \* bound: suspend messages not accounted for

ASSUME ThrottlerAssumption ==
  /\ MaxForeground \in Nat
  /\ MaxBackground \in Nat
  /\ MaxRequests \in Nat

VARIABLES
  foregroundCount,      \* m_foregroundCount
  backgroundCount,      \* m_backgroundCount
  suspendMessageCount,  \* m_suspendMessageCount
  suspendTimer,         \* m_suspendTimer.isActive()
  assertion,            \* m_assertion->state(), None before there is one
  toWeb,                \* messages on their way to the web process
  toUI,                 \* answers on their way to the UI process
  cleanupTimer,         \* m_processSuspensionCleanupTimer.isActive()
  alive,                \* the web process exists
  cleaned,              \* history: it finished the last request it took, and
                        \* has not been told since that it is needed
  expired               \* history: the timeout has suspended it before

throttler == <<foregroundCount, backgroundCount, suspendMessageCount,
               suspendTimer, assertion>>
process   == <<cleanupTimer, alive, cleaned>>
vars      == <<throttler, toWeb, toUI, process, expired>>

None == "None"

TypeOK ==
  /\ foregroundCount \in Nat /\ backgroundCount \in Nat
  /\ suspendMessageCount \in Int
  /\ suspendTimer \in BOOLEAN
  /\ assertion \in {None, "Suspended", "Background", "Foreground"}
  /\ toWeb \in Seq({"WillSuspend", "Cancel"})
  /\ toUI \in Seq({"Ready", "DidCancel"})
  /\ cleanupTimer \in BOOLEAN /\ alive \in BOOLEAN
  /\ cleaned \in BOOLEAN /\ expired \in BOOLEAN

Init ==
  /\ foregroundCount = 0 /\ backgroundCount = 0
  /\ suspendMessageCount = 0
  /\ suspendTimer = FALSE
  /\ assertion = None
  /\ toWeb = <<>> /\ toUI = <<>>
  /\ cleanupTimer = FALSE
  /\ alive = TRUE
  /\ cleaned = FALSE /\ expired = FALSE

-----------------------------------------------------------------------------
(* ProcessThrottler.                                                       *)

\* assertionState(), for the given counts.
AssertionState(foreground, background) ==
  IF foreground > 0 THEN "Foreground"
  ELSE IF background > 0 THEN "Background"
  ELSE "Suspended"

\* WebProcessProxy::send...(): what is sent to a process that is gone is lost.
Send(m) == toWeb' = IF alive THEN Append(toWeb, m) ELSE toWeb

\* Fault: the timeout of a preparation stays armed.
UpdateAssertionButNotTimer ==
  /\ UNCHANGED suspendTimer
  /\ assertion' = IF assertion = None THEN None
                  ELSE AssertionState(foregroundCount', backgroundCount')

\* updateAssertionNow().
UpdateAssertionNow ==
  /\ suspendTimer' = FALSE
  /\ assertion' = IF assertion = None THEN None
                  ELSE AssertionState(foregroundCount', backgroundCount')

\* Fault: the timeout is started only when no answer is due.
PrepareFirstTimed ==
  /\ assertion \notin {None, "Suspended"}
  /\ foregroundCount' = 0 /\ backgroundCount' = 0
  /\ suspendMessageCount < MaxRequests
  /\ suspendMessageCount' = suspendMessageCount + 1
  /\ Send("WillSuspend")
  /\ suspendTimer' = (suspendMessageCount = 0)
  /\ assertion' = "Background"

\* updateAssertion(), first case: ask the process to prepare.
Prepare ==
  /\ assertion \notin {None, "Suspended"}
  /\ foregroundCount' = 0 /\ backgroundCount' = 0
  /\ suspendMessageCount < MaxRequests
  /\ suspendMessageCount' = suspendMessageCount + 1
  /\ Send("WillSuspend")
  /\ suspendTimer' = TRUE
  /\ assertion' = "Background"

\* updateAssertion(), the other cases; a preparation is called off.
Needed == foregroundCount' + backgroundCount' > 0

Update ==
  /\ assertion \in {None, "Suspended"} \/ Needed
  /\ IF suspendTimer /\ Needed THEN Send("Cancel") ELSE UNCHANGED toWeb
  /\ UpdateAssertionNow
  /\ UNCHANGED suspendMessageCount

UpdateAssertion == Prepare \/ Update

\* The constructors and destructors of the two kinds of token.
TakeForeground ==
  /\ foregroundCount < MaxForeground
  /\ foregroundCount' = foregroundCount + 1 /\ UNCHANGED backgroundCount
  /\ UpdateAssertion
  /\ UNCHANGED <<toUI, process, expired>>

DropForeground ==
  /\ foregroundCount > 0
  /\ foregroundCount' = foregroundCount - 1 /\ UNCHANGED backgroundCount
  /\ UpdateAssertion
  /\ UNCHANGED <<toUI, process, expired>>

TakeBackground ==
  /\ backgroundCount < MaxBackground
  /\ backgroundCount' = backgroundCount + 1 /\ UNCHANGED foregroundCount
  /\ UpdateAssertion
  /\ UNCHANGED <<toUI, process, expired>>

DropBackground ==
  /\ backgroundCount > 0
  /\ backgroundCount' = backgroundCount - 1 /\ UNCHANGED foregroundCount
  /\ UpdateAssertion
  /\ UNCHANGED <<toUI, process, expired>>

\* didConnnectToProcess, from WebProcessProxy::didFinishLaunching.
DidConnectToProcess ==
  /\ assertion = None /\ alive
  /\ suspendTimer' = FALSE
  /\ assertion' = AssertionState(foregroundCount, backgroundCount)
  /\ UNCHANGED <<foregroundCount, backgroundCount, suspendMessageCount, toWeb,
                 toUI, process, expired>>

SuspendTimerFired ==
  /\ suspendTimer
  /\ UNCHANGED <<foregroundCount, backgroundCount>>
  /\ UpdateAssertionNow
  /\ expired' = TRUE
  /\ UNCHANGED <<suspendMessageCount, toWeb, toUI, process>>

\* Fault: every answer counts as the last.
AnsweredOnce ==
  /\ suspendMessageCount' = suspendMessageCount - 1
  /\ UpdateAssertionNow

\* processReadyToSuspend() and didCancelProcessSuspension(): the same code.
Answered ==
  /\ suspendMessageCount' = suspendMessageCount - 1
  /\ IF suspendMessageCount' = 0 THEN UpdateAssertionNow
     ELSE UNCHANGED <<suspendTimer, assertion>>

ReceiveAnswer ==
  /\ toUI # <<>>
  /\ UNCHANGED <<foregroundCount, backgroundCount>>
  /\ Answered
  /\ toUI' = Tail(toUI)
  /\ UNCHANGED <<toWeb, process, expired>>

-----------------------------------------------------------------------------
(* WebProcess.  Whether all layers can be marked volatile depends on the   *)
(* display server: either outcome may come.                                *)

\* processWillSuspend(): it succeeds at once ...
WillSuspendSucceeds ==
  /\ toUI' = Append(toUI, "Ready")
  /\ cleaned' = TRUE
  /\ UNCHANGED cleanupTimer

\* ... or goes on trying, every 20 ms.
WillSuspendTries ==
  /\ cleanupTimer' = TRUE
  /\ cleaned' = FALSE
  /\ UNCHANGED toUI

ProcessWillSuspend ==
  /\ toWeb # <<>> /\ Head(toWeb) = "WillSuspend"
  /\ toWeb' = Tail(toWeb)
  /\ WillSuspendSucceeds \/ WillSuspendTries
  /\ UNCHANGED <<throttler, alive, expired>>

\* Fault: a withdrawal is always acknowledged.
CancelAcknowledged ==
  /\ toWeb # <<>> /\ Head(toWeb) = "Cancel"
  /\ toWeb' = Tail(toWeb)
  /\ toUI' = Append(toUI, "DidCancel")
  /\ cleanupTimer' = FALSE
  /\ cleaned' = FALSE
  /\ UNCHANGED <<throttler, alive, expired>>

\* cancelProcessWillSuspend().
CancelProcessWillSuspend ==
  /\ toWeb # <<>> /\ Head(toWeb) = "Cancel"
  /\ toWeb' = Tail(toWeb)
  /\ toUI' = IF cleanupTimer THEN Append(toUI, "DidCancel") ELSE toUI
  /\ cleanupTimer' = FALSE
  /\ cleaned' = FALSE
  /\ UNCHANGED <<throttler, alive, expired>>

\* processSuspensionCleanupTimerFired(), when all layers could be marked.
CleanupFinished ==
  /\ cleanupTimer
  /\ cleanupTimer' = FALSE
  /\ toUI' = Append(toUI, "Ready")
  /\ cleaned' = TRUE
  /\ UNCHANGED <<throttler, toWeb, alive, expired>>

\* The web process crashes or is killed; answers already sent still arrive.
Crash ==
  /\ alive
  /\ alive' = FALSE
  /\ cleanupTimer' = FALSE
  /\ toWeb' = <<>>
  /\ UNCHANGED <<throttler, toUI, cleaned, expired>>

Tokens == TakeForeground \/ DropForeground \/ TakeBackground \/ DropBackground

Next ==
  \/ Tokens \/ DidConnectToProcess
  \/ SuspendTimerFired \/ ReceiveAnswer
  \/ ProcessWillSuspend \/ CancelProcessWillSuspend \/ CleanupFinished
  \/ Crash

Spec == Init /\ [][Next]_vars

\* A timer that is started fires.  Nothing is asked of the web process, which
\* may be suspended or hang, nor of those who hold tokens.
FairSpec == Spec /\ WF_vars(SuspendTimerFired)

-----------------------------------------------------------------------------
(* Properties.                                                             *)

Requests(q) == Cardinality({i \in DOMAIN q : q[i] = "WillSuspend"})

\* Answers that are still due: to requests on their way, to the one the
\* process works on, and those on their way back.
Owed == Requests(toWeb) + (IF cleanupTimer THEN 1 ELSE 0) + Len(toUI)

\* WebProcess.cpp: the UI process strictly expects one answer or the other to
\* each request.  There is never one too many, so that the count stays above
\* zero (the assertion in processReadyToSuspend) and reaches zero only with the
\* last answer; and as long as no timeout and no crash intervened none is
\* missing either, whatever requests and withdrawals cross the answers.
AnswersMatchRequests ==
  /\ suspendMessageCount >= Owed
  /\ alive /\ ~expired => suspendMessageCount = Owed

\* The assertion always follows the tokens, and a process that is not needed
\* is suspended or has the timeout running: a lost answer or a stuck counter
\* never keeps it awake, and no late timeout can hit a process in use.
AssertionFollowsTokens ==
  LET state == AssertionState(foregroundCount, backgroundCount)
  IN  /\ suspendTimer => assertion = "Background" /\ state = "Suspended"
      /\ ~suspendTimer => assertion \in {None, state}

\* An answer lets the throttler suspend only a process that has finished its
\* last request and is not told anything new: no answer to an earlier request
\* is mistaken for it.
AnswerSuspendsCleaned ==
  [][assertion # "Suspended" /\ assertion' = "Suspended" /\ toUI' # toUI
       => cleaned /\ toWeb = <<>> /\ ~cleanupTimer]_vars

\* The process is suspended only out of a preparation, which ends
\* (SuspendableProcess).
Phase ==
  IF assertion = None THEN "Launching"
  ELSE IF assertion = "Suspended" THEN "Suspended"
  ELSE IF suspendTimer THEN "Preparing"
  ELSE "Running"

Abstract == INSTANCE SuspendableProcess WITH phase <- Phase

PreparesBeforeSuspending == Abstract!FairSpec
=============================================================================
