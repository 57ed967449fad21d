--------------------------- MODULE ChildProcessProofs ---------------------------
(***************************************************************************)
(* Child processes of the UI process: the throttler's promises for any     *)
(* number of tokens and of requests, and the network process' promises for *)
(* any web processes and loads, and any number of launches.                *)
(***************************************************************************)
EXTENDS ProcessThrottler, NetworkProcess, SequenceTheorems, FiniteSetTheorems,
        WellFoundedInduction, TLAPS

-----------------------------------------------------------------------------
(* ProcessThrottler.                                                       *)

Messages == {"WillSuspend", "Cancel"}

\* The web process has not finished the last request, nor has it anything to read or
\* to work on: an answer is missing for good.
Stuck == toWeb = <<>> /\ ~cleanupTimer /\ ~cleaned

\* There is never an answer too many; while the timeout of a preparation runs, the
\* request is the last thing the process was told, and one answer more than those under
\* way is counted if it will never come.
Counted ==
  /\ suspendMessageCount >= Owed
  /\ ~alive => toWeb = <<>> /\ ~cleanupTimer
  /\ suspendTimer /\ toWeb # <<>> => toWeb[Len(toWeb)] = "WillSuspend"
  /\ suspendTimer /\ Stuck => suspendMessageCount > Owed

\* Until a timeout or a crash, requests and withdrawals alternate, so that a request
\* never meets an earlier one that is still worked on, and every one is answered.
Alternate ==
  alive /\ ~expired =>
    /\ suspendMessageCount = Owed
    /\ cleanupTimer /\ toWeb # <<>> => Head(toWeb) = "Cancel"
    /\ \A i \in 1..(Len(toWeb) - 1) : toWeb[i] # toWeb[i + 1]
    /\ ~suspendTimer /\ toWeb # <<>> => toWeb[Len(toWeb)] = "Cancel"
    /\ ~suspendTimer /\ toWeb = <<>> => ~cleanupTimer

-----------------------------------------------------------------------------
(* Counting requests.                                                      *)

Places(q) == {i \in DOMAIN q : q[i] = "WillSuspend"}

\* The requests in a queue can be counted.
LEMMA FinitelyManyPlaces ==
  ASSUME NEW q \in Seq(Messages)
  PROVE  IsFiniteSet(Places(q)) /\ Requests(q) \in Nat /\ Requests(q) = Cardinality(Places(q))
<1>1. Places(q) \in SUBSET (1..Len(q)) /\ Len(q) \in Nat
  BY DEF Places
<1>2. IsFiniteSet(1..Len(q))
  BY <1>1, FS_Interval
<1>3. IsFiniteSet(Places(q))
  BY <1>1, <1>2, FS_Subset
<1>4. Requests(q) = Cardinality(Places(q))
  BY DEF Requests, Places
<1> QED BY <1>3, <1>4, FS_CardinalityType

LEMMA NoRequests == Requests(<<>>) = 0
<1>1. {i \in DOMAIN <<>> : <<>>[i] = "WillSuspend"} = {}
  OBVIOUS
<1> QED BY <1>1, FS_EmptySet DEF Requests

\* A message appended is one request more, if it is one.
LEMMA RequestsOfAppend ==
  ASSUME NEW q \in Seq(Messages), NEW m \in Messages
  PROVE  Requests(Append(q, m)) = Requests(q) + (IF m = "WillSuspend" THEN 1 ELSE 0)
<1> DEFINE r == Append(q, m)
<1>1. r \in Seq(Messages)
  OBVIOUS
<1>2. ~(Len(q) + 1 \in Places(q))
  BY DEF Places
<1>3. CASE m = "WillSuspend"
  <2>1. Places(r) = Places(q) \cup {Len(q) + 1}
    BY <1>3 DEF Places
  <2>2. Cardinality(Places(r)) = Cardinality(Places(q)) + 1
    BY <1>2, <2>1, FinitelyManyPlaces, FS_AddElement
  <2> QED BY <1>1, <1>3, <2>2, FinitelyManyPlaces
<1>4. CASE m # "WillSuspend"
  <2>1. Places(r) = Places(q)
    BY <1>4 DEF Places
  <2> HIDE DEF r
  <2>2. Requests(r) = Requests(q)
    BY <1>1, <2>1, FinitelyManyPlaces
  <2>3. Requests(q) \in Nat
    BY FinitelyManyPlaces
  <2> QED BY <1>4, <2>2, <2>3 DEF r
<1> QED BY <1>3, <1>4

\* A message taken from the front is one request less, if it is one.
LEMMA RequestsOfTail ==
  ASSUME NEW q \in Seq(Messages), q # <<>>
  PROVE  Requests(q) = Requests(Tail(q)) + (IF Head(q) = "WillSuspend" THEN 1 ELSE 0)
<1> DEFINE t == Tail(q)
           S == {i + 1 : i \in Places(t)}
           f == [i \in Places(t) |-> i + 1]
<1>1. t \in Seq(Messages) /\ Len(t) = Len(q) - 1 /\ Len(q) \in Nat \ {0}
  OBVIOUS
<1>2. Places(t) \subseteq Nat
  BY DEF Places
<1>3. f \in Bijection(Places(t), S)
  <2>1. f \in [Places(t) -> S]
    OBVIOUS
  <2>2. \A a, b \in Places(t) : f[a] = f[b] => a = b
    BY <1>2
  <2>3. \A y \in S : \E x \in Places(t) : f[x] = y
    OBVIOUS
  <2> HIDE DEF f, S
  <2> QED BY <2>1, <2>2, <2>3 DEF Bijection, Injection, Surjection, IsInjective
<1>4. IsFiniteSet(S) /\ Cardinality(S) = Requests(t)
  <2>1. ExistsBijection(Places(t), S)
    BY <1>3 DEF ExistsBijection
  <2> HIDE DEF S, f, t
  <2> QED BY <1>1, <2>1, FinitelyManyPlaces, FS_Bijection
<1>5. ~(1 \in S)
  BY <1>2 DEF Places
<1>6. \A i \in 1..Len(t) : t[i] = q[i + 1]
  BY <1>1
<1>7. Places(q) \ {1} = S
  <2>1. ASSUME NEW i \in Places(q) \ {1} PROVE i \in S
    <3>1. i - 1 \in 1..Len(t) /\ t[i - 1] = q[i]
      BY <1>1, <1>6, <2>1 DEF Places
    <3>2. i - 1 \in Places(t)
      BY <1>1, <2>1, <3>1 DEF Places
    <3> QED BY <2>1, <3>1, <3>2 DEF Places
  <2>2. ASSUME NEW j \in Places(t) PROVE j + 1 \in Places(q) \ {1}
    BY <1>1, <1>6, <2>2 DEF Places
  <2> QED BY <2>1, <2>2
<1>8. CASE Head(q) = "WillSuspend"
  <2>1. Places(q) = S \cup {1}
    BY <1>1, <1>7, <1>8 DEF Places
  <2>2. Cardinality(S \cup {1}) = Cardinality(S) + 1
    BY <1>4, <1>5, FS_AddElement
  <2> QED BY <1>4, <1>8, <2>1, <2>2, FinitelyManyPlaces
<1>9. CASE Head(q) # "WillSuspend"
  <2>1. Places(q) = S
    BY <1>1, <1>7, <1>9 DEF Places
  <2> HIDE DEF S, t
  <2>2. Requests(q) = Cardinality(S)
    BY <2>1, FinitelyManyPlaces
  <2>3. Requests(t) \in Nat
    BY <1>1, FinitelyManyPlaces
  <2>4. Requests(q) = Requests(t) + 0
    BY <1>4, <2>2, <2>3
  <2> QED BY <1>9, <2>4 DEF t
<1> QED BY <1>8, <1>9

\* A queue that ends in a request has one; one without a request ends in a withdrawal.
LEMMA LastRequest ==
  ASSUME NEW q \in Seq(Messages), q # <<>>
  PROVE  /\ q[Len(q)] = "WillSuspend" => Requests(q) >= 1
         /\ Requests(q) = 0 => q[Len(q)] = "Cancel"
<1>1. Len(q) \in DOMAIN q /\ q[Len(q)] \in Messages
  OBVIOUS
<1>2. q[Len(q)] = "WillSuspend" => Places(q) # {}
  BY <1>1 DEF Places
<1>3. Places(q) # {} => Requests(q) # 0
  BY FinitelyManyPlaces, FS_EmptySet
<1> QED BY <1>1, <1>2, <1>3, FinitelyManyPlaces DEF Messages

-----------------------------------------------------------------------------
(* Types and the assertion.                                                *)

\* What the constructors and destructors of tokens do: one count changes, then
\* updateAssertion runs.
LEMMA TokenStep ==
  ASSUME TypeOK, Tokens
  PROVE  /\ foregroundCount' \in Nat /\ backgroundCount' \in Nat
         /\ UpdateAssertion /\ UNCHANGED <<toUI, process, expired>>
         /\ ~Needed => foregroundCount + backgroundCount > 0
  BY DEF Tokens, TakeForeground, DropForeground, TakeBackground, DropBackground, Needed, TypeOK

\* What a message sent to the process does to the queue.
LEMMA SendType ==
  ASSUME TypeOK, NEW m \in Messages, Send(m)
  PROVE  toWeb' \in Seq(Messages)
  BY DEF TypeOK, Send, Messages

LEMMA AssertionStates ==
  \A f, b \in Nat : AssertionState(f, b) \in {"Foreground", "Background", "Suspended"}
  BY DEF AssertionState

LEMMA SequenceTypes ==
  ASSUME NEW S, NEW q \in Seq(S)
  PROVE  /\ <<>> \in Seq(S)
         /\ \A m \in S : Append(q, m) \in Seq(S)
         /\ q # <<>> => Tail(q) \in Seq(S)
  OBVIOUS

\* Types, and the assertion the tokens ask for, to begin with and after a step.
LEMMA InitBasics == Init => TypeOK /\ AssertionFollowsTokens
<1> SUFFICES ASSUME Init PROVE TypeOK /\ AssertionFollowsTokens
  OBVIOUS
<1>1. toWeb \in Seq({"WillSuspend", "Cancel"}) /\ toUI \in Seq({"Ready", "DidCancel"})
  BY DEF Init
<1>2. TypeOK
  <2>1. foregroundCount \in Nat /\ backgroundCount \in Nat /\ suspendMessageCount \in Int
    BY DEF Init
  <2>2. /\ suspendTimer \in BOOLEAN
        /\ assertion \in {None, "Suspended", "Background", "Foreground"}
        /\ cleanupTimer \in BOOLEAN /\ alive \in BOOLEAN
        /\ cleaned \in BOOLEAN /\ expired \in BOOLEAN
    BY DEF Init
  <2> QED BY <1>1, <2>1, <2>2 DEF TypeOK
<1>3. AssertionFollowsTokens
  BY DEF Init, AssertionFollowsTokens, AssertionState, None
<1> QED BY <1>2, <1>3

LEMMA NextBasics ==
  TypeOK /\ AssertionFollowsTokens /\ [Next]_vars => TypeOK' /\ AssertionFollowsTokens'
<1> SUFFICES ASSUME TypeOK, AssertionFollowsTokens, [Next]_vars
             PROVE  TypeOK' /\ AssertionFollowsTokens'
  OBVIOUS
<1> USE DEF None
<1>1. CASE Tokens
  <2>0. /\ foregroundCount' \in Nat /\ backgroundCount' \in Nat
        /\ UpdateAssertion /\ UNCHANGED <<toUI, process, expired>>
    BY <1>1, TokenStep
  <2>1. CASE Prepare
    <3>1. toWeb' \in Seq(Messages)
      BY <2>1, SendType DEF Prepare, Messages
    <3>2. TypeOK'
      BY <2>0, <2>1, <3>1 DEF Prepare, TypeOK, Messages, process
    <3>3. AssertionFollowsTokens'
      BY <2>1 DEF Prepare, AssertionFollowsTokens, AssertionState
    <3> QED BY <3>2, <3>3
  <2>2. CASE Update
    <3>1. toWeb' \in Seq(Messages)
      BY <2>2, SendType DEF Update, Messages, TypeOK
    <3>2. /\ suspendTimer' = FALSE /\ UNCHANGED suspendMessageCount
          /\ assertion' \in {None, AssertionState(foregroundCount', backgroundCount')}
      BY <2>2 DEF Update, UpdateAssertionNow
    <3>3. TypeOK'
      BY <2>0, <3>1, <3>2, AssertionStates DEF TypeOK, Messages, process
    <3>4. AssertionFollowsTokens'
      BY <3>2 DEF AssertionFollowsTokens
    <3> QED BY <3>3, <3>4
  <2> QED BY <2>0, <2>1, <2>2 DEF UpdateAssertion
<1>2. CASE DidConnectToProcess \/ SuspendTimerFired
  <2>1. /\ suspendTimer' = FALSE
        /\ UNCHANGED <<foregroundCount, backgroundCount, suspendMessageCount, toWeb, toUI,
                       process>>
        /\ expired' \in {TRUE, expired}
        /\ assertion' \in {None, AssertionState(foregroundCount, backgroundCount)}
    BY <1>2 DEF DidConnectToProcess, SuspendTimerFired, UpdateAssertionNow
  <2>2. TypeOK'
    BY <2>1, AssertionStates DEF TypeOK, process
  <2>3. AssertionFollowsTokens'
    BY <2>1 DEF AssertionFollowsTokens
  <2> QED BY <2>2, <2>3
<1>3. CASE ReceiveAnswer
  <2>1. /\ UNCHANGED <<foregroundCount, backgroundCount, toWeb, process, expired>>
        /\ suspendMessageCount' = suspendMessageCount - 1
        /\ toUI # <<>> /\ toUI' = Tail(toUI)
        /\ \/ UNCHANGED <<suspendTimer, assertion>>
           \/ /\ suspendTimer' = FALSE
              /\ assertion' \in {None, AssertionState(foregroundCount, backgroundCount)}
    BY <1>3 DEF ReceiveAnswer, Answered, UpdateAssertionNow
  <2>2. toUI' \in Seq({"Ready", "DidCancel"})
    BY <2>1, SequenceTypes DEF TypeOK
  <2>3. TypeOK'
    <3>1. AssertionState(foregroundCount, backgroundCount)
            \in {"Foreground", "Background", "Suspended"}
      BY AssertionStates DEF TypeOK
    <3>2. suspendTimer' \in BOOLEAN
      BY <2>1 DEF TypeOK
    <3>4. suspendMessageCount' \in Int
      BY <2>1 DEF TypeOK
    <3>3. assertion' \in {None, "Suspended", "Background", "Foreground"}
      BY <2>1, <3>1 DEF TypeOK
    <3> QED BY <2>1, <2>2, <3>2, <3>3, <3>4 DEF TypeOK, process
  <2>4. AssertionFollowsTokens'
    BY <2>1 DEF AssertionFollowsTokens
  <2> QED BY <2>3, <2>4
<1>4. CASE ProcessWillSuspend \/ CancelProcessWillSuspend \/ CleanupFinished \/ Crash
  <2>1. /\ UNCHANGED throttler /\ expired' = expired
        /\ alive' \in BOOLEAN /\ cleanupTimer' \in BOOLEAN /\ cleaned' \in BOOLEAN
    BY <1>4 DEF ProcessWillSuspend, WillSuspendSucceeds, WillSuspendTries, TypeOK,
                CancelProcessWillSuspend, CleanupFinished, Crash
  <2>2. toWeb' \in Seq(Messages)
    <3>1. toWeb' \in {toWeb, <<>>} \/ (toWeb # <<>> /\ toWeb' = Tail(toWeb))
      BY <1>4 DEF ProcessWillSuspend, CancelProcessWillSuspend, CleanupFinished, Crash
    <3> QED BY <3>1, SequenceTypes DEF TypeOK, Messages
  <2>3. toUI' \in Seq({"Ready", "DidCancel"})
    <3>1. toUI' \in {toUI, Append(toUI, "Ready"), Append(toUI, "DidCancel")}
      BY <1>4 DEF ProcessWillSuspend, WillSuspendSucceeds, WillSuspendTries,
                  CancelProcessWillSuspend, CleanupFinished, Crash
    <3> QED BY <3>1, SequenceTypes DEF TypeOK
  <2>4. TypeOK'
    BY <2>1, <2>2, <2>3 DEF TypeOK, throttler, Messages
  <2>5. AssertionFollowsTokens'
    BY <2>1 DEF AssertionFollowsTokens, throttler
  <2> QED BY <2>4, <2>5
<1>5. CASE UNCHANGED vars
  BY <1>5 DEF vars, throttler, process, TypeOK, AssertionFollowsTokens
<1> QED BY <1>1, <1>2, <1>3, <1>4, <1>5 DEF Next

\* Every reachable state is well typed.
THEOREM ThrottlerTypes == Spec => []TypeOK
  BY InitBasics, NextBasics, PTL DEF Spec

\* The assertion never lags behind the tokens, and the timeout runs only while the
\* process is not needed, however answers and tokens cross.
THEOREM AssertionAlwaysFollows == Spec => []AssertionFollowsTokens
  BY InitBasics, NextBasics, PTL DEF Spec
-----------------------------------------------------------------------------
(* Counting answers.                                                       *)

\* What the queues hold is counted in natural numbers.
LEMMA OwedType ==
  ASSUME TypeOK
  PROVE  /\ Requests(toWeb) \in Nat /\ Len(toUI) \in Nat
         /\ (toUI = <<>>) = (Len(toUI) = 0)
         /\ suspendMessageCount \in Int
         /\ Owed = Requests(toWeb) + (IF cleanupTimer THEN 1 ELSE 0) + Len(toUI)
<1>1. toWeb \in Seq(Messages)
  BY DEF TypeOK, Messages
<1>2. Requests(toWeb) \in Nat
  BY <1>1, FinitelyManyPlaces
<1>3. Len(toUI) \in Nat /\ (toUI = <<>>) = (Len(toUI) = 0)
  BY DEF TypeOK
<1> QED BY <1>2, <1>3 DEF Owed, TypeOK

\* The last message of a queue that lost its first.
LEMMA LastOfTail ==
  ASSUME NEW S, NEW q \in Seq(S), q # <<>>
  PROVE  /\ Tail(q) # <<>> => Tail(q)[Len(Tail(q))] = q[Len(q)]
         /\ Tail(q) = <<>> => q[Len(q)] = Head(q)
         /\ Head(q) = q[1] /\ Head(q) \in S
<1>1. Len(Tail(q)) = Len(q) - 1 /\ Len(q) \in Nat \ {0} /\ Head(q) = q[1] /\ q[1] \in S
  OBVIOUS
<1>2. \A i \in 1..(Len(q) - 1) : Tail(q)[i] = q[i + 1]
  OBVIOUS
<1>3. Tail(q) \in Seq(S)
  OBVIOUS
<1>4. \A s \in Seq(S) : (s = <<>>) = (Len(s) = 0)
  OBVIOUS
<1>5. (Tail(q) = <<>>) = (Len(q) = 1)
  <2> DEFINE t == Tail(q)
  <2>1. t \in Seq(S) /\ Len(t) = Len(q) - 1
    BY <1>1, <1>3
  <2> HIDE DEF t
  <2>2. (t = <<>>) = (Len(t) = 0)
    BY <1>4, <2>1
  <2>3. (Len(t) = 0) = (Len(q) = 1)
    BY <1>1, <2>1
  <2> QED BY <2>2, <2>3 DEF t
<1>6. Len(q) # 1 => Tail(q)[Len(q) - 1] = q[Len(q)]
  <2>1. Len(q) # 1 => Len(q) - 1 \in 1..(Len(q) - 1) /\ Len(q) - 1 + 1 = Len(q)
    BY <1>1
  <2> QED BY <1>2, <2>1
<1> QED BY <1>1, <1>5, <1>6

LEMMA LastOfAppend ==
  ASSUME NEW S, NEW q \in Seq(S), NEW m \in S
  PROVE  /\ Append(q, m) # <<>> /\ Append(q, m)[Len(Append(q, m))] = m
         /\ Len(Append(q, m)) = Len(q) + 1
         /\ Head(Append(q, m)) = IF q = <<>> THEN m ELSE Head(q)
  OBVIOUS

LEMMA InitCounted == Init => Counted /\ Alternate
<1> SUFFICES ASSUME Init PROVE Counted /\ Alternate
  OBVIOUS
<1>1. Owed = 0
  BY NoRequests DEF Init, Owed
<1>2. toWeb = <<>> /\ ~cleanupTimer /\ ~suspendTimer /\ suspendMessageCount = 0 /\ alive
  BY DEF Init
<1> QED BY <1>1, <1>2 DEF Counted, Alternate

\* Each request that the process takes or that the UI process hears of is one answer less.
LEMMA NextCounted ==
  TypeOK /\ Counted /\ [Next]_vars /\ TypeOK' => Counted'
<1> SUFFICES ASSUME TypeOK, Counted, [Next]_vars, TypeOK' PROVE Counted'
  OBVIOUS
<1>0. /\ toWeb \in Seq(Messages)
      /\ Requests(toWeb) \in Nat /\ Len(toUI) \in Nat /\ suspendMessageCount \in Int
      /\ Owed = Requests(toWeb) + (IF cleanupTimer THEN 1 ELSE 0) + Len(toUI)
      /\ suspendMessageCount >= Owed
  BY OwedType DEF Counted, TypeOK, Messages
<1>00. Owed' = Requests(toWeb') + (IF cleanupTimer' THEN 1 ELSE 0) + Len(toUI')
  BY DEF Owed
<1>02. /\ Requests(toWeb) \in Nat /\ Len(toUI) \in Nat /\ suspendMessageCount \in Int
       /\ Owed = Requests(toWeb) + (IF cleanupTimer THEN 1 ELSE 0) + Len(toUI)
  BY <1>0
<1>1. CASE Tokens
  <2>0. UpdateAssertion /\ UNCHANGED <<toUI, process, expired>>
    BY <1>1, TokenStep
  <2>1. CASE Prepare
    <3>1. suspendMessageCount' = suspendMessageCount + 1
      BY <2>1 DEF Prepare
    <3>2. CASE alive
      <4>1. toWeb' = Append(toWeb, "WillSuspend")
        BY <2>1, <3>2 DEF Prepare, Send
      <4>2. /\ Requests(toWeb') = Requests(toWeb) + 1
            /\ toWeb' # <<>> /\ toWeb'[Len(toWeb')] = "WillSuspend"
        BY <1>0, <4>1, RequestsOfAppend, LastOfAppend DEF Messages
      <4>3. Owed' = Owed + 1
        BY <1>0, <1>00, <2>0, <4>2 DEF process
      <4>4. suspendMessageCount' >= Owed'
        BY <1>0, <3>1, <4>3
      <4> QED BY <2>0, <3>2, <4>2, <4>4 DEF Counted, Stuck, process
    <3>3. CASE ~alive
      <4>1. toWeb' = toWeb
        BY <2>1, <3>3 DEF Prepare, Send
      <4>2. Owed' = Owed
        BY <1>0, <1>00, <2>0, <4>1 DEF process
      <4>3. suspendMessageCount' > Owed'
        BY <1>0, <3>1, <4>2
      <4>4. suspendMessageCount' >= Owed'
        BY <1>0, <3>1, <4>2
      <4> QED BY <2>0, <3>3, <4>1, <4>3, <4>4 DEF Counted, process
    <3> QED BY <3>2, <3>3
  <2>2. CASE Update
    <3>1. UNCHANGED suspendMessageCount /\ ~suspendTimer'
      BY <2>2 DEF Update, UpdateAssertionNow
    <3>2. toWeb' = toWeb \/ (alive /\ toWeb' = Append(toWeb, "Cancel"))
      BY <2>2 DEF Update, Send
    <3>3. Requests(toWeb') = Requests(toWeb)
      <4>1. CASE toWeb' = toWeb
        BY <4>1
      <4>2. CASE toWeb' = Append(toWeb, "Cancel")
        <5>1. Requests(Append(toWeb, "Cancel")) = Requests(toWeb) + 0
          BY <1>0, RequestsOfAppend DEF Messages
        <5> QED BY <1>0, <4>2, <5>1
      <4> QED BY <3>2, <4>1, <4>2
    <3>4. Owed' = Owed
      BY <1>0, <1>00, <2>0, <3>3 DEF process
    <3> QED BY <1>0, <2>0, <3>1, <3>2, <3>4 DEF Counted, process
  <2> QED BY <2>0, <2>1, <2>2 DEF UpdateAssertion
<1>2. CASE DidConnectToProcess \/ SuspendTimerFired
  <2>1. /\ ~suspendTimer'
        /\ UNCHANGED <<suspendMessageCount, toWeb, toUI, process>>
    BY <1>2 DEF DidConnectToProcess, SuspendTimerFired, UpdateAssertionNow
  <2> QED BY <1>0, <1>00, <2>1 DEF Counted, process
<1>3. CASE ReceiveAnswer
  <2>1. /\ UNCHANGED <<toWeb, process>>
        /\ suspendMessageCount' = suspendMessageCount - 1
        /\ toUI # <<>> /\ toUI' = Tail(toUI)
        /\ suspendTimer' => suspendTimer
    BY <1>3 DEF ReceiveAnswer, Answered, UpdateAssertionNow
  <2>2. Len(toUI') = Len(toUI) - 1
    BY <2>1 DEF TypeOK
  <2>20. Requests(toWeb') = Requests(toWeb) /\ cleanupTimer' = cleanupTimer
    BY <2>1 DEF process
  <2>3. Owed' = Owed - 1 /\ Owed \in Int
    BY <1>0, <1>00, <2>2, <2>20
  <2>4. suspendMessageCount' >= Owed'
    BY <1>0, <2>1, <2>3
  <2>5. suspendMessageCount > Owed => suspendMessageCount' > Owed'
    BY <1>0, <2>1, <2>3
  <2> QED BY <2>1, <2>4, <2>5 DEF Counted, Stuck, process
<1>4. CASE ProcessWillSuspend
  <2>1. /\ UNCHANGED <<suspendMessageCount, suspendTimer, alive>>
        /\ toWeb # <<>> /\ Head(toWeb) = "WillSuspend" /\ toWeb' = Tail(toWeb)
    BY <1>4 DEF ProcessWillSuspend, throttler
  <2>2. alive
    BY <2>1 DEF Counted
  <2>3. Requests(toWeb) = Requests(toWeb') + 1
    BY <1>0, <2>1, RequestsOfTail
  <2>4. \/ toUI' = Append(toUI, "Ready") /\ cleaned' /\ cleanupTimer' = cleanupTimer
        \/ cleanupTimer' /\ toUI' = toUI
    BY <1>4 DEF ProcessWillSuspend, WillSuspendSucceeds, WillSuspendTries
  <2>5. toUI' = Append(toUI, "Ready") => Len(toUI') = Len(toUI) + 1
    BY DEF TypeOK
  <2>6. Requests(toWeb') \in Nat
    BY <1>0, <2>1, SequenceTypes, FinitelyManyPlaces
  <2>7. Owed' <= Owed /\ Owed' \in Int /\ Owed \in Int
    <3>1. CASE toUI' = Append(toUI, "Ready") /\ cleanupTimer' = cleanupTimer
      <4>1. Len(toUI') = Len(toUI) + 1
        BY <2>5, <3>1
      <4>2. (IF cleanupTimer' THEN 1 ELSE 0) = (IF cleanupTimer THEN 1 ELSE 0)
        BY <3>1
      <4> QED BY <1>02, <1>00, <2>3, <2>6, <4>1, <4>2
    <3>2. CASE cleanupTimer' /\ toUI' = toUI
      BY <1>02, <1>00, <2>3, <2>6, <3>2
    <3> QED BY <2>4, <3>1, <3>2
  <2>8. suspendMessageCount' >= Owed'
    BY <1>0, <2>1, <2>7
  <2>9. ~Stuck'
    BY <2>4 DEF Stuck
  <2>10. suspendTimer' /\ toWeb' # <<>> => toWeb'[Len(toWeb')] = "WillSuspend"
    BY <1>0, <2>1, LastOfTail DEF Counted
  <2> QED BY <2>1, <2>2, <2>8, <2>9, <2>10 DEF Counted
<1>5. CASE CancelProcessWillSuspend
  <2>1. /\ UNCHANGED <<suspendMessageCount, suspendTimer, alive>>
        /\ toWeb # <<>> /\ Head(toWeb) = "Cancel" /\ toWeb' = Tail(toWeb)
        /\ ~cleanupTimer'
        /\ toUI' = IF cleanupTimer THEN Append(toUI, "DidCancel") ELSE toUI
    BY <1>5 DEF CancelProcessWillSuspend, throttler
  <2>2. alive
    BY <2>1 DEF Counted
  <2>3. Requests(toWeb) = Requests(toWeb') + 0 /\ Requests(toWeb') \in Nat
    BY <1>0, <2>1, RequestsOfTail, SequenceTypes, FinitelyManyPlaces
  <2>4. Len(toUI') = Len(toUI) + (IF cleanupTimer THEN 1 ELSE 0)
    BY <2>1 DEF TypeOK
  <2>5. Owed' = Owed
    BY <1>0, <1>00, <2>1, <2>3, <2>4
  <2>6. suspendTimer' /\ toWeb' # <<>> => toWeb'[Len(toWeb')] = "WillSuspend"
    BY <1>0, <2>1, LastOfTail DEF Counted
  <2>7. suspendTimer => toWeb' # <<>>
    <3>1. toWeb' = <<>> => toWeb[Len(toWeb)] = "Cancel"
      BY <1>0, <2>1, LastOfTail
    <3> QED BY <2>1, <3>1 DEF Counted
  <2> QED BY <1>0, <2>1, <2>2, <2>5, <2>6, <2>7 DEF Counted, Stuck
<1>6. CASE CleanupFinished
  <2>1. /\ UNCHANGED <<suspendMessageCount, suspendTimer, toWeb, alive>>
        /\ cleanupTimer /\ ~cleanupTimer' /\ cleaned'
        /\ toUI' = Append(toUI, "Ready")
    BY <1>6 DEF CleanupFinished, throttler
  <2>2. Len(toUI') = Len(toUI) + 1
    BY <2>1 DEF TypeOK
  <2>3. Owed' = Owed
    BY <1>0, <1>00, <2>1, <2>2
  <2> QED BY <1>0, <2>1, <2>3 DEF Counted, Stuck
<1>7. CASE Crash
  <2>1. /\ UNCHANGED <<suspendMessageCount, suspendTimer, toUI, cleaned>>
        /\ toWeb' = <<>> /\ ~cleanupTimer'
    BY <1>7 DEF Crash, throttler
  <2>2. Owed' = Len(toUI)
    BY <1>0, <1>00, <2>1, NoRequests
  <2>3. suspendMessageCount' >= Owed'
    BY <1>0, <2>1, <2>2
  <2>4. ASSUME suspendTimer, Stuck' PROVE suspendMessageCount' > Owed'
    <3>1. CASE toWeb # <<>>
      <4>1. Requests(toWeb) >= 1
        BY <1>0, <2>4, <3>1, LastRequest DEF Counted
      <4> QED BY <1>0, <2>1, <2>2, <4>1
    <3>2. CASE cleanupTimer
      BY <1>0, <2>1, <2>2, <3>2
    <3>3. CASE toWeb = <<>> /\ ~cleanupTimer
      <4>1. suspendMessageCount > Owed
        BY <2>1, <2>4, <3>3 DEF Counted, Stuck
      <4> QED BY <1>0, <2>1, <2>2, <3>3, <4>1
    <3> QED BY <3>1, <3>2, <3>3
  <2> QED BY <2>1, <2>3, <2>4 DEF Counted
<1>8. CASE UNCHANGED vars
  BY <1>8 DEF vars, throttler, process, Counted, Stuck, Owed
<1> QED BY <1>1, <1>2, <1>3, <1>4, <1>5, <1>6, <1>7, <1>8 DEF Next

\* Taking from the front and appending at the end keep the alternation.
LEMMA AlternationKept ==
  ASSUME NEW q \in Seq(Messages), \A i \in 1..(Len(q) - 1) : q[i] # q[i + 1]
  PROVE  /\ q # <<>> => \A i \in 1..(Len(Tail(q)) - 1) : Tail(q)[i] # Tail(q)[i + 1]
         /\ q # <<>> /\ Tail(q) # <<>> => Head(Tail(q)) # Head(q)
         /\ \A m \in Messages : (q # <<>> => q[Len(q)] # m) =>
              LET r == Append(q, m) IN \A i \in 1..(Len(r) - 1) : r[i] # r[i + 1]
<1>0. Len(q) \in Nat /\ (q = <<>>) = (Len(q) = 0)
  OBVIOUS
<1>1. ASSUME q # <<>>
      PROVE  \A i \in 1..(Len(Tail(q)) - 1) : Tail(q)[i] # Tail(q)[i + 1]
  <2>1. Len(Tail(q)) = Len(q) - 1
    BY <1>1
  <2>2. \A i \in 1..(Len(q) - 1) : Tail(q)[i] = q[i + 1]
    BY <1>1
  <2> DEFINE t == Tail(q)
  <2> HIDE DEF t
  <2>3. \A i \in 1..(Len(q) - 2) : t[i] # t[i + 1]
    BY <1>0, <1>1, <2>2 DEF t
  <2> QED BY <1>0, <2>1, <2>3 DEF t
<1>2. ASSUME q # <<>>, Tail(q) # <<>> PROVE Head(Tail(q)) # Head(q)
  <2>1. Tail(q) \in Seq(Messages) /\ Len(Tail(q)) = Len(q) - 1
    BY <1>2
  <2>2. Len(q) - 1 # 0
    BY <1>2, <2>1
  <2>3. Head(Tail(q)) = q[2] /\ Head(q) = q[1]
    BY <1>0, <1>2, <2>2
  <2>4. 1 \in 1..(Len(q) - 1)
    BY <1>0, <1>2, <2>2
  <2>5. q[1] # q[2]
    <3>1. q[1] # q[1 + 1]
      BY <2>4
    <3> QED BY <3>1
  <2> QED BY <2>3, <2>5
<1>3. ASSUME NEW m \in Messages, q # <<>> => q[Len(q)] # m,
             NEW i \in 1..(Len(Append(q, m)) - 1)
      PROVE  Append(q, m)[i] # Append(q, m)[i + 1]
  <2>1. i \in 1..Len(q) /\ Append(q, m)[i] = q[i]
    BY <1>0, <1>3
  <2>2. CASE i = Len(q)
    <3>1. Append(q, m)[i + 1] = m
      BY <1>0, <2>2
    <3> QED BY <1>0, <1>3, <2>1, <2>2, <3>1
  <2>3. CASE i # Len(q)
    <3>1. i \in 1..(Len(q) - 1)
      BY <1>0, <2>1, <2>3
    <3>2. Append(q, m)[i + 1] = q[i + 1]
      BY <1>0, <3>1
    <3> QED BY <2>1, <3>1, <3>2
  <2> QED BY <2>2, <2>3
<1> QED BY <1>1, <1>2, <1>3

\* A request is sent only when no preparation is going on, and a preparation is left
\* only for a process that is needed.
LEMMA PreparationEnds ==
  ASSUME TypeOK, AssertionFollowsTokens, Tokens, suspendTimer
  PROVE  Needed
<1>1. AssertionState(foregroundCount, backgroundCount) = "Suspended"
  BY DEF AssertionFollowsTokens
<1>2. foregroundCount + backgroundCount = 0
  BY <1>1 DEF AssertionState, TypeOK
<1> QED BY <1>2, TokenStep

\* A request is sent only when the last was answered or withdrawn.
LEMMA NextAlternate ==
  TypeOK /\ AssertionFollowsTokens /\ Counted /\ Alternate /\ [Next]_vars /\ TypeOK'
    => Alternate'
<1> SUFFICES ASSUME TypeOK, AssertionFollowsTokens, Counted, Alternate, [Next]_vars, TypeOK',
                    alive', ~expired'
             PROVE  /\ suspendMessageCount' = Owed'
                    /\ cleanupTimer' /\ toWeb' # <<>> => Head(toWeb') = "Cancel"
                    /\ \A i \in 1..(Len(toWeb') - 1) : toWeb'[i] # toWeb'[i + 1]
                    /\ ~suspendTimer' /\ toWeb' # <<>> => toWeb'[Len(toWeb')] = "Cancel"
                    /\ ~suspendTimer' /\ toWeb' = <<>> => ~cleanupTimer'
  BY DEF Alternate
<1>0. /\ toWeb \in Seq(Messages)
      /\ Requests(toWeb) \in Nat /\ Len(toUI) \in Nat /\ suspendMessageCount \in Int
      /\ Owed = Requests(toWeb) + (IF cleanupTimer THEN 1 ELSE 0) + Len(toUI)
  BY OwedType DEF TypeOK, Messages
<1>00. Owed' = Requests(toWeb') + (IF cleanupTimer' THEN 1 ELSE 0) + Len(toUI')
  BY DEF Owed
<1>02. /\ Requests(toWeb) \in Nat /\ Len(toUI) \in Nat /\ suspendMessageCount \in Int
       /\ Owed = Requests(toWeb) + (IF cleanupTimer THEN 1 ELSE 0) + Len(toUI)
  BY <1>0
<1>01. /\ suspendTimer /\ toWeb # <<>> => toWeb[Len(toWeb)] = "WillSuspend"
       /\ "WillSuspend" \in Messages /\ "Cancel" \in Messages
  BY DEF Counted, Messages
<1>1. CASE Tokens
  <2>0. UpdateAssertion /\ UNCHANGED <<toUI, process, expired>>
    BY <1>1, TokenStep
  <2>00. alive /\ ~expired /\ UNCHANGED <<toUI, cleanupTimer>>
    BY <2>0 DEF process
  <2>01. /\ suspendMessageCount = Owed
         /\ cleanupTimer /\ toWeb # <<>> => Head(toWeb) = "Cancel"
         /\ \A i \in 1..(Len(toWeb) - 1) : toWeb[i] # toWeb[i + 1]
         /\ ~suspendTimer /\ toWeb # <<>> => toWeb[Len(toWeb)] = "Cancel"
         /\ ~suspendTimer /\ toWeb = <<>> => ~cleanupTimer
    BY <2>00 DEF Alternate
  <2>1. CASE Prepare
    <3>1. /\ suspendMessageCount' = suspendMessageCount + 1 /\ suspendTimer'
          /\ toWeb' = Append(toWeb, "WillSuspend")
      BY <2>00, <2>1 DEF Prepare, Send
    <3>2. ~suspendTimer
      <4>1. ~Needed
        BY <2>1 DEF Prepare, Needed
      <4> QED BY <1>1, <4>1, PreparationEnds
    <3>3. Requests(toWeb') = Requests(toWeb) + 1
      BY <1>0, <1>01, <3>1, RequestsOfAppend
    <3>4. suspendMessageCount' = Owed'
      <4>1. Len(toUI') = Len(toUI) /\ cleanupTimer' = cleanupTimer
        BY <2>00
      <4>2. Owed' = Owed + 1
        BY <1>02, <1>00, <3>3, <4>1
      <4>3. suspendMessageCount' = suspendMessageCount + 1 /\ suspendMessageCount = Owed
        BY <2>01, <3>1
      <4> QED BY <4>2, <4>3
    <3>5. \A i \in 1..(Len(toWeb') - 1) : toWeb'[i] # toWeb'[i + 1]
      BY <1>0, <1>01, <2>01, <3>1, <3>2, AlternationKept
    <3>6. cleanupTimer' => Head(toWeb') = "Cancel"
      BY <1>0, <1>01, <2>00, <2>01, <3>1, <3>2, LastOfAppend
    <3> QED BY <3>1, <3>4, <3>5, <3>6
  <2>2. CASE Update
    <3>1. /\ suspendMessageCount' = suspendMessageCount /\ ~suspendTimer'
          /\ IF suspendTimer /\ Needed THEN toWeb' = Append(toWeb, "Cancel")
             ELSE toWeb' = toWeb
      BY <2>00, <2>2 DEF Update, UpdateAssertionNow, Send
    <3>2. CASE suspendTimer
      <4>1. toWeb' = Append(toWeb, "Cancel")
        BY <1>1, <3>1, <3>2, PreparationEnds
      <4>2. Requests(toWeb') = Requests(toWeb) + 0
        BY <1>0, <1>01, <4>1, RequestsOfAppend
      <4>3. suspendMessageCount' = Owed'
        BY <1>0, <1>00, <2>00, <2>01, <3>1, <4>2
      <4>4. \A i \in 1..(Len(toWeb') - 1) : toWeb'[i] # toWeb'[i + 1]
        BY <1>0, <1>01, <2>01, <3>2, <4>1, AlternationKept
      <4>5. /\ cleanupTimer' => Head(toWeb') = "Cancel"
            /\ toWeb' # <<>> /\ toWeb'[Len(toWeb')] = "Cancel"
        BY <1>0, <1>01, <2>00, <2>01, <4>1, LastOfAppend
      <4> QED BY <4>3, <4>4, <4>5
    <3>3. CASE ~suspendTimer
      <4>1. toWeb' = toWeb
        BY <3>1, <3>3
      <4>2. Owed' = Owed
        BY <1>0, <1>00, <2>00, <4>1
      <4> QED BY <2>00, <2>01, <3>1, <3>3, <4>1, <4>2
    <3> QED BY <3>2, <3>3
  <2> QED BY <2>0, <2>1, <2>2 DEF UpdateAssertion
<1>2. CASE DidConnectToProcess
  <2>1. /\ UNCHANGED <<suspendMessageCount, toWeb, toUI, process, expired>>
        /\ assertion = None
    BY <1>2 DEF DidConnectToProcess
  <2>2. ~suspendTimer
    BY <2>1 DEF AssertionFollowsTokens, None
  <2> QED BY <2>1, <2>2, <1>0, <1>00 DEF Alternate, process
<1>3. CASE SuspendTimerFired
  BY <1>3 DEF SuspendTimerFired
<1>4. CASE ReceiveAnswer
  <2>1. /\ UNCHANGED <<toWeb, process, expired>>
        /\ suspendMessageCount' = suspendMessageCount - 1
        /\ toUI # <<>> /\ toUI' = Tail(toUI)
        /\ suspendMessageCount' # 0 => UNCHANGED suspendTimer
    BY <1>4 DEF ReceiveAnswer, Answered
  <2>2. Len(toUI') = Len(toUI) - 1 /\ Len(toUI') \in Nat
    BY <2>1 DEF TypeOK
  <2>3. alive /\ ~expired /\ toWeb' = toWeb /\ cleanupTimer' = cleanupTimer
    BY <2>1 DEF process
  <2>4. suspendMessageCount' = Owed'
    BY <1>0, <1>00, <2>1, <2>2, <2>3 DEF Alternate
  <2>5. CASE suspendMessageCount' # 0
    BY <2>1, <2>3, <2>4, <2>5 DEF Alternate
  <2>6. CASE suspendMessageCount' = 0
    <3>1. Requests(toWeb) = 0 /\ ~cleanupTimer
      BY <1>0, <1>00, <2>2, <2>3, <2>4, <2>6
    <3>2. toWeb # <<>> => toWeb[Len(toWeb)] = "Cancel"
      BY <1>0, <3>1, LastRequest
    <3> QED BY <2>3, <2>4, <3>1, <3>2 DEF Alternate
  <2> QED BY <2>5, <2>6
<1>5. CASE ProcessWillSuspend
  <2>1. /\ UNCHANGED <<suspendMessageCount, suspendTimer, alive, expired>>
        /\ toWeb # <<>> /\ Head(toWeb) = "WillSuspend" /\ toWeb' = Tail(toWeb)
        /\ \/ toUI' = Append(toUI, "Ready") /\ cleanupTimer' = cleanupTimer
           \/ cleanupTimer' = TRUE /\ toUI' = toUI
    BY <1>5 DEF ProcessWillSuspend, WillSuspendSucceeds, WillSuspendTries, throttler
  <2>2. Requests(toWeb) = Requests(toWeb') + 1 /\ Requests(toWeb') \in Nat
    BY <1>0, <2>1, RequestsOfTail, SequenceTypes, FinitelyManyPlaces
  <2>3. toUI' = Append(toUI, "Ready") => Len(toUI') = Len(toUI) + 1
    BY DEF TypeOK
  <2>4. ~cleanupTimer /\ suspendMessageCount = Owed
    BY <2>1 DEF Alternate
  <2>5. suspendMessageCount' = Owed'
    BY <1>0, <1>00, <2>1, <2>2, <2>3, <2>4
  <2>6. \A i \in 1..(Len(toWeb) - 1) : toWeb[i] # toWeb[i + 1]
    BY <2>1 DEF Alternate
  <2>7. /\ \A i \in 1..(Len(toWeb') - 1) : toWeb'[i] # toWeb'[i + 1]
        /\ toWeb' # <<>> => Head(toWeb') # "WillSuspend"
    BY <1>0, <2>1, <2>6, AlternationKept
  <2>8. toWeb' # <<>> => Head(toWeb') = "Cancel"
    <3>1. toWeb' \in Seq(Messages)
      BY <1>0, <2>1, SequenceTypes
    <3>2. toWeb' # <<>> => Head(toWeb') \in Messages
      BY <3>1
    <3> QED BY <2>7, <3>2 DEF Messages
  <2>9. ~suspendTimer => toWeb[Len(toWeb)] = "Cancel"
    BY <2>1 DEF Alternate
  <2>10. /\ toWeb' # <<>> => toWeb'[Len(toWeb')] = toWeb[Len(toWeb)]
         /\ toWeb' = <<>> => toWeb[Len(toWeb)] = "WillSuspend"
    BY <1>0, <2>1, LastOfTail
  <2>11. /\ ~suspendTimer' /\ toWeb' # <<>> => toWeb'[Len(toWeb')] = "Cancel"
         /\ ~suspendTimer' => toWeb' # <<>>
    BY <2>1, <2>9, <2>10
  <2> QED BY <2>5, <2>7, <2>8, <2>11
<1>6. CASE CancelProcessWillSuspend
  <2>1. /\ UNCHANGED <<suspendMessageCount, suspendTimer, alive, expired>>
        /\ toWeb # <<>> /\ Head(toWeb) = "Cancel" /\ toWeb' = Tail(toWeb)
        /\ ~cleanupTimer'
        /\ toUI' = IF cleanupTimer THEN Append(toUI, "DidCancel") ELSE toUI
    BY <1>6 DEF CancelProcessWillSuspend, throttler
  <2>2. Requests(toWeb) = Requests(toWeb') + 0 /\ Requests(toWeb') \in Nat
    BY <1>0, <2>1, RequestsOfTail, SequenceTypes, FinitelyManyPlaces
  <2>3. Len(toUI') = Len(toUI) + (IF cleanupTimer THEN 1 ELSE 0)
    BY <2>1 DEF TypeOK
  <2>4. suspendMessageCount' = Owed'
    BY <1>0, <1>00, <2>1, <2>2, <2>3 DEF Alternate
  <2>5. \A i \in 1..(Len(toWeb) - 1) : toWeb[i] # toWeb[i + 1]
    BY <2>1 DEF Alternate
  <2>6. \A i \in 1..(Len(toWeb') - 1) : toWeb'[i] # toWeb'[i + 1]
    BY <1>0, <2>1, <2>5, AlternationKept
  <2>7. ~suspendTimer => toWeb[Len(toWeb)] = "Cancel"
    BY <2>1 DEF Alternate
  <2>8. toWeb' # <<>> => toWeb'[Len(toWeb')] = toWeb[Len(toWeb)]
    BY <1>0, <2>1, LastOfTail
  <2> QED BY <2>1, <2>4, <2>6, <2>7, <2>8
<1>7. CASE CleanupFinished
  <2>1. /\ UNCHANGED <<suspendMessageCount, suspendTimer, toWeb, alive, expired>>
        /\ cleanupTimer /\ ~cleanupTimer' /\ toUI' = Append(toUI, "Ready")
    BY <1>7 DEF CleanupFinished, throttler
  <2>2. Len(toUI') = Len(toUI) + 1
    BY <2>1 DEF TypeOK
  <2>3. Owed' = Owed
    BY <1>0, <1>00, <2>1, <2>2
  <2> QED BY <2>1, <2>3 DEF Alternate
<1>8. CASE Crash
  BY <1>8 DEF Crash
<1>9. CASE UNCHANGED vars
  BY <1>9 DEF vars, throttler, process, Alternate, Owed
<1> QED BY <1>1, <1>2, <1>3, <1>4, <1>5, <1>6, <1>7, <1>8, <1>9 DEF Next

-----------------------------------------------------------------------------
(* Answers.                                                                *)

LEMMA AnswerStep ==
  ASSUME TypeOK, TypeOK', AssertionFollowsTokens, Counted, Counted', [Next]_vars,
         assertion # "Suspended", assertion' = "Suspended", toUI' # toUI
  PROVE  cleaned /\ toWeb = <<>> /\ ~cleanupTimer
<1>1. ReceiveAnswer
  <2>1. Tokens => UNCHANGED toUI
    BY TokenStep
  <2>2. DidConnectToProcess \/ SuspendTimerFired => UNCHANGED toUI
    BY DEF DidConnectToProcess, SuspendTimerFired
  <2>3. ProcessWillSuspend \/ CancelProcessWillSuspend \/ CleanupFinished \/ Crash
          => UNCHANGED assertion
    BY DEF ProcessWillSuspend, CancelProcessWillSuspend, CleanupFinished, Crash, throttler
  <2> QED BY <2>1, <2>2, <2>3 DEF Next, vars
<1>2. /\ UNCHANGED <<toWeb, process>> /\ toUI # <<>>
      /\ suspendMessageCount' = 0 /\ suspendMessageCount = 1
      /\ assertion # None
      /\ AssertionState(foregroundCount, backgroundCount) = "Suspended"
  BY <1>1 DEF ReceiveAnswer, Answered, UpdateAssertionNow, None, TypeOK
<1>3. suspendTimer
  BY <1>2 DEF AssertionFollowsTokens
<1>4. /\ Requests(toWeb) \in Nat /\ Len(toUI) \in Nat /\ Len(toUI) # 0
      /\ Owed = Requests(toWeb) + (IF cleanupTimer THEN 1 ELSE 0) + Len(toUI)
      /\ suspendMessageCount >= Owed
  BY <1>2, OwedType DEF Counted
<1>5. Requests(toWeb) = 0 /\ ~cleanupTimer /\ Owed = 1
  BY <1>2, <1>4
<1>6. toWeb = <<>>
  BY <1>3, <1>5, LastRequest DEF Counted, TypeOK, Messages
<1>7. ~Stuck
  BY <1>2, <1>3, <1>5 DEF Counted
<1> QED BY <1>5, <1>6, <1>7 DEF Stuck

IInv == TypeOK /\ AssertionFollowsTokens /\ Counted /\ Alternate

LEMMA Throttled == Spec => []IInv
<1>1. Init => IInv
  BY InitBasics, InitCounted DEF IInv
<1>2. IInv /\ [Next]_vars => IInv'
  BY NextBasics, NextCounted, NextAlternate DEF IInv
<1> QED BY <1>1, <1>2, PTL DEF Spec

\* The count never falls below the answers that are due, and equals them until a timeout
\* or a crash: the assertion of processReadyToSuspend cannot fail.
THEOREM AnswersAlwaysMatch == Spec => []AnswersMatchRequests
<1>1. IInv => AnswersMatchRequests
  BY DEF IInv, Counted, Alternate, AnswersMatchRequests
<1> QED BY <1>1, Throttled, PTL

\* An answer suspends only a process that has finished its last request.
THEOREM AnswerSuspends == Spec => AnswerSuspendsCleaned
<1>1. IInv /\ IInv' /\ [Next]_vars =>
        [assertion # "Suspended" /\ assertion' = "Suspended" /\ toUI' # toUI
           => cleaned /\ toWeb = <<>> /\ ~cleanupTimer]_vars
  BY AnswerStep DEF IInv
<1> QED BY <1>1, Throttled, PTL DEF Spec, AnswerSuspendsCleaned

-----------------------------------------------------------------------------
(* Refinement.                                                             *)

\* Each step of the throttler is a step of SuspendableProcess or leaves its phase alone.
LEMMA PhaseStep ==
  ASSUME TypeOK, AssertionFollowsTokens, AssertionFollowsTokens', [Next]_vars
  PROVE  [Abstract!Next]_Phase
<1> USE DEF None
<1>1. CASE Tokens
  <2>0. UpdateAssertion
    BY <1>1, TokenStep
  <2>1. CASE Prepare
    <3>1. ~suspendTimer
      <4>1. ~Needed
        BY <2>1 DEF Prepare, Needed
      <4> QED BY <1>1, <4>1, PreparationEnds
    <3>2. Phase = "Running" /\ Phase' = "Preparing"
      BY <2>1, <3>1 DEF Prepare, Phase
    <3> QED BY <3>2 DEF Abstract!Next, Abstract!Prepare
  <2>2. CASE Update
    <3>1. /\ ~suspendTimer'
          /\ assertion' = IF assertion = None THEN None
                          ELSE AssertionState(foregroundCount', backgroundCount')
          /\ assertion \in {None, "Suspended"} \/ Needed
      BY <2>2 DEF Update, UpdateAssertionNow
    <3>2. CASE assertion = None
      BY <3>1, <3>2 DEF Phase
    <3>3. CASE assertion = "Suspended"
      <4>1. Phase = "Suspended" /\ Phase' \in {"Running", "Suspended"}
        BY <3>1, <3>3, TokenStep, AssertionStates, <1>1 DEF Phase
      <4> QED BY <4>1 DEF Abstract!Next, Abstract!Resume
    <3>4. CASE assertion \notin {None, "Suspended"}
      <4>1. AssertionState(foregroundCount', backgroundCount') # "Suspended"
        BY <1>1, <3>1, <3>4, TokenStep DEF Needed, AssertionState
      <4>2. Phase \in {"Running", "Preparing"} /\ Phase' = "Running"
        BY <1>1, <3>1, <3>4, <4>1, TokenStep, AssertionStates DEF Phase
      <4> QED BY <4>2 DEF Abstract!Next, Abstract!Decide
    <3> QED BY <3>2, <3>3, <3>4
  <2> QED BY <2>0, <2>1, <2>2 DEF UpdateAssertion
<1>2. CASE DidConnectToProcess
  <2>1. Phase = "Launching" /\ Phase' \in {"Running", "Suspended"}
    BY <1>2, AssertionStates DEF DidConnectToProcess, Phase, TypeOK
  <2> QED BY <2>1 DEF Abstract!Next, Abstract!Launched
<1>3. CASE SuspendTimerFired
  <2>1. Phase = "Preparing" /\ Phase' \in {"Running", "Suspended"}
    BY <1>3, AssertionStates
    DEF SuspendTimerFired, UpdateAssertionNow, Phase, TypeOK, AssertionFollowsTokens
  <2> QED BY <2>1 DEF Abstract!Next, Abstract!Decide
<1>4. CASE ReceiveAnswer
  <2>1. /\ UNCHANGED <<foregroundCount, backgroundCount>>
        /\ \/ UNCHANGED <<suspendTimer, assertion>>
           \/ UpdateAssertionNow
    BY <1>4 DEF ReceiveAnswer, Answered
  <2>2. CASE UNCHANGED <<suspendTimer, assertion>>
    BY <2>2 DEF Phase
  <2>3. CASE UpdateAssertionNow
    <3>1. CASE suspendTimer
      <4>1. Phase = "Preparing" /\ Phase' \in {"Running", "Suspended"}
        BY <2>1, <2>3, <3>1, AssertionStates
        DEF UpdateAssertionNow, Phase, TypeOK, AssertionFollowsTokens
      <4> QED BY <4>1 DEF Abstract!Next, Abstract!Decide
    <3>2. CASE ~suspendTimer
      BY <2>1, <2>3, <3>2 DEF UpdateAssertionNow, Phase, AssertionFollowsTokens
    <3> QED BY <3>1, <3>2
  <2> QED BY <2>1, <2>2, <2>3
<1>5. CASE ProcessWillSuspend \/ CancelProcessWillSuspend \/ CleanupFinished \/ Crash
  <2>1. UNCHANGED <<suspendTimer, assertion>>
    BY <1>5 DEF ProcessWillSuspend, CancelProcessWillSuspend, CleanupFinished, Crash,
                throttler
  <2> QED BY <2>1 DEF Phase
<1>6. CASE UNCHANGED vars
  BY <1>6 DEF vars, throttler, Phase
<1> QED BY <1>1, <1>2, <1>3, <1>4, <1>5, <1>6 DEF Next

\* Whatever crosses, the process goes from running to suspended only through a
\* preparation: the throttler takes only the steps of SuspendableProcess.
THEOREM SuspendsByPreparing == Spec => Abstract!Spec
<1>1. Init => Abstract!Init
  BY DEF Init, Abstract!Init, Phase
<1>2. IInv /\ IInv' /\ [Next]_vars => [Abstract!Next]_Phase
  BY PhaseStep DEF IInv
<1> QED BY <1>1, <1>2, Throttled, PTL DEF Spec, Abstract!Spec

-----------------------------------------------------------------------------
(* NetworkProcess: counting in sequences.                                  *)

\* The places of x in s, whose number is Count(s, x).
PlacesOf(s, x) == {i \in DOMAIN s : s[i] = x}

LEMMA CountFinite ==
  ASSUME NEW S, NEW s \in Seq(S), NEW x
  PROVE  /\ IsFiniteSet(PlacesOf(s, x))
         /\ Count(s, x) = Cardinality(PlacesOf(s, x))
         /\ Count(s, x) \in Nat
<1>1. PlacesOf(s, x) \in SUBSET (1..Len(s)) /\ Len(s) \in Nat
  BY LenProperties DEF PlacesOf
<1>2. IsFiniteSet(PlacesOf(s, x))
  <2>1. IsFiniteSet(1..Len(s))
    BY <1>1, FS_Interval
  <2> QED BY <1>1, <2>1, FS_Subset
<1>3. Count(s, x) = Cardinality(PlacesOf(s, x))
  BY DEF Count, PlacesOf
<1> QED BY <1>2, <1>3, FS_CardinalityType

LEMMA CountNothing ==
  ASSUME NEW S, NEW s \in Seq(S), NEW x
  PROVE  /\ Count(s, x) = 0 <=> \A i \in 1..Len(s) : s[i] # x
         /\ Count(<<>>, x) = 0
<1>1. Count(s, x) = 0 <=> PlacesOf(s, x) = {}
  BY CountFinite, FS_EmptySet
<1>2. PlacesOf(s, x) = {} <=> \A i \in 1..Len(s) : s[i] # x
  BY LenProperties DEF PlacesOf
<1>3. PlacesOf(<<>>, x) = {}
  BY DEF PlacesOf
<1>4. Count(<<>>, x) = Cardinality({})
  BY <1>3 DEF Count, PlacesOf
<1> QED BY <1>1, <1>2, <1>4, FS_EmptySet

\* One more, or one less, at an end of a sequence.
LEMMA CountAppended ==
  ASSUME NEW S, NEW s \in Seq(S), NEW m \in S, NEW x
  PROVE  Count(Append(s, m), x) = Count(s, x) + (IF m = x THEN 1 ELSE 0)
<1> DEFINE r == Append(s, m)
           n == Len(s) + 1
<1>1. r \in Seq(S) /\ Len(s) \in Nat /\ DOMAIN r = 1..n /\ DOMAIN s = 1..(n - 1)
  BY AppendProperties, LenProperties
<1>2. r[n] = m /\ \A i \in 1..(n - 1) : r[i] = s[i]
  BY AppendProperties, LenProperties
<1>3. n \notin PlacesOf(s, x)
  BY <1>1 DEF PlacesOf
<1>4. \A i \in 1..n : i = n \/ i \in 1..(n - 1)
  BY <1>1
<1>5. n \in 1..n /\ \A i \in 1..(n - 1) : i \in 1..n
  BY <1>1
<1> HIDE DEF r, n
<1>6. CASE m = x
  <2>1. PlacesOf(r, x) = PlacesOf(s, x) \cup {n}
    BY <1>1, <1>2, <1>4, <1>5, <1>6 DEF PlacesOf
  <2>2. Cardinality(PlacesOf(s, x) \cup {n}) = Cardinality(PlacesOf(s, x)) + 1
    BY <1>3, CountFinite, FS_AddElement
  <2>3. Count(r, x) = Count(s, x) + 1
    BY <1>1, <2>1, <2>2, CountFinite
  <2> QED BY <1>6, <2>3 DEF r
<1>7. CASE m # x
  <2>1. PlacesOf(r, x) = PlacesOf(s, x)
    BY <1>1, <1>2, <1>4, <1>5, <1>7 DEF PlacesOf
  <2>2. Count(r, x) = Count(s, x) /\ Count(s, x) \in Nat
    BY <1>1, <2>1, CountFinite
  <2> QED BY <1>7, <2>2 DEF r
<1> QED BY <1>6, <1>7

LEMMA CountRest ==
  ASSUME NEW S, NEW s \in Seq(S), s # <<>>, NEW x
  PROVE  Count(s, x) = Count(Tail(s), x) + (IF Head(s) = x THEN 1 ELSE 0)
<1> DEFINE t == Tail(s)
           R == {i + 1 : i \in PlacesOf(t, x)}
           f == [i \in PlacesOf(t, x) |-> i + 1]
<1>1. /\ t \in Seq(S) /\ Len(t) = Len(s) - 1 /\ Len(s) \in Nat \ {0}
      /\ DOMAIN t = 1..(Len(s) - 1) /\ DOMAIN s = 1..Len(s)
      /\ Head(s) = s[1] /\ \A i \in 1..(Len(s) - 1) : t[i] = s[i + 1]
  BY HeadTailProperties, LenProperties, EmptySeq
<1> HIDE DEF t
<1>2. PlacesOf(t, x) \subseteq Nat /\ \A i \in PlacesOf(t, x) : i >= 1
  BY <1>1 DEF PlacesOf
<1>3. f \in Bijection(PlacesOf(t, x), R)
  <2>1. f \in [PlacesOf(t, x) -> R]
    OBVIOUS
  <2>2. \A a, b \in PlacesOf(t, x) : f[a] = f[b] => a = b
    BY <1>2
  <2>3. \A y \in R : \E i \in PlacesOf(t, x) : f[i] = y
    OBVIOUS
  <2> HIDE DEF f, R
  <2> QED BY <2>1, <2>2, <2>3 DEF Bijection, Injection, Surjection, IsInjective
<1>4. IsFiniteSet(R) /\ Cardinality(R) = Count(t, x)
  <2>1. ExistsBijection(PlacesOf(t, x), R)
    BY <1>3 DEF ExistsBijection
  <2> HIDE DEF R, f
  <2> QED BY <1>1, <2>1, CountFinite, FS_Bijection
<1>5. 1 \notin R
  BY <1>2
<1>6. \A i \in 1..Len(s) : i # 1 => (i \in R <=> s[i] = x)
  <2> SUFFICES ASSUME NEW i \in 1..Len(s), i # 1 PROVE i \in R <=> s[i] = x
    OBVIOUS
  <2>1. i - 1 \in 1..(Len(s) - 1) /\ (i - 1) + 1 = i
    BY <1>1
  <2>2. t[i - 1] = s[i]
    BY <1>1, <2>1
  <2>3. i - 1 \in PlacesOf(t, x) <=> s[i] = x
    BY <1>1, <2>1, <2>2 DEF PlacesOf
  <2>4. i \in R <=> i - 1 \in PlacesOf(t, x)
    BY <1>2, <2>1
  <2> QED BY <2>3, <2>4
<1>7. R \subseteq 1..Len(s)
  BY <1>1 DEF PlacesOf
<1> HIDE DEF R
<1>8. CASE Head(s) = x
  <2>0. 1 \in 1..Len(s)
    BY <1>1
  <2>1. PlacesOf(s, x) = R \cup {1}
    BY <2>0, <1>1, <1>5, <1>6, <1>7, <1>8 DEF PlacesOf
  <2>2. Cardinality(R \cup {1}) = Cardinality(R) + 1
    BY <1>4, <1>5, FS_AddElement
  <2>3. Count(s, x) = Count(t, x) + 1
    BY <1>4, <2>1, <2>2, CountFinite
  <2> QED BY <1>8, <2>3 DEF t
<1>9. CASE Head(s) # x
  <2>1. PlacesOf(s, x) = R
    BY <1>1, <1>5, <1>6, <1>7, <1>9 DEF PlacesOf
  <2>2. Count(s, x) = Count(t, x) /\ Count(t, x) \in Nat
    BY <1>1, <1>4, <2>1, CountFinite
  <2> QED BY <1>9, <2>2 DEF t
<1> QED BY <1>8, <1>9

-----------------------------------------------------------------------------
(* Folding over the loads that are removed.                                *)

LEMMA FrontLast ==
  ASSUME NEW S, NEW s \in Seq(S), s # <<>>
  PROVE  /\ Front(s) \in Seq(S) /\ Last(s) \in S
         /\ Append(Front(s), Last(s)) = s
<1>1. Len(s) \in Nat /\ Len(s) # 0 /\ s[Len(s)] \in S
  BY LenProperties, EmptySeq, ElementOfSeq
<1>2. /\ Front(s) \in Seq(S) /\ Len(Front(s)) = Len(s) - 1
      /\ \A i \in 1..(Len(s) - 1) : Front(s)[i] = s[i]
  BY <1>1, SubSeqProperties DEF Front
<1>3. /\ Append(Front(s), Last(s)) \in Seq(S)
      /\ Len(Append(Front(s), Last(s))) = Len(s)
      /\ \A i \in 1..Len(s) : Append(Front(s), Last(s))[i] = s[i]
  BY <1>1, <1>2, AppendProperties DEF Last
<1> QED BY <1>1, <1>2, <1>3, SeqEqual DEF Last

LEMMA CountFrontLast ==
  ASSUME NEW S, NEW s \in Seq(S), s # <<>>, NEW x
  PROVE  Count(s, x) = Count(Front(s), x) + (IF Last(s) = x THEN 1 ELSE 0)
<1> DEFINE f == Front(s)
           m == Last(s)
<1>1. f \in Seq(S) /\ m \in S
  BY FrontLast
<1>2. Append(f, m) = s
  BY FrontLast
<1> HIDE DEF f, m
<1>3. Count(Append(f, m), x) = Count(f, x) + (IF m = x THEN 1 ELSE 0)
  BY ONLY <1>1, CountAppended
<1> QED BY <1>2, <1>3 DEF f, m

\* A set of natural numbers has a least element.
LEMMA Least ==
  ASSUME NEW T, T \subseteq Nat, T # {}
  PROVE  \E x \in T : \A y \in T : x <= y
<1> DEFINE R == OpToRel(<, Nat)
<1>1. \A x, y \in Nat : <<y, x>> \in R <=> y < x
  BY DEF OpToRel
<1>2. IsWellFoundedOn(R, Nat)
  BY NatLessThanWellFounded, Zenon
<1> HIDE DEF R
<1>3. \E x \in T : \A y \in T : ~ (<<y, x>> \in R)
  BY <1>2, WFMin, Zenon
<1>4. PICK x \in T : \A y \in T : ~ (<<y, x>> \in R)
  BY <1>3
<1>5. ASSUME NEW y \in T PROVE x <= y
  <2>1. ~ (y < x)
    BY <1>1, <1>4
  <2>2. x \in Nat /\ y \in Nat
    OBVIOUS
  <2> QED BY <2>1, <2>2
<1> QED BY <1>5

\* A set of natural numbers that has 0 and, below n, with i also i + 1 has all up to n.
LEMMA CountUp ==
  ASSUME NEW N \in Nat, NEW T, 0 \in T,
         \A k \in 0..(N - 1) : k \in T => k + 1 \in T
  PROVE  \A k \in 0..N : k \in T
<1> SUFFICES ASSUME NEW m \in 0..N, m \notin T PROVE FALSE
  OBVIOUS
<1> DEFINE B == {k \in 0..N : k \notin T}
<1>1. PICK k \in B : \A j \in B : k <= j
  <2>1. B \in SUBSET Nat /\ B # {}
    OBVIOUS
  <2> HIDE DEF B
  <2> QED BY <2>1, Least
<1>2. k # 0 /\ k \in 0..N
  OBVIOUS
<1>3. k - 1 \notin B /\ k - 1 \in 0..(N - 1)
  BY <1>1, <1>2
<1>4. k - 1 \in T
  BY <1>3
<1>5. (k - 1) + 1 \in T
  BY <1>3, <1>4
<1> QED BY <1>2, <1>5

\* FoldLeft: the states that it goes through.
LEMMA StepsOfRemoval ==
  ASSUME NEW order \in Seq(Loads), NEW base
  PROVE  \E left : /\ left[0] = base
                   /\ \A k \in 1..Len(order) : left[k] = RemoveLoader(left[k - 1], order[k])
                   /\ FoldLeft(RemoveLoader, base, order) = left[Len(order)]
<1> DEFINE D == DOMAIN order
           N == Len(order)
           iter[s \in SUBSET D] ==
             IF s = {} THEN base ELSE LET x == Max(s) IN RemoveLoader(iter[s \ {x}], order[x])
           Works(g, k) ==
             g = [s \in SUBSET (1..k) |->
                    IF s = {} THEN base ELSE RemoveLoader(g[s \ {Max(s)}], order[Max(s)])]
           T == {k \in 0..N : \E g : Works(g, k)}
<1>1. FoldLeft(RemoveLoader, base, order) = iter[D]
  BY DEF FoldLeft, MapThenFoldSet
<1>2. D = 1..N /\ N \in Nat
  BY LenProperties
<1>3. 0 \in T
  <2>1. SUBSET (1..0) = {{}}
    OBVIOUS
  <2> DEFINE g == [s \in SUBSET (1..0) |-> base]
  <2>2. \A s \in SUBSET (1..0) : s = {} /\ g[s] = base
    BY <2>1
  <2>3. Works(g, 0)
    BY <2>2, Zenon
  <2> HIDE DEF Works
  <2>4. \E f : Works(f, 0)
    BY <2>3
  <2>5. 0 \in 0..N
    BY <1>2
  <2> QED BY <2>4, <2>5
<1>4. ASSUME NEW k \in 0..(N - 1), k \in T
      PROVE  k + 1 \in T
  <2>1. PICK g : Works(g, k)
    BY <1>4
  <2> DEFINE h == [s \in SUBSET (1..(k + 1)) |->
                     IF k + 1 \in s THEN RemoveLoader(g[s \ {k + 1}], order[k + 1]) ELSE g[s]]
  <2>2. ASSUME NEW s \in SUBSET (1..(k + 1))
        PROVE  h[s] = IF s = {} THEN base ELSE RemoveLoader(h[s \ {Max(s)}], order[Max(s)])
    <3>1. CASE k + 1 \in s
      <4>1. \A y \in s : k + 1 >= y /\ (y >= k + 1 => y = k + 1)
        BY <1>2
      <4>1a. \A x \in s : (\A y \in s : x >= y) <=> x = k + 1
        BY <3>1, <4>1
      <4>1b. Max(s) = k + 1
        BY <3>1, <4>1a DEF Max
      <4>2. s \ {k + 1} \in SUBSET (1..(k + 1)) /\ k + 1 \notin s \ {k + 1}
        OBVIOUS
      <4>3. h[s \ {k + 1}] = g[s \ {k + 1}]
        BY <4>2
      <4> QED BY <3>1, <4>1b, <4>3
    <3>2. CASE k + 1 \notin s
      <4>0. \A i \in 1..(k + 1) : i # k + 1 => i \in 1..k
        BY <1>2
      <4>1. s \in SUBSET (1..k) /\ \A y : s \ {y} \in SUBSET (1..(k + 1)) /\ k + 1 \notin s \ {y}
        BY <3>2, <4>0
      <4>2. h[s] = g[s] /\ \A y : h[s \ {y}] = g[s \ {y}]
        BY <3>2, <4>1
      <4>3. g[s] = IF s = {} THEN base ELSE RemoveLoader(g[s \ {Max(s)}], order[Max(s)])
        BY <2>1, <4>1
      <4> QED BY <4>2, <4>3
    <3> QED BY <3>1, <3>2
  <2>3. Works(h, k + 1)
    <3> HIDE DEF h
    <3>1. h = [s \in SUBSET (1..(k + 1)) |-> h[s]]
      BY DEF h
    <3> QED BY <2>2, <3>1
  <2>4. k + 1 \in 0..N
    BY <1>2
  <2> QED BY <2>3, <2>4
<1>5. \A k \in 0..N : k \in T
  <2> HIDE DEF T
  <2> QED BY <1>2, <1>3, <1>4, CountUp
<1>6. \E g : Works(g, N)
  <2> HIDE DEF T
  <2>0. N \in 0..N
    BY <1>2
  <2>1. N \in T
    BY <2>0, <1>5
  <2> USE DEF T
  <2> QED BY <2>1
<1>7. Works(iter, N)
  BY <1>2, <1>6
<1> HIDE DEF iter, Works
<1>8. \A s \in SUBSET (1..N) :
        iter[s] = IF s = {} THEN base ELSE RemoveLoader(iter[s \ {Max(s)}], order[Max(s)])
  BY <1>7 DEF Works
<1> DEFINE left == [k \in 0..N |-> iter[1..k]]
<1>9. left[0] = base
  BY <1>2, <1>8
<1>10. ASSUME NEW k \in 1..N
       PROVE  left[k] = RemoveLoader(left[k - 1], order[k])
  <2>1. k \in 0..N /\ k - 1 \in 0..N /\ 1..k \in SUBSET (1..N) /\ k \in 1..k
    BY <1>2
  <2>1a. (1..k) \ {k} = 1..(k - 1)
    BY <1>2
  <2>2. Max(1..k) = k
    BY <1>2 DEF Max
  <2>3. iter[1..k] = RemoveLoader(iter[1..(k - 1)], order[k])
    BY <1>8, <2>1, <2>1a, <2>2
  <2> QED BY <2>1, <2>3
<1>11. left[N] = iter[D]
  BY <1>2
<1> QED BY <1>1, <1>9, <1>10, <1>11

\* What is loading and what waits for serial loading.
States == [active : SUBSET Loads, pending : Seq(Loads)]
\* How often the scheduler has a load, in a state of FoldLeft.
In(s, l) == Count(s.pending, l) + (IF l \in s.active THEN 1 ELSE 0)

LEMMA InType ==
  ASSUME NEW s \in States, NEW l
  PROVE  In(s, l) \in Nat
  BY CountFinite DEF States, In

\* removeLoader takes away the load it is for and moves others at most.
LEMMA OneRemoved ==
  ASSUME NEW s \in States, NEW k \in Loads
  PROVE  LET t == RemoveLoader(s, k) IN
         /\ t \in States
         /\ t.pending # <<>> => t.active # {}
         /\ \A l \in Loads \ {k} : In(t, l) = In(s, l)
         /\ \A l \in Loads : In(s, l) = 0 => In(t, l) = 0
         /\ k \in s.active /\ Count(s.pending, k) = 0 => In(t, k) = 0
<1> DEFINE t == RemoveLoader(s, k)
<1>1. s.active \in SUBSET Loads /\ s.pending \in Seq(Loads)
  BY DEF States
<1>2. CASE s.active \ {k} = {} /\ s.pending # <<>>
  <2>1. t = [active |-> {Last(s.pending)}, pending |-> Front(s.pending)]
    BY <1>2 DEF RemoveLoader
  <2>2. /\ Front(s.pending) \in Seq(Loads) /\ Last(s.pending) \in Loads
        /\ Append(Front(s.pending), Last(s.pending)) = s.pending
    BY <1>1, <1>2, FrontLast
  <2>3. t \in States /\ t.active # {}
    BY <2>1, <2>2 DEF States
  <2>4. \A l \in Loads : Count(s.pending, l) = In(t, l)
    <3>1. t.active = {Last(s.pending)} /\ t.pending = Front(s.pending)
      BY <2>1
    <3> HIDE DEF t
    <3>2. ASSUME NEW l \in Loads PROVE Count(s.pending, l) = In(t, l)
      <4>1. Count(s.pending, l) = Count(Front(s.pending), l) + (IF Last(s.pending) = l THEN 1 ELSE 0)
        BY <1>1, <1>2, CountFrontLast
      <4> QED BY <3>1, <4>1 DEF In
    <3> QED BY <3>2
  <2>5. \A l \in Loads : Count(s.pending, l) \in Nat
    BY <1>1, CountFinite
  <2>6. \A l \in Loads \ {k} : l \notin s.active
    BY <1>2
  <2> HIDE DEF t
  <2> QED BY <2>3, <2>4, <2>5, <2>6 DEF In, t
<1>3. CASE ~(s.active \ {k} = {} /\ s.pending # <<>>)
  <2>1. /\ t = [s EXCEPT !.active = @ \ {k}]
        /\ t.active = s.active \ {k} /\ t.pending = s.pending
    BY <1>3 DEF RemoveLoader, States
  <2>2. t \in States
    BY <1>1, <2>1 DEF States
  <2>3. \A l \in Loads : Count(s.pending, l) \in Nat
    BY <1>1, CountFinite
  <2> HIDE DEF t
  <2> QED BY <1>3, <2>1, <2>2, <2>3 DEF In, t
<1> QED BY <1>2, <1>3

\* What removing several loads, one after the other, does to the others.
Removed(a, b, order) ==
  /\ b \in States
  /\ (a.pending # <<>> => a.active # {}) => (b.pending # <<>> => b.active # {})
  /\ \A l \in Loads : (\A i \in 1..Len(order) : order[i] # l) => In(b, l) = In(a, l)
  /\ \A l \in Loads : In(a, l) = 0 => In(b, l) = 0

\* So do all calls of it together: by counting up the states that FoldLeft goes through.
LEMMA AllRemoved ==
  ASSUME active \in SUBSET Loads, pending \in Seq(Loads), NEW order \in Seq(Loads)
  PROVE  LET s == FoldLeft(RemoveLoader, Current, order) IN
         /\ Removed(Current, s, order)
         /\ Len(order) = 1 => s = RemoveLoader(Current, order[1])
         /\ order = <<>> => s = Current
<1> DEFINE s == FoldLeft(RemoveLoader, Current, order)
           N == Len(order)
<1>1. PICK left : /\ left[0] = Current
                  /\ \A k \in 1..N : left[k] = RemoveLoader(left[k - 1], order[k])
                  /\ s = left[N]
  BY StepsOfRemoval
<1>2. N \in Nat /\ \A k \in 1..N : order[k] \in Loads
  BY LenProperties, ElementOfSeq
<1>3. Current \in States
  BY DEF Current, States
<1> DEFINE T == {k \in 0..N : Removed(Current, left[k], order)}
<1> HIDE DEF s
<1>4. 0 \in T
  BY <1>1, <1>2, <1>3 DEF Removed
<1>5. ASSUME NEW k \in 0..(N - 1), k \in T
      PROVE  k + 1 \in T
  <2>1. /\ k + 1 \in 1..N /\ k + 1 \in 0..N /\ (k + 1) - 1 = k
        /\ left[k + 1] = RemoveLoader(left[k], order[k + 1])
    BY <1>1, <1>2
  <2>2. left[k] \in States /\ order[k + 1] \in Loads /\ Removed(Current, left[k], order)
    BY <1>2, <1>5, <2>1 DEF Removed
  <2>3. /\ left[k + 1] \in States
        /\ left[k + 1].pending # <<>> => left[k + 1].active # {}
        /\ \A l \in Loads \ {order[k + 1]} : In(left[k + 1], l) = In(left[k], l)
        /\ \A l \in Loads : In(left[k], l) = 0 => In(left[k + 1], l) = 0
    <3> DEFINE a == left[k]
               m == order[k + 1]
    <3> HIDE DEF a, m
    <3>1. left[k + 1] = RemoveLoader(a, m) /\ a \in States /\ m \in Loads
      BY <2>1, <2>2 DEF a, m
    <3>2. LET t == RemoveLoader(a, m) IN
         /\ t \in States
         /\ t.pending # <<>> => t.active # {}
         /\ \A l \in Loads \ {m} : In(t, l) = In(a, l)
         /\ \A l \in Loads : In(a, l) = 0 => In(t, l) = 0
      BY <3>1, OneRemoved
    <3> QED BY <3>1, <3>2 DEF a, m
  <2> HIDE DEF N
  <2>4. Removed(Current, left[k + 1], order)
    BY <2>1, <2>2, <2>3 DEF Removed, N
  <2> QED BY <2>1, <2>4
<1>6. N \in T
  <2> HIDE DEF T, N
  <2>1. N \in 0..N
    BY <1>2
  <2> QED BY <1>2, <1>4, <1>5, <2>1, CountUp
<1>7. Removed(Current, s, order)
  BY <1>1, <1>6
<1>8. N = 1 => s = RemoveLoader(Current, order[1])
  BY <1>1
<1>9. order = <<>> => s = Current
  BY <1>1, EmptySeq
<1> QED BY <1>7, <1>8, <1>9 DEF s

LEMMA RemovedTypes ==
  ASSUME active \in SUBSET Loads, pending \in Seq(Loads), NEW order \in Seq(Loads),
         RemoveLoaders(order)
  PROVE  active' \in SUBSET Loads /\ pending' \in Seq(Loads)
  BY AllRemoved DEF RemoveLoaders, Removed, States

\* An order of finitely many loads is a sequence of them.
LEMMA Ordered ==
  ASSUME NEW S \in SUBSET Loads, IsFiniteSet(S), NEW order \in SetToSeqs(S)
  PROVE  order \in Seq(Loads) /\ \A i \in 1..Len(order) : order[i] \in S
<1> DEFINE n == Cardinality(S)
<1>1. n \in Nat
  BY FS_CardinalityType
<1>2. order \in [1..n -> S]
  BY DEF SetToSeqs
<1>3. order \in Seq(S)
  BY <1>1, <1>2, SeqDef
<1> QED BY <1>3, SeqMonotonic, ElementOfSeq

-----------------------------------------------------------------------------
(* Types.                                                                  *)

UITypes ==
  /\ proxy \in BOOLEAN /\ launching \in BOOLEAN
  /\ stashed \in Seq({"Initialize"}) /\ Len(stashed) <= 1
  /\ numPending \in Nat /\ launches \in Nat
  /\ replies \in Seq(WebProcesses)

\* Only finitely many loads are registered at a time, so that aborting those of a web
\* process comes to an end.
NetworkTypes ==
  /\ networkAlive \in BOOLEAN /\ nullLaunch \in BOOLEAN /\ initialized \in BOOLEAN
  /\ made \in Nat
  /\ active \in SUBSET Loads /\ registered \in SUBSET Loads /\ pending \in Seq(Loads)
  /\ IsFiniteSet(registered)

WebTypes ==
  /\ web \in [WebProcesses -> {"running", "asking", "crashed", "exited"}]
  /\ connection \in [WebProcesses -> Nat]
  /\ want \in [WebProcesses -> SUBSET Loads]
  /\ load \in [Loads -> {"none", "scheduled", "failing", "ended"}]

LoadMessages == {"Schedule", "Remove"} \X Loads

ChannelTypes ==
  /\ asked \in SUBSET WebProcesses
  /\ answer \in [WebProcesses -> Seq(Nat)]
  /\ toNet \in Seq({"Initialize", "Create"}) /\ fromNet \in Seq(Nat)
  /\ toLoads \in [WebProcesses -> Seq(LoadMessages)]
  /\ fromLoads \in [WebProcesses -> Seq(Loads)]

\* A web process asks only without a connection, and turns on serial loading over the
\* one it has, which is not dropped while it has it.
EndpointTypes ==
  /\ endpoints \in SUBSET (Nat \ {0}) /\ serial \in SUBSET endpoints
  /\ \A e \in serial : \E w \in WebProcesses : connection[w] = e
  /\ \A w \in WebProcesses : web[w] = "asking" => connection[w] = 0

Typed == UITypes /\ NetworkTypes /\ WebTypes /\ ChannelTypes /\ EndpointTypes

LEMMA Empty == (\A S : <<>> \in Seq(S)) /\ Len(<<>>) <= 1
  BY EmptySeq

LEMMA InitTyped ==
  ASSUME NetworkInit
  PROVE  Typed
<1> USE DEF NetworkInit
<1>1. UITypes
  BY Empty DEF UITypes
<1>2. NetworkTypes
  BY Empty, FS_EmptySet DEF NetworkTypes
<1>3. WebTypes
  BY DEF WebTypes
<1>4. ChannelTypes
  BY Empty DEF ChannelTypes
<1>5. EndpointTypes
  BY DEF EndpointTypes
<1> QED BY <1>1, <1>2, <1>3, <1>4, <1>5 DEF Typed

LEMMA FlushType ==
  ASSUME UITypes
  PROVE  Flush \in Seq({"Initialize", "Create"})
<1>1. [i \in 1..numPending |-> "Create"] \in Seq({"Initialize", "Create"})
  BY SeqDef DEF UITypes
<1>2. stashed \in Seq({"Initialize", "Create"})
  BY SeqMonotonic DEF UITypes
<1> HIDE DEF UITypes
<1> QED BY <1>1, <1>2, ConcatProperties DEF Flush

\* The queue a message is taken from, and the one it is sent to.
LEMMA ReceivedMessage ==
  ASSUME ChannelTypes, NEW w \in WebProcesses, NEW kind, Received(w, kind), Receive(w)
  PROVE  /\ Head(toLoads[w])[2] \in Loads
         /\ Head(toLoads[w]) = <<kind, Head(toLoads[w])[2]>>
         /\ toLoads' \in [WebProcesses -> Seq(LoadMessages)]
         /\ toLoads[w] \in Seq(LoadMessages) /\ toLoads[w] # <<>>
         /\ toLoads'[w] = Tail(toLoads[w])
         /\ \A v \in WebProcesses \ {w} : toLoads'[v] = toLoads[v]
<1>1. toLoads[w] \in Seq(LoadMessages) /\ toLoads[w] # <<>>
  BY DEF ChannelTypes, Received
<1>2. Head(toLoads[w]) \in LoadMessages /\ Tail(toLoads[w]) \in Seq(LoadMessages)
  BY <1>1, HeadTailProperties
<1> QED BY <1>1, <1>2 DEF ChannelTypes, Received, Receive, LoadMessages

LEMMA SentMessage ==
  ASSUME ChannelTypes, NEW w \in WebProcesses, NEW kind \in {"Schedule", "Remove"},
         NEW l \in Loads, SendToNetwork(w, kind, l)
  PROVE  /\ toLoads' \in [WebProcesses -> Seq(LoadMessages)]
         /\ toLoads'[w] = IF connection'[w] \in endpoints
                          THEN Append(toLoads[w], <<kind, l>>) ELSE toLoads[w]
         /\ \A v \in WebProcesses \ {w} : toLoads'[v] = toLoads[v]
<1>1. toLoads[w] \in Seq(LoadMessages) /\ <<kind, l>> \in LoadMessages
  BY DEF ChannelTypes, LoadMessages
<1> QED BY <1>1 DEF ChannelTypes, SendToNetwork

LEMMA ReplyType ==
  ASSUME ChannelTypes, NEW to, NEW e \in Nat
  PROVE  Reply(to, e) \in [WebProcesses -> Seq(Nat)]
  BY DEF ChannelTypes, Reply

LEMMA OwnerType == \A l \in Loads : Owner[l] \in WebProcesses
  BY NetworkProcessAssumption

\* A launch that ends clears the requests that wait for it; a reply is taken only if one waits.
LEMMA NextUITypes ==
  ASSUME Typed, RepliesMatchRequests, [NetworkNext]_networkVars
  PROVE  UITypes'
<1> USE Empty DEF Typed, UITypes
<1>1. ASSUME Launch PROVE /\ launches' \in Nat /\ proxy' \in BOOLEAN /\ launching' \in BOOLEAN
                          /\ stashed' \in Seq({"Initialize"}) /\ Len(stashed') <= 1
  BY <1>1 DEF Launch
<1>2. CASE DidFinishLaunching \/ DidFailToLaunch
  <2>1. /\ launching' = FALSE /\ stashed' = <<>> /\ (numPending' = 0 \/ numPending' = numPending)
        /\ UNCHANGED <<proxy, launches, replies>>
    BY <1>2 DEF DidFinishLaunching, DidFailToLaunch
  <2>2. stashed' \in Seq({"Initialize"}) /\ Len(stashed') <= 1
    BY <2>1
  <2>3. proxy' \in BOOLEAN /\ launching' \in BOOLEAN
    BY <2>1
  <2>4. numPending' \in Nat /\ launches' \in Nat
    BY <2>1
  <2>5. replies' \in Seq(WebProcesses)
    BY <2>1
  <2> QED BY <2>2, <2>3, <2>4, <2>5
<1>3. CASE DidCreateNetworkConnectionToWebProcess
  <2>1. replies # <<>>
    BY <1>3, EmptySeq, LenProperties DEF DidCreateNetworkConnectionToWebProcess, RepliesMatchRequests, ChannelTypes
  <2>2. Tail(replies) \in Seq(WebProcesses)
    BY <2>1, HeadTailProperties
  <2> QED BY <1>3, <2>2 DEF DidCreateNetworkConnectionToWebProcess
<1>4. CASE NetworkProcessCrashed
  BY <1>4 DEF NetworkProcessCrashed
<1>5. ASSUME NEW w \in WebProcesses, GetNetworkProcessConnection(w) PROVE UITypes'
  <2>1. replies' \in Seq(WebProcesses) /\ numPending' \in Nat
    BY <1>5 DEF GetNetworkProcessConnection
  <2>2. Launch \/ UNCHANGED <<proxy, launching, stashed, launches>>
    BY <1>5 DEF GetNetworkProcessConnection
  <2> QED BY <1>1, <2>1, <2>2
<1>6. CASE EnsureNetworkProcess
  BY <1>1, <1>6 DEF EnsureNetworkProcess
<1>7. CASE UNCHANGED ui
  BY <1>7 DEF ui
<1>8. UIProcess \/ EnsureNetworkProcess \/ UNCHANGED ui
  BY DEF NetworkNext, networkVars, NetworkProcessRuns, WebProcess, InitializeNetworkProcess,
         CreateNetworkConnectionToWebProcess, ScheduleResourceLoad, RemoveLoadIdentifier,
         WebProcessGone, EndpointDropped, LoadEnds, NetworkProcessDies, ScheduleLoad, CancelLoad,
         ReceiveEndpoint, ReceiveNull, LoadFinished, NetworkProcessConnectionClosed,
         InternallyFailedLoadTimerFired, SetSerialLoadingEnabled, WebProcessExits
<1> QED BY <1>2, <1>3, <1>4, <1>5, <1>6, <1>7, <1>8 DEF UIProcess

\* Loads stay loads, whichever order they are aborted in.
LEMMA NextNetworkTypes ==
  ASSUME Typed, [NetworkNext]_networkVars
  PROVE  NetworkTypes'
<1> USE DEF Typed, NetworkTypes
<1>1. CASE DidFinishLaunching \/ DidFailToLaunch
  BY <1>1 DEF DidFinishLaunching, DidFailToLaunch, scheduler
<1>2. CASE InitializeNetworkProcess
  BY <1>2 DEF InitializeNetworkProcess, scheduler
<1>3. CASE CreateNetworkConnectionToWebProcess
  BY <1>3 DEF CreateNetworkConnectionToWebProcess, scheduler
<1>4. ASSUME NEW w \in WebProcesses, ScheduleResourceLoad(w) PROVE NetworkTypes'
  <2> DEFINE l == Head(toLoads[w])[2]
  <2>1. l \in Loads
    BY <1>4, ReceivedMessage DEF ScheduleResourceLoad
  <2>2. registered' = registered \union {l} /\ active' \in SUBSET Loads /\ pending' \in Seq(Loads)
    BY <1>4, <2>1 DEF ScheduleResourceLoad
  <2>3. IsFiniteSet(registered')
    BY <2>2, FS_AddElement
  <2> QED BY <1>4, <2>1, <2>2, <2>3 DEF ScheduleResourceLoad
<1>5. ASSUME NEW w \in WebProcesses, RemoveLoadIdentifier(w) PROVE NetworkTypes'
  <2> DEFINE l == Head(toLoads[w])[2]
             order == IF l \in registered THEN <<l>> ELSE <<>>
  <2>1. l \in Loads
    BY <1>5, ReceivedMessage DEF RemoveLoadIdentifier
  <2>2. order \in Seq(Loads)
    BY <2>1, Empty
  <2>3. registered' = registered \ {l} /\ RemoveLoaders(order)
    BY <1>5 DEF RemoveLoadIdentifier
  <2>4. active' \in SUBSET Loads /\ pending' \in Seq(Loads)
    BY <2>2, <2>3, RemovedTypes
  <2>5. registered' \in SUBSET Loads /\ IsFiniteSet(registered')
    BY <2>3, FS_RemoveElement
  <2> QED BY <1>5, <2>4, <2>5 DEF RemoveLoadIdentifier
<1>6. ASSUME NEW w \in WebProcesses, WebProcessGone(w) PROVE NetworkTypes'
  <2> DEFINE S == registered \intersect LoadsOf(w)
  <2>1. IsFiniteSet(S) /\ S \in SUBSET Loads /\ registered' \in SUBSET Loads /\ IsFiniteSet(registered')
    BY <1>6, FS_Subset DEF WebProcessGone
  <2>2. PICK order \in SetToSeqs(S) : RemoveLoaders(order)
    BY <1>6 DEF WebProcessGone
  <2>3. order \in Seq(Loads)
    BY <2>1, <2>2, Ordered
  <2>4. active' \in SUBSET Loads /\ pending' \in Seq(Loads)
    BY <2>2, <2>3, RemovedTypes
  <2> QED BY <1>6, <2>1, <2>4 DEF WebProcessGone
<1>7. ASSUME NEW e \in endpoints, EndpointDropped(e) PROVE NetworkTypes'
  BY <1>7 DEF EndpointDropped, scheduler
<1>8. ASSUME NEW l \in Loads, LoadEnds(l) PROVE NetworkTypes'
  <2>1. active' \in SUBSET Loads /\ pending' \in Seq(Loads)
    BY <1>8, RemovedTypes DEF LoadEnds
  <2> QED BY <1>8, <2>1 DEF LoadEnds
<1>9. CASE NetworkProcessDies
  BY <1>9, Empty, FS_EmptySet DEF NetworkProcessDies
<1>10. ASSUME NEW w \in WebProcesses, SetSerialLoadingEnabled(w) PROVE NetworkTypes'
  BY <1>10 DEF SetSerialLoadingEnabled, scheduler
<1>11. CASE UNCHANGED network
  BY <1>11 DEF network, scheduler
<1>12. \/ DidFinishLaunching \/ DidFailToLaunch \/ NetworkProcessRuns \/ NetworkProcessDies
       \/ \E w \in WebProcesses : SetSerialLoadingEnabled(w)
       \/ UNCHANGED network
  BY DEF NetworkNext, networkVars, UIProcess, WebProcess, DidCreateNetworkConnectionToWebProcess,
         NetworkProcessCrashed, GetNetworkProcessConnection, EnsureNetworkProcess, ScheduleLoad,
         CancelLoad, ReceiveEndpoint, ReceiveNull, LoadFinished, NetworkProcessConnectionClosed,
         InternallyFailedLoadTimerFired, WebProcessExits
<1> QED BY <1>1, <1>2, <1>3, <1>4, <1>5, <1>6, <1>7, <1>8, <1>9, <1>10, <1>11, <1>12
           DEF NetworkProcessRuns

LEMMA NextWebTypes ==
  ASSUME Typed, [NetworkNext]_networkVars
  PROVE  WebTypes'
<1> USE OwnerType DEF Typed, WebTypes
<1>1. ASSUME NEW w \in WebProcesses, WebProcessGone(w) PROVE WebTypes'
  BY <1>1 DEF WebProcessGone
<1>2. ASSUME NEW l \in Loads, ScheduleLoad(l) PROVE WebTypes'
  <2>1. CASE connection[Owner[l]] = 0
    BY <1>2, <2>1 DEF ScheduleLoad
  <2>2. CASE connection[Owner[l]] # 0
    BY <1>2, <2>2 DEF ScheduleLoad
  <2> QED BY <2>1, <2>2
<1>3. ASSUME NEW l \in Loads, CancelLoad(l) PROVE WebTypes'
  BY <1>3 DEF CancelLoad
<1>4. ASSUME NEW w \in WebProcesses, ReceiveEndpoint(w) PROVE WebTypes'
  <2>1. Head(answer[w]) \in Nat
    BY <1>4, HeadTailProperties DEF ReceiveEndpoint, ChannelTypes
  <2>2. PICK l \in want[w] : load' = [load EXCEPT ![l] = "scheduled"]
    BY <1>4 DEF ReceiveEndpoint
  <2> QED BY <1>4, <2>1, <2>2 DEF ReceiveEndpoint
<1>5. ASSUME NEW w \in WebProcesses, ReceiveNull(w) PROVE WebTypes'
  BY <1>5 DEF ReceiveNull
<1>6. ASSUME NEW w \in WebProcesses, LoadFinished(w) PROVE WebTypes'
  <2>1. CASE load[Head(fromLoads[w])] = "scheduled"
    BY <1>6, <2>1 DEF LoadFinished
  <2>2. CASE load[Head(fromLoads[w])] # "scheduled"
    BY <1>6, <2>2 DEF LoadFinished
  <2> QED BY <2>1, <2>2
<1>7. ASSUME NEW w \in WebProcesses, NetworkProcessConnectionClosed(w) PROVE WebTypes'
  BY <1>7 DEF NetworkProcessConnectionClosed
<1>8. ASSUME NEW w \in WebProcesses, InternallyFailedLoadTimerFired(w) PROVE WebTypes'
  BY <1>8 DEF InternallyFailedLoadTimerFired
<1>9. ASSUME NEW w \in WebProcesses, WebProcessExits(w) PROVE WebTypes'
  BY <1>9 DEF WebProcessExits
<1>10. CASE UNCHANGED webState
  BY <1>10 DEF webState
<1>11. \/ \E l \in Loads : ScheduleLoad(l) \/ CancelLoad(l)
       \/ \E w \in WebProcesses : WebProcess(w) \/ WebProcessExits(w) \/ WebProcessGone(w)
       \/ UNCHANGED webState
  BY DEF NetworkNext, networkVars, UIProcess, NetworkProcessRuns, DidFinishLaunching,
         DidFailToLaunch, DidCreateNetworkConnectionToWebProcess,
         NetworkProcessCrashed, GetNetworkProcessConnection, EnsureNetworkProcess,
         InitializeNetworkProcess, CreateNetworkConnectionToWebProcess, ScheduleResourceLoad,
         RemoveLoadIdentifier, EndpointDropped, LoadEnds, NetworkProcessDies,
         SetSerialLoadingEnabled
<1> QED BY <1>1, <1>2, <1>3, <1>4, <1>5, <1>6, <1>7, <1>8, <1>9, <1>10, <1>11 DEF WebProcess

LEMMA NextChannelTypes ==
  ASSUME Typed, [NetworkNext]_networkVars
  PROVE  ChannelTypes'
<1> USE OwnerType DEF Typed
<1>1. CASE DidFinishLaunching
  BY <1>1, FlushType DEF DidFinishLaunching, ChannelTypes
<1>2. CASE DidCreateNetworkConnectionToWebProcess
  <2>1. Head(fromNet) \in Nat /\ Tail(fromNet) \in Seq(Nat)
    BY <1>2, HeadTailProperties DEF DidCreateNetworkConnectionToWebProcess, ChannelTypes
  <2>2. answer' \in [WebProcesses -> Seq(Nat)]
    BY <1>2, <2>1, ReplyType DEF DidCreateNetworkConnectionToWebProcess
  <2> QED BY <1>2, <2>1, <2>2 DEF DidCreateNetworkConnectionToWebProcess, ChannelTypes
<1>3. CASE NetworkProcessCrashed
  <2>1. answer' \in [WebProcesses -> Seq(Nat)]
    BY <1>3, ReplyType DEF NetworkProcessCrashed
  <2> QED BY <1>3, <2>1 DEF NetworkProcessCrashed, ChannelTypes
<1>4. ASSUME NEW w \in WebProcesses, GetNetworkProcessConnection(w) PROVE ChannelTypes'
  BY <1>4 DEF GetNetworkProcessConnection, ChannelTypes
<1>5. CASE InitializeNetworkProcess
  BY <1>5, HeadTailProperties DEF InitializeNetworkProcess, ChannelTypes
<1>6. CASE CreateNetworkConnectionToWebProcess
  <2>1. made' \in Nat /\ Tail(toNet) \in Seq({"Initialize", "Create"})
    BY <1>6, HeadTailProperties
       DEF CreateNetworkConnectionToWebProcess, ChannelTypes, NetworkTypes
  <2> QED BY <1>6, <2>1 DEF CreateNetworkConnectionToWebProcess, ChannelTypes
<1>7. ASSUME NEW w \in WebProcesses, ScheduleResourceLoad(w) \/ RemoveLoadIdentifier(w)
      PROVE  ChannelTypes'
  <2>1. toLoads' \in [WebProcesses -> Seq(LoadMessages)]
    BY <1>7, ReceivedMessage DEF ScheduleResourceLoad, RemoveLoadIdentifier
  <2> QED BY <1>7, <2>1 DEF ScheduleResourceLoad, RemoveLoadIdentifier, ChannelTypes
<1>8. ASSUME NEW l \in Loads, LoadEnds(l) PROVE ChannelTypes'
  <2>1. fromLoads' \in [WebProcesses -> Seq(Loads)]
    BY <1>8 DEF LoadEnds, ChannelTypes
  <2> QED BY <1>8, <2>1 DEF LoadEnds, ChannelTypes
<1>9. CASE NetworkProcessDies
  BY <1>9, Empty DEF NetworkProcessDies, ChannelTypes
<1>10. ASSUME NEW l \in Loads, ScheduleLoad(l) PROVE ChannelTypes'
  <2>1. CASE connection[Owner[l]] = 0
    BY <1>10, <2>1 DEF ScheduleLoad, ChannelTypes
  <2>2. CASE connection[Owner[l]] # 0
    <3>1. SendToNetwork(Owner[l], "Schedule", l)
      BY <1>10, <2>2 DEF ScheduleLoad
    <3> QED BY <1>10, <2>2, <3>1, SentMessage DEF ScheduleLoad, ChannelTypes
  <2> QED BY <2>1, <2>2
<1>11. ASSUME NEW l \in Loads, CancelLoad(l) PROVE ChannelTypes'
  <2>1. SendToNetwork(Owner[l], "Remove", l) \/ UNCHANGED toLoads
    BY <1>11 DEF CancelLoad
  <2> QED BY <1>11, <2>1, SentMessage DEF CancelLoad, ChannelTypes
<1>12. ASSUME NEW w \in WebProcesses, ReceiveEndpoint(w) PROVE ChannelTypes'
  <2>1. PICK l \in want[w] : SendToNetwork(w, "Schedule", l)
    BY <1>12 DEF ReceiveEndpoint
  <2>2. l \in Loads
    BY <2>1 DEF WebTypes
  <2> QED BY <1>12, <2>1, <2>2, SentMessage, Empty DEF ReceiveEndpoint, ChannelTypes
<1>13. ASSUME NEW w \in WebProcesses, ReceiveNull(w) PROVE ChannelTypes'
  BY <1>13, Empty DEF ReceiveNull, ChannelTypes
<1>14. ASSUME NEW w \in WebProcesses, LoadFinished(w) PROVE ChannelTypes'
  <2>1. Head(fromLoads[w]) \in Loads /\ Tail(fromLoads[w]) \in Seq(Loads)
    BY <1>14, HeadTailProperties DEF LoadFinished, ChannelTypes
  <2>2. SendToNetwork(w, "Remove", Head(fromLoads[w])) \/ UNCHANGED toLoads
    BY <1>14 DEF LoadFinished
  <2> QED BY <1>14, <2>1, <2>2, SentMessage DEF LoadFinished, ChannelTypes
<1>15. ASSUME NEW w \in WebProcesses, WebProcessExits(w) PROVE ChannelTypes'
  BY <1>15, Empty DEF WebProcessExits, ChannelTypes
<1>16. CASE UNCHANGED channels
  BY <1>16 DEF channels, ChannelTypes
<1>17. \/ UIProcess \/ NetworkProcessRuns \/ NetworkProcessDies
       \/ \E l \in Loads : ScheduleLoad(l) \/ CancelLoad(l)
       \/ \E w \in WebProcesses : WebProcess(w) \/ WebProcessExits(w)
       \/ UNCHANGED channels
  BY DEF NetworkNext, networkVars, EnsureNetworkProcess, SetSerialLoadingEnabled
<1>18. ASSUME NEW w \in WebProcesses,
              NetworkProcessConnectionClosed(w) \/ InternallyFailedLoadTimerFired(w)
       PROVE  UNCHANGED channels
  BY <1>18 DEF NetworkProcessConnectionClosed, InternallyFailedLoadTimerFired
<1>19. ASSUME DidFailToLaunch \/ (\E w \in WebProcesses : WebProcessGone(w))
              \/ (\E e \in endpoints : EndpointDropped(e))
       PROVE  UNCHANGED channels
  BY <1>19 DEF DidFailToLaunch, WebProcessGone, EndpointDropped
<1> QED BY <1>1, <1>2, <1>3, <1>4, <1>5, <1>6, <1>7, <1>8, <1>9, <1>10, <1>11, <1>12, <1>13,
           <1>14, <1>15, <1>16, <1>17, <1>18, <1>19 DEF UIProcess, NetworkProcessRuns, WebProcess

\* A web process gives its connection up before it asks for another.
LEMMA NextEndpointTypes ==
  ASSUME Typed, [NetworkNext]_networkVars
  PROVE  EndpointTypes'
<1> USE DEF Typed
<1>1. CASE CreateNetworkConnectionToWebProcess
  <2>1. /\ endpoints' = endpoints \union {made + 1} /\ made + 1 \in Nat \ {0}
        /\ UNCHANGED <<serial, connection, web>>
    BY <1>1 DEF CreateNetworkConnectionToWebProcess, NetworkTypes, webState
  <2> QED BY <2>1 DEF EndpointTypes
<1>2. ASSUME NEW w \in WebProcesses, WebProcessGone(w) PROVE EndpointTypes'
  BY <1>2 DEF WebProcessGone, EndpointTypes, WebTypes
<1>3. ASSUME NEW e \in endpoints, EndpointDropped(e) PROVE EndpointTypes'
  BY <1>3 DEF EndpointDropped, EndpointTypes, Held, webState
<1>4. CASE NetworkProcessDies
  BY <1>4 DEF NetworkProcessDies, EndpointTypes, webState
<1>5. ASSUME NEW l \in Loads, ScheduleLoad(l) PROVE EndpointTypes'
  <2>1. CASE connection[Owner[l]] = 0
    BY <1>5, <2>1, OwnerType DEF ScheduleLoad, EndpointTypes, WebTypes, network
  <2>2. CASE connection[Owner[l]] # 0
    BY <1>5, <2>2 DEF ScheduleLoad, EndpointTypes, network
  <2> QED BY <2>1, <2>2
<1>6. ASSUME NEW w \in WebProcesses, ReceiveEndpoint(w) PROVE EndpointTypes'
  BY <1>6 DEF ReceiveEndpoint, EndpointTypes, WebTypes, network
<1>7. ASSUME NEW w \in WebProcesses, ReceiveNull(w) \/ WebProcessExits(w) PROVE EndpointTypes'
  BY <1>7 DEF ReceiveNull, WebProcessExits, EndpointTypes, WebTypes, network
<1>8. ASSUME NEW w \in WebProcesses, NetworkProcessConnectionClosed(w) PROVE EndpointTypes'
  BY <1>8 DEF NetworkProcessConnectionClosed, EndpointTypes, WebTypes, network
<1>9. ASSUME NEW w \in WebProcesses, SetSerialLoadingEnabled(w) PROVE EndpointTypes'
  BY <1>9 DEF SetSerialLoadingEnabled, EndpointTypes, webState
<1>10. CASE UNCHANGED <<endpoints, serial, connection, web>>
  BY <1>10 DEF EndpointTypes
<1>11. UIProcess \/ EnsureNetworkProcess => UNCHANGED <<endpoints, serial, connection, web>>
  BY DEF UIProcess, DidFinishLaunching, DidFailToLaunch, DidCreateNetworkConnectionToWebProcess,
         NetworkProcessCrashed, GetNetworkProcessConnection, EnsureNetworkProcess, network, webState
<1>12. ASSUME InitializeNetworkProcess
              \/ (\E w \in WebProcesses : ScheduleResourceLoad(w) \/ RemoveLoadIdentifier(w))
              \/ (\E l \in Loads : LoadEnds(l) \/ CancelLoad(l))
              \/ (\E w \in WebProcesses : LoadFinished(w) \/ InternallyFailedLoadTimerFired(w))
              \/ UNCHANGED networkVars
       PROVE  UNCHANGED <<endpoints, serial, connection, web>>
  BY <1>12 DEF InitializeNetworkProcess, ScheduleResourceLoad, RemoveLoadIdentifier, LoadEnds,
         CancelLoad, LoadFinished, InternallyFailedLoadTimerFired, networkVars, network, webState
<1> QED BY <1>1, <1>2, <1>3, <1>4, <1>5, <1>6, <1>7, <1>8, <1>9, <1>10, <1>11, <1>12
           DEF NetworkNext, NetworkProcessRuns, WebProcess

-----------------------------------------------------------------------------
(* Launches and requests for connections.                                  *)

\* What goes with each stage of a launch: nothing is on its way from a process that is
\* being launched, nor from one that could not be, and only they leave requests to send.
Launched ==
  /\ launching => proxy /\ ~networkAlive /\ ~nullLaunch /\ stashed = <<"Initialize">>
  /\ networkAlive => proxy /\ ~launching /\ ~nullLaunch
  /\ nullLaunch => proxy
  /\ ~networkAlive => toNet = <<>>
  /\ ~proxy => replies = <<>> /\ fromNet = <<>>
  /\ launching \/ nullLaunch => fromNet = <<>>
  /\ ~launching /\ ~nullLaunch => numPending = 0

\* Until it is initialized, a process has the message that does it to handle next.
InitializesNext == networkAlive /\ ~initialized => toNet # <<>> /\ Head(toNet) = "Initialize"

\* didFinishLaunching sends one request for each that waits, after the first message.
LEMMA FlushCount ==
  ASSUME UITypes, stashed = <<"Initialize">>
  PROVE  Flush # <<>> /\ Head(Flush) = "Initialize" /\ Count(Flush, "Create") = numPending
<1> DEFINE c == [i \in 1..numPending |-> "Create"]
           n == numPending
<1>1. n \in Nat
  BY DEF UITypes
<1>2. c \in Seq({"Initialize", "Create"}) /\ Len(c) = n /\ \A i \in 1..n : c[i] = "Create"
  BY <1>1, SeqDef
<1>3. /\ stashed \in Seq({"Initialize", "Create"}) /\ Len(stashed) = 1
      /\ stashed[1] = "Initialize" /\ Flush = stashed \o c
  BY DEF Flush
<1> HIDE DEF c, n
<1>4. /\ Flush \in Seq({"Initialize", "Create"}) /\ Len(Flush) = n + 1
      /\ Flush[1] = "Initialize" /\ \A i \in 2..(n + 1) : Flush[i] = "Create"
  BY <1>1, <1>2, <1>3, ConcatProperties
<1>5. PlacesOf(Flush, "Create") = 2..(n + 1)
  <2>1. DOMAIN Flush = 1..(n + 1)
    BY <1>4, LenProperties
  <2> QED BY <1>1, <1>4, <2>1 DEF PlacesOf
<1>6. Cardinality(2..(n + 1)) = n
  BY <1>1, FS_Interval
<1>7. Count(Flush, "Create") = n
  BY <1>4, <1>5, <1>6, CountFinite
<1>8. Flush # <<>> /\ Head(Flush) = Flush[1]
  BY <1>1, <1>4, HeadTailProperties, EmptySeq
<1> QED BY <1>4, <1>7, <1>8 DEF n

LEMMA InitLaunched ==
  ASSUME NetworkInit
  PROVE  Launched /\ InitializesNext /\ InitializedFirst /\ RepliesMatchRequests
<1>1. Len(fromNet) <= Len(replies)
  BY DEF NetworkInit
<1> QED BY <1>1 DEF NetworkInit, Launched, InitializesNext, InitializedFirst, RepliesMatchRequests

\* The steps that concern a launch and the requests that wait for it.
LEMMA LaunchSteps ==
  ASSUME [NetworkNext]_networkVars
  PROVE  \/ UIProcess \/ EnsureNetworkProcess
         \/ InitializeNetworkProcess \/ CreateNetworkConnectionToWebProcess \/ NetworkProcessDies
         \/ /\ UNCHANGED <<ui, networkAlive, nullLaunch, initialized, toNet, fromNet>>
            /\ endpoints' \in SUBSET endpoints
<1>1. ASSUME NEW w \in WebProcesses,
             ScheduleResourceLoad(w) \/ RemoveLoadIdentifier(w) \/ SetSerialLoadingEnabled(w)
      PROVE  UNCHANGED <<ui, networkAlive, nullLaunch, initialized, toNet, fromNet, endpoints>>
  BY <1>1 DEF ScheduleResourceLoad, RemoveLoadIdentifier, SetSerialLoadingEnabled, channels
<1>2. ASSUME (\E w \in WebProcesses : WebProcessGone(w)) \/ (\E e \in endpoints : EndpointDropped(e))
      PROVE  /\ UNCHANGED <<ui, networkAlive, nullLaunch, initialized, toNet, fromNet>>
             /\ endpoints' \in SUBSET endpoints
  BY <1>2 DEF WebProcessGone, EndpointDropped, channels
<1>3. ASSUME NEW l \in Loads, LoadEnds(l) \/ ScheduleLoad(l) \/ CancelLoad(l)
      PROVE  UNCHANGED <<ui, networkAlive, nullLaunch, initialized, toNet, fromNet, endpoints>>
  BY <1>3 DEF LoadEnds, ScheduleLoad, CancelLoad, network
<1>4. ASSUME NEW w \in WebProcesses, WebProcess(w) \/ WebProcessExits(w)
      PROVE  UNCHANGED <<ui, networkAlive, nullLaunch, initialized, toNet, fromNet, endpoints>>
  BY <1>4 DEF WebProcess, ReceiveEndpoint, ReceiveNull, LoadFinished,
              NetworkProcessConnectionClosed, InternallyFailedLoadTimerFired, WebProcessExits,
              network, channels
<1>5. CASE UNCHANGED networkVars
  BY <1>5 DEF networkVars, network, channels
<1> QED BY <1>1, <1>2, <1>3, <1>4, <1>5 DEF NetworkNext, NetworkProcessRuns

\* The proxy, the launcher and the process are in step.
LEMMA NextLaunched ==
  ASSUME Typed, Launched, [NetworkNext]_networkVars
  PROVE  Launched'
<1> USE DEF Launched
<1>1. CASE DidFinishLaunching
  BY <1>1 DEF DidFinishLaunching
<1>2. CASE DidFailToLaunch
  BY <1>2 DEF DidFailToLaunch, channels
<1>3. CASE DidCreateNetworkConnectionToWebProcess
  BY <1>3 DEF DidCreateNetworkConnectionToWebProcess, network
<1>4. CASE NetworkProcessCrashed
  BY <1>4 DEF NetworkProcessCrashed, Lost, network
<1>5. ASSUME NEW w \in WebProcesses, GetNetworkProcessConnection(w) PROVE Launched'
  <2>1. CASE proxy
    BY <1>5, <2>1 DEF GetNetworkProcessConnection, network
  <2>2. CASE ~proxy
    BY <1>5, <2>2 DEF GetNetworkProcessConnection, Launch, network
  <2> QED BY <2>1, <2>2
<1>6. CASE EnsureNetworkProcess
  BY <1>6 DEF EnsureNetworkProcess, Launch, network, channels
<1>7. CASE InitializeNetworkProcess
  BY <1>7 DEF InitializeNetworkProcess, ui
<1>8. CASE CreateNetworkConnectionToWebProcess
  BY <1>8 DEF CreateNetworkConnectionToWebProcess, ui
<1>9. CASE NetworkProcessDies
  BY <1>9 DEF NetworkProcessDies, ui
<1>10. CASE UNCHANGED <<ui, networkAlive, nullLaunch, initialized, toNet, fromNet>>
  BY <1>10 DEF ui
<1> QED BY <1>1, <1>2, <1>3, <1>4, <1>5, <1>6, <1>7, <1>8, <1>9, <1>10, LaunchSteps DEF UIProcess

\* The message that initializes a process is the first it handles.
LEMMA NextInitializes ==
  ASSUME Typed, Launched, InitializesNext, InitializedFirst, [NetworkNext]_networkVars
  PROVE  InitializesNext' /\ InitializedFirst'
<1> USE DEF InitializesNext, InitializedFirst
<1>1. CASE DidFinishLaunching
  BY <1>1, FlushCount DEF DidFinishLaunching, Launched, Typed
<1>2. CASE DidFailToLaunch
  BY <1>2 DEF DidFailToLaunch, channels
<1>3. CASE DidCreateNetworkConnectionToWebProcess \/ NetworkProcessCrashed
  BY <1>3 DEF DidCreateNetworkConnectionToWebProcess, NetworkProcessCrashed, network
<1>4. ASSUME NEW w \in WebProcesses, GetNetworkProcessConnection(w)
      PROVE  InitializesNext' /\ InitializedFirst'
  <2>1. UNCHANGED network /\ (toNet' = toNet \/ toNet' = Append(toNet, "Create"))
    BY <1>4 DEF GetNetworkProcessConnection
  <2>2. toNet # <<>> => toNet' # <<>> /\ Head(toNet') = Head(toNet)
    <3>1. toNet \in Seq({"Initialize", "Create"})
      BY DEF Typed, ChannelTypes
    <3> QED BY <2>1, <3>1, AppendProperties, HeadTailProperties, LenProperties, EmptySeq
  <2> QED BY <2>1, <2>2 DEF network
<1>5. CASE EnsureNetworkProcess
  BY <1>5 DEF EnsureNetworkProcess, network, channels
<1>6. CASE InitializeNetworkProcess
  BY <1>6 DEF InitializeNetworkProcess
<1>7. CASE CreateNetworkConnectionToWebProcess
  BY <1>7 DEF CreateNetworkConnectionToWebProcess
<1>8. CASE NetworkProcessDies
  BY <1>8 DEF NetworkProcessDies
<1>9. CASE /\ UNCHANGED <<ui, networkAlive, nullLaunch, initialized, toNet, fromNet>>
           /\ endpoints' \in SUBSET endpoints
  BY <1>9
<1> QED BY <1>1, <1>2, <1>3, <1>4, <1>5, <1>6, <1>7, <1>8, <1>9, LaunchSteps DEF UIProcess

\* A request adds a reply to come and an answer adds none; a crash gives up all of them.
LEMMA NextMatching ==
  ASSUME Typed, Launched, RepliesMatchRequests, [NetworkNext]_networkVars
  PROVE  RepliesMatchRequests'
<1> DEFINE c == Count(toNet, "Create")
           Net == {"Initialize", "Create"}
<1>1. /\ replies \in Seq(WebProcesses) /\ fromNet \in Seq(Nat) /\ toNet \in Seq(Net)
      /\ Len(replies) \in Nat /\ Len(fromNet) \in Nat /\ c \in Nat /\ numPending \in Nat
  BY CountFinite, LenProperties DEF Typed, UITypes, ChannelTypes
<1>2. /\ launching \/ networkAlive => Len(replies) = numPending + c + Len(fromNet)
      /\ Len(fromNet) <= Len(replies)
  BY DEF RepliesMatchRequests
<1>3. Count(<<>>, "Create") = 0 /\ Len(<<>>) = 0
  BY <1>1, CountNothing, EmptySeq
<1>4. ASSUME NEW n, n = Count(toNet, "Create")',
             (launching' \/ networkAlive') => Len(replies') = numPending' + n + Len(fromNet'),
             Len(fromNet') <= Len(replies')
      PROVE  RepliesMatchRequests'
  BY <1>4 DEF RepliesMatchRequests
<1> HIDE DEF c
<1>5. CASE DidFinishLaunching
  <2>1. /\ toNet' = Flush /\ numPending' = 0 /\ UNCHANGED <<replies, fromNet>>
        /\ launching /\ fromNet = <<>> /\ toNet = <<>>
    BY <1>5 DEF DidFinishLaunching, Launched
  <2>2. Count(Flush, "Create") = numPending
    BY <1>5, FlushCount DEF DidFinishLaunching, Launched, Typed
  <2>3. Count(toNet, "Create")' = numPending
    BY <2>1, <2>2 DEF Count
  <2> QED BY <1>1, <1>2, <1>3, <1>4, <2>1, <2>3 DEF c
<1>6. CASE DidFailToLaunch
  BY <1>1, <1>2, <1>6 DEF DidFailToLaunch, channels, Launched, RepliesMatchRequests
<1>7. CASE DidCreateNetworkConnectionToWebProcess
  <2>1. /\ fromNet # <<>> /\ fromNet' = Tail(fromNet) /\ replies' = Tail(replies)
        /\ UNCHANGED <<launching, networkAlive, numPending, toNet>>
    BY <1>7 DEF DidCreateNetworkConnectionToWebProcess, network
  <2>2. replies # <<>>
    BY <1>1, <1>2, <1>3, <2>1, EmptySeq
  <2>3. Len(fromNet') = Len(fromNet) - 1 /\ Len(replies') = Len(replies) - 1
    BY <1>1, <2>1, <2>2, HeadTailProperties
  <2>4. Count(toNet, "Create")' = c
    BY <2>1 DEF c, Count
  <2>5. (launching' \/ networkAlive') => launching \/ networkAlive
    BY <2>1
  <2>6. (launching' \/ networkAlive') => Len(replies') = numPending' + c + Len(fromNet')
    BY <1>1, <1>2, <2>1, <2>3, <2>5
  <2>7. Len(fromNet') <= Len(replies')
    BY <1>1, <1>2, <2>3
  <2> QED BY <1>4, <2>4, <2>6, <2>7
<1>8. CASE NetworkProcessCrashed
  BY <1>3, <1>8 DEF NetworkProcessCrashed, Lost, network, RepliesMatchRequests
<1>9. ASSUME NEW w \in WebProcesses, GetNetworkProcessConnection(w) PROVE RepliesMatchRequests'
  <2>1. /\ replies' = Append(replies, w) /\ UNCHANGED <<networkAlive, fromNet>>
        /\ numPending' = IF launching' THEN numPending + 1 ELSE numPending
        /\ toNet' = IF networkAlive THEN Append(toNet, "Create") ELSE toNet
    BY <1>9 DEF GetNetworkProcessConnection, network
  <2>2. Len(replies') = Len(replies) + 1
    BY <1>1, <2>1, AppendProperties
  <2>3. CASE networkAlive
    <3>1. ~launching' /\ proxy
      BY <1>9, <2>3 DEF Launched, GetNetworkProcessConnection
    <3>2. Count(Append(toNet, "Create"), "Create") = c + 1
      BY <1>1, CountAppended DEF c
    <3>3. Count(toNet, "Create")' = c + 1
      BY <2>1, <2>3, <3>2 DEF Count
    <3>4. numPending' = numPending /\ Len(fromNet') = Len(fromNet)
      BY <2>1, <3>1
    <3>5. Len(replies') = numPending' + (c + 1) + Len(fromNet') /\ Len(fromNet') <= Len(replies')
      BY <1>1, <1>2, <2>2, <2>3, <3>4
    <3> QED BY <1>4, <3>3, <3>5
  <2>4. CASE ~networkAlive
    <3>1. Count(toNet, "Create")' = c
      BY <2>1, <2>4 DEF c, Count
    <3>2. CASE launching
      <4>1. launching'
        BY <1>9, <3>2 DEF GetNetworkProcessConnection, Launch
      <4>2. numPending' = numPending + 1 /\ Len(fromNet') = Len(fromNet)
        BY <2>1, <4>1
      <4>3. Len(replies') = numPending' + c + Len(fromNet') /\ Len(fromNet') <= Len(replies')
        BY <1>1, <1>2, <2>2, <3>2, <4>2
      <4> QED BY <1>4, <3>1, <4>3
    <3>3. CASE ~launching /\ proxy
      <4>1. ~launching'
        BY <1>9, <3>3 DEF GetNetworkProcessConnection
      <4> QED BY <1>1, <1>2, <1>4, <2>1, <2>2, <2>4, <3>1, <4>1
    <3>4. CASE ~proxy
      <4>1. launching' /\ toNet = <<>> /\ fromNet = <<>> /\ replies = <<>> /\ numPending = 0
        BY <1>9, <2>4, <3>4 DEF GetNetworkProcessConnection, Launch, Launched
      <4> QED BY <1>1, <1>3, <1>4, <2>1, <2>2, <2>4, <3>1, <4>1 DEF c
    <3> QED BY <3>2, <3>3, <3>4
  <2> QED BY <2>3, <2>4
<1>10. CASE EnsureNetworkProcess
  <2>1. /\ toNet = <<>> /\ fromNet = <<>> /\ replies = <<>> /\ numPending = 0
        /\ UNCHANGED <<toNet, fromNet, replies, numPending>>
    BY <1>10 DEF EnsureNetworkProcess, Launched, channels
  <2>2. Count(toNet, "Create")' = 0
    BY <1>3, <2>1 DEF Count
  <2> QED BY <1>3, <1>4, <2>1, <2>2
<1>11. CASE InitializeNetworkProcess
  <2>1. /\ toNet # <<>> /\ Head(toNet) = "Initialize" /\ toNet' = Tail(toNet)
        /\ UNCHANGED <<networkAlive, ui, fromNet>>
    BY <1>11 DEF InitializeNetworkProcess
  <2>2. c = Count(Tail(toNet), "Create")
    <3>1. Count(toNet, "Create") = Count(Tail(toNet), "Create") + 0
      BY <1>1, <2>1, CountRest
    <3>2. Count(Tail(toNet), "Create") \in Nat
      BY <1>1, <2>1, HeadTailProperties, CountFinite
    <3> QED BY <3>1, <3>2 DEF c
  <2>3. Count(toNet, "Create")' = c
    BY <2>1, <2>2 DEF Count
  <2> QED BY <1>1, <1>2, <1>4, <2>1, <2>3 DEF ui
<1>12. CASE CreateNetworkConnectionToWebProcess
  <2>1. /\ toNet # <<>> /\ Head(toNet) = "Create" /\ toNet' = Tail(toNet)
        /\ fromNet' = Append(fromNet, made + 1) /\ networkAlive
        /\ UNCHANGED <<networkAlive, ui>>
    BY <1>12 DEF CreateNetworkConnectionToWebProcess
  <2>2. c = Count(Tail(toNet), "Create") + 1 /\ Count(Tail(toNet), "Create") \in Nat
    <3>1. Count(toNet, "Create") = Count(Tail(toNet), "Create") + 1
      BY <1>1, <2>1, CountRest
    <3>2. Count(Tail(toNet), "Create") \in Nat
      BY <1>1, <2>1, HeadTailProperties, CountFinite
    <3> QED BY <3>1, <3>2 DEF c
  <2>3. Count(toNet, "Create")' = c - 1
    <3>1. Count(toNet, "Create")' = Count(Tail(toNet), "Create")
      BY <2>1 DEF Count
    <3> QED BY <1>1, <2>2, <3>1
  <2>4. Len(fromNet') = Len(fromNet) + 1
    BY <1>1, <2>1, AppendProperties DEF Typed, NetworkTypes
  <2>5. Len(replies') = Len(replies) /\ numPending' = numPending
    BY <2>1 DEF ui
  <2>6. Len(replies') = numPending' + (c - 1) + Len(fromNet')
    BY <1>1, <1>2, <2>1, <2>4, <2>5
  <2>7. c - 1 \in Nat
    BY <2>2
  <2>8. Len(fromNet') <= Len(replies')
    BY <1>1, <2>4, <2>5, <2>6, <2>7
  <2> QED BY <1>4, <2>3, <2>6, <2>8
<1>13. CASE NetworkProcessDies
  BY <1>2, <1>13 DEF NetworkProcessDies, ui, Launched, RepliesMatchRequests
<1>14. CASE UNCHANGED <<ui, networkAlive, nullLaunch, initialized, toNet, fromNet>>
  BY <1>14 DEF ui, RepliesMatchRequests, Count
<1> QED BY <1>5, <1>6, <1>7, <1>8, <1>9, <1>10, <1>11, <1>12, <1>13, <1>14, LaunchSteps
           DEF UIProcess

-----------------------------------------------------------------------------
(* Where a web process waits.                                              *)

\* Where the request of a web process or its reply is.
Waits(w) == (IF w \in asked THEN 1 ELSE 0) + Count(replies, w) + Len(answer[w])

\* It is in one place while the web process waits, and nowhere before and after.  What a
\* process that exited asked for no longer matters.
WaitsWhileAsking ==
  \A w \in WebProcesses : web[w] # "exited" =>
    Waits(w) = (IF web[w] = "asking" THEN 1 ELSE 0)

LEMMA InitWaits ==
  ASSUME NetworkInit
  PROVE  WaitsWhileAsking
<1>1. ASSUME NEW w \in WebProcesses
      PROVE  Waits(w) = 0 /\ web[w] # "asking"
  <2>1. Count(<<>>, w) = 0 /\ Len(<<>>) = 0
    BY Empty, CountNothing, EmptySeq
  <2> QED BY <2>1 DEF NetworkInit, Waits
<1> QED BY <1>1 DEF WaitsWhileAsking

\* The numbers that Waits adds up.
LEMMA WaitsTypes ==
  ASSUME Typed, NEW w \in WebProcesses
  PROVE  Count(replies, w) \in Nat /\ Len(answer[w]) \in Nat /\ answer[w] \in Seq(Nat)
  BY CountFinite, LenProperties DEF Typed, UITypes, ChannelTypes

\* What is asked, waits for an answer or is answered moves from one of these to the next.
LEMMA NextWaits ==
  ASSUME Typed, Typed', RepliesMatchRequests, WaitsWhileAsking, [NetworkNext]_networkVars
  PROVE  WaitsWhileAsking'
<1> USE DEF WaitsWhileAsking, Waits
<1>1. \A w \in WebProcesses : web[w] \in {"running", "asking", "crashed", "exited"}
  BY DEF Typed, WebTypes
<1>2. Len(<<>>) = 0 /\ \A w : Count(<<>>, w) = 0
  BY Empty, EmptySeq, CountNothing
<1>3. CASE DidCreateNetworkConnectionToWebProcess
  <2>1. /\ fromNet # <<>> /\ replies' = Tail(replies) /\ UNCHANGED <<asked, web>>
        /\ answer' = Reply({Head(replies)}, Head(fromNet))
    BY <1>3 DEF DidCreateNetworkConnectionToWebProcess, webState
  <2>2. replies \in Seq(WebProcesses) /\ fromNet \in Seq(Nat) /\ Head(fromNet) \in Nat
    BY <2>1, HeadTailProperties DEF Typed, UITypes, ChannelTypes
  <2>3. replies # <<>>
    BY <2>1, <2>2, EmptySeq, LenProperties DEF RepliesMatchRequests
  <2> SUFFICES ASSUME NEW w \in WebProcesses, web[w] # "exited"
               PROVE  Waits(w)' = (IF web[w] = "asking" THEN 1 ELSE 0)
    BY <2>1
  <2>4. Count(replies, w) = Count(Tail(replies), w) + (IF Head(replies) = w THEN 1 ELSE 0)
    BY <2>2, <2>3, CountRest
  <2>5. Count(Tail(replies), w) \in Nat
    BY <2>2, <2>3, HeadTailProperties, CountFinite
  <2>6. Count(replies, w)' = Count(Tail(replies), w)
    BY <2>1 DEF Count
  <2>7. answer[w] \in Seq(Nat) /\ Len(answer[w]) \in Nat
    BY WaitsTypes
  <2>8. CASE Head(replies) = w
    <3>1. web[w] = "asking"
      BY <1>1, <2>4, <2>5, <2>7, <2>8
    <3>2. answer'[w] = Append(answer[w], Head(fromNet))
      BY <2>1, <2>8, <3>1 DEF Reply
    <3>3. Len(answer'[w]) = Len(answer[w]) + 1
      BY <2>2, <2>7, <3>2, AppendProperties
    <3> QED BY <2>1, <2>4, <2>5, <2>6, <2>7, <2>8, <3>1, <3>3
  <2>9. CASE Head(replies) # w
    <3>1. answer'[w] = answer[w]
      BY <2>1, <2>9 DEF Reply
    <3> QED BY <2>1, <2>4, <2>5, <2>6, <2>7, <2>9, <3>1
  <2> QED BY <2>8, <2>9
<1>4. CASE NetworkProcessCrashed
  <2>1. replies' = <<>> /\ answer' = Reply(ToSet(replies), 0) /\ UNCHANGED <<asked, web>>
    BY <1>4 DEF NetworkProcessCrashed, webState
  <2> SUFFICES ASSUME NEW w \in WebProcesses, web[w] # "exited"
               PROVE  Waits(w)' = (IF web[w] = "asking" THEN 1 ELSE 0)
    BY <2>1
  <2>2. Count(replies, w) \in Nat /\ Len(answer[w]) \in Nat /\ answer[w] \in Seq(Nat)
    BY WaitsTypes
  <2>3. Count(replies, w)' = 0
    BY <1>2, <2>1 DEF Count
  <2>4. Count(replies, w) = 0 <=> w \notin ToSet(replies)
    <3>1. replies \in Seq(WebProcesses) /\ DOMAIN replies = 1..Len(replies)
      BY LenProperties DEF Typed, UITypes
    <3> QED BY <3>1, CountNothing DEF ToSet
  <2>5. CASE w \in ToSet(replies)
    <3>1. web[w] = "asking"
      BY <1>1, <2>2, <2>4, <2>5
    <3>2. answer'[w] = Append(answer[w], 0)
      BY <2>1, <2>5, <3>1 DEF Reply
    <3>3. Len(answer'[w]) = Len(answer[w]) + 1
      BY <2>2, <3>2, AppendProperties
    <3> QED BY <2>1, <2>2, <2>3, <2>4, <2>5, <3>1, <3>3
  <2>6. CASE w \notin ToSet(replies)
    <3>1. answer'[w] = answer[w]
      BY <2>1, <2>6 DEF Reply
    <3> QED BY <2>1, <2>2, <2>3, <2>4, <2>6, <3>1
  <2> QED BY <2>5, <2>6
<1>5. ASSUME NEW v \in WebProcesses, GetNetworkProcessConnection(v) PROVE WaitsWhileAsking'
  <2>1. /\ v \in asked /\ asked' = asked \ {v} /\ replies' = Append(replies, v)
        /\ UNCHANGED <<answer, web>>
    BY <1>5 DEF GetNetworkProcessConnection, webState
  <2> SUFFICES ASSUME NEW w \in WebProcesses, web[w] # "exited"
               PROVE  Waits(w)' = (IF web[w] = "asking" THEN 1 ELSE 0)
    BY <2>1
  <2>2. Count(replies, w) \in Nat /\ Len(answer[w]) \in Nat
    BY WaitsTypes
  <2>3. Count(Append(replies, v), w) = Count(replies, w) + (IF v = w THEN 1 ELSE 0)
    BY CountAppended DEF Typed, UITypes
  <2>4. Count(replies, w)' = Count(replies, w) + (IF v = w THEN 1 ELSE 0)
    BY <2>1, <2>3 DEF Count
  <2> QED BY <2>1, <2>2, <2>4
<1>6. ASSUME NEW l \in Loads, ScheduleLoad(l) PROVE WaitsWhileAsking'
  <2> DEFINE v == Owner[l]
  <2>1. UNCHANGED <<replies, answer>> /\ v \in WebProcesses /\ web[v] = "running"
    BY <1>6, OwnerType DEF ScheduleLoad, Running, ui
  <2>2. CASE connection[v] = 0
    <3>1. asked' = asked \union {v} /\ web' = [web EXCEPT ![v] = "asking"]
      BY <1>6, <2>2 DEF ScheduleLoad
    <3>2. v \notin asked
      BY <2>1, WaitsTypes
    <3> SUFFICES ASSUME NEW w \in WebProcesses, web'[w] # "exited"
                 PROVE  Waits(w)' = (IF web'[w] = "asking" THEN 1 ELSE 0)
      OBVIOUS
    <3>3. Count(replies, w) \in Nat /\ Len(answer[w]) \in Nat
      BY WaitsTypes
    <3>4. Count(replies, w)' = Count(replies, w)
      BY <2>1 DEF Count
    <3>5. web'[w] = IF w = v THEN "asking" ELSE web[w]
      BY <3>1 DEF Typed, WebTypes
    <3> QED BY <2>1, <3>1, <3>2, <3>3, <3>4, <3>5
  <2>3. CASE connection[v] # 0
    <3>1. UNCHANGED <<asked, web>>
      BY <1>6, <2>3 DEF ScheduleLoad
    <3> QED BY <2>1, <3>1 DEF Count
  <2> QED BY <2>2, <2>3
<1>7. ASSUME NEW v \in WebProcesses, ReceiveEndpoint(v) \/ ReceiveNull(v) PROVE WaitsWhileAsking'
  <2>1. /\ web[v] = "asking" /\ answer[v] # <<>> /\ answer' = [answer EXCEPT ![v] = <<>>]
        /\ \E s \in {"running", "crashed"} : web' = [web EXCEPT ![v] = s]
        /\ UNCHANGED <<asked, replies>>
    BY <1>7 DEF ReceiveEndpoint, ReceiveNull, ui
  <2>2. v \notin asked /\ Count(replies, v) = 0
    <3>1. Len(answer[v]) # 0
      BY <2>1, WaitsTypes, EmptySeq
    <3> QED BY <2>1, <3>1, WaitsTypes
  <2> SUFFICES ASSUME NEW w \in WebProcesses, web'[w] # "exited"
               PROVE  Waits(w)' = (IF web'[w] = "asking" THEN 1 ELSE 0)
    OBVIOUS
  <2>3. Count(replies, w)' = Count(replies, w)
    BY <2>1 DEF Count
  <2>4. CASE w = v
    <3>1. answer'[w] = <<>> /\ web'[w] # "asking"
      BY <2>1, <2>4 DEF Typed, WebTypes, ChannelTypes
    <3> QED BY <1>2, <2>1, <2>2, <2>3, <2>4, <3>1
  <2>5. CASE w # v
    <3>1. answer'[w] = answer[w] /\ web'[w] = web[w]
      BY <2>1, <2>5 DEF Typed, WebTypes, ChannelTypes
    <3> QED BY <2>1, <2>3, <3>1
  <2> QED BY <2>4, <2>5
<1>8. ASSUME NEW v \in WebProcesses, WebProcessExits(v) PROVE WaitsWhileAsking'
  <2>1. /\ web' = [web EXCEPT ![v] = "exited"] /\ answer' = [answer EXCEPT ![v] = <<>>]
        /\ UNCHANGED <<asked, replies>>
    BY <1>8 DEF WebProcessExits, ui
  <2> SUFFICES ASSUME NEW w \in WebProcesses, web'[w] # "exited"
               PROVE  Waits(w)' = (IF web'[w] = "asking" THEN 1 ELSE 0)
    OBVIOUS
  <2>2. w # v /\ web'[w] = web[w] /\ answer'[w] = answer[w]
    BY <2>1 DEF Typed, WebTypes, ChannelTypes
  <2> QED BY <2>1, <2>2 DEF Count
<1>9. CASE UNCHANGED <<asked, replies, answer, web>>
  BY <1>9 DEF Count
<1>10. ASSUME DidFinishLaunching \/ DidFailToLaunch \/ EnsureNetworkProcess
              \/ NetworkProcessRuns \/ NetworkProcessDies
       PROVE  UNCHANGED <<asked, replies, answer, web>>
  BY <1>10 DEF DidFinishLaunching, DidFailToLaunch, EnsureNetworkProcess, NetworkProcessRuns,
         NetworkProcessDies, InitializeNetworkProcess, CreateNetworkConnectionToWebProcess,
         ScheduleResourceLoad, RemoveLoadIdentifier, WebProcessGone, EndpointDropped, LoadEnds,
         ui, webState, channels
<1>11. ASSUME (\E l \in Loads : CancelLoad(l))
              \/ (\E w \in WebProcesses :
                    LoadFinished(w) \/ NetworkProcessConnectionClosed(w)
                    \/ InternallyFailedLoadTimerFired(w) \/ SetSerialLoadingEnabled(w))
              \/ UNCHANGED networkVars
       PROVE  UNCHANGED <<asked, replies, answer, web>>
  BY <1>11 DEF CancelLoad, LoadFinished, NetworkProcessConnectionClosed,
         InternallyFailedLoadTimerFired, SetSerialLoadingEnabled, networkVars,
         ui, webState, channels
<1> QED BY <1>3, <1>4, <1>5, <1>6, <1>7, <1>8, <1>9, <1>10, <1>11
        DEF NetworkNext, UIProcess, WebProcess

-----------------------------------------------------------------------------
(* Loads.                                                                  *)

\* No endpoint is known before it was made.
Known ==
  /\ \A w \in WebProcesses : connection[w] <= made
  /\ \A w \in WebProcesses : \A i \in 1..Len(answer[w]) : answer[w][i] <= made
  /\ \A i \in 1..Len(fromNet) : fromNet[i] <= made

\* What is under way between a web process and the network process is about its own loads.
Owned ==
  /\ \A w \in WebProcesses : \A i \in 1..Len(toLoads[w]) : Owner[toLoads[w][i][2]] = w
  /\ \A w \in WebProcesses : \A i \in 1..Len(fromLoads[w]) : Owner[fromLoads[w][i]] = w
  /\ \A w \in WebProcesses : web[w] = "asking" =>
       \A l \in want[w] : Owner[l] = w /\ load[l] = "none"

\* Where a load may be: under way to the scheduler, in it, or under way back.
ToSchedule(l) == Count(toLoads[Owner[l]], <<"Schedule", l>>)
ToRemove(l)   == Count(toLoads[Owner[l]], <<"Remove", l>>)
Reported(l)   == Count(fromLoads[Owner[l]], l)
Share(l)      == ToSchedule(l) + In(Current, l) + Reported(l)

\* The web process has a connection that the network process still has.
Open(w) == Running(w) /\ connection[w] \in endpoints

\* A load that was not scheduled is nowhere; nobody removes one that is; none is while its
\* web process has no connection.
LoadKept(l) ==
  /\ load[l] = "none" => Share(l) = 0 /\ ToRemove(l) = 0
  /\ load[l] = "scheduled" => ToRemove(l) = 0
  /\ load[l] = "scheduled" /\ Open(Owner[l]) => Share(l) = 1
  /\ web[Owner[l]] \in {"running", "asking"} /\ connection[Owner[l]] = 0 => load[l] # "scheduled"

LoadsKept == \A l \in Loads : LoadKept(l)

LEMMA InitLoads ==
  ASSUME NetworkInit
  PROVE  Known /\ Owned /\ LoadsKept
<1>1. Len(<<>>) = 0 /\ \A x : Count(<<>>, x) = 0
  BY Empty, EmptySeq, CountNothing
<1>2. Known /\ Owned
  BY <1>1 DEF NetworkInit, Known, Owned
<1>3. ASSUME NEW l \in Loads PROVE LoadKept(l)
  BY <1>1, OwnerType
     DEF NetworkInit, LoadKept, Share, ToSchedule, ToRemove, Reported, In, Current
<1> QED BY <1>2, <1>3 DEF LoadsKept

\* The numbers that Share adds up.
LEMMA ShareTypes ==
  ASSUME Typed, NEW l \in Loads
  PROVE  ToSchedule(l) \in Nat /\ ToRemove(l) \in Nat /\ Reported(l) \in Nat /\ In(Current, l) \in Nat
<1>1. /\ toLoads[Owner[l]] \in Seq(LoadMessages) /\ fromLoads[Owner[l]] \in Seq(Loads)
  BY OwnerType DEF Typed, ChannelTypes
<1>2. Current \in States
  BY DEF Current, States, Typed, NetworkTypes
<1> QED BY <1>1, <1>2, CountFinite, InType DEF ToSchedule, ToRemove, Reported

\* What sending a message about a load changes.
LEMMA SentCounts ==
  ASSUME Typed, NEW k \in Loads, NEW kind \in {"Schedule", "Remove"},
         SendToNetwork(Owner[k], kind, k)
  PROVE  /\ \A l \in Loads \ {k} : ToSchedule(l)' = ToSchedule(l) /\ ToRemove(l)' = ToRemove(l)
         /\ connection'[Owner[k]] \notin endpoints =>
              ToSchedule(k)' = ToSchedule(k) /\ ToRemove(k)' = ToRemove(k)
         /\ connection'[Owner[k]] \in endpoints =>
              /\ ToSchedule(k)' = ToSchedule(k) + (IF kind = "Schedule" THEN 1 ELSE 0)
              /\ ToRemove(k)' = ToRemove(k) + (IF kind = "Remove" THEN 1 ELSE 0)
<1> DEFINE w == Owner[k]
           m == <<kind, k>>
<1>1. /\ w \in WebProcesses /\ toLoads[w] \in Seq(LoadMessages) /\ m \in LoadMessages
      /\ ChannelTypes
  BY OwnerType DEF Typed, ChannelTypes, LoadMessages
<1>2. /\ toLoads'[w] = IF connection'[w] \in endpoints THEN Append(toLoads[w], m) ELSE toLoads[w]
      /\ \A v \in WebProcesses \ {w} : toLoads'[v] = toLoads[v]
  BY <1>1, SentMessage
<1>3. \A x : Count(Append(toLoads[w], m), x) = Count(toLoads[w], x) + (IF m = x THEN 1 ELSE 0)
  BY <1>1, CountAppended
<1>4. ASSUME NEW l \in Loads \ {k}
      PROVE  ToSchedule(l)' = ToSchedule(l) /\ ToRemove(l)' = ToRemove(l)
  <2>1. m # <<"Schedule", l>> /\ m # <<"Remove", l>>
    OBVIOUS
  <2>2. \/ toLoads'[Owner[l]] = toLoads[Owner[l]]
        \/ Owner[l] = w /\ toLoads'[Owner[l]] = Append(toLoads[w], m)
    BY <1>2, OwnerType
  <2>3. ToSchedule(l) \in Nat /\ ToRemove(l) \in Nat
    BY ShareTypes
  <2> HIDE DEF m, w
  <2>4. CASE toLoads'[Owner[l]] = toLoads[Owner[l]]
    BY <2>4 DEF ToSchedule, ToRemove
  <2>5. CASE Owner[l] = w /\ toLoads'[Owner[l]] = Append(toLoads[w], m)
    BY <1>3, <2>1, <2>3, <2>5 DEF ToSchedule, ToRemove
  <2> QED BY <2>2, <2>4, <2>5
<1>5. ASSUME connection'[w] \notin endpoints
      PROVE  ToSchedule(k)' = ToSchedule(k) /\ ToRemove(k)' = ToRemove(k)
  BY <1>2, <1>5 DEF ToSchedule, ToRemove
<1>6. ASSUME connection'[w] \in endpoints
      PROVE  /\ ToSchedule(k)' = ToSchedule(k) + (IF kind = "Schedule" THEN 1 ELSE 0)
             /\ ToRemove(k)' = ToRemove(k) + (IF kind = "Remove" THEN 1 ELSE 0)
  <2>1. toLoads'[w] = Append(toLoads[w], m)
    BY <1>2, <1>6
  <2>2. (m = <<"Schedule", k>> <=> kind = "Schedule") /\ (m = <<"Remove", k>> <=> kind = "Remove")
    OBVIOUS
  <2>3. ToSchedule(k)' = Count(Append(toLoads[w], m), <<"Schedule", k>>)
        /\ ToRemove(k)' = Count(Append(toLoads[w], m), <<"Remove", k>>)
    BY <2>1 DEF ToSchedule, ToRemove
  <2> HIDE DEF m
  <2> QED BY <1>3, <2>2, <2>3 DEF ToSchedule, ToRemove
<1> QED BY <1>4, <1>5, <1>6

\* What receiving one changes.
LEMMA ReceivedCounts ==
  ASSUME Typed, Owned, NEW w \in WebProcesses, NEW kind \in {"Schedule", "Remove"},
         Received(w, kind), Receive(w), NEW k, k = Head(toLoads[w])[2]
  PROVE  /\ k \in Loads /\ Owner[k] = w
         /\ \A l \in Loads \ {k} : ToSchedule(l)' = ToSchedule(l) /\ ToRemove(l)' = ToRemove(l)
         /\ ToSchedule(k) = ToSchedule(k)' + (IF kind = "Schedule" THEN 1 ELSE 0)
         /\ ToRemove(k) = ToRemove(k)' + (IF kind = "Remove" THEN 1 ELSE 0)
<1> DEFINE m == <<kind, k>>
<1>1. /\ k \in Loads /\ Head(toLoads[w]) = m
      /\ toLoads[w] \in Seq(LoadMessages) /\ toLoads[w] # <<>>
      /\ toLoads'[w] = Tail(toLoads[w])
      /\ \A v \in WebProcesses \ {w} : toLoads'[v] = toLoads[v]
  BY ReceivedMessage DEF Typed
<1>2. Owner[k] = w
  <2>1. 1 \in 1..Len(toLoads[w]) /\ toLoads[w][1] = Head(toLoads[w])
    BY <1>1, EmptySeq, LenProperties, HeadTailProperties
  <2> QED BY <2>1 DEF Owned
<1>3. \A x : Count(toLoads[w], x) = Count(Tail(toLoads[w]), x) + (IF m = x THEN 1 ELSE 0)
  BY <1>1, CountRest
<1>4. \A x : Count(Tail(toLoads[w]), x) \in Nat
  BY <1>1, HeadTailProperties, CountFinite
<1>5. ASSUME NEW l \in Loads \ {k}
      PROVE  ToSchedule(l)' = ToSchedule(l) /\ ToRemove(l)' = ToRemove(l)
  <2>1. m # <<"Schedule", l>> /\ m # <<"Remove", l>>
    OBVIOUS
  <2> HIDE DEF m
  <2>2. CASE Owner[l] # w
    BY <1>1, <2>2, OwnerType DEF ToSchedule, ToRemove
  <2>3. CASE Owner[l] = w
    <3>1. ToSchedule(l)' = Count(Tail(toLoads[w]), <<"Schedule", l>>)
          /\ ToRemove(l)' = Count(Tail(toLoads[w]), <<"Remove", l>>)
      BY <1>1, <2>3 DEF ToSchedule, ToRemove
    <3> QED BY <1>3, <1>4, <2>1, <2>3, <3>1 DEF ToSchedule, ToRemove
  <2> QED BY <2>2, <2>3
<1>6. /\ ToSchedule(k) = ToSchedule(k)' + (IF kind = "Schedule" THEN 1 ELSE 0)
      /\ ToRemove(k) = ToRemove(k)' + (IF kind = "Remove" THEN 1 ELSE 0)
  <2>1. (m = <<"Schedule", k>> <=> kind = "Schedule") /\ (m = <<"Remove", k>> <=> kind = "Remove")
    OBVIOUS
  <2>2. ToSchedule(k)' = Count(Tail(toLoads[w]), <<"Schedule", k>>)
        /\ ToRemove(k)' = Count(Tail(toLoads[w]), <<"Remove", k>>)
    BY <1>1, <1>2 DEF ToSchedule, ToRemove
  <2>3. /\ ToSchedule(k) = Count(toLoads[w], <<"Schedule", k>>)
        /\ ToRemove(k) = Count(toLoads[w], <<"Remove", k>>)
    BY <1>2 DEF ToSchedule, ToRemove
  <2> HIDE DEF m
  <2>4. /\ Count(toLoads[w], <<"Schedule", k>>)
             = Count(Tail(toLoads[w]), <<"Schedule", k>>) + (IF kind = "Schedule" THEN 1 ELSE 0)
        /\ Count(toLoads[w], <<"Remove", k>>)
             = Count(Tail(toLoads[w]), <<"Remove", k>>) + (IF kind = "Remove" THEN 1 ELSE 0)
    BY <1>3, <2>1
  <2> DEFINE a == Count(toLoads[w], <<"Schedule", k>>)
             b == Count(toLoads[w], <<"Remove", k>>)
             c == Count(Tail(toLoads[w]), <<"Schedule", k>>)
             d == Count(Tail(toLoads[w]), <<"Remove", k>>)
  <2> HIDE DEF a, b, c, d
  <2>5. ToSchedule(k) = a /\ ToRemove(k) = b /\ ToSchedule(k)' = c /\ ToRemove(k)' = d
    BY <2>2, <2>3 DEF a, b, c, d
  <2>6. a = c + (IF kind = "Schedule" THEN 1 ELSE 0) /\ b = d + (IF kind = "Remove" THEN 1 ELSE 0)
    BY <2>4 DEF a, b, c, d
  <2> QED BY <2>5, <2>6
<1> QED BY <1>1, <1>2, <1>5, <1>6

\* Endpoints are numbered as they are made.
LEMMA NextKnown ==
  ASSUME Typed, Known, [NetworkNext]_networkVars
  PROVE  Known'
<1> USE DEF Known, Typed
<1>1. made \in Nat /\ \A w \in WebProcesses : connection[w] \in Nat /\ answer[w] \in Seq(Nat)
  BY DEF NetworkTypes, WebTypes, ChannelTypes
<1>1a. fromNet \in Seq(Nat)
  BY DEF ChannelTypes
<1>2. CASE DidCreateNetworkConnectionToWebProcess
  <2>1. /\ fromNet # <<>> /\ fromNet' = Tail(fromNet) /\ answer' = Reply({Head(replies)}, Head(fromNet))
        /\ UNCHANGED <<made, connection>>
    BY <1>2 DEF DidCreateNetworkConnectionToWebProcess, network, webState
  <2>2. /\ Head(fromNet) = fromNet[1] /\ Len(Tail(fromNet)) = Len(fromNet) - 1
        /\ Len(fromNet) \in Nat \ {0}
        /\ \A i \in 1..(Len(fromNet) - 1) : Tail(fromNet)[i] = fromNet[i + 1]
    BY <1>1a, <2>1, HeadTailProperties, LenProperties, EmptySeq
  <2>3. \A i \in 1..Len(fromNet') : fromNet'[i] <= made'
    <3>1. \A i \in 1..(Len(fromNet) - 1) : i + 1 \in 1..Len(fromNet)
      BY <2>2
    <3> QED BY <2>1, <2>2, <3>1
  <2>4. Head(fromNet) <= made /\ Head(fromNet) \in Nat
    <3>1. 1 \in 1..Len(fromNet)
      BY <2>2
    <3> QED BY <1>1a, <2>2, <3>1, ElementOfSeq
  <2>5. ASSUME NEW w \in WebProcesses, NEW i \in 1..Len(answer'[w]) PROVE answer'[w][i] <= made'
    <3>1. CASE answer'[w] = answer[w]
      BY <2>1, <3>1
    <3>2. CASE answer'[w] = Append(answer[w], Head(fromNet))
      <4>1. /\ Len(answer'[w]) = Len(answer[w]) + 1 /\ Len(answer[w]) \in Nat
            /\ answer'[w][Len(answer[w]) + 1] = Head(fromNet)
            /\ \A j \in 1..Len(answer[w]) : answer'[w][j] = answer[w][j]
        BY <1>1, <2>4, <3>2, AppendProperties, LenProperties
      <4>2. i \in 1..Len(answer[w]) \/ i = Len(answer[w]) + 1
        BY <4>1
      <4> QED BY <2>1, <2>4, <4>1, <4>2
    <3>3. answer'[w] = answer[w] \/ answer'[w] = Append(answer[w], Head(fromNet))
      BY <2>1 DEF Reply
    <3> QED BY <3>1, <3>2, <3>3
  <2> QED BY <2>1, <2>3, <2>5
<1>3. CASE NetworkProcessCrashed
  <2>1. answer' = Reply(ToSet(replies), 0) /\ UNCHANGED <<made, connection, fromNet>>
    BY <1>3 DEF NetworkProcessCrashed, network, webState
  <2>2. ASSUME NEW w \in WebProcesses, NEW i \in 1..Len(answer'[w]) PROVE answer'[w][i] <= made'
    <3>1. CASE answer'[w] = answer[w]
      BY <2>1, <3>1
    <3>2. CASE answer'[w] = Append(answer[w], 0)
      <4>1. /\ Len(answer'[w]) = Len(answer[w]) + 1 /\ Len(answer[w]) \in Nat
            /\ answer'[w][Len(answer[w]) + 1] = 0
            /\ \A j \in 1..Len(answer[w]) : answer'[w][j] = answer[w][j]
        BY <1>1, <3>2, AppendProperties, LenProperties
      <4>2. i \in 1..Len(answer[w]) \/ i = Len(answer[w]) + 1
        BY <4>1
      <4> QED BY <1>1, <2>1, <4>1, <4>2
    <3>3. answer'[w] = answer[w] \/ answer'[w] = Append(answer[w], 0)
      BY <2>1 DEF Reply
    <3> QED BY <3>1, <3>2, <3>3
  <2> QED BY <2>1, <2>2
<1>4. CASE CreateNetworkConnectionToWebProcess
  <2>1. /\ made' = made + 1 /\ fromNet' = Append(fromNet, made + 1) /\ UNCHANGED <<connection, answer>>
    BY <1>4 DEF CreateNetworkConnectionToWebProcess, webState
  <2>2. /\ Len(fromNet') = Len(fromNet) + 1 /\ Len(fromNet) \in Nat
        /\ fromNet'[Len(fromNet) + 1] = made + 1
        /\ \A j \in 1..Len(fromNet) : fromNet'[j] = fromNet[j] /\ fromNet[j] \in Nat
    BY <1>1, <1>1a, <2>1, AppendProperties, LenProperties, ElementOfSeq
  <2>3. ASSUME NEW i \in 1..Len(fromNet') PROVE fromNet'[i] <= made'
    <3>1. i \in 1..Len(fromNet) \/ i = Len(fromNet) + 1
      BY <2>2
    <3>2. CASE i \in 1..Len(fromNet)
      <4>1. fromNet[i] <= made /\ fromNet[i] \in Nat /\ fromNet'[i] = fromNet[i]
        BY <2>2, <3>2
      <4> QED BY <1>1, <2>1, <4>1
    <3> QED BY <1>1, <2>1, <2>2, <3>1, <3>2
  <2>4. ASSUME NEW w \in WebProcesses, NEW i \in 1..Len(answer[w]) PROVE answer[w][i] <= made'
    <3>1. answer[w][i] <= made /\ answer[w][i] \in Nat
      BY <1>1, ElementOfSeq
    <3> QED BY <1>1, <2>1, <3>1
  <2>5. \A w \in WebProcesses : connection[w] <= made'
    BY <1>1, <2>1
  <2> QED BY <2>1, <2>3, <2>4, <2>5
<1>5. ASSUME NEW w \in WebProcesses, ReceiveEndpoint(w) PROVE Known'
  <2>1. /\ answer[w] # <<>> /\ answer' = [answer EXCEPT ![w] = <<>>]
        /\ connection' = [connection EXCEPT ![w] = Head(answer[w])] /\ UNCHANGED <<made, fromNet>>
    BY <1>5 DEF ReceiveEndpoint, network
  <2>2. Head(answer[w]) <= made
    <3>1. 1 \in 1..Len(answer[w]) /\ Head(answer[w]) = answer[w][1]
      BY <1>1, <2>1, HeadTailProperties, LenProperties, EmptySeq
    <3> QED BY <3>1
  <2>3. Len(<<>>) = 0
    BY EmptySeq
  <2> QED BY <2>1, <2>2, <2>3 DEF WebTypes, ChannelTypes
<1>6. ASSUME NEW w \in WebProcesses,
             ReceiveNull(w) \/ WebProcessExits(w) \/ WebProcessGone(w)
             \/ NetworkProcessConnectionClosed(w)
      PROVE  Known'
  <2>1. /\ answer' = answer \/ answer' = [answer EXCEPT ![w] = <<>>]
        /\ connection' = connection \/ connection' = [connection EXCEPT ![w] = 0]
        /\ UNCHANGED <<made, fromNet>>
    BY <1>6 DEF ReceiveNull, WebProcessExits, WebProcessGone, NetworkProcessConnectionClosed,
                network, channels
  <2>2. Len(<<>>) = 0 /\ 0 <= made
    BY <1>1, EmptySeq
  <2>3. \A v \in WebProcesses : connection'[v] = connection[v] \/ connection'[v] = 0
    BY <2>1 DEF WebTypes
  <2>4. \A v \in WebProcesses : answer'[v] = answer[v] \/ answer'[v] = <<>>
    BY <2>1 DEF ChannelTypes
  <2>5. \A v \in WebProcesses : connection'[v] <= made'
    BY <2>1, <2>2, <2>3
  <2>6. \A v \in WebProcesses : \A i \in 1..Len(answer'[v]) : answer'[v][i] <= made'
    BY <2>1, <2>2, <2>4
  <2> QED BY <2>1, <2>5, <2>6
<1>7. ASSUME NEW l \in Loads, ScheduleLoad(l) PROVE Known'
  BY <1>7 DEF ScheduleLoad, network
<1>8. CASE UNCHANGED <<connection, made, answer, fromNet>>
  BY <1>8
<1>9. ASSUME DidFinishLaunching \/ DidFailToLaunch \/ EnsureNetworkProcess
             \/ InitializeNetworkProcess \/ NetworkProcessDies
             \/ (\E w \in WebProcesses : GetNetworkProcessConnection(w))
             \/ (\E w \in WebProcesses : ScheduleResourceLoad(w) \/ RemoveLoadIdentifier(w))
             \/ (\E e \in endpoints : EndpointDropped(e)) \/ (\E l \in Loads : LoadEnds(l))
      PROVE  UNCHANGED <<connection, made, answer, fromNet>>
  BY <1>9 DEF DidFinishLaunching, DidFailToLaunch, EnsureNetworkProcess,
       InitializeNetworkProcess, NetworkProcessDies, GetNetworkProcessConnection,
       ScheduleResourceLoad, RemoveLoadIdentifier, EndpointDropped, LoadEnds,
       network, webState, channels
<1>10. ASSUME (\E l \in Loads : CancelLoad(l))
              \/ (\E w \in WebProcesses :
                    LoadFinished(w) \/ InternallyFailedLoadTimerFired(w) \/ SetSerialLoadingEnabled(w))
              \/ UNCHANGED networkVars
       PROVE  UNCHANGED <<connection, made, answer, fromNet>>
  <2>1. ASSUME NEW w \in WebProcesses, LoadFinished(w)
        PROVE  UNCHANGED <<connection, made, answer, fromNet>>
    BY <2>1 DEF LoadFinished, network
  <2> QED BY <1>10, <2>1 DEF CancelLoad, InternallyFailedLoadTimerFired,
             SetSerialLoadingEnabled, networkVars, network, webState, channels
<1> QED BY <1>2, <1>3, <1>4, <1>5, <1>6, <1>7, <1>8, <1>9, <1>10
        DEF NetworkNext, UIProcess, NetworkProcessRuns, WebProcess

\* The elements of a sequence that lost its first or got one more.
LEMMA Elements ==
  ASSUME NEW S, NEW s \in Seq(S)
  PROVE  /\ \A m \in S : \A i \in 1..Len(Append(s, m)) :
              Append(s, m)[i] = m \/ \E j \in 1..Len(s) : Append(s, m)[i] = s[j]
         /\ s # <<>> => \A i \in 1..Len(Tail(s)) : \E j \in 1..Len(s) : Tail(s)[i] = s[j]
         /\ s # <<>> => \E j \in 1..Len(s) : Head(s) = s[j]
<1>1. Len(s) \in Nat
  BY LenProperties
<1>2. ASSUME NEW m \in S, NEW i \in 1..Len(Append(s, m))
      PROVE  Append(s, m)[i] = m \/ \E j \in 1..Len(s) : Append(s, m)[i] = s[j]
  <2>1. /\ Len(Append(s, m)) = Len(s) + 1 /\ Append(s, m)[Len(s) + 1] = m
        /\ \A j \in 1..Len(s) : Append(s, m)[j] = s[j]
    BY AppendProperties
  <2>2. i = Len(s) + 1 \/ i \in 1..Len(s)
    BY <1>1, <2>1
  <2> QED BY <2>1, <2>2
<1>3. ASSUME s # <<>>
      PROVE  /\ \A i \in 1..Len(Tail(s)) : \E j \in 1..Len(s) : Tail(s)[i] = s[j]
             /\ \E j \in 1..Len(s) : Head(s) = s[j]
  <2>1. /\ Head(s) = s[1] /\ Len(Tail(s)) = Len(s) - 1 /\ 1 \in 1..Len(s)
        /\ \A i \in 1..(Len(s) - 1) : Tail(s)[i] = s[i + 1]
    BY <1>1, <1>3, HeadTailProperties, EmptySeq
  <2>2. \A i \in 1..(Len(s) - 1) : i + 1 \in 1..Len(s)
    BY <1>1
  <2> QED BY <2>1, <2>2
<1> QED BY <1>2, <1>3

\* The messages in the queue to, or from, a web process are about its loads.
OwnMessages(q, w) == \A i \in 1..Len(q[w]) : Owner[q[w][i][2]] = w
OwnReports(q, w)  == \A i \in 1..Len(q[w]) : Owner[q[w][i]] = w

LEMMA SentOwned ==
  ASSUME Typed, Owned, NEW k \in Loads, NEW kind \in {"Schedule", "Remove"},
         SendToNetwork(Owner[k], kind, k)
  PROVE  \A v \in WebProcesses : OwnMessages(toLoads', v)
<1> SUFFICES ASSUME NEW v \in WebProcesses PROVE OwnMessages(toLoads', v)
  OBVIOUS
<1>1. Owner[k] \in WebProcesses /\ <<kind, k>> \in LoadMessages /\ toLoads[v] \in Seq(LoadMessages)
  BY OwnerType DEF Typed, ChannelTypes, LoadMessages
<1>2. toLoads'[v] = toLoads[v] \/ (v = Owner[k] /\ toLoads'[v] = Append(toLoads[v], <<kind, k>>))
  BY <1>1, SentMessage DEF Typed
<1>3. OwnMessages(toLoads, v)
  BY DEF Owned, OwnMessages
<1>4. CASE v = Owner[k] /\ toLoads'[v] = Append(toLoads[v], <<kind, k>>)
  <2>1. \A i \in 1..Len(toLoads'[v]) :
          toLoads'[v][i] = <<kind, k>> \/ \E j \in 1..Len(toLoads[v]) : toLoads'[v][i] = toLoads[v][j]
    BY <1>1, <1>4, Elements
  <2>2. <<kind, k>>[2] = k
    OBVIOUS
  <2> QED BY <1>3, <1>4, <2>1, <2>2 DEF OwnMessages
<1> QED BY <1>2, <1>3, <1>4 DEF OwnMessages

\* A web process sends messages about its own loads, and is told of no others.
LEMMA NextOwned ==
  ASSUME Typed, Owned, [NetworkNext]_networkVars
  PROVE  Owned'
<1>1. ASSUME \A v \in WebProcesses : OwnMessages(toLoads', v),
             \A v \in WebProcesses : OwnReports(fromLoads', v),
             \A v \in WebProcesses : web'[v] = "asking" =>
               \A l \in want'[v] : Owner[l] = v /\ load'[l] = "none"
      PROVE  Owned'
  BY <1>1 DEF Owned, OwnMessages, OwnReports
<1>2. ASSUME NEW v \in WebProcesses PROVE OwnMessages(toLoads, v) /\ OwnReports(fromLoads, v)
  BY DEF Owned, OwnMessages, OwnReports
<1>3. /\ Len(<<>>) = 0
      /\ \A v \in WebProcesses : toLoads[v] \in Seq(LoadMessages) /\ fromLoads[v] \in Seq(Loads)
  BY EmptySeq DEF Typed, ChannelTypes
<1>4. \A v \in WebProcesses : web[v] = "asking" =>
        \A l \in want[v] : Owner[l] = v /\ load[l] = "none"
  BY DEF Owned
<1>5. ASSUME NEW w \in WebProcesses, ScheduleResourceLoad(w) \/ RemoveLoadIdentifier(w)
      PROVE  Owned'
  <2>1. /\ \E kind \in {"Schedule", "Remove"} : Received(w, kind)
        /\ Receive(w) /\ UNCHANGED <<fromLoads, web, want, load>>
    BY <1>5 DEF ScheduleResourceLoad, RemoveLoadIdentifier, webState
  <2>2. /\ toLoads[w] # <<>> /\ toLoads'[w] = Tail(toLoads[w])
        /\ \A v \in WebProcesses \ {w} : toLoads'[v] = toLoads[v]
    BY <2>1, ReceivedMessage DEF Typed
  <2>3. \A i \in 1..Len(toLoads'[w]) : \E j \in 1..Len(toLoads[w]) : toLoads'[w][i] = toLoads[w][j]
    BY <1>3, <2>2, Elements
  <2>4. OwnMessages(toLoads', w)
    BY <1>2, <2>3 DEF OwnMessages
  <2>5. \A v \in WebProcesses \ {w} : OwnMessages(toLoads', v)
    BY <1>2, <2>2 DEF OwnMessages
  <2> QED BY <1>1, <1>2, <1>4, <2>1, <2>4, <2>5
<1>6. ASSUME NEW l \in Loads, LoadEnds(l) PROVE Owned'
  <2>1. /\ UNCHANGED <<toLoads, web, want, load>>
        /\ fromLoads' = fromLoads \/ fromLoads' = [fromLoads EXCEPT ![Owner[l]] = Append(@, l)]
    BY <1>6 DEF LoadEnds, webState
  <2>2. ASSUME NEW v \in WebProcesses PROVE OwnReports(fromLoads', v)
    <3>1. \/ fromLoads'[v] = fromLoads[v]
          \/ v = Owner[l] /\ fromLoads'[v] = Append(fromLoads[v], l)
      BY <2>1, OwnerType DEF Typed, ChannelTypes
    <3>2. CASE v = Owner[l] /\ fromLoads'[v] = Append(fromLoads[v], l)
      <4>1. \A i \in 1..Len(fromLoads'[v]) :
              fromLoads'[v][i] = l \/ \E j \in 1..Len(fromLoads[v]) : fromLoads'[v][i] = fromLoads[v][j]
        BY <1>3, <3>2, Elements
      <4> QED BY <1>2, <3>2, <4>1 DEF OwnReports
    <3> QED BY <1>2, <3>1, <3>2 DEF OwnReports
  <2> QED BY <1>1, <1>2, <1>4, <2>1, <2>2
<1>7. CASE NetworkProcessDies
  <2>1. /\ toLoads' = [w \in WebProcesses |-> <<>>] /\ UNCHANGED <<fromLoads, web, want, load>>
    BY <1>7 DEF NetworkProcessDies, webState
  <2>2. \A v \in WebProcesses : OwnMessages(toLoads', v)
    BY <1>3, <2>1 DEF OwnMessages
  <2> QED BY <1>1, <1>2, <1>4, <2>1, <2>2
<1>8. ASSUME NEW l \in Loads, ScheduleLoad(l) PROVE Owned'
  <2> DEFINE w == Owner[l]
  <2>1. w \in WebProcesses /\ load[l] = "none" /\ web[w] = "running" /\ UNCHANGED fromLoads
    BY <1>8, OwnerType DEF ScheduleLoad, Running
  <2>2. CASE connection[w] = 0
    <3>1. /\ web' = [web EXCEPT ![w] = "asking"] /\ want' = [want EXCEPT ![w] = {l}]
          /\ UNCHANGED <<load, toLoads>>
      BY <1>8, <2>2 DEF ScheduleLoad
    <3>2. ASSUME NEW v \in WebProcesses, web'[v] = "asking", NEW k \in want'[v]
          PROVE  Owner[k] = v /\ load'[k] = "none"
      BY <1>4, <2>1, <3>1, <3>2 DEF Typed, WebTypes
    <3> QED BY <1>1, <1>2, <2>1, <3>1, <3>2
  <2>3. CASE connection[w] # 0
    <3>1. /\ load' = [load EXCEPT ![l] = "scheduled"] /\ SendToNetwork(w, "Schedule", l)
          /\ UNCHANGED <<web, want>>
      BY <1>8, <2>3 DEF ScheduleLoad
    <3>2. \A v \in WebProcesses : web'[v] = "asking" =>
            \A k \in want'[v] : Owner[k] = v /\ load'[k] = "none"
      <4>1. \A k \in Loads : k # l => load'[k] = load[k]
        BY <3>1 DEF Typed, WebTypes
      <4> QED BY <1>4, <2>1, <3>1, <4>1 DEF Typed, WebTypes
    <3>3. \A v \in WebProcesses : OwnMessages(toLoads', v)
      BY <3>1, SentOwned
    <3> QED BY <1>1, <1>2, <2>1, <3>2, <3>3
  <2> QED BY <2>2, <2>3
<1>9. ASSUME NEW w \in WebProcesses, ReceiveEndpoint(w) PROVE Owned'
  <2>1. /\ web[w] = "asking" /\ web' = [web EXCEPT ![w] = "running"]
        /\ want' = [want EXCEPT ![w] = {}] /\ UNCHANGED fromLoads
    BY <1>9 DEF ReceiveEndpoint
  <2>2. PICK l \in want[w] : load' = [load EXCEPT ![l] = "scheduled"] /\ SendToNetwork(w, "Schedule", l)
    BY <1>9 DEF ReceiveEndpoint
  <2>3. l \in Loads /\ Owner[l] = w
    BY <1>4, <2>1, <2>2 DEF Typed, WebTypes
  <2>4. \A v \in WebProcesses : OwnMessages(toLoads', v)
    BY <2>2, <2>3, SentOwned
  <2>5. ASSUME NEW v \in WebProcesses, web'[v] = "asking", NEW k \in want'[v]
        PROVE  Owner[k] = v /\ load'[k] = "none"
    <3>1. v # w /\ web[v] = "asking" /\ k \in want[v] /\ k \in Loads
      BY <2>1, <2>5 DEF Typed, WebTypes
    <3>2. Owner[k] = v /\ load[k] = "none"
      BY <1>4, <3>1
    <3> QED BY <2>2, <2>3, <3>1, <3>2 DEF Typed, WebTypes
  <2> QED BY <1>1, <1>2, <2>1, <2>4, <2>5
<1>10. ASSUME NEW w \in WebProcesses, ReceiveNull(w) \/ WebProcessExits(w) PROVE Owned'
  <2>1. /\ \E s \in {"crashed", "exited"} : web' = [web EXCEPT ![w] = s]
        /\ fromLoads' = fromLoads \/ fromLoads' = [fromLoads EXCEPT ![w] = <<>>]
        /\ UNCHANGED <<toLoads, want, load>>
    BY <1>10 DEF ReceiveNull, WebProcessExits
  <2>2. \A v \in WebProcesses : fromLoads'[v] = fromLoads[v] \/ fromLoads'[v] = <<>>
    BY <2>1 DEF Typed, ChannelTypes
  <2>3. \A v \in WebProcesses : OwnReports(fromLoads', v)
    BY <1>2, <1>3, <2>2 DEF OwnReports
  <2>4. \A v \in WebProcesses : web'[v] = "asking" => web[v] = "asking"
    BY <2>1 DEF Typed, WebTypes
  <2> QED BY <1>1, <1>2, <1>4, <2>1, <2>3, <2>4
<1>11. ASSUME NEW w \in WebProcesses, LoadFinished(w) PROVE Owned'
  <2> DEFINE l == Head(fromLoads[w])
  <2>1. /\ fromLoads[w] # <<>> /\ fromLoads' = [fromLoads EXCEPT ![w] = Tail(@)]
        /\ UNCHANGED <<web, want>>
        /\ \/ load[l] = "scheduled" /\ load' = [load EXCEPT ![l] = "ended"] /\ SendToNetwork(w, "Remove", l)
           \/ UNCHANGED <<load, toLoads>>
    BY <1>11 DEF LoadFinished
  <2>2. l \in Loads /\ Owner[l] = w
    <3>1. \E j \in 1..Len(fromLoads[w]) : l = fromLoads[w][j]
      BY <1>3, <2>1, Elements
    <3> QED BY <1>2, <1>3, <2>1, <3>1, HeadTailProperties DEF OwnReports
  <2>3. ASSUME NEW v \in WebProcesses PROVE OwnReports(fromLoads', v)
    <3>1. CASE v = w
      <4>1. \A i \in 1..Len(Tail(fromLoads[w])) :
              \E j \in 1..Len(fromLoads[w]) : Tail(fromLoads[w])[i] = fromLoads[w][j]
        BY <1>3, <2>1, Elements
      <4>2. fromLoads'[w] = Tail(fromLoads[w])
        BY <2>1 DEF Typed, ChannelTypes
      <4> QED BY <1>2, <3>1, <4>1, <4>2 DEF OwnReports
    <3>2. CASE v # w
      BY <1>2, <2>1, <3>2 DEF OwnReports, Typed, ChannelTypes
    <3> QED BY <3>1, <3>2
  <2>4. \A k \in Loads : load[k] = "none" => load'[k] = "none"
    BY <2>1 DEF Typed, WebTypes
  <2>5. \A v \in WebProcesses : web'[v] = "asking" =>
          \A k \in want'[v] : Owner[k] = v /\ load'[k] = "none"
    BY <1>4, <2>1, <2>4 DEF Typed, WebTypes
  <2>6. \A v \in WebProcesses : OwnMessages(toLoads', v)
    <3>1. CASE SendToNetwork(w, "Remove", l)
      <4> HIDE DEF l
      <4> QED BY <2>2, <3>1, SentOwned
    <3>2. CASE UNCHANGED toLoads
      BY <1>2, <3>2
    <3> QED BY <2>1, <3>1, <3>2
  <2> QED BY <1>1, <2>3, <2>5, <2>6
<1>12. ASSUME NEW l \in Loads, CancelLoad(l) PROVE Owned'
  <2>1. /\ load[l] # "none" /\ load' = [load EXCEPT ![l] = "ended"] /\ UNCHANGED <<web, want, fromLoads>>
        /\ SendToNetwork(Owner[l], "Remove", l) \/ UNCHANGED toLoads
    BY <1>12 DEF CancelLoad
  <2>2. \A k \in Loads : load[k] = "none" => load'[k] = "none"
    BY <2>1 DEF Typed, WebTypes
  <2>3. \A v \in WebProcesses : web'[v] = "asking" =>
          \A k \in want'[v] : Owner[k] = v /\ load'[k] = "none"
    BY <1>4, <2>1, <2>2 DEF Typed, WebTypes
  <2>4. \A v \in WebProcesses : OwnMessages(toLoads', v)
    BY <1>2, <2>1, SentOwned
  <2> QED BY <1>1, <1>2, <2>1, <2>3, <2>4
<1>13. ASSUME NEW w \in WebProcesses,
              NetworkProcessConnectionClosed(w) \/ InternallyFailedLoadTimerFired(w)
       PROVE  Owned'
  <2>1. /\ UNCHANGED <<toLoads, fromLoads, web, want>>
        /\ \A k \in Loads : load[k] = "none" => load'[k] = "none"
    BY <1>13 DEF NetworkProcessConnectionClosed, InternallyFailedLoadTimerFired, channels
  <2> QED BY <1>1, <1>2, <1>4, <2>1 DEF Typed, WebTypes
<1>14. CASE UNCHANGED <<toLoads, fromLoads, web, want, load>>
  BY <1>14 DEF Owned
<1>15. ASSUME UIProcess \/ EnsureNetworkProcess
       PROVE  UNCHANGED <<toLoads, fromLoads, web, want, load>>
  BY <1>15 DEF UIProcess, DidFinishLaunching, DidFailToLaunch,
       DidCreateNetworkConnectionToWebProcess, NetworkProcessCrashed,
       GetNetworkProcessConnection, EnsureNetworkProcess, webState, channels
<1>16. ASSUME InitializeNetworkProcess \/ CreateNetworkConnectionToWebProcess
              \/ (\E w \in WebProcesses : WebProcessGone(w) \/ SetSerialLoadingEnabled(w))
              \/ (\E e \in endpoints : EndpointDropped(e)) \/ UNCHANGED networkVars
       PROVE  UNCHANGED <<toLoads, fromLoads, web, want, load>>
  BY <1>16 DEF InitializeNetworkProcess, CreateNetworkConnectionToWebProcess, WebProcessGone,
       SetSerialLoadingEnabled, EndpointDropped, networkVars, webState, channels
<1> QED BY <1>5, <1>6, <1>7, <1>8, <1>9, <1>10, <1>11, <1>12, <1>13, <1>14, <1>15, <1>16
        DEF NetworkNext, NetworkProcessRuns, WebProcess

\* What removing loads leaves of the others, and of the last one that was reported.
LEMMA RemovedIn ==
  ASSUME Typed, NEW order \in Seq(Loads), RemoveLoaders(order)
  PROVE  /\ \A l \in Loads : (\A i \in 1..Len(order) : order[i] # l) =>
              In(Current, l)' = In(Current, l)
         /\ \A l \in Loads : In(Current, l) = 0 => In(Current, l)' = 0
         /\ \A k \in Loads : order = <<k>> /\ k \in active /\ Count(pending, k) = 0 =>
              In(Current, k)' = 0
         /\ PendingWaitsForActive => PendingWaitsForActive'
<1>1. active \in SUBSET Loads /\ pending \in Seq(Loads)
  BY DEF Typed, NetworkTypes
<1>2. PICK s : s = FoldLeft(RemoveLoader, Current, order)
  OBVIOUS
<1>3. active' = s.active /\ pending' = s.pending
  BY <1>2 DEF RemoveLoaders
<1>4. \A l : In(Current, l)' = In(s, l)
  BY <1>3 DEF In, Current
<1>5. Removed(Current, s, order) /\ (Len(order) = 1 => s = RemoveLoader(Current, order[1]))
  BY <1>1, <1>2, AllRemoved
<1>6. Current.pending = pending /\ Current.active = active /\ Current \in States
  BY <1>1 DEF Current, States
<1>7. ASSUME NEW k \in Loads, order = <<k>>, k \in active, Count(pending, k) = 0
      PROVE  In(Current, k)' = 0
  <2>1. Len(order) = 1 /\ order[1] = k
    BY <1>7
  <2>2. s = RemoveLoader(Current, k)
    BY <1>5, <2>1
  <2>3. In(s, k) = 0
    BY <1>6, <1>7, <2>2, OneRemoved
  <2> QED BY <1>4, <2>3
<1>8. PendingWaitsForActive => PendingWaitsForActive'
  BY <1>3, <1>5, <1>6 DEF Removed, PendingWaitsForActive
<1> QED BY <1>4, <1>5, <1>7, <1>8 DEF Removed

\* A load that a step does not concern.
LEMMA KeptSame ==
  ASSUME NEW l \in Loads, LoadKept(l),
         Share(l)' = Share(l), ToRemove(l)' = ToRemove(l),
         load'[l] = load[l], web'[Owner[l]] = web[Owner[l]],
         connection'[Owner[l]] = connection[Owner[l]],
         connection[Owner[l]] \in endpoints' => connection[Owner[l]] \in endpoints
  PROVE  LoadKept(l)'
  BY DEF LoadKept, Open, Running

\* What a load counts is the sum of where it is.
LEMMA ShareSame ==
  ASSUME NEW l \in Loads, ToSchedule(l)' = ToSchedule(l), In(Current, l)' = In(Current, l),
         Reported(l)' = Reported(l)
  PROVE  Share(l)' = Share(l)
  BY DEF Share

\* A load that is not scheduled, and need not be anywhere.
LEMMA KeptOther ==
  ASSUME NEW l \in Loads, load'[l] \notin {"none", "scheduled"}
  PROVE  LoadKept(l)'
  BY DEF LoadKept

\* A load is sent once, and each step takes it from one place to the next or ends it.
LEMMA NextLoadsKept ==
  ASSUME Typed, Known, Owned, LoadsKept, [NetworkNext]_networkVars
  PROVE  LoadsKept'
<1> SUFFICES ASSUME NEW l \in Loads PROVE LoadKept(l)'
  BY DEF LoadsKept
<1> DEFINE w == Owner[l]
<1>1. LoadKept(l) /\ w \in WebProcesses
  BY OwnerType DEF LoadsKept
<1>2. /\ ToSchedule(l) \in Nat /\ ToRemove(l) \in Nat /\ Reported(l) \in Nat /\ In(Current, l) \in Nat
      /\ Share(l) = ToSchedule(l) + In(Current, l) + Reported(l)
  BY ShareTypes DEF Share
<1>3. /\ \A v \in WebProcesses : toLoads[v] \in Seq(LoadMessages) /\ fromLoads[v] \in Seq(Loads)
      /\ active \in SUBSET Loads /\ pending \in Seq(Loads)
      /\ load \in [Loads -> {"none", "scheduled", "failing", "ended"}]
      /\ web \in [WebProcesses -> {"running", "asking", "crashed", "exited"}]
      /\ connection \in [WebProcesses -> Nat] /\ made \in Nat
      /\ fromLoads \in [WebProcesses -> Seq(Loads)]
  BY DEF Typed, NetworkTypes, WebTypes, ChannelTypes
<1>4. ASSUME UNCHANGED toLoads PROVE ToSchedule(l)' = ToSchedule(l) /\ ToRemove(l)' = ToRemove(l)
  BY <1>4 DEF ToSchedule, ToRemove
<1>5. ASSUME fromLoads'[w] = fromLoads[w] PROVE Reported(l)' = Reported(l)
  BY <1>5 DEF Reported
<1>6. ASSUME UNCHANGED <<active, pending>> PROVE In(Current, l)' = In(Current, l)
  BY <1>6 DEF In, Current
<1> HIDE DEF w
<1>7. ASSUME NEW v \in WebProcesses, ScheduleResourceLoad(v) PROVE LoadKept(l)'
  <2>1. PICK k : k = Head(toLoads[v])[2]
    OBVIOUS
  <2>2. /\ Received(v, "Schedule") /\ Receive(v) /\ UNCHANGED <<endpoints, web, connection, load, fromLoads>>
        /\ \/ pending' = Append(pending, k) /\ active' = active
           \/ active' = active \union {k} /\ pending' = pending
    BY <1>7, <2>1 DEF ScheduleResourceLoad, webState
  <2>3. /\ k \in Loads /\ Owner[k] = v
        /\ \A n \in Loads \ {k} : ToSchedule(n)' = ToSchedule(n) /\ ToRemove(n)' = ToRemove(n)
        /\ ToSchedule(k) = ToSchedule(k)' + 1 /\ ToRemove(k) = ToRemove(k)' + 0
    BY <2>1, <2>2, ReceivedCounts
  <2>4. In(Current, l) = Count(pending, l) + (IF l \in active THEN 1 ELSE 0)
        /\ In(Current, l)' = Count(pending', l) + (IF l \in active' THEN 1 ELSE 0)
        /\ Count(pending, l) \in Nat
    BY <1>3, CountFinite DEF In, Current
  <2>5. Count(Append(pending, k), l) = Count(pending, l) + (IF k = l THEN 1 ELSE 0)
    BY <1>3, <2>3, CountAppended
  <2>6. CASE l # k
    <3>1. ASSUME pending' = Append(pending, k), active' = active
          PROVE  In(Current, l)' = In(Current, l)
      <4>1. Count(pending', l) = Count(pending, l)
        BY <2>4, <2>5, <2>6, <3>1
      <4> QED BY <3>1, <4>1 DEF In, Current
    <3>2. ASSUME active' = active \union {k}, pending' = pending
          PROVE  In(Current, l)' = In(Current, l)
      <4>1. l \in active' <=> l \in active
        BY <2>6, <3>2
      <4> QED BY <3>2, <4>1 DEF In, Current
    <3>3. In(Current, l)' = In(Current, l)
      <4>1. \/ pending' = Append(pending, k) /\ active' = active
            \/ active' = active \union {k} /\ pending' = pending
        BY <2>2
      <4> QED BY <3>1, <3>2, <4>1
    <3> QED BY <1>1, <1>5, <2>2, <2>3, <2>6, <3>3, ShareSame, KeptSame
  <2>7. CASE l = k
    <3>1. ToSchedule(l) = ToSchedule(l)' + 1 /\ ToRemove(l) = ToRemove(l)' + 0
      BY <2>3, <2>7
    <3>2. ToSchedule(l)' \in Nat /\ ToRemove(l)' \in Nat
      <4>1. toLoads' \in [WebProcesses -> Seq(LoadMessages)]
        BY <2>2, ReceivedMessage DEF Typed
      <4> QED BY <4>1, CountFinite, OwnerType DEF ToSchedule, ToRemove
    <3>3. Share(l) >= 1 /\ load[l] # "none"
      BY <1>1, <1>2, <3>1, <3>2 DEF LoadKept
    <3>4. ToRemove(l)' = ToRemove(l)
      BY <3>1, <3>2
    <3>5. ASSUME Share(l) = 1 PROVE Share(l)' = 1
      <4>1. ToSchedule(l) = 1 /\ In(Current, l) = 0 /\ Reported(l) = 0 /\ ToSchedule(l)' = 0
        BY <1>2, <3>1, <3>2, <3>5
      <4>2. Count(pending, l) = 0 /\ l \notin active
        BY <2>4, <4>1
      <4>3. In(Current, l)' = 1
        <5>1. CASE pending' = Append(pending, k) /\ active' = active
          <6>1. Count(pending', l) = 1
            BY <2>5, <2>7, <4>2, <5>1
          <6> QED BY <4>2, <5>1, <6>1 DEF In, Current
        <5>2. CASE active' = active \union {k} /\ pending' = pending
          <6>1. l \in active'
            BY <2>7, <5>2
          <6> QED BY <4>2, <5>2, <6>1 DEF In, Current
        <5> QED BY <2>2, <5>1, <5>2
      <4>4. Reported(l)' = 0
        BY <1>5, <2>2, <4>1
      <4> QED BY <4>1, <4>3, <4>4 DEF Share
    <3> QED BY <1>1, <2>2, <3>3, <3>4, <3>5 DEF LoadKept, Open, Running
  <2> QED BY <2>6, <2>7
<1>8. ASSUME NEW v \in WebProcesses, RemoveLoadIdentifier(v) PROVE LoadKept(l)'
  <2>1. PICK k : k = Head(toLoads[v])[2]
    OBVIOUS
  <2> DEFINE order == IF k \in registered THEN <<k>> ELSE <<>>
  <2>2. /\ Received(v, "Remove") /\ Receive(v) /\ UNCHANGED <<endpoints, web, connection, load, fromLoads>>
        /\ RemoveLoaders(order)
    BY <1>8, <2>1 DEF RemoveLoadIdentifier, webState
  <2>3. /\ k \in Loads /\ Owner[k] = v
        /\ \A n \in Loads \ {k} : ToSchedule(n)' = ToSchedule(n) /\ ToRemove(n)' = ToRemove(n)
        /\ ToRemove(k) = ToRemove(k)' + 1
    BY <2>1, <2>2, ReceivedCounts
  <2>4. CASE l # k
    <3>1. order \in Seq(Loads) /\ \A i \in 1..Len(order) : order[i] # l
      BY <2>3, <2>4, Empty, EmptySeq
    <3> HIDE DEF order
    <3>2. In(Current, l)' = In(Current, l)
      BY <2>2, <3>1, RemovedIn
    <3> QED BY <1>1, <1>5, <2>2, <2>3, <2>4, <3>2, ShareSame, KeptSame
  <2>5. CASE l = k
    <3>1. ToRemove(l)' \in Nat
      <4>1. toLoads' \in [WebProcesses -> Seq(LoadMessages)]
        BY <2>2, ReceivedMessage DEF Typed
      <4> QED BY <4>1, CountFinite, OwnerType DEF ToRemove
    <3>2. ToRemove(l) # 0
      BY <1>2, <2>3, <2>5, <3>1
    <3>3. load'[l] \notin {"none", "scheduled"}
      BY <1>1, <2>2, <3>2 DEF LoadKept
    <3> QED BY <3>3, KeptOther
  <2> QED BY <2>4, <2>5
<1>9. ASSUME NEW v \in WebProcesses, WebProcessGone(v) PROVE LoadKept(l)'
  <2> DEFINE S == registered \intersect LoadsOf(v)
  <2>1. /\ ~Running(v) /\ connection[v] \in endpoints
        /\ endpoints' = endpoints \ {connection[v]} /\ connection' = [connection EXCEPT ![v] = 0]
        /\ UNCHANGED <<web, load, toLoads, fromLoads>>
    BY <1>9 DEF WebProcessGone, channels
  <2>2. PICK order \in SetToSeqs(S) : RemoveLoaders(order)
    BY <1>9 DEF WebProcessGone
  <2>3. order \in Seq(Loads) /\ \A i \in 1..Len(order) : order[i] \in S
    <3>1. S \in SUBSET Loads /\ IsFiniteSet(S)
      BY FS_Subset DEF Typed, NetworkTypes
    <3> HIDE DEF S
    <3> QED BY <2>2, <3>1, Ordered
  <2>4. CASE w # v
    <3>1. \A i \in 1..Len(order) : order[i] # l
      BY <2>3, <2>4 DEF LoadsOf, w
    <3>2. In(Current, l)' = In(Current, l)
      BY <2>2, <2>3, <3>1, RemovedIn
    <3>3. connection'[w] = connection[w]
      BY <1>1, <1>3, <2>1, <2>4
    <3> QED BY <1>1, <1>4, <1>5, <2>1, <3>2, <3>3, ShareSame, KeptSame DEF w
  <2>5. CASE w = v
    <3>1. web[w] \notin {"running", "asking"}
      BY <1>1, <2>1, <2>5 DEF Typed, EndpointTypes, Running
    <3>2. In(Current, l) = 0 => In(Current, l)' = 0
      BY <2>2, <2>3, RemovedIn
    <3>3. /\ ToRemove(l)' = ToRemove(l) /\ ToSchedule(l)' = ToSchedule(l)
          /\ Reported(l)' = Reported(l)
      BY <1>4, <1>5, <2>1
    <3>4. Share(l) = 0 => Share(l)' = 0
      <4> SUFFICES ASSUME Share(l) = 0 PROVE Share(l)' = 0
        OBVIOUS
      <4>1. ToSchedule(l) = 0 /\ In(Current, l) = 0 /\ Reported(l) = 0
        BY <1>2
      <4> QED BY <3>2, <3>3, <4>1 DEF Share
    <3> QED BY <1>1, <2>1, <3>1, <3>3, <3>4 DEF LoadKept, Open, Running, w
  <2> QED BY <2>4, <2>5
<1>10. ASSUME NEW k \in Loads, LoadEnds(k) PROVE LoadKept(l)'
  <2> DEFINE v == Owner[k]
  <2>1. /\ k \in active /\ RemoveLoaders(<<k>>) /\ UNCHANGED <<endpoints, web, connection, load, toLoads>>
        /\ fromLoads' = IF Running(v) /\ connection[v] \in endpoints
                        THEN [fromLoads EXCEPT ![v] = Append(@, k)] ELSE fromLoads
    BY <1>10 DEF LoadEnds, webState
  <2>2. <<k>> \in Seq(Loads) /\ Len(<<k>>) = 1 /\ <<k>>[1] = k /\ v \in WebProcesses
    BY OwnerType
  <2>3. \A x : Count(Append(fromLoads[v], k), x) = Count(fromLoads[v], x) + (IF k = x THEN 1 ELSE 0)
    BY <1>3, <2>2, CountAppended
  <2>4. CASE l # k
    <3>1. \A i \in 1..Len(<<k>>) : <<k>>[i] # l
      BY <2>2, <2>4
    <3>2. In(Current, l)' = In(Current, l)
      BY <2>1, <2>2, <3>1, RemovedIn
    <3>3. Reported(l)' = Reported(l)
      <4>1. CASE fromLoads'[w] = fromLoads[w]
        BY <1>5, <4>1
      <4>2. CASE v = w /\ fromLoads'[w] = Append(fromLoads[w], k)
        <5>1. Reported(l) = Count(fromLoads[w], l) /\ Reported(l)' = Count(Append(fromLoads[w], k), l)
          BY <4>2 DEF Reported, w
        <5> QED BY <1>2, <2>3, <2>4, <4>2, <5>1
      <4> HIDE DEF v
      <4>3. fromLoads'[w] = fromLoads[w] \/ (v = w /\ fromLoads'[w] = Append(fromLoads[w], k))
        BY <1>1, <1>3, <2>1
      <4> QED BY <4>1, <4>2, <4>3
    <3> QED BY <1>1, <1>4, <2>1, <3>2, <3>3, ShareSame, KeptSame
  <2>5. CASE l = k
    <3>1. In(Current, l) = Count(pending, l) + 1 /\ Count(pending, l) \in Nat
      BY <1>3, <2>1, <2>5, CountFinite DEF In, Current
    <3>2. load[l] # "none"
      BY <1>1, <1>2, <3>1 DEF LoadKept
    <3>3. ToRemove(l)' = ToRemove(l) /\ ToSchedule(l)' = ToSchedule(l)
      BY <1>4, <2>1
    <3>4. ASSUME Open(w), Share(l) = 1 PROVE Share(l)' = 1
      <4>1. Count(pending, l) = 0 /\ ToSchedule(l) = 0 /\ Reported(l) = 0
        BY <1>2, <3>1, <3>4
      <4>2. In(Current, l)' = 0
        BY <2>1, <2>2, <2>5, <4>1, RemovedIn
      <4>3. fromLoads'[w] = Append(fromLoads[w], l)
        BY <1>3, <2>1, <2>2, <2>5, <3>4 DEF Open, w
      <4>4. Reported(l)' = 1
        <5>1. Reported(l) = Count(fromLoads[w], l) /\ Reported(l)' = Count(Append(fromLoads[w], l), l)
          BY <4>3 DEF Reported, w
        <5>2. v = w
          BY <2>5 DEF w
        <5> HIDE DEF v
        <5> QED BY <2>3, <2>5, <4>1, <5>1, <5>2
      <4> QED BY <3>3, <4>1, <4>2, <4>4 DEF Share
    <3> QED BY <1>1, <2>1, <3>2, <3>3, <3>4 DEF LoadKept, Open, Running, w
  <2> QED BY <2>4, <2>5
<1>11. CASE NetworkProcessDies
  <2>1. /\ endpoints' = {} /\ toLoads' = [v \in WebProcesses |-> <<>>] /\ active' = {} /\ pending' = <<>>
        /\ UNCHANGED <<web, connection, load, fromLoads>>
    BY <1>11 DEF NetworkProcessDies, webState
  <2>2. \A x : Count(<<>>, x) = 0
    BY Empty, CountNothing
  <2>3. ToSchedule(l)' = 0 /\ ToRemove(l)' = 0 /\ In(Current, l)' = 0 /\ Reported(l)' = Reported(l)
    BY <1>1, <1>5, <2>1, <2>2 DEF ToSchedule, ToRemove, In, Current, w
  <2>4. Share(l) = 0 => Share(l)' = 0
    BY <1>2, <2>3 DEF Share
  <2> QED BY <1>1, <2>1, <2>3, <2>4 DEF LoadKept, Open
<1>12. ASSUME NEW k \in Loads, ScheduleLoad(k) PROVE LoadKept(l)'
  <2> DEFINE v == Owner[k]
  <2>1. /\ v \in WebProcesses /\ Running(v) /\ load[k] = "none"
        /\ UNCHANGED <<endpoints, active, pending, fromLoads, connection>>
    <3>1. UNCHANGED connection
      BY <1>12 DEF ScheduleLoad
    <3> QED BY <1>12, <3>1, OwnerType DEF ScheduleLoad, network, scheduler
  <2>2. CASE connection[v] = 0
    <3>1. web' = [web EXCEPT ![v] = "asking"] /\ UNCHANGED <<load, toLoads>>
      BY <1>12, <2>2 DEF ScheduleLoad
    <3>2. ToRemove(l)' = ToRemove(l) /\ Share(l)' = Share(l)
      BY <1>4, <1>5, <1>6, <2>1, <3>1, ShareSame
    <3>3. CASE w # v
      <4>1. web'[w] = web[w]
        BY <1>1, <1>3, <3>1, <3>3
      <4> QED BY <1>1, <2>1, <3>1, <3>2, <4>1, KeptSame DEF w
    <3>4. CASE w = v
      <4>1. web'[w] = "asking" /\ web[w] = "running" /\ connection[w] = 0
        BY <1>1, <1>3, <2>1, <2>2, <3>1, <3>4 DEF Running
      <4> QED BY <1>1, <2>1, <3>1, <3>2, <4>1 DEF LoadKept, Open, Running, w
    <3> QED BY <3>3, <3>4
  <2>3. CASE connection[v] # 0
    <3>1. load' = [load EXCEPT ![k] = "scheduled"] /\ SendToNetwork(v, "Schedule", k) /\ UNCHANGED web
      BY <1>12, <2>3 DEF ScheduleLoad
    <3>2. CASE l # k
      <4>1. ToSchedule(l)' = ToSchedule(l) /\ ToRemove(l)' = ToRemove(l) /\ load'[l] = load[l]
        BY <1>3, <3>1, <3>2, SentCounts
      <4> QED BY <1>1, <1>5, <1>6, <2>1, <3>1, <4>1, ShareSame, KeptSame
    <3>3. CASE l = k
      <4>1. Share(l) = 0 /\ ToRemove(l) = 0 /\ load'[l] = "scheduled" /\ connection'[w] = connection[w]
            /\ connection[w] # 0
        BY <1>1, <1>3, <2>1, <2>3, <3>1, <3>3 DEF LoadKept, w
      <4>2. ToSchedule(l) = 0 /\ In(Current, l) = 0 /\ Reported(l) = 0
        BY <1>2, <4>1
      <4>3. SendToNetwork(w, "Schedule", l)
        BY <3>1, <3>3 DEF w
      <4>4. ToRemove(l)' = 0
        BY <4>1, <4>3, SentCounts, <1>2 DEF w
      <4>5. connection[w] \in endpoints => ToSchedule(l)' = 1
        BY <4>1, <4>2, <4>3, SentCounts DEF w
      <4>6. In(Current, l)' = 0 /\ Reported(l)' = 0
        BY <1>5, <1>6, <2>1, <4>2
      <4>7. connection[w] \in endpoints => Share(l)' = 1
        BY <4>5, <4>6 DEF Share
      <4> QED BY <2>1, <4>1, <4>4, <4>7 DEF LoadKept, Open, w
    <3> QED BY <3>2, <3>3
  <2> QED BY <2>2, <2>3
<1>13. ASSUME NEW k \in Loads, CancelLoad(k) PROVE LoadKept(l)'
  <2>1. /\ load' = [load EXCEPT ![k] = "ended"]
        /\ UNCHANGED <<endpoints, active, pending, fromLoads, connection, web>>
        /\ SendToNetwork(Owner[k], "Remove", k) \/ UNCHANGED toLoads
    BY <1>13 DEF CancelLoad, network, scheduler
  <2>2. CASE l # k
    <3>1. ToSchedule(l)' = ToSchedule(l) /\ ToRemove(l)' = ToRemove(l) /\ load'[l] = load[l]
      BY <1>3, <1>4, <2>1, <2>2, SentCounts
    <3> QED BY <1>1, <1>5, <1>6, <2>1, <3>1, ShareSame, KeptSame
  <2>3. CASE l = k
    <3>1. load'[l] = "ended"
      BY <1>3, <2>1, <2>3
    <3> QED BY <3>1, KeptOther
  <2> QED BY <2>2, <2>3
<1>14. ASSUME NEW v \in WebProcesses, ReceiveEndpoint(v) PROVE LoadKept(l)'
  <2>1. /\ web[v] = "asking" /\ Head(answer[v]) # 0 /\ web' = [web EXCEPT ![v] = "running"]
        /\ connection' = [connection EXCEPT ![v] = Head(answer[v])]
        /\ UNCHANGED <<endpoints, active, pending, fromLoads>>
    BY <1>14 DEF ReceiveEndpoint, network, scheduler
  <2>2. PICK k \in want[v] : load' = [load EXCEPT ![k] = "scheduled"] /\ SendToNetwork(v, "Schedule", k)
    BY <1>14 DEF ReceiveEndpoint
  <2>3. k \in Loads /\ Owner[k] = v /\ load[k] = "none" /\ connection[v] = 0
    <3>1. want[v] \in SUBSET Loads
      BY DEF Typed, WebTypes
    <3> QED BY <2>1, <2>2, <3>1 DEF Owned, Typed, EndpointTypes
  <2>4. SendToNetwork(Owner[k], "Schedule", k)
    BY <2>2, <2>3
  <2>5. CASE l # k
    <3>1. ToSchedule(l)' = ToSchedule(l) /\ ToRemove(l)' = ToRemove(l) /\ load'[l] = load[l]
      BY <1>3, <2>2, <2>3, <2>4, <2>5, SentCounts
    <3>2. Share(l)' = Share(l)
      BY <1>5, <1>6, <2>1, <3>1, ShareSame
    <3>3. CASE w # v
      <4>1. web'[w] = web[w] /\ connection'[w] = connection[w]
        BY <1>1, <1>3, <2>1, <3>3
      <4> QED BY <1>1, <2>1, <3>1, <3>2, <4>1, KeptSame DEF w
    <3>4. CASE w = v
      <4>1. load[l] # "scheduled"
        BY <1>1, <2>1, <2>3, <3>4 DEF LoadKept, w
      <4> QED BY <1>1, <3>1, <3>2, <4>1 DEF LoadKept
    <3> QED BY <3>3, <3>4
  <2>6. CASE l = k
    <3>1. Share(l) = 0 /\ ToRemove(l) = 0 /\ load'[l] = "scheduled" /\ connection'[w] # 0
      BY <1>1, <1>3, <2>1, <2>2, <2>3, <2>6 DEF LoadKept, w
    <3>2. ToSchedule(l) = 0 /\ In(Current, l) = 0 /\ Reported(l) = 0
      BY <1>2, <3>1
    <3>3. SendToNetwork(w, "Schedule", l)
      BY <2>4, <2>6 DEF w
    <3>4. ToRemove(l)' = 0
      BY <3>1, <3>3, SentCounts, <1>2 DEF w
    <3>5. connection'[w] \in endpoints => ToSchedule(l)' = 1
      BY <3>2, <3>3, SentCounts DEF w
    <3>6. In(Current, l)' = 0 /\ Reported(l)' = 0
      BY <1>5, <1>6, <2>1, <3>2
    <3>7. connection'[w] \in endpoints => Share(l)' = 1
      BY <3>5, <3>6 DEF Share
    <3> QED BY <2>1, <3>1, <3>4, <3>7 DEF LoadKept, Open, w
  <2> QED BY <2>5, <2>6
<1>15. ASSUME NEW v \in WebProcesses, ReceiveNull(v) PROVE LoadKept(l)'
  <2>1. /\ web' = [web EXCEPT ![v] = "crashed"]
        /\ UNCHANGED <<endpoints, connection, load, active, pending, toLoads, fromLoads>>
    BY <1>15 DEF ReceiveNull, network, scheduler
  <2>2. ToRemove(l)' = ToRemove(l) /\ Share(l)' = Share(l)
    BY <1>4, <1>5, <1>6, <2>1, ShareSame
  <2>3. web'[w] = web[w] \/ web'[w] = "crashed"
    BY <1>1, <1>3, <2>1
  <2> QED BY <1>1, <2>1, <2>2, <2>3 DEF LoadKept, Open, Running, w
<1>16. ASSUME NEW v \in WebProcesses, LoadFinished(v) PROVE LoadKept(l)'
  <2>1. PICK k : k = Head(fromLoads[v])
    OBVIOUS
  <2>2. /\ fromLoads[v] # <<>> /\ fromLoads' = [fromLoads EXCEPT ![v] = Tail(@)]
        /\ UNCHANGED <<endpoints, active, pending, connection, web>>
        /\ \/ load' = [load EXCEPT ![k] = "ended"] /\ SendToNetwork(v, "Remove", k)
           \/ load[k] # "scheduled" /\ UNCHANGED <<load, toLoads>>
    <3>1. UNCHANGED connection
      BY <1>16 DEF LoadFinished
    <3> QED BY <1>16, <2>1, <3>1 DEF LoadFinished, network, scheduler
  <2>3. k \in Loads /\ Owner[k] = v
    <3>1. fromLoads[v] \in Seq(Loads)
      BY <1>3
    <3>2. \E j \in 1..Len(fromLoads[v]) : k = fromLoads[v][j]
      BY <2>1, <2>2, <3>1, Elements
    <3> QED BY <3>1, <3>2, ElementOfSeq DEF Owned
  <2>4. \A x : Count(fromLoads[v], x) = Count(Tail(fromLoads[v]), x) + (IF k = x THEN 1 ELSE 0)
    BY <1>3, <2>1, <2>2, CountRest
  <2>5. \A x : Count(Tail(fromLoads[v]), x) \in Nat
    BY <1>3, <2>2, HeadTailProperties, CountFinite
  <2>6. CASE l # k
    <3>1. ToSchedule(l)' = ToSchedule(l) /\ ToRemove(l)' = ToRemove(l) /\ load'[l] = load[l]
      BY <1>3, <1>4, <2>2, <2>3, <2>6, SentCounts
    <3>2. Reported(l)' = Reported(l)
      <4>1. CASE w # v
        <5>1. fromLoads'[w] = fromLoads[w]
          BY <1>1, <1>3, <2>2, <4>1
        <5> QED BY <1>5, <5>1
      <4>2. CASE w = v
        <5>1. fromLoads'[w] = Tail(fromLoads[v])
          BY <1>3, <2>2, <4>2
        <5>2. Reported(l)' = Count(Tail(fromLoads[v]), l) /\ Reported(l) = Count(fromLoads[v], l)
          BY <4>2, <5>1 DEF Reported, w
        <5> QED BY <2>4, <2>5, <2>6, <5>2
      <4> QED BY <4>1, <4>2
    <3> QED BY <1>1, <1>6, <2>2, <3>1, <3>2, ShareSame, KeptSame
  <2>7. CASE l = k
    <3>1. load'[l] \notin {"none", "scheduled"}
      <4>1. CASE load' = [load EXCEPT ![k] = "ended"]
        BY <1>3, <2>7, <4>1
      <4>2. CASE load[k] # "scheduled" /\ UNCHANGED <<load, toLoads>>
        <5>1. Reported(l) = Count(Tail(fromLoads[v]), l) + 1
          BY <2>3, <2>4, <2>7 DEF Reported
        <5>2. Share(l) # 0
          BY <1>2, <2>5, <5>1
        <5> QED BY <1>1, <2>7, <4>2, <5>2 DEF LoadKept
      <4> QED BY <2>2, <4>1, <4>2
    <3> QED BY <3>1, KeptOther
  <2> QED BY <2>6, <2>7
<1>17. ASSUME NEW v \in WebProcesses, NetworkProcessConnectionClosed(v) PROVE LoadKept(l)'
  <2>1. /\ connection' = [connection EXCEPT ![v] = 0]
        /\ load' = [n \in Loads |-> IF Owner[n] = v /\ load[n] = "scheduled" THEN "failing" ELSE load[n]]
        /\ UNCHANGED <<endpoints, active, pending, web, toLoads, fromLoads>>
    BY <1>17 DEF NetworkProcessConnectionClosed, network, scheduler, channels
  <2>2. ToRemove(l)' = ToRemove(l) /\ Share(l)' = Share(l)
    BY <1>4, <1>5, <1>6, <2>1, ShareSame
  <2>3. CASE w # v
    <3>1. connection'[w] = connection[w] /\ load'[l] = load[l]
      BY <1>1, <1>3, <2>1, <2>3 DEF w
    <3> QED BY <1>1, <2>1, <2>2, <3>1, KeptSame DEF w
  <2>4. CASE w = v
    <3>1. load'[l] # "scheduled" /\ (load'[l] = "none" => load[l] = "none")
      BY <2>1, <2>4 DEF w
    <3> QED BY <1>1, <2>2, <3>1 DEF LoadKept
  <2> QED BY <2>3, <2>4
<1>18. ASSUME NEW v \in WebProcesses, InternallyFailedLoadTimerFired(v) PROVE LoadKept(l)'
  <2>1. /\ load'[l] = load[l] \/ load'[l] = "ended"
        /\ UNCHANGED <<endpoints, active, pending, web, connection, toLoads, fromLoads>>
    BY <1>18 DEF InternallyFailedLoadTimerFired, network, scheduler, channels
  <2>2. ToRemove(l)' = ToRemove(l) /\ Share(l)' = Share(l)
    BY <1>4, <1>5, <1>6, <2>1, ShareSame
  <2> QED BY <1>1, <2>1, <2>2, KeptSame, KeptOther
<1>19. ASSUME NEW v \in WebProcesses, WebProcessExits(v) PROVE LoadKept(l)'
  <2>1. /\ web' = [web EXCEPT ![v] = "exited"] /\ fromLoads' = [fromLoads EXCEPT ![v] = <<>>]
        /\ UNCHANGED <<endpoints, active, pending, connection, load, toLoads>>
    BY <1>19 DEF WebProcessExits, network, scheduler
  <2>2. ToRemove(l)' = ToRemove(l) /\ ToSchedule(l)' = ToSchedule(l) /\ In(Current, l)' = In(Current, l)
    BY <1>4, <1>6, <2>1
  <2>3. CASE w # v
    <3>1. web'[w] = web[w] /\ fromLoads'[w] = fromLoads[w]
      BY <1>1, <1>3, <2>1, <2>3
    <3> QED BY <1>1, <1>5, <2>1, <2>2, <3>1, ShareSame, KeptSame DEF w
  <2>4. CASE w = v
    <3>1. web'[w] = "exited" /\ fromLoads'[w] = <<>>
      BY <1>1, <1>3, <2>1, <2>4
    <3>2. Reported(l)' = 0
      <4>1. Count(<<>>, l) = 0
        BY Empty, CountNothing
      <4> QED BY <3>1, <4>1 DEF Reported, w
    <3>3. Share(l) = 0 => Share(l)' = 0
      BY <1>2, <2>2, <3>2 DEF Share
    <3> QED BY <1>1, <2>1, <2>2, <3>1, <3>3 DEF LoadKept, Open, Running, w
  <2> QED BY <2>3, <2>4
<1>20. CASE CreateNetworkConnectionToWebProcess
  <2>1. /\ endpoints' = endpoints \union {made + 1}
        /\ UNCHANGED <<active, pending, web, connection, load, toLoads, fromLoads>>
    BY <1>20 DEF CreateNetworkConnectionToWebProcess, webState, scheduler
  <2>2. connection[w] # made + 1
    <3>1. connection[w] <= made /\ connection[w] \in Nat
      BY <1>1, <1>3 DEF Known
    <3> QED BY <1>3, <3>1
  <2>3. ToRemove(l)' = ToRemove(l) /\ Share(l)' = Share(l)
    BY <1>4, <1>5, <1>6, <2>1, ShareSame
  <2> QED BY <1>1, <2>1, <2>2, <2>3, KeptSame DEF w
<1>21. CASE /\ endpoints' \in SUBSET endpoints
            /\ UNCHANGED <<active, pending, web, connection, load, toLoads, fromLoads>>
  <2>1. ToRemove(l)' = ToRemove(l) /\ Share(l)' = Share(l)
    BY <1>4, <1>5, <1>6, <1>21, ShareSame
  <2> QED BY <1>1, <1>21, <2>1, KeptSame
<1>22. ASSUME UIProcess \/ EnsureNetworkProcess
       PROVE  UNCHANGED <<endpoints, active, pending, web, connection, load, toLoads, fromLoads>>
  BY <1>22 DEF UIProcess, DidFinishLaunching, DidFailToLaunch,
       DidCreateNetworkConnectionToWebProcess, NetworkProcessCrashed,
       GetNetworkProcessConnection, EnsureNetworkProcess, webState, network, scheduler, channels
<1>23. ASSUME InitializeNetworkProcess
              \/ (\E v \in WebProcesses : SetSerialLoadingEnabled(v))
              \/ (\E e \in endpoints : EndpointDropped(e)) \/ UNCHANGED networkVars
       PROVE  /\ endpoints' \in SUBSET endpoints
              /\ UNCHANGED <<active, pending, web, connection, load, toLoads, fromLoads>>
  BY <1>23 DEF InitializeNetworkProcess, SetSerialLoadingEnabled, EndpointDropped, networkVars,
       webState, network, scheduler, channels
<1> QED BY <1>7, <1>8, <1>9, <1>10, <1>11, <1>12, <1>13, <1>14, <1>15, <1>16, <1>17, <1>18, <1>19,
           <1>20, <1>21, <1>22, <1>23 DEF NetworkNext, NetworkProcessRuns, WebProcess

\* Removing loads leaves a load that waits only while another is active; every other step
\* of the network process adds to what is active.
LEMMA NextPending ==
  ASSUME Typed, PendingWaitsForActive, [NetworkNext]_networkVars
  PROVE  PendingWaitsForActive'
<1>1. ASSUME NEW w \in WebProcesses, ScheduleResourceLoad(w) PROVE PendingWaitsForActive'
  <2>1. \/ pending' = Append(pending, Head(toLoads[w])[2]) /\ active # {} /\ active' = active
        \/ active' = active \union {Head(toLoads[w])[2]}
    BY <1>1 DEF ScheduleResourceLoad
  <2> QED BY <2>1 DEF PendingWaitsForActive
<1>2. ASSUME NEW order \in Seq(Loads), RemoveLoaders(order) PROVE PendingWaitsForActive'
  BY <1>2, RemovedIn
<1>3. ASSUME NEW w \in WebProcesses, RemoveLoadIdentifier(w) PROVE PendingWaitsForActive'
  <2> DEFINE k == Head(toLoads[w])[2]
             order == IF k \in registered THEN <<k>> ELSE <<>>
  <2>1. RemoveLoaders(order)
    BY <1>3 DEF RemoveLoadIdentifier
  <2>2. order \in Seq(Loads)
    <3>1. registered \in SUBSET Loads
      BY DEF Typed, NetworkTypes
    <3> QED BY <3>1, Empty
  <2> HIDE DEF order
  <2> QED BY <1>2, <2>1, <2>2
<1>4. ASSUME NEW w \in WebProcesses, WebProcessGone(w) PROVE PendingWaitsForActive'
  <2> DEFINE S == registered \intersect LoadsOf(w)
  <2>1. PICK order \in SetToSeqs(S) : RemoveLoaders(order)
    BY <1>4 DEF WebProcessGone
  <2>2. S \in SUBSET Loads /\ IsFiniteSet(S)
    BY FS_Subset DEF Typed, NetworkTypes
  <2> HIDE DEF S
  <2>3. order \in Seq(Loads)
    BY <2>1, <2>2, Ordered
  <2> QED BY <1>2, <2>1, <2>3
<1>5. ASSUME NEW l \in Loads, LoadEnds(l) PROVE PendingWaitsForActive'
  <2>1. RemoveLoaders(<<l>>)
    BY <1>5 DEF LoadEnds
  <2>2. <<l>> \in Seq(Loads)
    OBVIOUS
  <2> QED BY <1>2, <2>1, <2>2
<1>6. CASE NetworkProcessDies
  BY <1>6 DEF NetworkProcessDies, PendingWaitsForActive
<1>7. ASSUME \/ UIProcess \/ EnsureNetworkProcess
             \/ InitializeNetworkProcess \/ CreateNetworkConnectionToWebProcess
             \/ \E e \in endpoints : EndpointDropped(e)
      PROVE  UNCHANGED <<active, pending>>
  BY <1>7 DEF UIProcess, DidFinishLaunching, DidFailToLaunch,
       DidCreateNetworkConnectionToWebProcess, NetworkProcessCrashed,
       GetNetworkProcessConnection, EnsureNetworkProcess, InitializeNetworkProcess,
       CreateNetworkConnectionToWebProcess, EndpointDropped, network, scheduler
<1>8. ASSUME \/ \E l \in Loads : ScheduleLoad(l) \/ CancelLoad(l)
             \/ \E w \in WebProcesses :
                  WebProcess(w) \/ SetSerialLoadingEnabled(w) \/ WebProcessExits(w)
             \/ UNCHANGED networkVars
      PROVE  UNCHANGED <<active, pending>>
  <2>1. ASSUME NEW l \in Loads, ScheduleLoad(l) \/ CancelLoad(l)
        PROVE  UNCHANGED <<active, pending>>
    BY <2>1 DEF ScheduleLoad, CancelLoad, network, scheduler
  <2>2. ASSUME NEW w \in WebProcesses, WebProcess(w)
        PROVE  UNCHANGED <<active, pending>>
    BY <2>2 DEF WebProcess, ReceiveEndpoint, ReceiveNull, LoadFinished,
         NetworkProcessConnectionClosed, InternallyFailedLoadTimerFired, network, scheduler
  <2>3. ASSUME NEW w \in WebProcesses, SetSerialLoadingEnabled(w) \/ WebProcessExits(w)
        PROVE  UNCHANGED <<active, pending>>
    BY <2>3 DEF SetSerialLoadingEnabled, WebProcessExits, network, scheduler
  <2> QED BY <1>8, <2>1, <2>2, <2>3 DEF networkVars, network, scheduler
<1>9. CASE UNCHANGED <<active, pending>>
  BY <1>9 DEF PendingWaitsForActive
<1> QED BY <1>1, <1>3, <1>4, <1>5, <1>6, <1>7, <1>8, <1>9 DEF NetworkNext, NetworkProcessRuns

-----------------------------------------------------------------------------
(* The invariant, and what follows from it.                                *)

\* The conjuncts that are properties themselves are inductive only with the others.
NetworkInv ==
  /\ Typed
  /\ Launched /\ InitializesNext /\ InitializedFirst /\ RepliesMatchRequests
  /\ WaitsWhileAsking
  /\ Known /\ Owned /\ LoadsKept
  /\ PendingWaitsForActive

LEMMA InitNetworkInv == NetworkInit => NetworkInv
<1> SUFFICES ASSUME NetworkInit PROVE NetworkInv
  OBVIOUS
<1>1. PendingWaitsForActive
  BY DEF NetworkInit, PendingWaitsForActive
<1> QED BY <1>1, InitTyped, InitLaunched, InitWaits, InitLoads DEF NetworkInv

LEMMA NextNetworkInv == NetworkInv /\ [NetworkNext]_networkVars => NetworkInv'
<1> SUFFICES ASSUME NetworkInv, [NetworkNext]_networkVars PROVE NetworkInv'
  OBVIOUS
<1> USE DEF NetworkInv
<1>1. Typed'
  BY NextUITypes, NextNetworkTypes, NextWebTypes, NextChannelTypes, NextEndpointTypes DEF Typed
<1>2. Launched' /\ InitializesNext' /\ InitializedFirst' /\ RepliesMatchRequests'
  BY NextLaunched, NextInitializes, NextMatching
<1>3. WaitsWhileAsking'
  BY <1>1, NextWaits
<1>4. Known' /\ Owned' /\ LoadsKept'
  BY NextKnown, NextOwned, NextLoadsKept
<1>5. PendingWaitsForActive'
  BY NextPending
<1> QED BY <1>1, <1>2, <1>3, <1>4, <1>5

LEMMA AlwaysNetworkInv == NetworkSpec => []NetworkInv
  BY InitNetworkInv, NextNetworkInv, PTL DEF NetworkSpec

\* Every variable of the UI process, the network process and the web processes keeps its
\* type, through every launch and crash: in particular m_pendingConnectionReplies.takeFirst
\* in didCreateNetworkConnectionToWebProcess never finds the queue empty.
THEOREM NetworkStateTypes == NetworkSpec => []NetworkTypeOK
<1>1. NetworkInv => NetworkTypeOK
  BY DEF NetworkInv, Typed, UITypes, NetworkTypes, WebTypes, ChannelTypes, EndpointTypes,
         LoadMessages, NetworkTypeOK
<1> QED BY <1>1, AlwaysNetworkInv, PTL

\* NetworkProcessProxy::didCreateNetworkConnectionToWebProcess takes the first reply that
\* waits: as many wait as there are answers to come, through crashes and launches again,
\* so that an answer always finds one and never one that was asked for elsewhere.
THEOREM AnswersFindTheirRequest == NetworkSpec => []RepliesMatchRequests
<1>1. NetworkInv => RepliesMatchRequests
  BY DEF NetworkInv
<1> QED BY <1>1, AlwaysNetworkInv, PTL

\* ChildProcessProxy::didFinishLaunching sends what was stashed before anything else: no
\* endpoint exists in a network process that has not handled initializeNetworkProcess.
THEOREM InitializesBeforeConnecting == NetworkSpec => []InitializedFirst
<1>1. NetworkInv => InitializedFirst
  BY DEF NetworkInv
<1> QED BY <1>1, AlwaysNetworkInv, PTL

\* WebProcess::ensureNetworkProcessConnection: a web process that waits in sendSync has
\* its request or its reply in exactly one place, whatever crashes meanwhile.
THEOREM ConnectionRequestsStayUnique == NetworkSpec => []RequestInOnePlace
<1>1. NetworkInv => RequestInOnePlace
  <2> SUFFICES ASSUME NetworkInv, NEW w \in WebProcesses, web[w] = "asking"
               PROVE  Waits(w) = 1
    BY DEF RequestInOnePlace, Waits
  <2> QED BY DEF NetworkInv, WaitsWhileAsking
<1> QED BY <1>1, AlwaysNetworkInv, PTL

\* WebResourceLoadScheduler and NetworkResourceLoadScheduler agree: a load that the web
\* process counts as scheduled over an open connection is about to be scheduled, active,
\* waiting or about to be reported, and not twice.
THEOREM LoadsStayInOnePlace == NetworkSpec => []LoadInOnePlace
<1>1. NetworkInv => LoadInOnePlace
  <2> SUFFICES ASSUME NetworkInv, NEW l \in Loads,
                      load[l] = "scheduled", Open(Owner[l])
               PROVE  Count(toLoads[Owner[l]], <<"Schedule", l>>) + Count(pending, l)
                        + Count(fromLoads[Owner[l]], l) + (IF l \in active THEN 1 ELSE 0) = 1
    BY DEF LoadInOnePlace, Open
  <2>1. Share(l) = 1 /\ Typed
    BY DEF NetworkInv, LoadsKept, LoadKept
  <2>2. ToSchedule(l) \in Nat /\ Reported(l) \in Nat /\ Count(pending, l) \in Nat
    BY <2>1, ShareTypes, CountFinite DEF Typed, NetworkTypes
  <2> QED BY <2>1, <2>2 DEF Share, ToSchedule, Reported, In, Current
<1> QED BY <1>1, AlwaysNetworkInv, PTL

\* NetworkResourceLoadScheduler::removeLoader starts the load that came last when it takes
\* the last active one away, also when aborting several: no load waits for nothing.
THEOREM NoLoadWaitsForNothing == NetworkSpec => []PendingWaitsForActive
<1>1. NetworkInv => PendingWaitsForActive
  BY DEF NetworkInv
<1> QED BY <1>1, AlwaysNetworkInv, PTL
=============================================================================
