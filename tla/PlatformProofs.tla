----------------------------- MODULE PlatformProofs -----------------------------
(***************************************************************************)
(* Two small pieces of WebKit2/Platform.                                   *)
(*                                                                         *)
(* WaitForMessage: what waiting for a message does to the incoming queue,  *)
(* for any messages and any number of waits.                               *)
(*                                                                         *)
(* WorkQueueWin: the Windows work queue, for any set of functions,         *)
(* whatever they dispatch and however the clock moves.                     *)
(***************************************************************************)
EXTENDS WaitForMessage, WorkQueueWin, SequenceTheorems, WellFoundedInduction, TLAPS

-----------------------------------------------------------------------------
(* WaitForMessage.                                                         *)

Rest == dispatched \o incoming

\* s lists messages in the order in which r has them.
Follows(s, r) ==
  \A i, j \in 1..Len(s) : i < j =>
    \E p, q \in 1..Len(r) : p < q /\ r[p] = s[i] /\ r[q] = s[j]

Distinct(r) == \A i, j \in 1..Len(r) : r[i] = r[j] => i = j

-----------------------------------------------------------------------------
(* Sequences of messages.                                                  *)

LEMMA Members ==
  ASSUME NEW S, NEW s \in Seq(S), NEW x
  PROVE  x \in ToSet(s) <=> \E i \in 1..Len(s) : s[i] = x
  BY LenProperties DEF ToSet

\* A sequence that follows one without repetitions has none.
LEMMA FollowerDistinct ==
  ASSUME NEW S, NEW s \in Seq(S), NEW r \in Seq(S), Follows(s, r), Distinct(r)
  PROVE  Distinct(s)
<1> SUFFICES ASSUME NEW i \in 1..Len(s), NEW j \in 1..Len(s), s[i] = s[j], i < j
             PROVE  FALSE
  BY LenProperties DEF Distinct
<1>1. PICK p, q \in 1..Len(r) : p < q /\ r[p] = s[i] /\ r[q] = s[j]
  BY DEF Follows
<1> QED BY <1>1, LenProperties DEF Distinct

LEMMA FollowsLonger ==
  ASSUME NEW S, NEW s \in Seq(S), NEW r \in Seq(S), NEW m \in S, Follows(s, r)
  PROVE  Follows(s, Append(r, m))
<1>1. Len(Append(r, m)) = Len(r) + 1 /\ Len(r) \in Nat
      /\ \A p \in 1..Len(r) : Append(r, m)[p] = r[p]
  BY AppendProperties
<1> SUFFICES ASSUME NEW i \in 1..Len(s), NEW j \in 1..Len(s), i < j
             PROVE  \E p, q \in 1..Len(Append(r, m)) :
                      p < q /\ Append(r, m)[p] = s[i] /\ Append(r, m)[q] = s[j]
  BY DEF Follows
<1>2. PICK p, q \in 1..Len(r) : p < q /\ r[p] = s[i] /\ r[q] = s[j]
  BY DEF Follows
<1>3. p \in 1..Len(Append(r, m)) /\ q \in 1..Len(Append(r, m))
  BY <1>1
<1> QED BY <1>1, <1>2, <1>3

\* What arrives last may be appended to what follows.
LEMMA FollowsAppended ==
  ASSUME NEW S, NEW s \in Seq(S), NEW r \in Seq(S), NEW m \in S,
         Follows(s, r), ToSet(s) \subseteq ToSet(r)
  PROVE  Follows(Append(s, m), Append(r, m))
<1> DEFINE t == Append(s, m)
           u == Append(r, m)
<1>1. /\ Len(t) = Len(s) + 1 /\ Len(s) \in Nat
      /\ \A i \in 1..Len(s) : t[i] = s[i]
      /\ t[Len(s) + 1] = m
  BY AppendProperties
<1>2. /\ Len(u) = Len(r) + 1 /\ Len(r) \in Nat
      /\ \A i \in 1..Len(r) : u[i] = r[i]
      /\ u[Len(r) + 1] = m
  BY AppendProperties
<1> HIDE DEF t, u
<1> SUFFICES ASSUME NEW i \in 1..Len(t), NEW j \in 1..Len(t), i < j
             PROVE  \E p, q \in 1..Len(u) : p < q /\ u[p] = t[i] /\ u[q] = t[j]
  BY DEF Follows, t, u
<1>3. i \in 1..Len(s) /\ i \in Nat /\ j \in Nat
  BY <1>1
<1>4. CASE j \in 1..Len(s)
  <2>1. PICK p, q \in 1..Len(r) : p < q /\ r[p] = s[i] /\ r[q] = s[j]
    BY <1>3, <1>4 DEF Follows
  <2>2. p \in 1..Len(u) /\ q \in 1..Len(u)
    BY <1>2
  <2> QED BY <1>1, <1>2, <1>3, <1>4, <2>1, <2>2
<1>5. CASE j = Len(s) + 1
  <2>1. s[i] \in ToSet(r)
    BY <1>3, Members
  <2>2. PICK p \in 1..Len(r) : r[p] = s[i]
    BY <2>1, Members
  <2>3. /\ p \in 1..Len(u) /\ Len(r) + 1 \in 1..Len(u) /\ p < Len(r) + 1
        /\ u[p] = t[i] /\ u[Len(r) + 1] = t[j]
    BY <1>1, <1>2, <1>3, <1>5, <2>2
  <2> QED BY <2>3
<1> QED BY <1>1, <1>4, <1>5

\* One left out of the middle: t is s without its element k.
Skips(t, s, k) ==
  /\ Len(s) = Len(t) + 1
  /\ k \in 1..Len(s)
  /\ \A i \in 1..Len(t) : t[i] = IF i < k THEN s[i] ELSE s[i + 1]

LEMMA FollowsSkipping ==
  ASSUME NEW S, NEW s \in Seq(S), NEW t \in Seq(S), NEW r \in Seq(S), NEW k \in Nat,
         Skips(t, s, k), Follows(s, r), Distinct(s)
  PROVE  Follows(t, r) /\ ToSet(t) \subseteq ToSet(s) /\ s[k] \notin ToSet(t)
<1> DEFINE f(i) == IF i < k THEN i ELSE i + 1
<1>1. Len(s) \in Nat /\ Len(t) \in Nat /\ Len(s) = Len(t) + 1 /\ k \in 1..Len(s)
  BY LenProperties DEF Skips
<1>2. \A i \in 1..Len(t) : f(i) \in 1..Len(s) /\ f(i) # k
  BY <1>1
<1>3. \A i \in 1..Len(t) : t[i] = s[f(i)]
  BY DEF Skips
<1>4. \A i, j \in 1..Len(t) : i < j => f(i) < f(j)
  BY <1>1
<1> HIDE DEF f
<1>5. Follows(t, r)
  BY <1>2, <1>3, <1>4 DEF Follows
<1>6. ToSet(t) \subseteq ToSet(s)
  <2> SUFFICES ASSUME NEW x \in ToSet(t) PROVE x \in ToSet(s)
    OBVIOUS
  <2>1. PICK i \in 1..Len(t) : t[i] = x
    BY Members
  <2>2. f(i) \in 1..Len(s) /\ s[f(i)] = x
    BY <1>2, <1>3, <2>1
  <2> QED BY <2>2, Members
<1>7. s[k] \notin ToSet(t)
  <2>1. \A i \in 1..Len(t) : s[f(i)] # s[k]
    BY <1>1, <1>2 DEF Distinct
  <2>2. \A i \in 1..Len(t) : t[i] # s[k]
    BY <1>3, <2>1
  <2> QED BY <2>2, Members
<1> QED BY <1>5, <1>6, <1>7

LEMMA RemovedFromRest ==
  ASSUME NEW S, NEW d \in Seq(S), NEW q \in Seq(S), NEW i \in 1..Len(q)
  PROVE  /\ RemoveAt(q, i) \in Seq(S)
         /\ Skips(d \o RemoveAt(q, i), d \o q, Len(d) + i)
         /\ (d \o q)[Len(d) + i] = q[i]
<1>1. Len(q) \in Nat /\ Len(d) \in Nat /\ i \in Nat /\ i >= 1 /\ i <= Len(q)
      /\ \A n \in 1..Len(q) : q[n] \in S
  BY LenProperties, ElementOfSeq
<1> DEFINE a == SubSeq(q, 1, i - 1)
           b == SubSeq(q, i + 1, Len(q))
           w == a \o b
           l == d \o w
           s == d \o q
<1>2. a \in Seq(S) /\ Len(a) = i - 1 /\ \A n \in 1..(i - 1) : a[n] = q[n]
  <2>1. \A n \in 1..(i - 1) : q[n] \in S
    BY <1>1
  <2>2. /\ a \in Seq(S)
        /\ Len(a) = IF 1 <= i - 1 THEN i - 1 - 1 + 1 ELSE 0
        /\ \A n \in 1..(i - 1 - 1 + 1) : a[n] = q[1 + n - 1]
    BY <1>1, <2>1, SubSeqProperties
  <2> QED BY <1>1, <2>2
<1>3. b \in Seq(S) /\ Len(b) = Len(q) - i /\ \A n \in 1..(Len(q) - i) : b[n] = q[n + i]
  <2>1. \A n \in (i + 1)..Len(q) : q[n] \in S
    BY <1>1
  <2>2. /\ b \in Seq(S)
        /\ Len(b) = IF i + 1 <= Len(q) THEN Len(q) - (i + 1) + 1 ELSE 0
        /\ \A n \in 1..(Len(q) - (i + 1) + 1) : b[n] = q[i + 1 + n - 1]
    BY <1>1, <2>1, SubSeqProperties
  <2> QED BY <1>1, <2>2
<1> HIDE DEF a, b
<1>4. /\ w \in Seq(S) /\ Len(w) = Len(a) + Len(b)
      /\ \A n \in 1..(Len(a) + Len(b)) : w[n] = IF n <= Len(a) THEN a[n] ELSE b[n - Len(a)]
  BY <1>2, <1>3, ConcatProperties
<1>5. Len(w) = Len(q) - 1 /\ \A n \in 1..(Len(q) - 1) : w[n] = IF n < i THEN q[n] ELSE q[n + 1]
  <2>1. Len(a) + Len(b) = Len(q) - 1
    BY <1>1, <1>2, <1>3
  <2>2. ASSUME NEW n \in 1..(Len(q) - 1), n < i
        PROVE  w[n] = q[n]
    <3>1. n \in 1..(i - 1) /\ n <= Len(a) /\ n \in 1..(Len(a) + Len(b))
      BY <1>1, <1>2, <2>1, <2>2
    <3> QED BY <1>2, <1>4, <3>1
  <2>3. ASSUME NEW n \in 1..(Len(q) - 1), ~(n < i)
        PROVE  w[n] = q[n + 1]
    <3>1. /\ n - Len(a) \in 1..(Len(q) - i) /\ ~(n <= Len(a)) /\ n \in 1..(Len(a) + Len(b))
          /\ n - Len(a) + i = n + 1
      BY <1>1, <1>2, <2>1, <2>3
    <3> QED BY <1>3, <1>4, <3>1
  <2> QED BY <1>4, <2>1, <2>2, <2>3
<1>6. RemoveAt(q, i) = w
  BY DEF RemoveAt, a, b
<1> HIDE DEF w
<1>7. /\ Len(l) = Len(d) + Len(w)
      /\ \A n \in 1..(Len(d) + Len(w)) : l[n] = IF n <= Len(d) THEN d[n] ELSE w[n - Len(d)]
  <2>1. w \in Seq(S)
    BY <1>4
  <2> QED BY <2>1, ConcatProperties, Zenon
<1>8. /\ Len(s) = Len(d) + Len(q)
      /\ \A n \in 1..(Len(d) + Len(q)) : s[n] = IF n <= Len(d) THEN d[n] ELSE q[n - Len(d)]
  BY ConcatProperties
<1> HIDE DEF l, s
<1>9. Skips(l, s, Len(d) + i)
  <2>1. Len(s) = Len(l) + 1 /\ Len(d) + i \in 1..Len(s)
    BY <1>1, <1>5, <1>7, <1>8
  <2>2. ASSUME NEW n \in 1..Len(l)
        PROVE  l[n] = IF n < Len(d) + i THEN s[n] ELSE s[n + 1]
    <3>1. CASE n <= Len(d)
      BY <1>1, <1>5, <1>7, <1>8, <3>1
    <3>2. CASE n > Len(d)
      <4>1. n - Len(d) \in 1..(Len(q) - 1)
        BY <1>1, <1>5, <1>7, <3>2
      <4>2. l[n] = IF n - Len(d) < i THEN q[n - Len(d)] ELSE q[n - Len(d) + 1]
        <5>1. n \in 1..(Len(d) + Len(w)) /\ ~(n <= Len(d))
          BY <1>1, <1>5, <1>7, <3>2
        <5>2. l[n] = w[n - Len(d)]
          BY <1>7, <5>1
        <5> QED BY <1>5, <4>1, <5>2
      <4>3. s[n] = q[n - Len(d)] /\ s[n + 1] = q[n + 1 - Len(d)] /\ n + 1 - Len(d) = n - Len(d) + 1
        BY <1>1, <1>5, <1>7, <1>8, <3>2, <4>1
      <4> QED BY <1>1, <4>1, <4>2, <4>3
    <3> QED BY <1>1, <1>7, <3>1, <3>2
  <2> QED BY <2>1, <2>2 DEF Skips
<1>10. s[Len(d) + i] = q[i]
  BY <1>1, <1>8
<1> QED BY <1>4, <1>6, <1>9, <1>10 DEF l, s

-----------------------------------------------------------------------------
(* Types, and the hand-over.                                               *)

\* The slot only ever holds a message that matches, and then somebody is registered.
Held == TypeOK /\ (registered <=> pc \in {"loop", "asleep", "giving up"}) /\ (slot # {} => registered)

LEMMA InitHeld == Init => Held
<1>1. <<>> \in Seq(Messages)
  BY EmptySeq
<1>2. 0 \in 0..MaxWaits
  BY WaitForMessageAssumption
<1> QED BY <1>1, <1>2 DEF Init, Held, TypeOK

LEMMA NextHeld == Held /\ [Next]_vars => Held'
<1> SUFFICES ASSUME Held, [Next]_vars PROVE Held'
  OBVIOUS
<1> USE DEF Held, TypeOK
<1>0. MaxWaits \in Nat /\ Awaited \subseteq Messages
  BY WaitForMessageAssumption DEF Messages
<1>1. CASE DispatchOneMessage
  <2>1. Tail(incoming) \in Seq(Messages) /\ Head(incoming) \in Messages
    BY <1>1, HeadTailProperties DEF DispatchOneMessage
  <2>2. Append(dispatched, Head(incoming)) \in Seq(Messages)
    BY <2>1, AppendProperties
  <2> QED BY <1>1, <2>1, <2>2 DEF DispatchOneMessage
<1>2. CASE ScanIncoming
  <2>1. waits' \in 0..MaxWaits
    <3>1. waits < MaxWaits /\ waits' = waits + 1 /\ waits \in 0..MaxWaits
      BY <1>2 DEF ScanIncoming
    <3> QED BY ONLY <1>0, <3>1
  <2>2. CASE Matches # {}
    <3>1. PICK i \in Matches : /\ incoming' = RemoveAt(incoming, i)
                               /\ returned' = returned \union {incoming[i]}
                               /\ UNCHANGED pc
      BY <1>2, <2>2 DEF ScanIncoming
    <3>2. i \in 1..Len(incoming) /\ incoming[i] \in Messages
      BY <1>0, <3>1, LenProperties DEF Matches
    <3>3. incoming' \in Seq(Messages)
      BY <3>1, <3>2, RemovedFromRest
    <3> QED BY <1>2, <2>1, <3>1, <3>2, <3>3 DEF ScanIncoming
  <2>3. CASE Matches = {}
    BY <1>2, <2>1, <2>3 DEF ScanIncoming
  <2> QED BY <2>2, <2>3
<1>3. CASE Register
  BY <1>3 DEF Register
<1>4. CASE TakeMessage
  BY <1>0, <1>4 DEF TakeMessage
<1>5. CASE FallAsleep
  BY <1>5 DEF FallAsleep
<1>6. CASE WaitReturns(FALSE) \/ WaitReturns(TRUE)
  BY <1>6 DEF WaitReturns
<1>7. CASE GiveUp
  BY <1>7 DEF GiveUp
<1>8. ASSUME NEW m \in Messages, ProcessIncomingMessage(m)
      PROVE  Held'
  <2>1. Append(received, m) \in Seq(Messages) /\ Append(incoming, m) \in Seq(Messages)
    BY AppendProperties
  <2> QED BY <1>0, <1>8, <2>1 DEF ProcessIncomingMessage
<1>9. CASE ConnectionDidClose
  BY <1>9 DEF ConnectionDidClose
<1>10. CASE UNCHANGED vars
  BY <1>10 DEF vars
<1> QED
  BY <1>1, <1>2, <1>3, <1>4, <1>5, <1>6, <1>7, <1>8, <1>9, <1>10 DEF Next, ClientThread

\* Type correctness; m_waitingForMessage->decoder only ever holds a matching message.
THEOREM WaitTypes == Spec => []TypeOK
<1>1. Held => TypeOK
  BY DEF Held
<1> QED BY <1>1, InitHeld, NextHeld, PTL DEF Spec

LEMMA NextHandover == NoLostHandover /\ Held /\ [Next]_vars => NoLostHandover'
  BY DEF NoLostHandover, Held, TypeOK, Next, ClientThread, vars, DispatchOneMessage, ScanIncoming,
         Register, TakeMessage, FallAsleep, WaitReturns, GiveUp, ProcessIncomingMessage,
         ConnectionDidClose

\* The client thread never sleeps on with a message in its WaitForMessageState.
THEOREM HandoverIsNoticed == Spec => []NoLostHandover
<1>1. Init => NoLostHandover
  BY DEF Init, NoLostHandover
<1> QED BY <1>1, InitHeld, NextHeld, NextHandover, PTL DEF Spec

-----------------------------------------------------------------------------
(* The order of the rest.                                                  *)

\* Each message has one place: in the rest, in the order of arrival, in the slot, or
\* with a caller of waitForMessage.
Placed ==
  /\ Distinct(received)
  /\ Follows(Rest, received)
  /\ ToSet(Rest) \subseteq ToSet(received)
  /\ slot \union returned \subseteq ToSet(received)
  /\ ToSet(Rest) \intersect (slot \union returned) = {}
  /\ slot \intersect returned = {}

LEMMA InitPlaced == Init => Placed
<1> SUFFICES ASSUME Init PROVE Placed
  OBVIOUS
<1>1. Rest = <<>> /\ received = <<>> /\ slot = {} /\ returned = {}
  BY EmptySeq, ConcatEmptySeq DEF Init, Rest
<1>2. ToSet(Rest) = {} /\ 1..Len(<<>>) = {}
  BY <1>1, EmptySeq DEF ToSet
<1> QED BY <1>1, <1>2 DEF Placed, Distinct, Follows

\* Steps that leave the queues alone may move a message from the slot to the caller, or
\* drop it.
LEMMA PlacedElsewhere ==
  ASSUME Placed, UNCHANGED <<received, Rest>>,
         \/ slot' \subseteq slot /\ returned' = returned
         \/ slot' = {} /\ returned' = returned \union slot
  PROVE  Placed'
  BY DEF Placed, Distinct, Follows

LEMMA NextPlaced == Placed /\ Held /\ [Next]_vars => Placed'
<1> SUFFICES ASSUME Placed, Held, [Next]_vars PROVE Placed'
  OBVIOUS
<1>0. /\ received \in Seq(Messages) /\ incoming \in Seq(Messages) /\ dispatched \in Seq(Messages)
      /\ Rest \in Seq(Messages)
  BY ConcatProperties DEF Held, TypeOK, Rest
<1>1. CASE DispatchOneMessage
  <2>1. incoming # <<>> /\ incoming' = Tail(incoming)
        /\ dispatched' = Append(dispatched, Head(incoming))
    BY <1>1 DEF DispatchOneMessage
  <2>2. Head(incoming) \in Messages /\ Tail(incoming) \in Seq(Messages)
        /\ <<Head(incoming)>> \in Seq(Messages)
    BY <1>0, <2>1, HeadTailProperties
  <2>3. Append(dispatched, Head(incoming)) = dispatched \o <<Head(incoming)>>
    BY <1>0, <2>2, AppendIsConcat
  <2>4. incoming = <<Head(incoming)>> \o Tail(incoming)
    BY <1>0, <2>1, <2>2
  <2>5. (dispatched \o <<Head(incoming)>>) \o Tail(incoming)
          = dispatched \o (<<Head(incoming)>> \o Tail(incoming))
    BY <1>0, <2>2, ConcatAssociative
  <2>6. Rest' = Rest
    BY <2>1, <2>3, <2>4, <2>5 DEF Rest
  <2> QED BY <1>1, <2>6, PlacedElsewhere DEF DispatchOneMessage
<1>2. CASE ScanIncoming
  <2>1. CASE Matches # {}
    <3>1. PICK i \in Matches : /\ incoming' = RemoveAt(incoming, i)
                               /\ returned' = returned \union {incoming[i]}
      BY <1>2, <2>1 DEF ScanIncoming
    <3>2. UNCHANGED <<dispatched, received, slot>> /\ i \in 1..Len(incoming)
      BY <1>0, <1>2, LenProperties DEF ScanIncoming, Matches
    <3> DEFINE k == Len(dispatched) + i
    <3>3. k \in Nat /\ incoming' \in Seq(Messages) /\ Rest' \in Seq(Messages)
      <4>1. incoming' \in Seq(Messages)
        BY <1>0, <3>1, <3>2, RemovedFromRest
      <4> QED BY <1>0, <3>2, <4>1, ConcatProperties, LenProperties DEF Rest
    <3>4. Skips(Rest', Rest, k) /\ Rest[k] = incoming[i]
      <4>1. dispatched \in Seq(Messages) /\ incoming \in Seq(Messages) /\ i \in 1..Len(incoming)
        BY <1>0, <3>2
      <4>2. /\ Skips(dispatched \o RemoveAt(incoming, i), dispatched \o incoming, Len(dispatched) + i)
            /\ (dispatched \o incoming)[Len(dispatched) + i] = incoming[i]
        BY ONLY <4>1, RemovedFromRest
      <4>3. Rest' = dispatched \o RemoveAt(incoming, i)
        BY <3>1, <3>2 DEF Rest
      <4> QED BY <4>2, <4>3, Zenon DEF Rest
    <3>5. Distinct(Rest)
      BY <1>0, FollowerDistinct DEF Placed
    <3>6. Follows(Rest', received) /\ ToSet(Rest') \subseteq ToSet(Rest) /\ Rest[k] \notin ToSet(Rest')
      <4> DEFINE t == Rest'
      <4>1. t \in Seq(Messages) /\ Skips(t, Rest, k) /\ Follows(Rest, received)
        BY <3>3, <3>4 DEF Placed
      <4> HIDE DEF t, k
      <4>2. Follows(t, received) /\ ToSet(t) \subseteq ToSet(Rest) /\ Rest[k] \notin ToSet(t)
        BY <1>0, <3>3, <3>5, <4>1, FollowsSkipping
      <4> QED BY <4>2 DEF t, k
    <3>7. incoming[i] \in ToSet(Rest)
      <4>1. k \in 1..Len(Rest)
        BY <3>4 DEF Skips
      <4> QED BY <1>0, <3>4, <4>1, Members
    <3> QED BY <3>1, <3>2, <3>4, <3>6, <3>7 DEF Placed
  <2>2. CASE Matches = {}
    BY <1>2, <2>2, PlacedElsewhere DEF ScanIncoming, Rest
  <2> QED BY <2>1, <2>2
<1>3. CASE Register
  BY <1>3, PlacedElsewhere DEF Register, Rest
<1>4. CASE TakeMessage
  BY <1>4, PlacedElsewhere DEF TakeMessage, Rest
<1>5. CASE FallAsleep
  BY <1>5, PlacedElsewhere DEF FallAsleep, Rest
<1>6. CASE WaitReturns(FALSE) \/ WaitReturns(TRUE)
  BY <1>6, PlacedElsewhere DEF WaitReturns, Rest
<1>7. CASE GiveUp
  BY <1>7, PlacedElsewhere DEF GiveUp, Rest
<1>8. ASSUME NEW m \in Messages, ProcessIncomingMessage(m)
      PROVE  Placed'
  <2>1. /\ m \notin ToSet(received) /\ received' = Append(received, m)
        /\ UNCHANGED <<dispatched, returned>>
    BY <1>8 DEF ProcessIncomingMessage
  <2>2. ToSet(received') = ToSet(received) \union {m} /\ Distinct(received')
    <3> DEFINE u == Append(received, m)
    <3>1. /\ u \in Seq(Messages) /\ Len(u) = Len(received) + 1 /\ Len(received) \in Nat
          /\ \A i \in 1..Len(received) : u[i] = received[i]
          /\ u[Len(received) + 1] = m
      BY <1>0, AppendProperties
    <3> HIDE DEF u
    <3>2. ToSet(u) = ToSet(received) \union {m}
      <4>1. \A x : x \in ToSet(u) <=> \E i \in 1..Len(u) : u[i] = x
        BY <3>1, Members
      <4>2. \A x : x \in ToSet(received) <=> \E i \in 1..Len(received) : received[i] = x
        BY <1>0, Members
      <4> QED BY <3>1, <4>1, <4>2
    <3>3. Distinct(u)
      <4>1. \A i \in 1..Len(received) : received[i] # m
        BY <1>0, <2>1, Members
      <4> QED BY <3>1, <4>1 DEF Distinct, Placed
    <3> QED BY <2>1, <3>2, <3>3 DEF u
  <2>3. CASE registered /\ m \in Awaited
    <3>1. slot' = {m} /\ UNCHANGED Rest
      BY <1>8, <2>1, <2>3 DEF ProcessIncomingMessage, Rest
    <3>2. Follows(Rest, Append(received, m))
      BY <1>0, FollowsLonger DEF Placed
    <3> QED BY <2>1, <2>2, <3>1, <3>2 DEF Placed
  <2>4. CASE ~(registered /\ m \in Awaited)
    <3>1. incoming' = Append(incoming, m) /\ slot' = slot
      BY <1>8, <2>4 DEF ProcessIncomingMessage
    <3>2. Rest' = Append(Rest, m)
      <4>1. <<m>> \in Seq(Messages) /\ Append(incoming, m) = incoming \o <<m>>
        BY <1>0, AppendIsConcat
      <4>2. dispatched \o (incoming \o <<m>>) = (dispatched \o incoming) \o <<m>>
        BY <1>0, <4>1, ConcatAssociative
      <4>3. Append(Rest, m) = Rest \o <<m>>
        BY <1>0, AppendIsConcat
      <4> QED BY <2>1, <3>1, <4>1, <4>2, <4>3 DEF Rest
    <3>3. Follows(Append(Rest, m), Append(received, m))
      BY <1>0, FollowsAppended DEF Placed
    <3>4. ToSet(Append(Rest, m)) = ToSet(Rest) \union {m}
      <4> DEFINE u == Append(Rest, m)
      <4>1. /\ u \in Seq(Messages) /\ Len(u) = Len(Rest) + 1 /\ Len(Rest) \in Nat
            /\ \A i \in 1..Len(Rest) : u[i] = Rest[i]
            /\ u[Len(Rest) + 1] = m
        BY <1>0, AppendProperties
      <4> HIDE DEF u
      <4>2. \A x : x \in ToSet(u) <=> \E i \in 1..Len(u) : u[i] = x
        BY <4>1, Members
      <4>3. \A x : x \in ToSet(Rest) <=> \E i \in 1..Len(Rest) : Rest[i] = x
        BY <1>0, Members
      <4>4. ToSet(u) = ToSet(Rest) \union {m}
        BY <4>1, <4>2, <4>3
      <4> QED BY <4>4 DEF u
    <3> QED BY <2>1, <2>2, <3>1, <3>2, <3>3, <3>4 DEF Placed
  <2> QED BY <2>3, <2>4
<1>9. CASE ConnectionDidClose
  BY <1>9, PlacedElsewhere DEF ConnectionDidClose, Rest
<1>10. CASE UNCHANGED vars
  BY <1>10, PlacedElsewhere DEF vars, Rest
<1> QED
  BY <1>1, <1>2, <1>3, <1>4, <1>5, <1>6, <1>7, <1>8, <1>9, <1>10 DEF Next, ClientThread

LEMMA PlacedInOrder == Placed /\ Held => RestInOrder
<1> SUFFICES ASSUME Placed, Held PROVE RestInOrder
  OBVIOUS
<1> DEFINE position(m) == CHOOSE i \in DOMAIN received : received[i] = m
<1>1. /\ received \in Seq(Messages) /\ DOMAIN received = 1..Len(received)
      /\ Rest \in Seq(Messages) /\ DOMAIN Rest = 1..Len(Rest)
  BY ConcatProperties, LenProperties DEF Held, TypeOK, Rest
<1>2. ASSUME NEW p \in 1..Len(received)
      PROVE  position(received[p]) = p
  BY <1>1 DEF Placed, Distinct
<1>3. ASSUME NEW i \in DOMAIN Rest, NEW j \in DOMAIN Rest, i < j
      PROVE  position(Rest[i]) < position(Rest[j])
  <2>1. PICK p, q \in 1..Len(received) : p < q /\ received[p] = Rest[i] /\ received[q] = Rest[j]
    BY <1>1, <1>3 DEF Placed, Follows
  <2>2. position(received[p]) = p /\ position(received[q]) = q
    BY <1>2
  <2> QED BY <2>1, <2>2
<1> QED BY <1>3 DEF RestInOrder, Placed, Rest

\* Waiting takes messages out of the middle of the queue, duplicates none, and leaves
\* the rest in the order of arrival.
THEOREM RestStaysInOrder == Spec => []RestInOrder
  BY InitHeld, NextHeld, InitPlaced, NextPlaced, PlacedInOrder, PTL DEF Spec

-----------------------------------------------------------------------------
(* What is lost.                                                           *)

LEMMA AppendedMembers ==
  ASSUME NEW S, NEW s \in Seq(S), NEW x \in S
  PROVE  ToSet(Append(s, x)) = ToSet(s) \union {x}
<1> DEFINE t == Append(s, x)
<1>1. /\ t \in Seq(S) /\ Len(t) = Len(s) + 1 /\ Len(s) \in Nat
      /\ \A i \in 1..Len(s) : t[i] = s[i]
      /\ t[Len(s) + 1] = x
  BY AppendProperties, LenProperties
<1> HIDE DEF t
<1>2. ASSUME NEW y
      PROVE  y \in ToSet(t) <=> y \in ToSet(s) \/ y = x
  <2>1. y \in ToSet(t) <=> \E i \in 1..(Len(s) + 1) : t[i] = y
    BY <1>1, Members
  <2>2. y \in ToSet(s) <=> \E i \in 1..Len(s) : s[i] = y
    BY Members
  <2>3. /\ \A i \in 1..(Len(s) + 1) : i \in 1..Len(s) \/ i = Len(s) + 1
        /\ \A i \in 1..Len(s) : i \in 1..(Len(s) + 1)
        /\ Len(s) + 1 \in 1..(Len(s) + 1)
    BY <1>1
  <2>4. (\E i \in 1..(Len(s) + 1) : t[i] = y) <=> (\E i \in 1..Len(s) : s[i] = y) \/ y = x
    BY <1>1, <2>3, Zenon
  <2> QED BY <2>1, <2>2, <2>4
<1> QED BY <1>2 DEF t

LEMMA RestMembers ==
  ASSUME NEW S, NEW d \in Seq(S), NEW q \in Seq(S)
  PROVE  ToSet(d \o q) = ToSet(d) \union ToSet(q)
<1>1. /\ d \o q \in Seq(S) /\ Len(d \o q) = Len(d) + Len(q) /\ Len(d) \in Nat /\ Len(q) \in Nat
      /\ \A i \in 1..(Len(d) + Len(q)) : (d \o q)[i] = IF i <= Len(d) THEN d[i] ELSE q[i - Len(d)]
  BY ConcatProperties, LenProperties
<1>2. ASSUME NEW y
      PROVE  (\E i \in 1..(Len(d) + Len(q)) : (d \o q)[i] = y)
               <=> (\E i \in 1..Len(d) : d[i] = y) \/ (\E i \in 1..Len(q) : q[i] = y)
  <2>1. ASSUME NEW i \in 1..Len(d), d[i] = y
        PROVE  \E j \in 1..(Len(d) + Len(q)) : (d \o q)[j] = y
    <3>1. i \in 1..(Len(d) + Len(q)) /\ i <= Len(d)
      BY <1>1
    <3> QED BY <1>1, <2>1, <3>1
  <2>2. ASSUME NEW i \in 1..Len(q), q[i] = y
        PROVE  \E j \in 1..(Len(d) + Len(q)) : (d \o q)[j] = y
    <3>1. Len(d) + i \in 1..(Len(d) + Len(q)) /\ ~(Len(d) + i <= Len(d)) /\ Len(d) + i - Len(d) = i
      BY <1>1
    <3> QED BY <1>1, <2>2, <3>1
  <2>3. ASSUME NEW i \in 1..(Len(d) + Len(q)), (d \o q)[i] = y
        PROVE  (\E j \in 1..Len(d) : d[j] = y) \/ (\E j \in 1..Len(q) : q[j] = y)
    <3>1. CASE i <= Len(d)
      BY <1>1, <2>3, <3>1
    <3>2. CASE i > Len(d)
      <4>1. i - Len(d) \in 1..Len(q) /\ ~(i <= Len(d))
        BY <1>1, <3>2
      <4> QED BY <1>1, <2>3, <4>1
    <3> QED BY <1>1, <3>1, <3>2
  <2> QED BY <2>1, <2>2, <2>3
<1>3. ASSUME NEW y
      PROVE  y \in ToSet(d \o q) <=> y \in ToSet(d) \/ y \in ToSet(q)
  <2>1. y \in ToSet(d \o q) <=> \E i \in 1..(Len(d) + Len(q)) : (d \o q)[i] = y
    BY <1>1, Members
  <2>2. /\ y \in ToSet(d) <=> \E i \in 1..Len(d) : d[i] = y
        /\ y \in ToSet(q) <=> \E i \in 1..Len(q) : q[i] = y
    BY Members
  <2> QED BY <1>2, <2>1, <2>2
<1> QED BY <1>3

\* Removing one message from the queue leaves every other in the rest.
LEMMA RemovedMembers ==
  ASSUME NEW S, NEW d \in Seq(S), NEW q \in Seq(S), NEW i \in 1..Len(q)
  PROVE  ToSet(d \o q) \subseteq ToSet(d \o RemoveAt(q, i)) \union {q[i]}
<1> DEFINE l == d \o RemoveAt(q, i)
           s == d \o q
           k == Len(d) + i
<1>1. Skips(l, s, k) /\ s[k] = q[i] /\ RemoveAt(q, i) \in Seq(S)
  BY RemovedFromRest
<1>2. l \in Seq(S) /\ s \in Seq(S) /\ Len(l) \in Nat /\ Len(s) \in Nat /\ k \in Int
  BY <1>1, ConcatProperties, LenProperties
<1> HIDE DEF l, s, k
<1>3. ASSUME NEW n \in 1..Len(s), n # k
      PROVE  \E j \in 1..Len(l) : l[j] = s[n]
  <2>1. CASE n < k
    <3>1. n \in 1..Len(l) /\ l[n] = s[n]
      BY <1>1, <1>2, <2>1 DEF Skips
    <3> QED BY <3>1
  <2>2. CASE n > k
    <3>1. n - 1 \in 1..Len(l) /\ l[n - 1] = s[n - 1 + 1] /\ n - 1 + 1 = n
      BY <1>1, <1>2, <2>2 DEF Skips
    <3> QED BY <3>1
  <2> QED BY <1>2, <1>3, <2>1, <2>2
<1>4. ASSUME NEW y \in ToSet(s), y # q[i]
      PROVE  y \in ToSet(l)
  <2>1. PICK n \in 1..Len(s) : s[n] = y
    BY <1>2, Members
  <2>2. n # k
    BY <1>1, <1>4, <2>1
  <2>3. PICK j \in 1..Len(l) : l[j] = y
    BY <1>3, <2>1, <2>2
  <2> QED BY <1>2, <2>3, Members
<1> QED BY <1>4 DEF l, s

\* One step loses nothing but what the waiter holds, and that only as it gives up or is
\* handed another message.
LEMMA NextLoses ==
  ASSUME Held, [Next]_vars
  PROVE  \A m \in Lost' \ Lost : m \in slot /\ (pc = "giving up" \/ slot' # {})
<1>0. /\ received \in Seq(Messages) /\ incoming \in Seq(Messages) /\ dispatched \in Seq(Messages)
      /\ Awaited \subseteq Messages
      /\ Rest = dispatched \o incoming /\ Rest' = dispatched' \o incoming'
  BY DEF Held, TypeOK, Rest, Messages
<1> DEFINE Kept == /\ ToSet(received') = ToSet(received)
                   /\ ToSet(Rest) \union returned \union slot
                        \subseteq ToSet(Rest') \union returned' \union slot'
<1>1. ASSUME Kept
      PROVE  Lost' \ Lost = {}
  BY <1>0, <1>1 DEF Lost
<1>2. CASE DispatchOneMessage
  <2>1. incoming # <<>> /\ incoming' = Tail(incoming)
        /\ dispatched' = Append(dispatched, Head(incoming))
        /\ UNCHANGED <<received, returned, slot>>
    BY <1>2 DEF DispatchOneMessage
  <2>2. Head(incoming) \in Messages /\ Tail(incoming) \in Seq(Messages)
        /\ <<Head(incoming)>> \in Seq(Messages)
    BY <1>0, <2>1, HeadTailProperties
  <2>3. Append(dispatched, Head(incoming)) = dispatched \o <<Head(incoming)>>
    BY <1>0, <2>2, AppendIsConcat
  <2>4. incoming = <<Head(incoming)>> \o Tail(incoming)
    BY <1>0, <2>1, <2>2
  <2>5. (dispatched \o <<Head(incoming)>>) \o Tail(incoming)
          = dispatched \o (<<Head(incoming)>> \o Tail(incoming))
    BY <1>0, <2>2, ConcatAssociative
  <2>6. Rest' = Rest
    BY <1>0, <2>1, <2>3, <2>4, <2>5
  <2> QED BY <1>1, <2>1, <2>6
<1>3. CASE ScanIncoming
  <2>1. CASE Matches # {}
    <3>1. PICK i \in Matches : /\ incoming' = RemoveAt(incoming, i)
                               /\ returned' = returned \union {incoming[i]}
      BY <1>3, <2>1 DEF ScanIncoming
    <3>2. i \in 1..Len(incoming) /\ UNCHANGED <<received, dispatched, slot>>
      BY <1>0, <1>3, <3>1, LenProperties DEF Matches, ScanIncoming
    <3>3. ToSet(Rest) \subseteq ToSet(Rest') \union {incoming[i]}
      BY <1>0, <3>1, <3>2, RemovedMembers
    <3> QED BY <1>1, <3>1, <3>2, <3>3
  <2>2. CASE Matches = {}
    <3>1. UNCHANGED <<received, dispatched, incoming, returned, slot>>
      BY <1>3, <2>2 DEF ScanIncoming
    <3> QED BY <1>0, <1>1, <3>1
  <2> QED BY <2>1, <2>2
<1>4. CASE Register
  <2>1. slot = {} /\ UNCHANGED <<received, dispatched, incoming, returned>>
    BY <1>4 DEF Register, Held
  <2> QED BY <1>0, <1>1, <2>1
<1>5. CASE TakeMessage
  <2>1. returned' = returned \union slot /\ UNCHANGED <<received, dispatched, incoming>>
    BY <1>5 DEF TakeMessage
  <2> QED BY <1>0, <1>1, <2>1
<1>6. CASE FallAsleep \/ WaitReturns(FALSE) \/ WaitReturns(TRUE) \/ ConnectionDidClose \/ UNCHANGED vars
  <2>1. UNCHANGED <<received, dispatched, incoming, returned, slot>>
    BY <1>6 DEF FallAsleep, WaitReturns, ConnectionDidClose, vars
  <2> QED BY <1>0, <1>1, <2>1
<1>7. CASE GiveUp
  <2>1. pc = "giving up" /\ UNCHANGED <<received, dispatched, incoming, returned>>
    BY <1>7 DEF GiveUp
  <2> QED BY <2>1 DEF Lost
<1>8. ASSUME NEW m \in Messages, ProcessIncomingMessage(m)
      PROVE  \A x \in Lost' \ Lost : x \in slot /\ slot' # {}
  <2>1. ToSet(received') = ToSet(received) \union {m} /\ UNCHANGED <<dispatched, returned>>
    BY <1>0, <1>8, AppendedMembers DEF ProcessIncomingMessage
  <2>2. CASE registered /\ m \in Awaited
    <3>1. slot' = {m} /\ UNCHANGED incoming
      BY <1>8, <2>2 DEF ProcessIncomingMessage
    <3> QED BY <2>1, <3>1 DEF Lost
  <2>3. CASE ~(registered /\ m \in Awaited)
    <3>1. incoming' = Append(incoming, m) /\ UNCHANGED slot
      BY <1>8, <2>3 DEF ProcessIncomingMessage
    <3>2. incoming' \in Seq(Messages) /\ ToSet(incoming') = ToSet(incoming) \union {m}
      BY <1>0, <3>1, AppendProperties, AppendedMembers
    <3>3. ToSet(Rest') = ToSet(Rest) \union {m}
      BY <1>0, <2>1, <3>2, RestMembers
    <3> QED BY <1>0, <2>1, <3>1, <3>3 DEF Lost
  <2> QED BY <2>2, <2>3
<1> QED
  BY <1>2, <1>3, <1>4, <1>5, <1>6, <1>7, <1>8 DEF Next, ClientThread

\* Waiting loses a received message in two ways only: the waiter gives up with it, or a
\* second matching message takes its place.
THEOREM OnlyTheWaiterLoses == Spec => LostOnlyWhenHandedOver
<1>1. Held /\ [Next]_vars => [\A m \in Lost' \ Lost : m \in slot /\ (pc = "giving up" \/ slot' # {})]_vars
  BY NextLoses
<1> QED BY <1>1, InitHeld, NextHeld, PTL DEF Spec, LostOnlyWhenHandedOver

-----------------------------------------------------------------------------
(* WorkQueueWin.                                                           *)

\* A function that does not dispatch to the queue it runs on.
Quiet(f) == \A g \in Functions : <<f, g>> \notin Dispatches

-----------------------------------------------------------------------------
(* The front of the heap.                                                  *)

LEMMA Least ==
  ASSUME NEW T, T \subseteq Nat, T # {}
  PROVE  \E x \in T : \A y \in T : x <= y
<1> DEFINE R == OpToRel(<, Nat)
<1>1. \A x, y \in Nat : <<y, x>> \in R <=> y < x
  BY DEF OpToRel
<1>2. IsWellFoundedOn(R, Nat)
  BY NatLessThanWellFounded, Zenon
<1> HIDE DEF R
<1>3. \E x \in T : \A y \in T : ~ (<<y, x>> \in R)
  BY <1>2, WFMin, Zenon
<1>4. PICK x \in T : \A y \in T : ~ (<<y, x>> \in R)
  BY <1>3
<1>5. ASSUME NEW y \in T PROVE x <= y
  <2>1. ~ (y < x)
    BY <1>1, <1>4
  <2>2. x \in Nat /\ y \in Nat
    OBVIOUS
  <2> QED BY <2>1, <2>2
<1> QED BY <1>5

\* A heap that is not empty has a front.
LEMMA LatestExists ==
  ASSUME queue \subseteq Items, queue # {}
  PROVE  Latest # {}
<1>0. MaxTime \in Nat
  BY WorkQueueAssumption
<1>1. \A i \in queue : i.due \in 0..MaxTime /\ MaxTime - i.due \in Nat
  BY <1>0 DEF Items, Time
<1> DEFINE T == {MaxTime - i.due : i \in queue}
<1>2. T \subseteq Nat /\ T # {}
  BY <1>1
<1>3. PICK x \in T : \A y \in T : x <= y
  BY <1>2, Least
<1>4. PICK i \in queue : x = MaxTime - i.due
  BY <1>3
<1>5. ASSUME NEW j \in queue PROVE j.due <= i.due
  <2>1. MaxTime - i.due <= MaxTime - j.due
    BY <1>3, <1>4
  <2> QED BY <1>0, <1>1, <2>1
<1> QED BY <1>4, <1>5 DEF Latest

-----------------------------------------------------------------------------
(* Types and the worker.                                                   *)

\* The flag and the worker thread go together, and so do the thread and the function it
\* runs; while the clock only goes forward, what is queued is due.
Working ==
  /\ WorkQueueTypeOK
  /\ prevent <=> worker # "none"
  /\ (worker = "running" /\ \E f \in Functions : current = {f})
     \/ (worker # "running" /\ current = None)
  /\ ~setBack => \A i \in queue : i.due <= clock
  /\ queue # {} /\ ~setBack => prevent

LEMMA InitWorking == WorkQueueInit => Working
<1>1. 0 \in Time
  BY WorkQueueAssumption DEF Time
<1>2. WorkQueueInit => WorkQueueTypeOK
  <2>1. WorkQueueInit => runs \in [Functions -> Nat]
    BY DEF WorkQueueInit
  <2>2. WorkQueueInit => current \in {None} \union {{f} : f \in Functions}
    BY DEF WorkQueueInit
  <2> QED BY <1>1, <2>1, <2>2 DEF WorkQueueInit, WorkQueueTypeOK
<1>3. WorkQueueInit => \/ worker = "running" /\ \E f \in Functions : current = {f}
                       \/ worker # "running" /\ current = None
  BY DEF WorkQueueInit
<1> QED BY <1>2, <1>3 DEF WorkQueueInit, Working

LEMMA DispatchWorking ==
  ASSUME Working, NEW f \in Functions, Dispatch(f), UNCHANGED <<clock, current, setBack>>,
         called' \subseteq Functions, sleeping' \subseteq sleeping, runs' = runs
  PROVE  Working'
<1>1. [due |-> clock, fn |-> f] \in Items
  BY DEF Working, WorkQueueTypeOK, Items
<1>2. worker' = IF prevent THEN worker ELSE "launched"
  BY DEF Dispatch
<1>3. worker' = worker \/ (worker = "none" /\ worker' = "launched")
  BY <1>2 DEF Working
<1>4. queue' \subseteq Items /\ worker' # "none" /\ prevent'
  BY <1>1, <1>2 DEF Working, WorkQueueTypeOK, Dispatch
<1>5. WorkQueueTypeOK'
  BY <1>3, <1>4 DEF Working, WorkQueueTypeOK, Dispatch
<1>6. ~setBack => \A i \in queue' : i.due <= clock
  <2>1. clock \in Nat
    BY WorkQueueAssumption DEF Working, WorkQueueTypeOK, Time
  <2> QED BY <2>1 DEF Dispatch, Working
<1> QED BY <1>3, <1>4, <1>5, <1>6 DEF Working

LEMMA NextWorking == Working /\ [WorkQueueNext]_workQueueVars => Working'
<1> SUFFICES ASSUME Working, [WorkQueueNext]_workQueueVars PROVE Working'
  OBVIOUS
<1>1. ASSUME NEW f \in Functions, Call(f) PROVE Working'
  BY <1>1, DispatchWorking DEF Call, Working, WorkQueueTypeOK
<1>2. ASSUME NEW f \in Functions, CallFromFunction(f) PROVE Working'
  BY <1>2, DispatchWorking DEF CallFromFunction, Working, WorkQueueTypeOK
<1>3. ASSUME NEW f \in Functions, NEW until \in Time, DispatchAfter(f, until) PROVE Working'
  <2>1. [due |-> until, fn |-> f] \in Items
    BY DEF Items
  <2> QED BY <1>3, <2>1 DEF DispatchAfter, Working, WorkQueueTypeOK
<1>4. CASE SleepEnds
  <2>1. PICK s \in sleeping : sleeping' = sleeping \ {s} /\ Dispatch(s.fn)
    BY <1>4 DEF SleepEnds
  <2>2. s.fn \in Functions
    BY DEF Working, WorkQueueTypeOK, Items
  <2> QED BY <1>4, <2>1, <2>2, DispatchWorking DEF SleepEnds, Working, WorkQueueTypeOK
<1>5. CASE Start
  BY <1>5 DEF Start, Working, WorkQueueTypeOK
<1>6. CASE RunFront
  <2>1. PICK i \in Due : current' = {i.fn} /\ runs' = [runs EXCEPT ![i.fn] = @ + 1]
    BY <1>6 DEF RunFront
  <2>2. i.fn \in Functions
    BY DEF Due, Latest, Working, WorkQueueTypeOK, Items
  <2>3. runs' \in [Functions -> Nat]
    BY <2>1, <2>2 DEF Working, WorkQueueTypeOK
  <2>4. /\ worker = "locked" /\ worker' = "running"
        /\ UNCHANGED <<clock, queue, prevent, sleeping, called, setBack>>
    BY <1>6 DEF RunFront
  <2> QED BY <2>1, <2>2, <2>3, <2>4 DEF Working, WorkQueueTypeOK
<1>7. CASE FunctionReturns
  <2>1. queue' \subseteq queue
    BY <1>7 DEF FunctionReturns, PopFront
  <2> QED BY <1>7, <2>1 DEF FunctionReturns, Working, WorkQueueTypeOK
<1>8. CASE End
  <2>1. ~setBack => queue = {}
    <3> SUFFICES ASSUME ~setBack, queue # {} PROVE FALSE
      OBVIOUS
    <3>1. PICK i \in Latest : TRUE
      BY LatestExists DEF Working, WorkQueueTypeOK
    <3> QED BY <1>8, <3>1 DEF End, Due, Latest, Working
  <2> QED BY <1>8, <2>1 DEF End, Working, WorkQueueTypeOK
<1>9. CASE SetClock
  <2>1. /\ clock' \in Time /\ setBack' = (setBack \/ clock' < clock)
        /\ UNCHANGED <<queue, prevent, worker, current, sleeping, called, runs>>
    BY <1>9 DEF SetClock
  <2>2. WorkQueueTypeOK'
    BY <2>1 DEF Working, WorkQueueTypeOK
  <2>3. ASSUME ~setBack', NEW i \in queue PROVE i.due <= clock'
    <3>1. clock \in Nat /\ clock' \in Nat /\ i.due \in Nat
      BY <2>1, WorkQueueAssumption DEF Working, WorkQueueTypeOK, Time, Items
    <3>2. i.due <= clock /\ ~(clock' < clock)
      BY <2>1, <2>3 DEF Working
    <3> QED BY <3>1, <3>2
  <2> QED BY <2>1, <2>2, <2>3 DEF Working
<1>10. CASE UNCHANGED workQueueVars
  BY <1>10 DEF workQueueVars, Working, WorkQueueTypeOK
<1> QED BY <1>1, <1>2, <1>3, <1>4, <1>5, <1>6, <1>7, <1>8, <1>9, <1>10 DEF WorkQueueNext, Worker

\* Type correctness of the work queue: at most one function runs.
THEOREM WorkQueueTypes == WorkQueueSpec => []WorkQueueTypeOK
<1>1. Working => WorkQueueTypeOK
  BY DEF Working
<1> QED BY <1>1, InitWorking, NextWorking, PTL DEF WorkQueueSpec

\* A queue that is not empty has a worker, or one is about to start, as long as the clock
\* is not set back.
THEOREM NothingIsStranded == WorkQueueSpec => []NothingStranded
<1>1. Working => NothingStranded
  BY DEF Working, NothingStranded
<1> QED BY <1>1, InitWorking, NextWorking, PTL DEF WorkQueueSpec

-----------------------------------------------------------------------------
(* No function runs twice.                                                 *)

\* Each call puts one item in one place, and only from there does a function run.
Once ==
  /\ \A i, j \in queue \union sleeping : i.fn = j.fn => i = j
  /\ queue \intersect sleeping = {}
  /\ \A i \in queue \union sleeping : i.fn \in called
  /\ \A f \in Functions \ called : runs[f] = 0
  /\ \A i \in sleeping : runs[i.fn] = 0
  /\ \A i \in queue : Quiet(i.fn) /\ current # {i.fn} => runs[i.fn] = 0
  /\ \A f \in Functions : Quiet(f) => runs[f] <= 1
  /\ \A f \in Functions : Quiet(f) /\ current = {f} => \E i \in Latest : i.fn = f

LEMMA InitOnce == WorkQueueInit => Once
  BY DEF WorkQueueInit, Once, None

\* An item that is added for a function not called, or taken from a sleeper.
LEMMA DispatchOnce ==
  ASSUME Working, Once, NEW f \in Functions, Dispatch(f), UNCHANGED <<current, runs>>,
         \A g \in Functions : Quiet(g) => current # {g},
         \/ f \notin called /\ called' = called \union {f} /\ sleeping' = sleeping
         \/ /\ called' = called
            /\ \E s \in sleeping : s.fn = f /\ sleeping' = sleeping \ {s}
  PROVE  Once'
<1> DEFINE item == [due |-> clock, fn |-> f]
<1>1. queue' = queue \union {item} /\ item.fn = f
  BY DEF Dispatch
<1> HIDE DEF item
<1>2. runs[f] = 0
  BY DEF Once
<1>3. \A i \in queue \union sleeping : i.fn \in Functions
  BY DEF Working, WorkQueueTypeOK, Items
<1>4. CASE f \notin called /\ called' = called \union {f} /\ sleeping' = sleeping
  <2>1. \A i \in queue \union sleeping : i.fn # f
    BY <1>4 DEF Once
  <2> QED BY <1>1, <1>2, <1>3, <1>4, <2>1 DEF Once
<1>5. CASE called' = called /\ \E s \in sleeping : s.fn = f /\ sleeping' = sleeping \ {s}
  <2>1. PICK s \in sleeping : s.fn = f /\ sleeping' = sleeping \ {s}
    BY <1>5
  <2>2. \A i \in queue \union sleeping' : i.fn # f
    BY <2>1 DEF Once
  <2>3. f \in called
    BY <2>1 DEF Once
  <2> QED BY <1>1, <1>2, <1>3, <1>5, <2>1, <2>2, <2>3 DEF Once
<1> QED BY <1>4, <1>5

LEMMA NextOnce == Once /\ Working /\ [WorkQueueNext]_workQueueVars => Once'
<1> SUFFICES ASSUME Once, Working, [WorkQueueNext]_workQueueVars PROVE Once'
  OBVIOUS
<1>0. /\ \A i \in queue \union sleeping : i.fn \in Functions
      /\ runs \in [Functions -> Nat]
  BY DEF Working, WorkQueueTypeOK, Items
<1>1. ASSUME worker # "running", NEW g \in Functions PROVE current # {g}
  BY <1>1 DEF Working, None
<1>2. ASSUME NEW f \in Functions, Call(f) PROVE Once'
  <2>1. \A g \in Functions : current # {g}
    BY <1>1, <1>2 DEF Call, Unlocked
  <2> QED BY <1>2, <2>1, DispatchOnce DEF Call
<1>3. ASSUME NEW f \in Functions, CallFromFunction(f) PROVE Once'
  <2>1. ASSUME NEW g \in Functions, Quiet(g) PROVE current # {g}
    BY <1>3, <2>1 DEF CallFromFunction, Quiet
  <2> QED BY <1>3, <2>1, DispatchOnce DEF CallFromFunction
<1>4. ASSUME NEW f \in Functions, NEW until \in Time, DispatchAfter(f, until) PROVE Once'
  <2> DEFINE item == [due |-> until, fn |-> f]
  <2>1. /\ f \notin called /\ called' = called \union {f}
        /\ sleeping' = sleeping \union {item} /\ item.fn = f
        /\ UNCHANGED <<queue, current, runs>>
    BY <1>4 DEF DispatchAfter
  <2> HIDE DEF item
  <2>2. \A i \in queue \union sleeping : i.fn # f
    BY <2>1 DEF Once
  <2>3. runs[f] = 0
    BY <2>1 DEF Once
  <2>4. Latest' = Latest
    BY <2>1 DEF Latest
  <2> QED BY <2>1, <2>2, <2>3, <2>4 DEF Once
<1>5. CASE SleepEnds
  <2>1. PICK s \in sleeping : sleeping' = sleeping \ {s} /\ Dispatch(s.fn)
    BY <1>5 DEF SleepEnds
  <2>2. s.fn \in Functions /\ \A g \in Functions : current # {g}
    BY <1>0, <1>1, <1>5 DEF SleepEnds, Unlocked
  <2>3. UNCHANGED <<current, called, runs>>
    BY <1>5 DEF SleepEnds
  <2> QED BY <2>1, <2>2, <2>3, DispatchOnce
<1>6. CASE RunFront
  <2>1. PICK i \in Due : current' = {i.fn} /\ runs' = [runs EXCEPT ![i.fn] = @ + 1]
    BY <1>6 DEF RunFront
  <2>2. i \in queue /\ i \in Latest /\ i.fn \in Functions
    BY <1>0, <2>1 DEF Due, Latest
  <2>3. worker = "locked" /\ UNCHANGED <<queue, sleeping, called>>
    BY <1>6 DEF RunFront
  <2>4. Quiet(i.fn) => runs[i.fn] = 0
    BY <1>1, <2>2, <2>3 DEF Once
  <2>5. \A f \in Functions : f # i.fn => runs'[f] = runs[f] /\ current # {f}
    BY <1>0, <1>1, <2>1, <2>3
  <2>6. runs'[i.fn] = runs[i.fn] + 1
    BY <1>0, <2>1, <2>2
  <2>7. Latest' = Latest
    BY <2>3 DEF Latest
  <2>8. \A j \in sleeping : j.fn # i.fn
    BY <2>2 DEF Once
  <2>9. i.fn \in called
    BY <2>2 DEF Once
  <2>10. \A j \in queue : Quiet(j.fn) /\ current' # {j.fn} => runs'[j.fn] = 0
    BY <1>0, <2>1, <2>5 DEF Once
  <2>11. \A f \in Functions : Quiet(f) => runs'[f] <= 1
    BY <2>4, <2>5, <2>6 DEF Once
  <2>12. \A f \in Functions : Quiet(f) /\ current' = {f} => \E j \in Latest' : j.fn = f
    BY <2>1, <2>2, <2>7
  <2>13. /\ \A f \in Functions \ called : runs'[f] = 0
         /\ \A j \in sleeping : runs'[j.fn] = 0
    BY <1>0, <2>5, <2>8, <2>9 DEF Once
  <2> QED BY <2>3, <2>10, <2>11, <2>12, <2>13 DEF Once
<1>7. CASE FunctionReturns
  <2>1. /\ worker = "running" /\ queue' \in PopFront /\ current' = None
        /\ UNCHANGED <<sleeping, called, runs>>
    BY <1>7 DEF FunctionReturns
  <2>2. PICK f \in Functions : current = {f}
    BY <2>1 DEF Working
  <2>3. queue' \subseteq queue
    BY <2>1 DEF PopFront
  <2>4. ASSUME Quiet(f), NEW j \in queue', j.fn = f PROVE FALSE
    <3>1. PICK i \in Latest : i.fn = f
      BY <2>2, <2>4 DEF Once
    <3>2. \A k \in {l \in Latest : {l.fn} = current} : k = j
      BY <2>2, <2>3, <2>4 DEF Latest, Once
    <3>3. {l \in Latest : {l.fn} = current} # {}
      BY <2>2, <3>1
    <3>4. queue' = queue \ {j}
      BY <2>1, <3>2, <3>3 DEF PopFront
    <3> QED BY <2>4, <3>4
  <2>5. \A j \in queue' : Quiet(j.fn) => runs[j.fn] = 0
    BY <2>2, <2>3, <2>4 DEF Once
  <2>6. \A g \in Functions : current' # {g}
    BY <2>1 DEF None
  <2> QED BY <2>1, <2>3, <2>5, <2>6 DEF Once
<1>8. CASE UNCHANGED <<queue, sleeping, current, runs, called>>
  <2>1. Latest' = Latest
    BY <1>8 DEF Latest
  <2> QED BY <1>8, <2>1 DEF Once
<1>9. CASE Start \/ End \/ SetClock \/ UNCHANGED workQueueVars
  BY <1>8, <1>9 DEF Start, End, SetClock, workQueueVars
<1> QED BY <1>2, <1>3, <1>4, <1>5, <1>6, <1>7, <1>9 DEF WorkQueueNext, Worker

LEMMA OnceRuns == Once /\ Working => RunsOnce
<1> SUFFICES ASSUME Once, Working, NEW f \in Functions, Quiet(f)
             PROVE  runs[f] + (IF \E i \in queue : i.fn = f /\ current # {f} THEN 1 ELSE 0) <= 1
  BY DEF RunsOnce, Quiet
<1>1. runs[f] \in Nat /\ runs[f] <= 1
  BY DEF Once, Working, WorkQueueTypeOK
<1>2. ASSUME NEW i \in queue, i.fn = f, current # {f} PROVE runs[f] = 0
  BY <1>2 DEF Once
<1> QED BY <1>1, <1>2

\* A function that does not dispatch to its own queue runs at most once, and not again
\* from an item that is still queued.
THEOREM RunsAtMostOnce == WorkQueueSpec => []RunsOnce
  BY InitWorking, NextWorking, InitOnce, NextOnce, OnceRuns, PTL DEF WorkQueueSpec

=============================================================================
