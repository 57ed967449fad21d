------------------------- MODULE SyncMessageStateProofs -------------------------
(***************************************************************************)
(* The queue shared by the connections of a run loop, for any number of    *)
(* connections and messages and any depth of waits and nested run loops.   *)
(***************************************************************************)
EXTENDS SyncMessageState, SequenceTheorems, TLAPS

Inside(f) == ToSet(f.todo) \union ToSet(f.back)

Distinct(r) == \A i, j \in 1..Len(r) : r[i] = r[j] => i = j

-----------------------------------------------------------------------------
(* Sequences.                                                              *)

LEMMA Members ==
  ASSUME NEW S, NEW s \in Seq(S), NEW x
  PROVE  x \in ToSet(s) <=> \E i \in 1..Len(s) : s[i] = x
  BY LenProperties DEF ToSet

LEMMA NoMembers == ToSet(<<>>) = {} /\ Distinct(<<>>)
  BY EmptySeq DEF ToSet, Distinct

LEMMA AppendedMembers ==
  ASSUME NEW S, NEW s \in Seq(S), NEW m \in S
  PROVE  /\ ToSet(Append(s, m)) = ToSet(s) \union {m}
         /\ Distinct(s) /\ m \notin ToSet(s) => Distinct(Append(s, m))
<1> DEFINE u == Append(s, m)
<1>1. /\ u \in Seq(S) /\ Len(u) = Len(s) + 1 /\ Len(s) \in Nat
      /\ \A i \in 1..Len(s) : u[i] = s[i]
      /\ u[Len(s) + 1] = m
  BY AppendProperties
<1> HIDE DEF u
<1>2. \A x : x \in ToSet(u) <=> \E i \in 1..Len(u) : u[i] = x
  BY <1>1, Members
<1>3. \A x : x \in ToSet(s) <=> \E i \in 1..Len(s) : s[i] = x
  BY Members
<1>4. ToSet(u) = ToSet(s) \union {m}
  BY <1>1, <1>2, <1>3
<1>5. Distinct(s) /\ m \notin ToSet(s) => Distinct(u)
  BY <1>1, <1>3 DEF Distinct
<1> QED BY <1>4, <1>5 DEF u

LEMMA TailMembers ==
  ASSUME NEW S, NEW s \in Seq(S), s # <<>>
  PROVE  /\ Head(s) \in S /\ Tail(s) \in Seq(S)
         /\ ToSet(s) = {Head(s)} \union ToSet(Tail(s))
         /\ Distinct(s) => Distinct(Tail(s)) /\ Head(s) \notin ToSet(Tail(s))
<1> DEFINE u == Tail(s)
<1>1. /\ u \in Seq(S) /\ Len(u) = Len(s) - 1 /\ Len(s) \in Nat /\ Len(s) >= 1
      /\ \A i \in 1..Len(u) : u[i] = s[i + 1]
      /\ Head(s) = s[1] /\ Head(s) \in S
  BY HeadTailProperties, LenProperties, EmptySeq
<1> HIDE DEF u
<1>2. \A x : x \in ToSet(u) <=> \E i \in 1..Len(u) : u[i] = x
  BY <1>1, Members
<1>3. \A x : x \in ToSet(s) <=> \E i \in 1..Len(s) : s[i] = x
  BY Members
<1>4. ToSet(u) \subseteq ToSet(s) /\ Head(s) \in ToSet(s)
  BY <1>1, <1>2, <1>3
<1>5. ASSUME NEW x \in ToSet(s), x # Head(s) PROVE x \in ToSet(u)
  <2>1. PICK i \in 1..Len(s) : s[i] = x
    BY <1>3
  <2>2. i - 1 \in 1..Len(u) /\ u[i - 1] = x
    BY <1>1, <1>5, <2>1
  <2> QED BY <1>2, <2>2
<1>6. ASSUME Distinct(s) PROVE Distinct(u) /\ Head(s) \notin ToSet(u)
  <2>1. \A i \in 1..Len(u) : i + 1 \in 1..Len(s) /\ i + 1 # 1 /\ 1 \in 1..Len(s)
    BY <1>1
  <2>2. \A i, j \in 1..Len(u) : u[i] = u[j] => i = j
    <3> SUFFICES ASSUME NEW i \in 1..Len(u), NEW j \in 1..Len(u), u[i] = u[j]
                 PROVE  i = j
      OBVIOUS
    <3>1. i + 1 = j + 1
      BY <1>1, <1>6, <2>1 DEF Distinct
    <3> QED BY <3>1
  <2>3. \A i \in 1..Len(u) : u[i] # s[1]
    BY <1>1, <1>6, <2>1 DEF Distinct
  <2> QED BY <1>1, <1>2, <2>2, <2>3 DEF Distinct
<1> QED BY <1>1, <1>4, <1>5, <1>6 DEF u

LEMMA JoinedMembers ==
  ASSUME NEW S, NEW s \in Seq(S), NEW t \in Seq(S)
  PROVE  /\ s \o t \in Seq(S)
         /\ ToSet(s \o t) = ToSet(s) \union ToSet(t)
         /\ Distinct(s) /\ Distinct(t) /\ ToSet(s) \intersect ToSet(t) = {} => Distinct(s \o t)
<1> DEFINE u == s \o t
<1>1. /\ u \in Seq(S) /\ Len(u) = Len(s) + Len(t)
      /\ \A i \in 1..(Len(s) + Len(t)) : u[i] = IF i <= Len(s) THEN s[i] ELSE t[i - Len(s)]
  BY ConcatProperties
<1>2. Len(s) \in Nat /\ Len(t) \in Nat
  BY LenProperties
<1> HIDE DEF u
<1>3. \A i \in 1..Len(s) : i \in 1..Len(u) /\ u[i] = s[i]
  BY <1>1, <1>2
<1>4. \A i \in 1..Len(t) : Len(s) + i \in 1..Len(u) /\ u[Len(s) + i] = t[i]
  <2> SUFFICES ASSUME NEW i \in 1..Len(t)
               PROVE  Len(s) + i \in 1..Len(u) /\ u[Len(s) + i] = t[i]
    OBVIOUS
  <2>1. /\ Len(s) + i \in 1..(Len(s) + Len(t)) /\ ~(Len(s) + i <= Len(s))
        /\ Len(s) + i - Len(s) = i
    BY <1>2
  <2> QED BY <1>1, <2>1
<1>5. \A i \in 1..Len(u) : i \in 1..Len(s) \/ \E j \in 1..Len(t) : i = Len(s) + j
  <2> SUFFICES ASSUME NEW i \in 1..Len(u), i \notin 1..Len(s)
               PROVE  \E j \in 1..Len(t) : i = Len(s) + j
    OBVIOUS
  <2>1. i - Len(s) \in 1..Len(t) /\ i = Len(s) + (i - Len(s))
    BY <1>1, <1>2
  <2> QED BY <2>1
<1>6. \A x : x \in ToSet(u) <=> \E i \in 1..Len(u) : u[i] = x
  BY <1>1, Members
<1>7. /\ \A x : x \in ToSet(s) <=> \E i \in 1..Len(s) : s[i] = x
      /\ \A x : x \in ToSet(t) <=> \E i \in 1..Len(t) : t[i] = x
  BY Members
<1>8. ToSet(u) = ToSet(s) \union ToSet(t)
  <2>1. ToSet(s) \subseteq ToSet(u)
    BY <1>3, <1>6, <1>7
  <2>2. ToSet(t) \subseteq ToSet(u)
    BY <1>4, <1>6, <1>7
  <2>3. ASSUME NEW x \in ToSet(u) PROVE x \in ToSet(s) \union ToSet(t)
    <3>1. PICK i \in 1..Len(u) : u[i] = x
      BY <1>6
    <3>2. CASE i \in 1..Len(s)
      BY <1>3, <1>7, <3>1, <3>2
    <3>3. CASE i \notin 1..Len(s)
      <4>1. PICK j \in 1..Len(t) : i = Len(s) + j
        BY <1>5, <3>3
      <4>2. t[j] = x
        BY <1>4, <3>1, <4>1
      <4> QED BY <1>7, <4>2
    <3> QED BY <3>2, <3>3
  <2> QED BY <2>1, <2>2, <2>3
<1>9. ASSUME Distinct(s), Distinct(t), ToSet(s) \intersect ToSet(t) = {}
      PROVE  Distinct(u)
  <2> SUFFICES ASSUME NEW i \in 1..Len(u), NEW j \in 1..Len(u), u[i] = u[j]
               PROVE  i = j
    BY DEF Distinct
  <2>1. CASE i \in 1..Len(s) /\ j \in 1..Len(s)
    BY <1>3, <1>9, <2>1 DEF Distinct
  <2>2. CASE i \in 1..Len(s) /\ j \notin 1..Len(s)
    BY <1>3, <1>4, <1>5, <1>7, <1>9, <2>2
  <2>3. CASE i \notin 1..Len(s) /\ j \in 1..Len(s)
    BY <1>3, <1>4, <1>5, <1>7, <1>9, <2>3
  <2>4. CASE i \notin 1..Len(s) /\ j \notin 1..Len(s)
    <3>1. PICK k \in 1..Len(t) : i = Len(s) + k
      BY <1>5, <2>4
    <3>2. PICK l \in 1..Len(t) : j = Len(s) + l
      BY <1>5, <2>4
    <3>3. t[k] = t[l]
      BY <1>4, <3>1, <3>2
    <3> QED BY <1>9, <3>1, <3>2, <3>3 DEF Distinct
  <2> QED BY <2>1, <2>2, <2>3, <2>4
<1> QED BY <1>1, <1>8, <1>9 DEF u

-----------------------------------------------------------------------------
(* The stack.                                                              *)

LEMMA Popped ==
  ASSUME NEW s \in Seq(Frame), s # <<>>
  PROVE  /\ Front(s) \in Seq(Frame) /\ Len(Front(s)) = Len(s) - 1
         /\ \A i \in 1..(Len(s) - 1) : Front(s)[i] = s[i]
         /\ Len(s) \in Nat \ {0} /\ Last(s) = s[Len(s)] /\ Last(s) \in Frame
<1>1. Len(s) \in Nat /\ Len(s) >= 1 /\ \A i \in 1..Len(s) : s[i] \in Frame
  BY EmptySeq, ElementOfSeq
<1>2. \A i \in 1..(Len(s) - 1) : s[i] \in Frame
  BY <1>1
<1>3. /\ SubSeq(s, 1, Len(s) - 1) \in Seq(Frame)
      /\ Len(SubSeq(s, 1, Len(s) - 1)) = IF 1 <= Len(s) - 1 THEN Len(s) - 1 - 1 + 1 ELSE 0
      /\ \A i \in 1..(Len(s) - 1 - 1 + 1) : SubSeq(s, 1, Len(s) - 1)[i] = s[1 + i - 1]
  BY <1>1, <1>2, SubSeqProperties
<1>4. Len(SubSeq(s, 1, Len(s) - 1)) = Len(s) - 1
  <2>1. \A n \in Nat : n >= 1 => (IF 1 <= n - 1 THEN n - 1 - 1 + 1 ELSE 0) = n - 1
    OBVIOUS
  <2>2. (IF 1 <= Len(s) - 1 THEN Len(s) - 1 - 1 + 1 ELSE 0) = Len(s) - 1
    BY <1>1, <2>1, Zenon
  <2> QED BY <1>3, <2>2
<1>5. \A i \in 1..(Len(s) - 1) : SubSeq(s, 1, Len(s) - 1)[i] = s[i]
  <2>1. Len(s) - 1 - 1 + 1 = Len(s) - 1 /\ \A i \in 1..(Len(s) - 1) : 1 + i - 1 = i
    BY <1>1
  <2> QED BY <1>3, <2>1
<1>6. Len(s) \in Nat \ {0} /\ s[Len(s)] \in Frame
  BY <1>1
<1> QED BY <1>3, <1>4, <1>5, <1>6 DEF Front, Last

LEMMA Replaced ==
  ASSUME NEW s \in Seq(Frame), s # <<>>, NEW f \in Frame
  PROVE  /\ Append(Front(s), f) \in Seq(Frame) /\ Len(Append(Front(s), f)) = Len(s)
         /\ \A i \in 1..(Len(s) - 1) : Append(Front(s), f)[i] = s[i]
         /\ Append(Front(s), f)[Len(s)] = f
<1>1. /\ Front(s) \in Seq(Frame) /\ Len(Front(s)) = Len(s) - 1
      /\ \A i \in 1..(Len(s) - 1) : Front(s)[i] = s[i] /\ Len(s) \in Nat
  BY Popped
<1>2. Len(s) \in Nat
  BY LenProperties
<1> DEFINE r == Front(s)
<1> HIDE DEF r
<1>3. /\ Append(r, f) \in Seq(Frame) /\ Len(Append(r, f)) = Len(r) + 1
      /\ \A i \in 1..Len(r) : Append(r, f)[i] = r[i]
      /\ Append(r, f)[Len(r) + 1] = f
  BY <1>1, AppendProperties DEF r
<1>4. Len(r) = Len(s) - 1 /\ Len(r) + 1 = Len(s) /\ \A i \in 1..(Len(s) - 1) : r[i] = s[i]
  BY <1>1, <1>2 DEF r
<1>5. /\ Append(r, f) \in Seq(Frame) /\ Len(Append(r, f)) = Len(s)
      /\ \A i \in 1..(Len(s) - 1) : Append(r, f)[i] = s[i]
      /\ Append(r, f)[Len(s)] = f
  BY <1>3, <1>4
<1> QED BY <1>5 DEF r

LEMMA Pushed ==
  ASSUME NEW s \in Seq(Frame), NEW f \in Frame
  PROVE  /\ Append(s, f) \in Seq(Frame) /\ Len(Append(s, f)) = Len(s) + 1
         /\ \A i \in 1..Len(s) : Append(s, f)[i] = s[i]
         /\ Append(s, f)[Len(s) + 1] = f
  BY AppendProperties

LEMMA PushedTwo ==
  ASSUME NEW s \in Seq(Frame), NEW f \in Frame, NEW g \in Frame
  PROVE  /\ s \o <<f, g>> \in Seq(Frame) /\ Len(s \o <<f, g>>) = Len(s) + 2
         /\ \A i \in 1..Len(s) : (s \o <<f, g>>)[i] = s[i]
         /\ (s \o <<f, g>>)[Len(s) + 1] = f
         /\ (s \o <<f, g>>)[Len(s) + 2] = g
<1> DEFINE t == <<f, g>>
           u == s \o t
<1>1. t \in Seq(Frame) /\ Len(t) = 2 /\ t[1] = f /\ t[2] = g
  OBVIOUS
<1> HIDE DEF t
<1>2. /\ u \in Seq(Frame) /\ Len(u) = Len(s) + Len(t)
      /\ \A i \in 1..(Len(s) + Len(t)) : u[i] = IF i <= Len(s) THEN s[i] ELSE t[i - Len(s)]
  BY <1>1, ConcatProperties
<1> HIDE DEF u
<1>3. Len(s) \in Nat
  BY LenProperties
<1>4. \A i \in 1..Len(s) : u[i] = s[i]
  BY <1>1, <1>2, <1>3
<1>5. u[Len(s) + 1] = t[1]
  <2>1. /\ Len(s) + 1 \in 1..(Len(s) + Len(t)) /\ ~(Len(s) + 1 <= Len(s))
        /\ Len(s) + 1 - Len(s) = 1
    BY <1>1, <1>3
  <2> QED BY <1>2, <2>1
<1>6. u[Len(s) + 2] = t[2]
  <2>1. /\ Len(s) + 2 \in 1..(Len(s) + Len(t)) /\ ~(Len(s) + 2 <= Len(s))
        /\ Len(s) + 2 - Len(s) = 2
    BY <1>1, <1>3
  <2> QED BY <1>2, <2>1
<1>7. u \in Seq(Frame) /\ Len(u) = Len(s) + 2
  BY <1>1, <1>2
<1> QED BY <1>1, <1>4, <1>5, <1>6, <1>7 DEF t, u

LEMMA FrameFields ==
  ASSUME NEW f \in Frame
  PROVE  /\ f.todo \in Seq(Message) /\ f.back \in Seq(Message)
         /\ f.allowed \in Connections \union {All}
  BY DEF Frame

LEMMA Activations ==
  ASSUME NEW c \in Connections \union {All}, NEW t \in Seq(Message), NEW b \in Seq(Message)
  PROVE  /\ Activation("loop", c, t, b) \in Frame
         /\ Activation("swap", c, t, b) \in Frame
  BY DEF Activation, Frame

LEMMA Plains ==
  ASSUME NEW where \in {"swap", "handler", "wait", "nested"}
  PROVE  Plain(where) \in Frame /\ Inside(Plain(where)) = {}
<1>1. <<>> \in Seq(Message)
  BY EmptySeq
<1> QED BY <1>1, NoMembers DEF Plain, Activation, Frame, Inside

-----------------------------------------------------------------------------
(* Type correctness.                                                       *)

LEMMA InitTypes == Init => TypeOK
<1>1. <<>> \in Seq(Message) /\ <<>> \in Seq(Connections) /\ <<>> \in Seq(Frame)
  BY EmptySeq
<1>2. [c \in Connections |-> 0] \in [Connections -> Nat]
  OBVIOUS
<1>3. 0 \in Nat /\ FALSE \in BOOLEAN /\ {} \in SUBSET Connections
  OBVIOUS
<1> QED BY <1>1, <1>2, <1>3, Zenon DEF Init, TypeOK

LEMMA NextTypes == TypeOK /\ [Next]_vars => TypeOK'
<1> SUFFICES ASSUME TypeOK, [Next]_vars PROVE TypeOK'
  OBVIOUS
<1>0. /\ queue \in Seq(Message) /\ tasks \in Seq(Connections) /\ stack \in Seq(Frame)
      /\ <<>> \in Seq(Message)
  BY EmptySeq DEF TypeOK
<1>1. ASSUME NEW c \in Connections, ProcessIncomingMessage(c) PROVE TypeOK'
  <2>1. arrived' \in [Connections -> Nat] /\ [conn |-> c, n |-> arrived[c] + 1] \in Message
    BY <1>1 DEF ProcessIncomingMessage, TypeOK, Message
  <2>2. queue' \in Seq(Message)
    BY <1>0, <1>1, <2>1, AppendProperties DEF ProcessIncomingMessage
  <2>3. tasks' \in Seq(Connections)
    BY <1>0, <1>1, AppendProperties DEF ProcessIncomingMessage
  <2> QED BY <1>1, <2>1, <2>2, <2>3 DEF ProcessIncomingMessage, TypeOK
<1>2. CASE DispatchAndReset
  <2>1. Head(tasks) \in Connections /\ tasks' \in Seq(Connections)
    BY <1>0, <1>2, HeadTailProperties DEF DispatchAndReset
  <2>2. stack' \in Seq(Frame)
    BY <1>0, <1>2, <2>1, Activations, Pushed DEF DispatchAndReset
  <2>3. robbed' \subseteq Connections
    BY <1>2, <2>1 DEF DispatchAndReset, TypeOK
  <2> QED BY <1>2, <2>1, <2>2, <2>3 DEF DispatchAndReset, TypeOK
<1>3. ASSUME At("loop") \/ At("swap") \/ At("handler") \/ At("wait") \/ At("nested")
      PROVE  /\ stack # <<>> /\ Top \in Frame /\ Front(stack) \in Seq(Frame)
             /\ Top.todo \in Seq(Message) /\ Top.back \in Seq(Message)
             /\ Top.allowed \in Connections \union {All}
  BY <1>0, <1>3, Popped, FrameFields DEF At, Top
<1>4. CASE SwapQueue
  <2>1. stack' \in Seq(Frame)
    BY <1>0, <1>3, <1>4, Activations, Pushed DEF SwapQueue
  <2> QED BY <1>0, <1>4, <2>1 DEF SwapQueue, TypeOK
<1>5. CASE SetAside
  <2>1. /\ Head(Top.todo) \in Message /\ Tail(Top.todo) \in Seq(Message)
        /\ Append(Top.back, Head(Top.todo)) \in Seq(Message)
    BY <1>3, <1>5, HeadTailProperties, AppendProperties DEF SetAside
  <2>2. stack' \in Seq(Frame)
    BY <1>3, <1>5, <2>1, Activations, Pushed DEF SetAside
  <2> QED BY <1>5, <2>2 DEF SetAside, TypeOK
<1>6. CASE DispatchMessage
  <2>1. Head(Top.todo) \in Message /\ Tail(Top.todo) \in Seq(Message)
    BY <1>3, <1>6, HeadTailProperties DEF DispatchMessage
  <2>2. stack' \in Seq(Frame)
    BY <1>3, <1>6, <2>1, Activations, Plains, PushedTwo DEF DispatchMessage
  <2>3. last' \in [Connections -> Nat]
    BY <1>6, <2>1 DEF DispatchMessage, TypeOK, Message
  <2> QED BY <1>6, <2>2, <2>3 DEF DispatchMessage, TypeOK
<1>7. CASE PutBack
  <2>1. queue' \in Seq(Message)
    BY <1>0, <1>3, <1>7, JoinedMembers DEF PutBack
  <2> QED BY <1>3, <1>7, <2>1 DEF PutBack, TypeOK
<1>8. CASE HandlerReturns
  BY <1>3, <1>8 DEF HandlerReturns, TypeOK
<1>9. CASE BeginWait
  <2>1. stack' \in Seq(Frame)
    BY <1>0, <1>9, Plains, PushedTwo DEF BeginWait
  <2> QED BY <1>9, <2>1 DEF BeginWait, TypeOK
<1>10. CASE WakeUp
  <2>1. stack' \in Seq(Frame)
    BY <1>0, <1>10, Plains, Pushed DEF WakeUp
  <2> QED BY <1>10, <2>1 DEF WakeUp, TypeOK
<1>11. CASE EndWait
  BY <1>3, <1>11 DEF EndWait, TypeOK
<1>12. CASE EnterRunLoop
  <2>1. stack' \in Seq(Frame)
    BY <1>0, <1>12, Plains, Pushed DEF EnterRunLoop
  <2> QED BY <1>12, <2>1 DEF EnterRunLoop, TypeOK
<1>13. CASE LeaveRunLoop
  BY <1>3, <1>13 DEF LeaveRunLoop, TypeOK
<1>14. CASE UNCHANGED vars
  BY <1>14 DEF vars, TypeOK
<1> QED
  BY <1>1, <1>2, <1>4, <1>5, <1>6, <1>7, <1>8, <1>9, <1>10, <1>11, <1>12, <1>13, <1>14
  DEF Next, ClientThread

\* Type correctness; dispatchMessages is called for one connection or for all of them.
THEOREM SyncTypes == Spec => []TypeOK
  BY InitTypes, NextTypes, PTL DEF Spec

-----------------------------------------------------------------------------
(* One call a connection.                                                  *)

Scheduled ==
  /\ \A c \in Connections : c \in workSet <=> c \in ToSet(tasks)
  /\ Distinct(tasks)

LEMMA InitScheduled == Init => Scheduled
  BY NoMembers DEF Init, Scheduled

LEMMA NextScheduled == Scheduled /\ TypeOK /\ [Next]_vars => Scheduled'
<1> SUFFICES ASSUME Scheduled, TypeOK, [Next]_vars PROVE Scheduled'
  OBVIOUS
<1>0. tasks \in Seq(Connections)
  BY DEF TypeOK
<1>1. ASSUME NEW c \in Connections, ProcessIncomingMessage(c) PROVE Scheduled'
  <2>1. workSet' = workSet \union {c} /\ tasks' = IF c \in workSet THEN tasks ELSE Append(tasks, c)
    BY <1>1 DEF ProcessIncomingMessage
  <2>2. CASE c \in workSet
    BY <2>1, <2>2 DEF Scheduled
  <2>3. CASE c \notin workSet
    <3>1. ToSet(Append(tasks, c)) = ToSet(tasks) \union {c} /\ Distinct(Append(tasks, c))
      BY <1>0, <2>3, AppendedMembers DEF Scheduled
    <3> QED BY <2>1, <2>3, <3>1 DEF Scheduled
  <2> QED BY <2>2, <2>3
<1>2. CASE DispatchAndReset
  <2>1. tasks # <<>> /\ tasks' = Tail(tasks) /\ workSet' = workSet \ {Head(tasks)}
    BY <1>2 DEF DispatchAndReset
  <2>2. /\ ToSet(tasks) = {Head(tasks)} \union ToSet(Tail(tasks))
        /\ Distinct(Tail(tasks)) /\ Head(tasks) \notin ToSet(Tail(tasks))
    BY <1>0, <2>1, TailMembers DEF Scheduled
  <2> QED BY <2>1, <2>2 DEF Scheduled
<1>3. CASE UNCHANGED <<workSet, tasks>>
  BY <1>3 DEF Scheduled
<1>4. CASE \/ SwapQueue \/ SetAside \/ DispatchMessage \/ PutBack \/ HandlerReturns
           \/ BeginWait \/ WakeUp \/ EndWait \/ EnterRunLoop \/ LeaveRunLoop \/ UNCHANGED vars
  BY <1>3, <1>4 DEF SwapQueue, SetAside, DispatchMessage, PutBack, HandlerReturns, BeginWait,
     WakeUp, EndWait, EnterRunLoop, LeaveRunLoop, vars
<1> QED BY <1>1, <1>2, <1>4 DEF Next, ClientThread

\* The assertion about m_didScheduleDispatchMessagesWorkSet holds.
THEOREM AlwaysScheduledOnce == Spec => []ScheduledOnce
<1>1. TypeOK /\ Scheduled => ScheduledOnce
  BY LenProperties DEF TypeOK, Scheduled, ScheduledOnce, Distinct
<1> QED BY <1>1, InitTypes, NextTypes, InitScheduled, NextScheduled, PTL DEF Spec

-----------------------------------------------------------------------------
(* A message is in one place.                                              *)

\* What the queue and the frames hold is numbered as it arrived, listed once, and held
\* by one of them.
Apart ==
  /\ Distinct(queue)
  /\ \A m \in ToSet(queue) : m.n <= arrived[m.conn]
  /\ \A k \in 1..Len(stack) :
       /\ Distinct(stack[k].todo) /\ Distinct(stack[k].back)
       /\ ToSet(stack[k].todo) \intersect ToSet(stack[k].back) = {}
       /\ ToSet(queue) \intersect Inside(stack[k]) = {}
       /\ \A m \in Inside(stack[k]) : m.n <= arrived[m.conn]
  /\ \A k, l \in 1..Len(stack) : k # l => Inside(stack[k]) \intersect Inside(stack[l]) = {}

LEMMA InitApart == Init => Apart
<1> SUFFICES ASSUME Init PROVE Apart
  OBVIOUS
<1>1. queue = <<>> /\ 1..Len(stack) = {}
  BY EmptySeq DEF Init
<1> QED BY <1>1, NoMembers DEF Apart

\* A frame lists each of its messages once.
Listed(f) == Distinct(f.todo) /\ Distinct(f.back) /\ ToSet(f.todo) \intersect ToSet(f.back) = {}

LEMMA PlainListed ==
  ASSUME NEW where
  PROVE  Listed(Plain(where)) /\ Inside(Plain(where)) = {}
  BY NoMembers DEF Listed, Plain, Activation, Inside

\* Steps that take no message anywhere: frames are left, added empty, or hold less.
LEMMA ApartShrinks ==
  ASSUME Apart, UNCHANGED <<queue, arrived>>,
         Len(stack) \in Nat,
         \A k \in 1..Len(stack') :
           /\ Listed(stack'[k])
           /\ Inside(stack'[k]) = {} \/ (k \in 1..Len(stack) /\ Inside(stack'[k]) \subseteq Inside(stack[k]))
  PROVE  Apart'
<1>1. \A k \in 1..Len(stack') :
        /\ ToSet(queue) \intersect Inside(stack'[k]) = {}
        /\ \A m \in Inside(stack'[k]) : m.n <= arrived[m.conn]
  BY DEF Apart
<1>2. \A k, l \in 1..Len(stack') : k # l => Inside(stack'[k]) \intersect Inside(stack'[l]) = {}
  BY DEF Apart
<1> QED BY <1>1, <1>2 DEF Apart, Listed, Inside

LEMMA NextApart == Apart /\ TypeOK /\ [Next]_vars => Apart'
<1> SUFFICES ASSUME Apart, TypeOK, [Next]_vars PROVE Apart'
  OBVIOUS
<1>0. /\ queue \in Seq(Message) /\ stack \in Seq(Frame) /\ Len(stack) \in Nat
      /\ arrived \in [Connections -> Nat]
      /\ \A k \in 1..Len(stack) : Listed(stack[k])
  BY LenProperties DEF TypeOK, Apart, Listed
<1>1. ASSUME NEW c \in Connections, ProcessIncomingMessage(c) PROVE Apart'
  <2> DEFINE m == [conn |-> c, n |-> arrived[c] + 1]
  <2>1. /\ queue' = Append(queue, m) /\ stack' = stack
        /\ arrived' = [arrived EXCEPT ![c] = @ + 1]
    BY <1>1 DEF ProcessIncomingMessage
  <2>2. m \in Message /\ m.conn = c /\ m.n = arrived[c] + 1
    BY <1>0 DEF Message
  <2> HIDE DEF m
  <2>3. \A o \in ToSet(queue) : o \in Message
    BY <1>0, Members, ElementOfSeq
  <2>4. \A k \in 1..Len(stack) : \A o \in Inside(stack[k]) : o \in Message
    <3> SUFFICES ASSUME NEW k \in 1..Len(stack), NEW o \in Inside(stack[k]) PROVE o \in Message
      OBVIOUS
    <3>1. stack[k].todo \in Seq(Message) /\ stack[k].back \in Seq(Message)
      BY <1>0, ElementOfSeq, FrameFields
    <3> QED BY <3>1, Members, ElementOfSeq DEF Inside
  <2>5. \A o \in Message : o.n <= arrived[o.conn] => o # m /\ o.n <= arrived'[o.conn]
    BY <1>0, <2>1, <2>2 DEF Message
  <2>6. m \notin ToSet(queue) /\ m.n <= arrived'[m.conn]
    BY <1>0, <2>1, <2>2, <2>3, <2>5 DEF Apart
  <2>7. \A k \in 1..Len(stack) : m \notin Inside(stack[k])
    BY <2>4, <2>5 DEF Apart
  <2>8. ToSet(queue') = ToSet(queue) \union {m} /\ Distinct(queue')
    BY <1>0, <2>1, <2>2, <2>6, AppendedMembers DEF Apart
  <2>9. \A o \in ToSet(queue') : o.n <= arrived'[o.conn]
    BY <2>3, <2>5, <2>6, <2>8 DEF Apart
  <2>10. \A k \in 1..Len(stack) : \A o \in Inside(stack[k]) : o.n <= arrived'[o.conn]
    BY <2>4, <2>5 DEF Apart
  <2> QED BY <2>1, <2>7, <2>8, <2>9, <2>10 DEF Apart
<1>2. CASE DispatchAndReset
  <2>1. /\ UNCHANGED <<queue, arrived>> /\ tasks # <<>>
        /\ stack' = Append(stack, Activation("swap", Head(tasks), <<>>, <<>>))
    BY <1>2 DEF DispatchAndReset
  <2> DEFINE f == Activation("swap", Head(tasks), <<>>, <<>>)
  <2>2. f \in Frame /\ Inside(f) = {} /\ Listed(f)
    <3>1. Head(tasks) \in Connections /\ <<>> \in Seq(Message)
      BY <2>1, HeadTailProperties, EmptySeq DEF TypeOK
    <3>2. f \in Frame
      BY <3>1, Activations
    <3> QED BY <3>2, NoMembers DEF Inside, Listed, Activation
  <2> HIDE DEF f
  <2>3. /\ Len(stack') = Len(stack) + 1 /\ \A i \in 1..Len(stack) : stack'[i] = stack[i]
        /\ stack'[Len(stack) + 1] = f
    BY <1>0, <2>1, <2>2, Pushed DEF f
  <2>4. \A k \in 1..Len(stack') : k \in 1..Len(stack) \/ k = Len(stack) + 1
    BY <1>0, <2>3
  <2> QED BY <1>0, <2>1, <2>2, <2>3, <2>4, ApartShrinks
<1>3. ASSUME At("loop") \/ At("swap") \/ At("handler") \/ At("wait") \/ At("nested")
      PROVE  /\ stack # <<>> /\ Len(stack) \in 1..Len(stack) /\ Top = stack[Len(stack)]
             /\ Top.todo \in Seq(Message) /\ Top.back \in Seq(Message)
             /\ Top.allowed \in Connections \union {All}
             /\ Listed(Top)
             /\ Front(stack) \in Seq(Frame) /\ Len(Front(stack)) = Len(stack) - 1
             /\ \A i \in 1..(Len(stack) - 1) : Front(stack)[i] = stack[i]
  <2>1. stack # <<>>
    BY <1>3 DEF At
  <2>2. /\ Front(stack) \in Seq(Frame) /\ Len(Front(stack)) = Len(stack) - 1
        /\ \A i \in 1..(Len(stack) - 1) : Front(stack)[i] = stack[i]
        /\ Len(stack) \in Nat \ {0} /\ Top = stack[Len(stack)] /\ Top \in Frame
    BY <1>0, <2>1, Popped DEF Top
  <2>3. Len(stack) \in 1..Len(stack)
    BY <2>2
  <2> QED BY <1>0, <2>1, <2>2, <2>3, FrameFields
<1>4. ASSUME stack # <<>>, stack' = Front(stack), UNCHANGED <<queue, arrived>>
      PROVE  Apart'
  <2>1. /\ Len(stack') = Len(stack) - 1 /\ \A i \in 1..(Len(stack) - 1) : stack'[i] = stack[i]
    BY <1>0, <1>4, Popped
  <2>2. \A k \in 1..Len(stack') : k \in 1..(Len(stack) - 1) /\ k \in 1..Len(stack)
    BY <1>0, <2>1
  <2> QED BY <1>0, <1>4, <2>1, <2>2, ApartShrinks
<1>5. ASSUME NEW where \in {"swap", "handler", "wait", "nested"},
             stack' = Append(stack, Plain(where)), UNCHANGED <<queue, arrived>>
      PROVE  Apart'
  <2>1. /\ Len(stack') = Len(stack) + 1 /\ \A i \in 1..Len(stack) : stack'[i] = stack[i]
        /\ stack'[Len(stack) + 1] = Plain(where)
    BY <1>0, <1>5, Plains, Pushed
  <2>2. \A k \in 1..Len(stack') : k \in 1..Len(stack) \/ k = Len(stack) + 1
    BY <1>0, <2>1
  <2> QED BY <1>0, <1>5, <2>1, <2>2, PlainListed, ApartShrinks
<1>6. CASE SwapQueue
  <2> DEFINE f == Activation("loop", Top.allowed, queue, <<>>)
  <2>1. /\ stack' = Append(Front(stack), f) /\ queue' = <<>> /\ arrived' = arrived
        /\ stack # <<>>
    BY <1>3, <1>6 DEF SwapQueue
  <2>2. f \in Frame /\ Inside(f) = ToSet(queue) /\ Listed(f)
    <3>1. <<>> \in Seq(Message)
      BY EmptySeq
    <3>2. f \in Frame
      BY <1>0, <1>3, <1>6, <3>1, Activations DEF SwapQueue
    <3> QED BY <3>2, NoMembers DEF Activation, Inside, Listed, Apart
  <2> HIDE DEF f
  <2>3. /\ Len(stack') = Len(stack) /\ \A i \in 1..(Len(stack) - 1) : stack'[i] = stack[i]
        /\ stack'[Len(stack)] = f
    BY <1>0, <2>1, <2>2, Replaced
  <2>4. \A k \in 1..Len(stack) : k \in 1..(Len(stack) - 1) \/ k = Len(stack)
    BY <1>0
  <2>5. \A k \in 1..Len(stack) : Listed(stack'[k]) /\ (k # Len(stack) => stack'[k] = stack[k])
    BY <1>0, <2>2, <2>3, <2>4
  <2>6. \A k, l \in 1..Len(stack) : k # l => Inside(stack'[k]) \intersect Inside(stack'[l]) = {}
    BY <2>2, <2>3, <2>5 DEF Apart
  <2>7. \A k \in 1..Len(stack) : \A m \in Inside(stack'[k]) : m.n <= arrived[m.conn]
    BY <2>2, <2>3, <2>5 DEF Apart
  <2>8. ToSet(queue') = {} /\ Distinct(queue')
    BY <2>1, NoMembers
  <2> QED BY <2>1, <2>3, <2>5, <2>6, <2>7, <2>8 DEF Apart, Listed
<1>7. CASE SetAside
  <2> DEFINE f == Activation("loop", Top.allowed, Tail(Top.todo), Append(Top.back, Head(Top.todo)))
  <2>1. /\ stack' = Append(Front(stack), f) /\ UNCHANGED <<queue, arrived>>
        /\ stack # <<>> /\ Top.todo # <<>>
    BY <1>3, <1>7 DEF SetAside
  <2>2. /\ Top.todo \in Seq(Message) /\ Top.back \in Seq(Message) /\ Listed(Top)
        /\ Top = stack[Len(stack)] /\ Top.allowed \in Connections \union {All}
    BY <1>3, <1>7 DEF SetAside
  <2>3. /\ Head(Top.todo) \in Message /\ Tail(Top.todo) \in Seq(Message)
        /\ ToSet(Top.todo) = {Head(Top.todo)} \union ToSet(Tail(Top.todo))
        /\ Distinct(Tail(Top.todo)) /\ Head(Top.todo) \notin ToSet(Tail(Top.todo))
    BY <2>1, <2>2, TailMembers DEF Listed
  <2>4. /\ Append(Top.back, Head(Top.todo)) \in Seq(Message)
        /\ ToSet(Append(Top.back, Head(Top.todo))) = ToSet(Top.back) \union {Head(Top.todo)}
        /\ Distinct(Append(Top.back, Head(Top.todo)))
    BY <2>2, <2>3, AppendProperties, AppendedMembers DEF Listed
  <2>5. f \in Frame /\ Inside(f) = Inside(Top) /\ Listed(f)
    <3>1. f \in Frame
      BY <2>2, <2>3, <2>4, Activations
    <3> QED BY <2>2, <2>3, <2>4, <3>1 DEF Activation, Inside, Listed
  <2> HIDE DEF f
  <2>6. /\ Len(stack') = Len(stack) /\ \A i \in 1..(Len(stack) - 1) : stack'[i] = stack[i]
        /\ stack'[Len(stack)] = f
    BY <1>0, <2>1, <2>5, Replaced
  <2>7. \A k \in 1..Len(stack) : k \in 1..(Len(stack) - 1) \/ k = Len(stack)
    BY <1>0
  <2> QED BY <1>0, <2>1, <2>2, <2>5, <2>6, <2>7, ApartShrinks
<1>8. CASE DispatchMessage
  <2> DEFINE f == Activation("loop", Top.allowed, Tail(Top.todo), Top.back)
             t == Front(stack)
  <2>1. /\ stack' = t \o <<f, Plain("handler")>> /\ UNCHANGED <<queue, arrived>>
        /\ stack # <<>> /\ Top.todo # <<>>
    BY <1>3, <1>8 DEF DispatchMessage
  <2>2. /\ Top.todo \in Seq(Message) /\ Top.back \in Seq(Message) /\ Listed(Top)
        /\ Top = stack[Len(stack)] /\ Top.allowed \in Connections \union {All}
        /\ t \in Seq(Frame) /\ Len(t) = Len(stack) - 1
        /\ \A i \in 1..(Len(stack) - 1) : t[i] = stack[i]
    BY <1>3, <1>8 DEF DispatchMessage
  <2>3. /\ Tail(Top.todo) \in Seq(Message)
        /\ ToSet(Tail(Top.todo)) \subseteq ToSet(Top.todo) /\ Distinct(Tail(Top.todo))
    BY <2>1, <2>2, TailMembers DEF Listed
  <2>4. f \in Frame /\ Inside(f) \subseteq Inside(Top) /\ Listed(f)
    <3>1. f \in Frame
      BY <2>2, <2>3, Activations
    <3> QED BY <2>2, <2>3, <3>1 DEF Activation, Inside, Listed
  <2> HIDE DEF f, t
  <2>5. /\ Len(stack') = Len(t) + 2 /\ \A i \in 1..Len(t) : stack'[i] = t[i]
        /\ stack'[Len(t) + 1] = f /\ stack'[Len(t) + 2] = Plain("handler")
    BY <2>1, <2>2, <2>4, Plains, PushedTwo
  <2>6. \A k \in 1..Len(stack') :
          (k \in 1..Len(t) /\ k \in 1..Len(stack)) \/ k = Len(t) + 1 \/ k = Len(t) + 2
    BY <1>0, <2>2, <2>5
  <2>7. Len(t) + 1 = Len(stack) /\ Len(stack) \in 1..Len(stack)
    BY <1>0, <1>3, <1>8, <2>2 DEF DispatchMessage
  <2>8. \A k \in 1..Len(t) : stack'[k] = stack[k]
    BY <2>2, <2>5
  <2> QED BY <1>0, <2>1, <2>2, <2>4, <2>5, <2>6, <2>7, <2>8, PlainListed, ApartShrinks
<1>9. CASE PutBack
  <2>1. /\ stack' = Front(stack) /\ queue' = queue \o Top.back /\ arrived' = arrived
        /\ stack # <<>>
    BY <1>3, <1>9 DEF PutBack
  <2>2. /\ Top.back \in Seq(Message) /\ Listed(Top) /\ Top = stack[Len(stack)]
        /\ Len(stack) \in 1..Len(stack)
    BY <1>3, <1>9 DEF PutBack
  <2>3. ToSet(Top.back) \subseteq Inside(Top) /\ ToSet(queue) \intersect ToSet(Top.back) = {}
    BY <2>2 DEF Inside, Apart
  <2>4. ToSet(queue') = ToSet(queue) \union ToSet(Top.back) /\ Distinct(queue')
    BY <1>0, <2>1, <2>2, <2>3, JoinedMembers DEF Listed, Apart
  <2>5. Len(stack') = Len(stack) - 1 /\ \A i \in 1..(Len(stack) - 1) : stack'[i] = stack[i]
    BY <1>0, <2>1, Popped
  <2>6. \A k \in 1..Len(stack') : k \in 1..Len(stack) /\ k # Len(stack) /\ stack'[k] = stack[k]
    BY <1>0, <2>5
  <2>7. \A m \in ToSet(queue') : m.n <= arrived'[m.conn]
    BY <2>1, <2>2, <2>3, <2>4 DEF Apart
  <2>8. \A k \in 1..Len(stack') : ToSet(queue') \intersect Inside(stack'[k]) = {}
    BY <2>2, <2>3, <2>4, <2>6 DEF Apart
  <2> QED BY <2>1, <2>4, <2>6, <2>7, <2>8 DEF Apart
<1>10. CASE HandlerReturns \/ EndWait \/ LeaveRunLoop
  BY <1>3, <1>4, <1>10 DEF HandlerReturns, EndWait, LeaveRunLoop
<1>11. CASE BeginWait
  <2>1. stack' = stack \o <<Plain("wait"), Plain("swap")>> /\ UNCHANGED <<queue, arrived>>
    BY <1>11 DEF BeginWait
  <2>2. /\ Len(stack') = Len(stack) + 2 /\ \A i \in 1..Len(stack) : stack'[i] = stack[i]
        /\ stack'[Len(stack) + 1] = Plain("wait") /\ stack'[Len(stack) + 2] = Plain("swap")
    BY <1>0, <2>1, Plains, PushedTwo
  <2>3. \A k \in 1..Len(stack') : k \in 1..Len(stack) \/ k = Len(stack) + 1 \/ k = Len(stack) + 2
    <3>1. Len(stack') = Len(stack) + 2 /\ Len(stack) \in Nat
      BY <1>0, <2>2
    <3> QED BY ONLY <3>1
  <2> QED BY <1>0, <2>1, <2>2, <2>3, PlainListed, ApartShrinks
<1>12. CASE WakeUp \/ EnterRunLoop
  BY <1>5, <1>12 DEF WakeUp, EnterRunLoop
<1>13. CASE UNCHANGED vars
  BY <1>13 DEF vars, Apart
<1> QED BY <1>1, <1>2, <1>6, <1>7, <1>8, <1>9, <1>10, <1>11, <1>12, <1>13 DEF Next, ClientThread

\* A message is queued once, or held by one activation of dispatchMessages.
THEOREM NeverDuplicated == Spec => []NoDuplicates
<1>1. Apart /\ TypeOK => NoDuplicates
  <2> SUFFICES ASSUME Apart, TypeOK PROVE NoDuplicates
    OBVIOUS
  <2>1. DOMAIN queue = 1..Len(queue) /\ DOMAIN stack = 1..Len(stack) /\ stack \in Seq(Frame)
    BY LenProperties DEF TypeOK
  <2>2. ToSet(queue) \intersect Held = {}
    <3> SUFFICES ASSUME NEW f \in ToSet(stack)
                 PROVE  ToSet(queue) \intersect (ToSet(f.todo) \union ToSet(f.back)) = {}
      BY DEF Held
    <3>1. PICK k \in 1..Len(stack) : stack[k] = f
      BY <2>1, Members
    <3> QED BY <3>1 DEF Apart, Inside
  <2>3. \A k, l \in DOMAIN stack :
          k # l => (ToSet(stack[k].todo) \union ToSet(stack[k].back))
                     \intersect (ToSet(stack[l].todo) \union ToSet(stack[l].back)) = {}
    BY <2>1 DEF Apart, Inside
  <2> QED BY <2>1, <2>2, <2>3 DEF Apart, Distinct, NoDuplicates
<1> QED BY <1>1, InitTypes, NextTypes, InitApart, NextApart, PTL DEF Spec

-----------------------------------------------------------------------------
(* What is stranded.                                                       *)

\* A call is under way, or was robbed, for this connection.
Called(c) == c \in workSet \union robbed

Swapping(c) == At("swap") /\ Top.allowed \in {c, All}

\* f will put m back.
Foreign(f, m) == f.allowed \notin {All, m.conn}

\* Queued messages, and those that will be queued again, are the business of a call or
\* of the activation that is about to take the queue.
Owned ==
  /\ \A m \in ToSet(queue) : Called(m.conn) \/ Swapping(m.conn)
  /\ \A k \in 1..Len(stack) :
       /\ \A m \in Inside(stack[k]) : Foreign(stack[k], m) => Called(m.conn)
       /\ \A m \in ToSet(stack[k].back) : Foreign(stack[k], m)

LEMMA InitOwned == Init => Owned
<1> SUFFICES ASSUME Init PROVE Owned
  OBVIOUS
<1>1. queue = <<>> /\ 1..Len(stack) = {}
  BY EmptySeq DEF Init
<1> QED BY <1>1, NoMembers DEF Owned

\* Frames that hold nothing to be put back, or no more than before.
Kept(f, g) ==
  /\ f.allowed = g.allowed
  /\ Inside(f) \subseteq Inside(g)
  /\ ToSet(f.back) \subseteq ToSet(g.back)

LEMMA OwnedShrinks ==
  ASSUME Owned, UNCHANGED <<queue, workSet, robbed>>, ~At("swap"), Len(stack) \in Nat,
         \A k \in 1..Len(stack') :
           Inside(stack'[k]) = {} \/ (k \in 1..Len(stack) /\ Kept(stack'[k], stack[k]))
  PROVE  Owned'
<1>1. \A m \in ToSet(queue) : Called(m.conn) /\ Called(m.conn)'
  BY DEF Owned, Swapping, Called
<1>2. ASSUME NEW k \in 1..Len(stack')
      PROVE  /\ \A m \in Inside(stack'[k]) : Foreign(stack'[k], m) => Called(m.conn)'
             /\ \A m \in ToSet(stack'[k].back) : Foreign(stack'[k], m)
  <2>1. CASE Inside(stack'[k]) = {}
    BY <2>1 DEF Inside
  <2>2. CASE k \in 1..Len(stack) /\ Kept(stack'[k], stack[k])
    BY <2>2 DEF Owned, Kept, Foreign, Called
  <2> QED BY <2>1, <2>2
<1> QED BY <1>1, <1>2 DEF Owned

LEMMA NextOwned == Owned /\ TypeOK /\ [Next]_vars => Owned'
<1> SUFFICES ASSUME Owned, TypeOK, [Next]_vars PROVE Owned'
  OBVIOUS
<1>0. /\ queue \in Seq(Message) /\ stack \in Seq(Frame) /\ Len(stack) \in Nat
      /\ tasks \in Seq(Connections)
      /\ \A k \in 1..Len(stack) : Kept(stack[k], stack[k])
  BY LenProperties DEF TypeOK, Kept
<1>1. ASSUME NEW c \in Connections, ProcessIncomingMessage(c) PROVE Owned'
  <2> DEFINE m == [conn |-> c, n |-> arrived[c] + 1]
  <2>1. /\ queue' = Append(queue, m) /\ UNCHANGED <<stack, robbed>>
        /\ workSet' = workSet \union {c}
    BY <1>1 DEF ProcessIncomingMessage
  <2>2. m \in Message /\ m.conn = c
    BY <1>0 DEF Message, TypeOK
  <2> HIDE DEF m
  <2>3. ToSet(queue') = ToSet(queue) \union {m}
    BY <1>0, <2>1, <2>2, AppendedMembers
  <2>4. \A d : Called(d) => Called(d)'
    BY <2>1 DEF Called
  <2>5. \A d : Swapping(d) => Swapping(d)'
    BY <2>1 DEF Swapping, At, Top
  <2>6. Called(c)'
    BY <2>1 DEF Called
  <2> QED BY <2>1, <2>2, <2>3, <2>4, <2>5, <2>6 DEF Owned
<1>2. CASE DispatchAndReset
  <2>0. PICK c \in Connections : c = Head(tasks)
    BY <1>0, <1>2, HeadTailProperties DEF DispatchAndReset
  <2> DEFINE f == Activation("swap", c, <<>>, <<>>)
  <2>1. /\ queue' = queue /\ tasks # <<>> /\ (stack # <<>> => Top.at = "nested")
        /\ workSet' = workSet \ {c} /\ robbed' = robbed \union (Waiting \intersect {c})
        /\ stack' = Append(stack, f)
    BY <1>2, <2>0 DEF DispatchAndReset
  <2>2. f \in Frame /\ Inside(f) = {} /\ f.at = "swap" /\ f.allowed = c
    <3>1. <<>> \in Seq(Message)
      BY EmptySeq
    <3>2. f \in Frame
      BY <3>1, Activations
    <3> QED BY <3>2, NoMembers DEF Inside, Activation
  <2> HIDE DEF f
  <2>3. /\ Len(stack') = Len(stack) + 1 /\ \A i \in 1..Len(stack) : stack'[i] = stack[i]
        /\ stack'[Len(stack) + 1] = f
    BY <1>0, <2>1, <2>2, Pushed
  <2>4. \A k \in 1..Len(stack') : k \in 1..Len(stack) \/ k = Len(stack) + 1
    BY <1>0, <2>3
  <2>5. Swapping(c)'
    <3>1. stack' # <<>> /\ Last(stack') = f
      BY <1>0, <2>1, <2>2, <2>3, AppendProperties DEF Last
    <3> QED BY <2>2, <3>1 DEF Swapping, At, Top
  <2>6. ~At("swap")
    BY <2>1 DEF At
  <2>7. \A d : Called(d) => Called(d)' \/ d = c
    BY <2>1 DEF Called
  <2>8. \A m \in ToSet(queue') : Called(m.conn)' \/ Swapping(m.conn)'
    BY <2>1, <2>5, <2>6, <2>7 DEF Owned, Swapping
  <2>9. ASSUME NEW k \in 1..Len(stack), NEW m \in Inside(stack[k]), Foreign(stack[k], m)
        PROVE  Called(m.conn)'
    <3>1. m.conn \in Waiting
      <4>1. stack[k] \in ToSet(stack)
        BY <1>0, Members
      <4> QED BY <2>9, <4>1 DEF Waiting, Foreign, Inside
    <3>2. Called(m.conn)
      BY <2>9 DEF Owned
    <3> QED BY <2>1, <3>1, <3>2 DEF Called
  <2>10. \A k \in 1..Len(stack') : k \in 1..Len(stack) \/ Inside(stack'[k]) = {}
    BY <2>2, <2>3, <2>4
  <2>11. \A k \in 1..Len(stack) : \A m \in ToSet(stack[k].back) : Foreign(stack[k], m)
    BY DEF Owned
  <2>12. \A k \in 1..Len(stack') :
           /\ \A m \in Inside(stack'[k]) : Foreign(stack'[k], m) => Called(m.conn)'
           /\ \A m \in ToSet(stack'[k].back) : Foreign(stack'[k], m)
    BY <2>3, <2>9, <2>10, <2>11 DEF Inside
  <2> QED BY <2>8, <2>12 DEF Owned
<1>3. ASSUME At("loop") \/ At("swap") \/ At("handler") \/ At("wait") \/ At("nested")
      PROVE  /\ stack # <<>> /\ Len(stack) \in 1..Len(stack) /\ Top = stack[Len(stack)]
             /\ Top.todo \in Seq(Message) /\ Top.back \in Seq(Message)
             /\ Top.allowed \in Connections \union {All}
             /\ Front(stack) \in Seq(Frame) /\ Len(Front(stack)) = Len(stack) - 1
             /\ \A i \in 1..(Len(stack) - 1) : Front(stack)[i] = stack[i]
  <2>1. stack # <<>>
    BY <1>3 DEF At
  <2>2. /\ Front(stack) \in Seq(Frame) /\ Len(Front(stack)) = Len(stack) - 1
        /\ \A i \in 1..(Len(stack) - 1) : Front(stack)[i] = stack[i]
        /\ Len(stack) \in Nat \ {0} /\ Top = stack[Len(stack)] /\ Top \in Frame
    BY <1>0, <2>1, Popped DEF Top
  <2>3. Len(stack) \in 1..Len(stack)
    BY <2>2
  <2> QED BY <2>1, <2>2, <2>3, FrameFields
<1>4. ASSUME stack # <<>>, ~At("swap"), stack' = Front(stack), UNCHANGED <<queue, workSet, robbed>>
      PROVE  Owned'
  <2>1. /\ Len(stack') = Len(stack) - 1 /\ \A i \in 1..(Len(stack) - 1) : stack'[i] = stack[i]
    BY <1>0, <1>4, Popped
  <2>2. \A k \in 1..Len(stack') : k \in 1..(Len(stack) - 1) /\ k \in 1..Len(stack)
    BY <1>0, <2>1
  <2> QED BY <1>0, <1>4, <2>1, <2>2, OwnedShrinks
<1>5. ASSUME NEW where \in {"swap", "handler", "wait", "nested"}, ~At("swap"),
             stack' = Append(stack, Plain(where)), UNCHANGED <<queue, workSet, robbed>>
      PROVE  Owned'
  <2>1. /\ Len(stack') = Len(stack) + 1 /\ \A i \in 1..Len(stack) : stack'[i] = stack[i]
        /\ stack'[Len(stack) + 1] = Plain(where)
    BY <1>0, <1>5, Plains, Pushed
  <2>2. \A k \in 1..Len(stack') : k \in 1..Len(stack) \/ k = Len(stack) + 1
    BY <1>0, <2>1
  <2> QED BY <1>0, <1>5, <2>1, <2>2, PlainListed, OwnedShrinks
<1>6. CASE SwapQueue
  <2> DEFINE f == Activation("loop", Top.allowed, queue, <<>>)
  <2>1. /\ stack' = Append(Front(stack), f) /\ queue' = <<>> /\ UNCHANGED <<workSet, robbed>>
        /\ stack # <<>> /\ At("swap")
    BY <1>3, <1>6 DEF SwapQueue
  <2>2. /\ f \in Frame /\ Inside(f) = ToSet(queue) /\ ToSet(f.back) = {} /\ f.allowed = Top.allowed
    <3>1. <<>> \in Seq(Message)
      BY EmptySeq
    <3>2. f \in Frame
      BY <1>0, <1>3, <2>1, <3>1, Activations
    <3> QED BY <3>2, NoMembers DEF Activation, Inside
  <2> HIDE DEF f
  <2>3. /\ Len(stack') = Len(stack) /\ \A i \in 1..(Len(stack) - 1) : stack'[i] = stack[i]
        /\ stack'[Len(stack)] = f
    BY <1>0, <2>1, <2>2, Replaced
  <2>4. \A k \in 1..Len(stack) : k \in 1..(Len(stack) - 1) \/ k = Len(stack)
    BY <1>0
  <2>5. \A k \in 1..Len(stack) : k # Len(stack) => stack'[k] = stack[k]
    BY <1>0, <2>3, <2>4
  <2>6. \A d : Called(d)' <=> Called(d)
    BY <2>1 DEF Called
  <2>7. \A m \in ToSet(queue) : Foreign(f, m) => Called(m.conn)
    BY <2>1, <2>2 DEF Owned, Swapping, Foreign
  <2>8. ToSet(queue') = {}
    BY <2>1, NoMembers
  <2> QED BY <2>2, <2>3, <2>5, <2>6, <2>7, <2>8 DEF Owned
<1>7. CASE SetAside
  <2> DEFINE f == Activation("loop", Top.allowed, Tail(Top.todo), Append(Top.back, Head(Top.todo)))
  <2>1. /\ stack' = Append(Front(stack), f) /\ UNCHANGED <<queue, workSet, robbed>>
        /\ stack # <<>> /\ Top.todo # <<>> /\ Foreign(Top, Head(Top.todo)) /\ ~At("swap")
    BY <1>3, <1>7 DEF SetAside, Foreign, At
  <2>2. /\ Top.todo \in Seq(Message) /\ Top.back \in Seq(Message)
        /\ Top = stack[Len(stack)] /\ Top.allowed \in Connections \union {All}
        /\ Len(stack) \in 1..Len(stack)
    BY <1>3, <1>7 DEF SetAside
  <2>3. /\ Head(Top.todo) \in Message /\ Tail(Top.todo) \in Seq(Message)
        /\ ToSet(Top.todo) = {Head(Top.todo)} \union ToSet(Tail(Top.todo))
    BY <2>1, <2>2, TailMembers
  <2>4. /\ Append(Top.back, Head(Top.todo)) \in Seq(Message)
        /\ ToSet(Append(Top.back, Head(Top.todo))) = ToSet(Top.back) \union {Head(Top.todo)}
    BY <2>2, <2>3, AppendProperties, AppendedMembers
  <2>5. /\ f \in Frame /\ Inside(f) = Inside(Top) /\ f.allowed = Top.allowed
        /\ ToSet(f.back) = ToSet(Top.back) \union {Head(Top.todo)}
    <3>1. f \in Frame
      BY <2>2, <2>3, <2>4, Activations
    <3> QED BY <2>2, <2>3, <2>4, <3>1 DEF Activation, Inside
  <2> HIDE DEF f
  <2>6. /\ Len(stack') = Len(stack) /\ \A i \in 1..(Len(stack) - 1) : stack'[i] = stack[i]
        /\ stack'[Len(stack)] = f
    BY <1>0, <2>1, <2>5, Replaced
  <2>7. \A k \in 1..Len(stack) : k # Len(stack) => stack'[k] = stack[k]
    BY <1>0, <2>6
  <2>8. \A d : Called(d)' <=> Called(d)
    BY <2>1 DEF Called
  <2>9. \A m \in ToSet(queue) : Called(m.conn)
    BY <2>1 DEF Owned, Swapping
  <2>10. /\ \A m \in Inside(f) : Foreign(f, m) => Called(m.conn)
         /\ \A m \in ToSet(f.back) : Foreign(f, m)
    BY <2>1, <2>2, <2>5 DEF Owned, Foreign
  <2> QED BY <2>1, <2>6, <2>7, <2>8, <2>9, <2>10 DEF Owned
<1>8. CASE DispatchMessage
  <2> DEFINE f == Activation("loop", Top.allowed, Tail(Top.todo), Top.back)
             t == Front(stack)
  <2>1. /\ stack' = t \o <<f, Plain("handler")>> /\ UNCHANGED <<queue, workSet, robbed>>
        /\ stack # <<>> /\ Top.todo # <<>> /\ ~At("swap")
    BY <1>3, <1>8 DEF DispatchMessage, At
  <2>2. /\ Top.todo \in Seq(Message) /\ Top.back \in Seq(Message)
        /\ Top = stack[Len(stack)] /\ Top.allowed \in Connections \union {All}
        /\ t \in Seq(Frame) /\ Len(t) = Len(stack) - 1
        /\ \A i \in 1..(Len(stack) - 1) : t[i] = stack[i]
    BY <1>3, <1>8 DEF DispatchMessage
  <2>3. /\ Tail(Top.todo) \in Seq(Message)
        /\ ToSet(Tail(Top.todo)) \subseteq ToSet(Top.todo)
    BY <2>1, <2>2, TailMembers
  <2>4. f \in Frame /\ Kept(f, Top)
    <3>1. f \in Frame
      BY <2>2, <2>3, Activations
    <3> QED BY <2>2, <2>3, <3>1 DEF Activation, Inside, Kept
  <2> HIDE DEF f, t
  <2>5. /\ Len(stack') = Len(t) + 2 /\ \A i \in 1..Len(t) : stack'[i] = t[i]
        /\ stack'[Len(t) + 1] = f /\ stack'[Len(t) + 2] = Plain("handler")
    BY <2>1, <2>2, <2>4, Plains, PushedTwo
  <2>6. \A k \in 1..Len(stack') :
          (k \in 1..Len(t) /\ k \in 1..Len(stack)) \/ k = Len(t) + 1 \/ k = Len(t) + 2
    BY <1>0, <2>2, <2>5
  <2>7. Len(t) + 1 = Len(stack) /\ Len(stack) \in 1..Len(stack)
    BY <1>0, <1>3, <1>8, <2>2 DEF DispatchMessage
  <2>8. \A k \in 1..Len(t) : stack'[k] = stack[k]
    BY <2>2, <2>5
  <2> QED BY <1>0, <2>1, <2>2, <2>4, <2>5, <2>6, <2>7, <2>8, PlainListed, OwnedShrinks
<1>9. CASE PutBack
  <2>1. /\ stack' = Front(stack) /\ queue' = queue \o Top.back /\ UNCHANGED <<workSet, robbed>>
        /\ stack # <<>> /\ ~At("swap")
    BY <1>3, <1>9 DEF PutBack, At
  <2>2. /\ Top.back \in Seq(Message) /\ Top = stack[Len(stack)] /\ Len(stack) \in 1..Len(stack)
    BY <1>3, <1>9 DEF PutBack
  <2>3. ToSet(queue') = ToSet(queue) \union ToSet(Top.back)
    BY <1>0, <2>1, <2>2, JoinedMembers
  <2>4. Len(stack') = Len(stack) - 1 /\ \A i \in 1..(Len(stack) - 1) : stack'[i] = stack[i]
    BY <1>0, <2>1, Popped
  <2>5. \A k \in 1..Len(stack') : k \in 1..Len(stack) /\ stack'[k] = stack[k]
    BY <1>0, <2>4
  <2>6. \A d : Called(d)' <=> Called(d)
    BY <2>1 DEF Called
  <2>7. \A m \in ToSet(queue) : Called(m.conn)
    BY <2>1 DEF Owned, Swapping
  <2>8. \A m \in ToSet(Top.back) : Called(m.conn)
    BY <2>2 DEF Owned, Inside
  <2> QED BY <2>3, <2>5, <2>6, <2>7, <2>8 DEF Owned
<1>10. CASE HandlerReturns \/ EndWait \/ LeaveRunLoop
  BY <1>3, <1>4, <1>10 DEF HandlerReturns, EndWait, LeaveRunLoop, At
<1>11. CASE BeginWait
  <2>1. /\ stack' = stack \o <<Plain("wait"), Plain("swap")>> /\ UNCHANGED <<queue, workSet, robbed>>
        /\ ~At("swap")
    BY <1>11 DEF BeginWait, At
  <2>2. /\ Len(stack') = Len(stack) + 2 /\ \A i \in 1..Len(stack) : stack'[i] = stack[i]
        /\ stack'[Len(stack) + 1] = Plain("wait") /\ stack'[Len(stack) + 2] = Plain("swap")
    BY <1>0, <2>1, Plains, PushedTwo
  <2>3. \A k \in 1..Len(stack') : k \in 1..Len(stack) \/ k = Len(stack) + 1 \/ k = Len(stack) + 2
    <3>1. Len(stack') = Len(stack) + 2 /\ Len(stack) \in Nat
      BY <1>0, <2>2
    <3> QED BY ONLY <3>1
  <2> QED BY <1>0, <2>1, <2>2, <2>3, PlainListed, OwnedShrinks
<1>12. CASE WakeUp \/ EnterRunLoop
  BY <1>5, <1>12 DEF WakeUp, EnterRunLoop, At
<1>13. CASE UNCHANGED vars
  BY <1>13 DEF vars, Owned, Called, Swapping, At, Top
<1> QED BY <1>1, <1>2, <1>6, <1>7, <1>8, <1>9, <1>10, <1>11, <1>12, <1>13 DEF Next, ClientThread

\* A queued message waits for a call, or for the activation that is about to take it,
\* unless the call ran in a nested run loop while others held messages of its connection.
THEOREM OnlyStrandedWhenRobbed == Spec => []StrandedWhenRobbed
<1>1. Owned => StrandedWhenRobbed
  BY DEF Owned, Called, Swapping, StrandedWhenRobbed
<1> QED BY <1>1, InitTypes, NextTypes, InitOwned, NextOwned, PTL DEF Spec

=============================================================================
