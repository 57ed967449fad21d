---------------------------- MODULE ConnectionProofs ----------------------------
(***************************************************************************)
(* The connection, for any capacity of the transport, any number of        *)
(* messages and any depth of nested synchronous requests.                  *)
(***************************************************************************)
EXTENDS Connection, SequenceTheorems, FunctionTheorems, FiniteSetTheorems, TLAPS

-----------------------------------------------------------------------------
(* Sequences, and the values the actions build.                            *)

LEMMA Appended ==
  ASSUME NEW S, NEW s \in Seq(S), NEW x \in S
  PROVE  /\ Append(s, x) \in Seq(S) /\ Len(Append(s, x)) = Len(s) + 1 /\ Len(s) \in Nat
         /\ \A i \in 1..Len(s) : Append(s, x)[i] = s[i]
         /\ Append(s, x)[Len(s) + 1] = x
         /\ Append(s, x) # <<>> /\ Last(Append(s, x)) = x
         /\ Front(Append(s, x)) = s
<1> DEFINE t == Append(s, x)
<1>1. /\ t \in Seq(S) /\ Len(t) = Len(s) + 1 /\ Len(s) \in Nat
      /\ \A i \in 1..Len(s) : t[i] = s[i]
      /\ t[Len(s) + 1] = x
  BY AppendProperties, LenProperties
<1> HIDE DEF t
<1>2. Len(t) # 0 /\ Len(t) - 1 = Len(s)
  BY <1>1
<1>3. t # <<>>
  BY <1>2, EmptySeq
<1>4. Last(t) = x
  BY <1>1 DEF Last
<1>5. \A i \in 1..Len(s) : t[i] \in S
  BY <1>1, ElementOfSeq
<1>6. /\ SubSeq(t, 1, Len(s)) \in Seq(S)
      /\ Len(SubSeq(t, 1, Len(s))) = Len(s)
      /\ \A i \in 1..Len(s) : SubSeq(t, 1, Len(s))[i] = t[i]
  <2>1. /\ SubSeq(t, 1, Len(s)) \in Seq(S)
        /\ Len(SubSeq(t, 1, Len(s))) = IF 1 <= Len(s) THEN Len(s) - 1 + 1 ELSE 0
        /\ \A i \in 1..(Len(s) - 1 + 1) : SubSeq(t, 1, Len(s))[i] = t[1 + i - 1]
    BY <1>1, <1>5, SubSeqProperties
  <2>2. \A n \in Nat : (IF 1 <= n THEN n - 1 + 1 ELSE 0) = n /\ n - 1 + 1 = n
    OBVIOUS
  <2>3. (IF 1 <= Len(s) THEN Len(s) - 1 + 1 ELSE 0) = Len(s) /\ Len(s) - 1 + 1 = Len(s)
    BY <1>1, <2>2, Zenon
  <2>4. \A i \in 1..Len(s) : 1 + i - 1 = i
    BY <1>1
  <2> QED BY <2>1, <2>3, <2>4
<1>7. SubSeq(t, 1, Len(s)) = s
  BY <1>1, <1>6, SeqEqual
<1>8. Front(t) = s
  BY <1>2, <1>7 DEF Front
<1> QED BY <1>1, <1>3, <1>4, <1>8 DEF t

LEMMA Popped ==
  ASSUME NEW S, NEW s \in Seq(S), s # <<>>
  PROVE  /\ Front(s) \in Seq(S) /\ Last(s) \in S
         /\ s = Append(Front(s), Last(s))
<1>1. Len(s) \in Nat /\ Len(s) >= 1 /\ \A i \in 1..Len(s) : s[i] \in S
  BY EmptySeq, ElementOfSeq
<1>2. PICK n \in Nat : n + 1 = Len(s)
  BY <1>1
<1>3. Len(s) - 1 = n
  BY <1>2
<1>4. /\ SubSeq(s, 1, n) \in Seq(S)
      /\ Len(SubSeq(s, 1, n)) = n
      /\ \A i \in 1..n : SubSeq(s, 1, n)[i] = s[i]
  <2>1. \A i \in 1..n : s[i] \in S
    BY <1>1, <1>2
  <2>2. /\ SubSeq(s, 1, n) \in Seq(S)
        /\ Len(SubSeq(s, 1, n)) = IF 1 <= n THEN n - 1 + 1 ELSE 0
        /\ \A i \in 1..(n - 1 + 1) : SubSeq(s, 1, n)[i] = s[1 + i - 1]
    BY <2>1, SubSeqProperties
  <2>3. (IF 1 <= n THEN n - 1 + 1 ELSE 0) = n /\ n - 1 + 1 = n
    OBVIOUS
  <2>4. \A i \in 1..n : 1 + i - 1 = i
    OBVIOUS
  <2> QED BY <2>2, <2>3, <2>4
<1> DEFINE r == SubSeq(s, 1, n)
<1>5. Front(s) = r
  BY <1>3 DEF Front
<1>6. Last(s) = s[n + 1] /\ s[n + 1] \in S
  BY <1>1, <1>2 DEF Last
<1>7. r \in Seq(S) /\ Len(r) = n /\ \A i \in 1..n : r[i] = s[i]
  BY <1>4
<1> HIDE DEF r
<1>8. /\ Append(r, s[n + 1]) \in Seq(S) /\ Len(Append(r, s[n + 1])) = n + 1
      /\ \A i \in 1..n : Append(r, s[n + 1])[i] = r[i]
      /\ Append(r, s[n + 1])[n + 1] = s[n + 1]
  BY <1>6, <1>7, AppendProperties
<1>9. s = Append(r, s[n + 1])
  <2>1. \A i \in 1..(n + 1) : Append(r, s[n + 1])[i] = s[i]
    BY <1>7, <1>8
  <2> QED BY <1>2, <1>8, <2>1, SeqEqual
<1> QED BY <1>5, <1>6, <1>7, <1>9

\* The frames the actions push.
LEMMA Frames ==
  /\ \A m \in Message : Handler(m) \in Frame /\ ~IsWait(Handler(m)) /\ Handler(m).at = "handler"
  /\ Swap \in Frame /\ ~IsWait(Swap) /\ Swap.at = "swap"
  /\ \A s \in Seq(Message) : Drain(s) \in Frame /\ ~IsWait(Drain(s)) /\ Drain(s).at = "drain"
  /\ \A ph \in {"check", "sleep"}, i \in Ids \union {0} :
       /\ Wait(ph, i) \in Frame /\ IsWait(Wait(ph, i))
       /\ Wait(ph, i).at = ph /\ Wait(ph, i).id = i
<1>1. <<>> \in Seq(Message)
  BY EmptySeq
<1> QED BY <1>1 DEF Handler, Swap, Drain, Wait, Frame, IsWait, NoMsg

LEMMA FrontType == ASSUME NEW S, NEW s \in Seq(S) PROVE Front(s) \in Seq(S)
<1>1. CASE s = <<>>
  <2>1. SubSeq(s, 1, Len(s) - 1) = <<>> /\ <<>> \in Seq(S)
    BY <1>1, EmptySeq, SubSeqEmpty
  <2> QED BY <2>1 DEF Front
<1> QED BY <1>1, Popped

\* Every field of a frame or message.
LEMMA Fields ==
  /\ \A f \in Frame : f.todo \in Seq(Message) /\ f.id \in Ids \union {0} /\ f.msg \in Message \union {NoMsg}
  /\ \A m \in Message : m.id \in Ids /\ m.marked \in BOOLEAN
  /\ \A m \in Message \union {NoMsg} : m.kind \in {"async", "sync", "reply"} => m \in Message
  BY DEF Frame, Message, NoMsg

-----------------------------------------------------------------------------
(* Type correctness.                                                       *)

LEMMA PeerType == \A p \in Procs : Peer(p) \in Procs /\ Peer(p) # p
<1>1. \A p \in Procs : \E q \in Procs : q # p
  BY ConnectionAssumption
<1> QED BY <1>1 DEF Peer

LEMMA InitTypes == Init => TypeOK
<1>1. <<>> \in Seq(Message) /\ <<>> \in Seq({"one", "sync", "close"})
      /\ <<>> \in Seq([id : Ids, got : BOOLEAN]) /\ <<>> \in Seq(Frame)
  BY EmptySeq
<1>2. [p \in Procs |-> 0] \in [Procs -> Nat]
  OBVIOUS
<1>3. NoSecond \in [id : Ids \union {0}, got : BOOLEAN, signalled : BOOLEAN]
  BY DEF NoSecond
<1>4. TRUE \in BOOLEAN /\ FALSE \in BOOLEAN /\ {} \in SUBSET Ids
  OBVIOUS
<1>5. \A S : \A x \in S : [p \in Procs |-> x] \in [Procs -> S]
  OBVIOUS
<1>6. [p \in Procs |-> NoSecond] \in [Procs -> [id : Ids \union {0}, got : BOOLEAN, signalled : BOOLEAN]]
  BY <1>3
<1>7. /\ [p \in Procs |-> TRUE] \in [Procs -> BOOLEAN]
      /\ [p \in Procs |-> FALSE] \in [Procs -> BOOLEAN]
      /\ [p \in Procs |-> <<>>] \in [Procs -> Seq(Message)]
      /\ [p \in Procs |-> <<>>] \in [Procs -> Seq({"one", "sync", "close"})]
      /\ [p \in Procs |-> <<>>] \in [Procs -> Seq([id : Ids, got : BOOLEAN])]
      /\ [p \in Procs |-> <<>>] \in [Procs -> Seq(Frame)]
      /\ [p \in Procs |-> {}] \in [Procs -> SUBSET Ids]
  BY <1>1, <1>4, <1>5
<1> QED BY <1>2, <1>6, <1>7, Zenon DEF Init, TypeOK

\* createSyncMessageEncoder and sendMessage: the id handed out is one of the ids.
LEMMA IdTypes ==
  ASSUME TypeOK, NEW p \in Procs, NewId(p)
  PROVE  NextId(p) \in Ids /\ lastId' \in [Procs -> Nat]
<1>1. lastId[p] \in Nat /\ MaxSends[p] \in Nat /\ lastId[p] < MaxSends[p]
  BY ConnectionAssumption DEF TypeOK, NewId
<1>2. lastId[p] + 1 \in 1..MaxSends[p]
  BY <1>1
<1> QED BY <1>1, <1>2 DEF TypeOK, NewId, NextId, Ids

LEMMA SendTypes ==
  ASSUME TypeOK, NEW p \in Procs, NEW id \in Ids, NEW even \in BOOLEAN,
         NEW kind \in {"async", "sync", "reply"}, SendMessage(p, kind, id, even)
  PROVE  out' \in [Procs -> Seq(Message)]
<1> DEFINE marked == even /\ (p \notin OnlyWhenProcessing \/ ProcessingMarked(p))
<1>1. marked \in BOOLEAN
  OBVIOUS
<1> HIDE DEF marked
<1>2. [kind |-> kind, id |-> id, marked |-> marked] \in Message
  BY <1>1 DEF Message
<1>3. Append(out[p], [kind |-> kind, id |-> id, marked |-> marked]) \in Seq(Message)
  BY <1>2, Appended DEF TypeOK
<1> QED BY <1>3 DEF SendMessage, TypeOK, marked

\* The main thread of a process whose innermost activation is known.
LEMMA TopTypes ==
  ASSUME TypeOK, NEW p \in Procs, stack[p] # <<>>
  PROVE  /\ Top(p) \in Frame /\ Front(stack[p]) \in Seq(Frame)
         /\ stack[p] = Append(Front(stack[p]), Top(p))
         /\ Top(p).todo \in Seq(Message) /\ Top(p).id \in Ids \union {0}
<1>1. stack[p] \in Seq(Frame)
  BY DEF TypeOK
<1> QED BY <1>1, Popped, Fields DEF Top

LEMMA ReturnTypes ==
  ASSUME TypeOK, NEW p \in Procs, NEW replied, stack[p] # <<>>,
         ReturnFromSync(p, replied)
  PROVE  /\ stack' \in [Procs -> Seq(Frame)] /\ alive' \in [Procs -> BOOLEAN]
         /\ pending' \in [Procs -> Seq([id : Ids, got : BOOLEAN])]
<1>1. Front(stack[p]) \in Seq(Frame)
  BY TopTypes
<1>2. Front(pending[p]) \in Seq([id : Ids, got : BOOLEAN])
  BY FrontType DEF TypeOK
<1>3. (p \notin ExitOnFailure) \in BOOLEAN
  OBVIOUS
<1>4. alive' \in [Procs -> BOOLEAN]
  BY <1>3 DEF ReturnFromSync, FailedSync, TypeOK
<1> QED BY <1>1, <1>2, <1>4 DEF ReturnFromSync, TypeOK

LEMMA NextTypes == TypeOK /\ [Next]_vars => TypeOK'
<1> SUFFICES ASSUME TypeOK, [Next]_vars PROVE TypeOK'
  OBVIOUS
<1> USE DEF netVars, inVars, syncVars, threadVars, procVars
<1>0. ASSUME UNCHANGED vars PROVE TypeOK'
  BY <1>0 DEF vars, TypeOK
<1>1. ASSUME NEW p \in Procs, AppSends(p) PROVE TypeOK'
  <2>1. ASSUME NEW even \in BOOLEAN, SendAsync(p, even) PROVE TypeOK'
    <3>1. NextId(p) \in Ids /\ lastId' \in [Procs -> Nat]
      BY <2>1, IdTypes DEF SendAsync
    <3>2. out' \in [Procs -> Seq(Message)]
      BY <2>1, <3>1, SendTypes DEF SendAsync
    <3> QED BY <2>1, <3>1, <3>2 DEF SendAsync, TypeOK
  <2>2. CASE SendSync(p)
    <3>1. NextId(p) \in Ids /\ lastId' \in [Procs -> Nat]
      BY <2>2, IdTypes DEF SendSync
    <3>2. out' \in [Procs -> Seq(Message)]
      <4>1. TRUE \in BOOLEAN /\ SendMessage(p, "sync", NextId(p), TRUE)
        BY <2>2 DEF SendSync
      <4> QED BY <3>1, <4>1, SendTypes
    <3>3. pending' \in [Procs -> Seq([id : Ids, got : BOOLEAN])]
      <4>1. Append(pending[p], [id |-> NextId(p), got |-> FALSE]) \in Seq([id : Ids, got : BOOLEAN])
        BY <3>1, Appended DEF TypeOK
      <4> QED BY <2>2, <4>1 DEF SendSync, TypeOK
    <3>4. stack' \in [Procs -> Seq(Frame)]
      <4>1. Append(Append(stack[p], Wait("check", NextId(p))), Swap) \in Seq(Frame)
        BY <3>1, Frames, Appended DEF TypeOK
      <4> QED BY <2>2, <4>1 DEF SendSync, TypeOK
    <3> QED BY <2>2, <3>1, <3>2, <3>3, <3>4 DEF SendSync, TypeOK
  <2>3. CASE SendSyncFails(p)
    <3>1. (p \notin ExitOnFailure) \in BOOLEAN
      OBVIOUS
    <3>2. alive' \in [Procs -> BOOLEAN]
      BY <2>3, <3>1 DEF SendSyncFails, FailedSync, TypeOK
    <3>3. lastId' \in [Procs -> Nat]
      BY <2>3, IdTypes DEF SendSyncFails
    <3> QED BY <2>3, <3>2, <3>3 DEF SendSyncFails, TypeOK
  <2>4. CASE SecondarySendSync(p)
    <3>1. NextId(p) \in Ids /\ lastId' \in [Procs -> Nat]
      BY <2>4, IdTypes DEF SecondarySendSync
    <3>2. out' \in [Procs -> Seq(Message)]
      <4>1. FALSE \in BOOLEAN /\ SendMessage(p, "sync", NextId(p), FALSE)
        BY <2>4 DEF SecondarySendSync
      <4> QED BY <3>1, <4>1, SendTypes
    <3>3. second' \in [Procs -> [id : Ids \union {0}, got : BOOLEAN, signalled : BOOLEAN]]
      BY <2>4, <3>1 DEF SecondarySendSync, TypeOK
    <3> QED BY <2>4, <3>1, <3>2, <3>3 DEF SecondarySendSync, TypeOK
  <2>5. CASE Invalidate(p)
    BY <2>5 DEF Invalidate, TypeOK
  <2>6. CASE FinishInvalid(p)
    <3>1. stack' \in [Procs -> Seq(Frame)]
      BY <2>6, TopTypes DEF FinishInvalid, At, TypeOK
    <3>2. out' \in [Procs -> Seq(Message)]
      <4>1. CASE UNCHANGED out
        BY <4>1 DEF TypeOK
      <4>2. CASE Top(p).msg.kind = "sync" /\ SendMessage(p, "reply", Top(p).msg.id, FALSE)
        <5>1. Top(p).msg.id \in Ids /\ FALSE \in BOOLEAN
          BY <2>6, <4>2, TopTypes, Fields DEF FinishInvalid, At
        <5> QED BY <4>2, <5>1, SendTypes
      <4> QED BY <2>6, <4>1, <4>2 DEF FinishInvalid
    <3> QED BY <2>6, <3>1, <3>2 DEF FinishInvalid, TypeOK
  <2> QED BY <1>1, <2>1, <2>2, <2>3, <2>4, <2>5, <2>6 DEF AppSends
<1>2. ASSUME NEW p \in Procs, MainThread(p) PROVE TypeOK'
  <2>0. ASSUME runLoop' = [runLoop EXCEPT ![p] = Tail(@)], runLoop[p] # <<>>
        PROVE  runLoop' \in [Procs -> Seq({"one", "sync", "close"})]
    <3>1. Tail(runLoop[p]) \in Seq({"one", "sync", "close"})
      BY <2>0, HeadTailProperties DEF TypeOK
    <3> QED BY <2>0, <3>1 DEF TypeOK
  <2>1. CASE DispatchOneMessage(p)
    <3>1. runLoop' \in [Procs -> Seq({"one", "sync", "close"})]
      BY <2>0, <2>1 DEF DispatchOneMessage
    <3>2. CASE incoming[p] = <<>>
      BY <2>1, <3>1, <3>2 DEF DispatchOneMessage, TypeOK
    <3>3. CASE incoming[p] # <<>>
      <4>1. Head(incoming[p]) \in Message /\ Tail(incoming[p]) \in Seq(Message)
        BY <3>3, HeadTailProperties DEF TypeOK
      <4>2. Append(stack[p], Handler(Head(incoming[p]))) \in Seq(Frame)
        BY <4>1, Frames, Appended DEF TypeOK
      <4>3. stack' \in [Procs -> Seq(Frame)]
        BY <2>1, <3>3, <4>2 DEF DispatchOneMessage, Dispatch, TypeOK
      <4> QED BY <2>1, <3>1, <3>3, <4>1, <4>3 DEF DispatchOneMessage, TypeOK
    <3> QED BY <3>2, <3>3
  <2>2. CASE ResetDidSchedule(p)
    <3>1. runLoop' \in [Procs -> Seq({"one", "sync", "close"})]
      BY <2>0, <2>2 DEF ResetDidSchedule
    <3>2. Append(stack[p], Swap) \in Seq(Frame)
      BY Frames, Appended DEF TypeOK
    <3> QED BY <2>2, <3>1, <3>2 DEF ResetDidSchedule, TypeOK
  <2>3. CASE DispatchDidClose(p)
    <3>1. runLoop' \in [Procs -> Seq({"one", "sync", "close"})]
      BY <2>0, <2>3 DEF DispatchDidClose
    <3> QED BY <2>3, <3>1 DEF DispatchDidClose, TypeOK
  <2>4. CASE SwapMessages(p)
    <3>1. Append(Front(stack[p]), Drain(syncQueue[p])) \in Seq(Frame) /\ <<>> \in Seq(Message)
      <4>1. stack[p] # <<>> /\ syncQueue[p] \in Seq(Message)
        BY <2>4 DEF SwapMessages, At, TypeOK
      <4>2. Front(stack[p]) \in Seq(Frame)
        BY <4>1, TopTypes
      <4>3. Drain(syncQueue[p]) \in Frame
        BY <4>1, Frames
      <4> QED BY <4>2, <4>3, Appended, EmptySeq
    <3>2. stack' \in [Procs -> Seq(Frame)]
      BY <2>4, <3>1 DEF SwapMessages, TypeOK
    <3>3. syncQueue' \in [Procs -> Seq(Message)]
      BY <2>4, <3>1 DEF SwapMessages, TypeOK
    <3> QED BY <2>4, <3>2, <3>3 DEF SwapMessages, TypeOK
  <2>5. CASE DrainNext(p)
    <3>1. Head(Top(p).todo) \in Message /\ Tail(Top(p).todo) \in Seq(Message)
      BY <2>5, TopTypes, HeadTailProperties DEF DrainNext, At
    <3>2. Append(Front(stack[p]), Drain(Tail(Top(p).todo))) \in Seq(Frame)
      BY <2>5, <3>1, TopTypes, Frames, Appended DEF DrainNext, At
    <3>3. Append(Append(Front(stack[p]), Drain(Tail(Top(p).todo))), Handler(Head(Top(p).todo))) \in Seq(Frame)
      BY <3>1, <3>2, Frames, Appended
    <3>4. stack' \in [Procs -> Seq(Frame)]
      BY <2>5, <3>2, <3>3 DEF DrainNext, Dispatch, TypeOK
    <3> QED BY <2>5, <3>4 DEF DrainNext, TypeOK
  <2>6. CASE DrainDone(p)
    BY <2>6, TopTypes DEF DrainDone, At, TypeOK
  <2>7. CASE FinishHandler(p)
    <3>1. stack' \in [Procs -> Seq(Frame)]
      BY <2>7, TopTypes DEF FinishHandler, At, TypeOK
    <3>2. Top(p).msg.kind = "sync" => Top(p).msg.id \in Ids
      BY <2>7, TopTypes, Fields DEF FinishHandler, At
    <3>3. out' \in [Procs -> Seq(Message)] /\ delayed' \in [Procs -> SUBSET Ids]
      <4>1. CASE UNCHANGED <<out, delayed>>
        BY <4>1 DEF TypeOK
      <4>2. CASE Top(p).msg.kind = "sync" /\ SendMessage(p, "reply", Top(p).msg.id, FALSE) /\ UNCHANGED delayed
        <5>1. FALSE \in BOOLEAN
          OBVIOUS
        <5>2. out' \in [Procs -> Seq(Message)]
          BY <3>2, <4>2, <5>1, SendTypes
        <5> QED BY <4>2, <5>2 DEF TypeOK
      <4>3. CASE Top(p).msg.kind = "sync" /\ UNCHANGED out
                 /\ delayed' = [delayed EXCEPT ![p] = @ \union {Top(p).msg.id}]
        BY <3>2, <4>3 DEF TypeOK
      <4> QED BY <2>7, <4>1, <4>2, <4>3 DEF FinishHandler
    <3> QED BY <2>7, <3>1, <3>3 DEF FinishHandler, TypeOK
  <2>8. CASE CheckSyncReply(p)
    <3>1. CASE ReturnFromSync(p, Last(pending[p]).got)
      BY <2>8, <3>1, ReturnTypes DEF CheckSyncReply, At, TypeOK
    <3>2. CASE stack' = [stack EXCEPT ![p] = Append(Front(@), Wait("sleep", Top(p).id))] /\ UNCHANGED <<alive, pending>>
      <4>1. Append(Front(stack[p]), Wait("sleep", Top(p).id)) \in Seq(Frame)
        BY <2>8, TopTypes, Frames, Appended DEF CheckSyncReply, At
      <4> QED BY <2>8, <3>2, <4>1 DEF CheckSyncReply, TypeOK
    <3> QED BY <2>8, <3>1, <3>2 DEF CheckSyncReply
  <2>9. CASE WakeUp(p)
    <3>1. Append(Append(Front(stack[p]), Wait("check", Top(p).id)), Swap) \in Seq(Frame)
      BY <2>9, TopTypes, Frames, Appended DEF WakeUp, At
    <3> QED BY <2>9, <3>1 DEF WakeUp, TypeOK
  <2> QED BY <1>2, <2>1, <2>2, <2>3, <2>4, <2>5, <2>6, <2>7, <2>8, <2>9 DEF MainThread
<1>3. ASSUME NEW p \in Procs, WorkQueue(p) PROVE TypeOK'
  <2>0. ASSUME out[p] # <<>>
        PROVE  Head(out[p]) \in Message /\ Tail(out[p]) \in Seq(Message)
    BY <2>0, HeadTailProperties DEF TypeOK
  <2>1. ASSUME DidClose(p)
        PROVE  /\ connected' \in [Procs -> BOOLEAN] /\ shouldWait' \in [Procs -> BOOLEAN]
               /\ semaphore' \in [Procs -> BOOLEAN]
               /\ second' \in [Procs -> [id : Ids \union {0}, got : BOOLEAN, signalled : BOOLEAN]]
               /\ runLoop' \in [Procs -> Seq({"one", "sync", "close"})]
    <3>1. Append(runLoop[p], "close") \in Seq({"one", "sync", "close"})
      BY Appended DEF TypeOK
    <3>2. semaphore' \in [Procs -> BOOLEAN]
      <4>1. (semaphore[p] \/ pending[p] # <<>>) \in BOOLEAN
        OBVIOUS
      <4> QED BY <2>1, <4>1, Zenon DEF DidClose, TypeOK
    <3>3. second' \in [Procs -> [id : Ids \union {0}, got : BOOLEAN, signalled : BOOLEAN]]
      <4>1. PICK b \in BOOLEAN : b = (second[p].signalled \/ second[p].id # 0)
        OBVIOUS
      <4>2. second' = [second EXCEPT ![p].signalled = b]
        BY <2>1, <4>1 DEF DidClose
      <4> QED BY <4>2 DEF TypeOK
    <3>4. /\ connected' \in [Procs -> BOOLEAN] /\ shouldWait' \in [Procs -> BOOLEAN]
          /\ runLoop' \in [Procs -> Seq({"one", "sync", "close"})]
      BY <2>1, <3>1 DEF DidClose, TypeOK
    <3> QED BY <3>2, <3>3, <3>4
  <2>2. CASE WriteMessage(p)
    <3>1. Append(wire[Peer(p)], Head(out[p])) \in Seq(Message)
      BY <2>0, <2>2, PeerType, Appended DEF WriteMessage, TypeOK
    <3>2. (Tail(out[p]) # <<>>) \in BOOLEAN
      OBVIOUS
    <3>3. writing' \in [Procs -> BOOLEAN]
      BY <2>2, <3>2, Zenon DEF WriteMessage, TypeOK
    <3> QED BY <2>0, <2>2, <3>1, <3>3, PeerType DEF WriteMessage, TypeOK
  <2>3. CASE WriteBlocks(p)
    BY <2>3 DEF WriteBlocks, TypeOK
  <2>4. CASE WriteFails(p)
    BY <2>0, <2>4 DEF WriteFails, LoseMessage, TypeOK
  <2>5. CASE WriteShutsDown(p)
    <3>1. out' \in [Procs -> Seq(Message)] /\ writing' \in [Procs -> BOOLEAN]
      BY <2>0, <2>5 DEF WriteShutsDown, LoseMessage, TypeOK
    <3>2. DidClose(p) /\ UNCHANGED reading
      BY <2>5 DEF WriteShutsDown
    <3> QED BY <2>1, <3>1, <3>2 DEF DidClose, TypeOK
  <2>6. CASE ProcessIncomingMessage(p)
    <3>1. Head(wire[p]) \in Message /\ Tail(wire[p]) \in Seq(Message)
      BY <2>6, HeadTailProperties DEF ProcessIncomingMessage, TypeOK
    <3>2. wire' \in [Procs -> Seq(Message)]
      BY <2>6, <3>1 DEF ProcessIncomingMessage, TypeOK
    <3>3. PICK m \in Message : m = Head(wire[p])
      BY <3>1
    <3>4. CASE ProcessSyncReply(p, m) /\ UNCHANGED inVars
      <4> DEFINE hits == {i \in DOMAIN pending[p] : pending[p][i].id = m.id}
      <4>1. CASE hits # {}
        <5> DEFINE r == [i \in DOMAIN pending[p] |-> IF i \in hits THEN [pending[p][i] EXCEPT !.got = TRUE] ELSE pending[p][i]]
        <5>1. pending' = [pending EXCEPT ![p] = r] /\ UNCHANGED second
          BY <3>4, <4>1 DEF ProcessSyncReply
        <5>2. r \in Seq([id : Ids, got : BOOLEAN])
          <6>1. /\ DOMAIN pending[p] = 1..Len(pending[p]) /\ Len(pending[p]) \in Nat
                /\ \A i \in 1..Len(pending[p]) : pending[p][i] \in [id : Ids, got : BOOLEAN]
            BY LenProperties, ElementOfSeq DEF TypeOK
          <6> HIDE DEF hits
          <6>2. r \in [1..Len(pending[p]) -> [id : Ids, got : BOOLEAN]]
            BY <6>1
          <6> QED BY <6>1, <6>2, SeqDef
        <5> HIDE DEF r
        <5>3. pending' \in [Procs -> Seq([id : Ids, got : BOOLEAN])]
          BY <5>1, <5>2 DEF TypeOK
        <5>4. semaphore' \in [Procs -> BOOLEAN]
          <6>1. PICK b \in BOOLEAN : b = (semaphore[p] \/ Len(pending[p]) \in hits)
            OBVIOUS
          <6>2. semaphore' = [semaphore EXCEPT ![p] = b]
            BY <3>4, <4>1, <6>1 DEF ProcessSyncReply
          <6> QED BY <6>2 DEF TypeOK
        <5> QED BY <2>6, <3>2, <3>4, <5>1, <5>3, <5>4 DEF ProcessIncomingMessage, TypeOK
      <4>2. CASE hits = {}
        <5>1. second' \in [Procs -> [id : Ids \union {0}, got : BOOLEAN, signalled : BOOLEAN]]
          <6>1. second' = IF second[p].id = m.id
                          THEN [second EXCEPT ![p].got = TRUE, ![p].signalled = TRUE]
                          ELSE second
            BY <3>4, <4>2 DEF ProcessSyncReply
          <6>2. second \in [Procs -> [id : Ids \union {0}, got : BOOLEAN, signalled : BOOLEAN]]
            BY DEF TypeOK
          <6>3. [second EXCEPT ![p].got = TRUE] \in [Procs -> [id : Ids \union {0}, got : BOOLEAN, signalled : BOOLEAN]]
            BY <6>2
          <6>4. [[second EXCEPT ![p].got = TRUE] EXCEPT ![p].signalled = TRUE]
                  \in [Procs -> [id : Ids \union {0}, got : BOOLEAN, signalled : BOOLEAN]]
            BY <6>3
          <6>5. [second EXCEPT ![p].got = TRUE, ![p].signalled = TRUE]
                  = [[second EXCEPT ![p].got = TRUE] EXCEPT ![p].signalled = TRUE]
            OBVIOUS
          <6> QED BY <6>1, <6>2, <6>4, <6>5
        <5>2. UNCHANGED <<pending, semaphore>>
          BY <3>4, <4>2 DEF ProcessSyncReply
        <5> QED BY <2>6, <3>2, <3>4, <5>1, <5>2 DEF ProcessIncomingMessage, TypeOK
      <4> QED BY <4>1, <4>2
    <3>5. CASE ProcessMarked(p, m) /\ UNCHANGED <<incoming, pending, second>>
      <4>1. Append(syncQueue[p], m) \in Seq(Message)
        BY Appended DEF TypeOK
      <4>2. Append(runLoop[p], "sync") \in Seq({"one", "sync", "close"})
        BY Appended DEF TypeOK
      <4>3. runLoop' \in [Procs -> Seq({"one", "sync", "close"})]
        BY <3>5, <4>2 DEF ProcessMarked, TypeOK
      <4> QED BY <2>6, <3>2, <3>5, <4>1, <4>3 DEF ProcessIncomingMessage, ProcessMarked, TypeOK
    <3>6. CASE /\ incoming' = [incoming EXCEPT ![p] = Append(@, m)]
               /\ runLoop' = [runLoop EXCEPT ![p] = Append(@, "one")]
               /\ UNCHANGED <<syncQueue, scheduled, semaphore, pending, second>>
      <4>1. Append(incoming[p], m) \in Seq(Message)
        BY Appended DEF TypeOK
      <4>2. Append(runLoop[p], "one") \in Seq({"one", "sync", "close"})
        BY Appended DEF TypeOK
      <4> QED BY <2>6, <3>2, <3>6, <4>1, <4>2 DEF ProcessIncomingMessage, TypeOK
    <3> QED BY <2>6, <3>3, <3>4, <3>5, <3>6 DEF ProcessIncomingMessage
  <2>7. CASE ConnectionDidClose(p)
    <3>1. DidClose(p) /\ reading' = [reading EXCEPT ![p] = FALSE] /\ UNCHANGED <<out, writing>>
      BY <2>7 DEF ConnectionDidClose
    <3> QED BY <2>1, <3>1 DEF DidClose, TypeOK
  <2>8. CASE ReadFails(p)
    BY <2>8 DEF ReadFails, TypeOK
  <2>9. CASE PlatformInvalidate(p)
    <3>1. PICK b \in BOOLEAN : b = (reading[p] /\ ~Unix)
      OBVIOUS
    <3>2. reading' = [reading EXCEPT ![p] = b]
      BY <2>9, <3>1 DEF PlatformInvalidate
    <3> QED BY <2>9, <3>2 DEF PlatformInvalidate, TypeOK
  <2>10. CASE PerformClose(p)
    BY <2>10 DEF PerformClose, TypeOK
  <2> QED BY <1>3, <2>2, <2>3, <2>4, <2>5, <2>6, <2>7, <2>8, <2>9, <2>10 DEF WorkQueue
<1>4. ASSUME NEW p \in Procs, SendDelayedReply(p) PROVE TypeOK'
  <2>1. PICK id \in delayed[p] : /\ delayed' = [delayed EXCEPT ![p] = @ \ {id}]
                                 /\ SendMessage(p, "reply", id, FALSE)
    BY <1>4 DEF SendDelayedReply
  <2>2. id \in Ids /\ FALSE \in BOOLEAN
    BY <2>1 DEF TypeOK
  <2>3. out' \in [Procs -> Seq(Message)]
    BY <2>1, <2>2, SendTypes
  <2> QED BY <1>4, <2>1, <2>3 DEF SendDelayedReply, TypeOK
<1>5. ASSUME NEW p \in Procs, SecondaryReturns(p) PROVE TypeOK'
  BY <1>5 DEF SecondaryReturns, NoSecond, TypeOK
<1>6. ASSUME NEW p \in Procs, SyncTimesOut(p) PROVE TypeOK'
  <2>1. FALSE \in BOOLEAN /\ ReturnFromSync(p, FALSE) /\ stack[p] # <<>>
    BY <1>6 DEF SyncTimesOut, At
  <2> QED BY <1>6, <2>1, ReturnTypes DEF SyncTimesOut, TypeOK
<1>7. ASSUME NEW p \in Procs, Crash(p) PROVE TypeOK'
  BY <1>7 DEF Crash, TypeOK
<1> QED BY <1>0, <1>1, <1>2, <1>3, <1>4, <1>5, <1>6, <1>7 DEF Next

\* Whatever is sent, dispatched or lost, a pending reply, an activation and a message
\* carry only ids the sender handed out.
THEOREM ConnectionTypes == Spec => []TypeOK
  BY InitTypes, NextTypes, PTL DEF Spec

-----------------------------------------------------------------------------
(* The pending replies list the activations that wait.                     *)

PendingReply == [id : Ids, got : BOOLEAN]

Matches(frames, replies) ==
  /\ Cardinality(Waits(frames)) = Len(replies)
  /\ \A i \in Waits(frames) : frames[i].id = replies[Depth(frames, i)].id

LEMMA FiniteWaits ==
  ASSUME NEW s \in Seq(Frame)
  PROVE  /\ Waits(s) \subseteq 1..Len(s) /\ IsFiniteSet(Waits(s)) /\ Cardinality(Waits(s)) \in Nat
         /\ \A i \in Waits(s) : Depth(s, i) \in 1..Cardinality(Waits(s))
<1>1. Len(s) \in Nat /\ DOMAIN s = 1..Len(s)
  BY LenProperties
<1>2. IsFiniteSet(1..Len(s)) /\ Waits(s) \subseteq 1..Len(s)
  BY <1>1, FS_Interval DEF Waits
<1>3. IsFiniteSet(Waits(s))
  BY <1>2, FS_Subset
<1>4. Cardinality(Waits(s)) \in Nat
  BY <1>3, FS_CardinalityType
<1>5. ASSUME NEW i \in Waits(s) PROVE Depth(s, i) \in 1..Cardinality(Waits(s))
  <2> DEFINE D == {j \in Waits(s) : j <= i}
  <2>1. D \subseteq Waits(s) /\ i \in D
    BY <1>1, <1>2
  <2>2. IsFiniteSet(D) /\ Cardinality(D) <= Cardinality(Waits(s))
    BY <1>3, <2>1, FS_Subset
  <2>3. Cardinality(D) \in Nat /\ Cardinality(D) # 0
    <3>1. D # {}
      BY <2>1
    <3> HIDE DEF D
    <3> QED BY <2>2, <3>1, FS_CardinalityType, FS_EmptySet
  <2>4. Depth(s, i) = Cardinality(D)
    BY DEF Depth
  <2> HIDE DEF D
  <2>5. \A n, k \in Nat : n # 0 /\ n <= k => n \in 1..k
    OBVIOUS
  <2> QED BY <1>4, <2>2, <2>3, <2>4, <2>5
<1> QED BY <1>2, <1>3, <1>4, <1>5

\* An activation on top leaves those below, and how deep they are, alone.
LEMMA WaitsPushed ==
  ASSUME NEW s \in Seq(Frame), NEW f \in Frame
  PROVE  /\ Waits(Append(s, f)) = Waits(s) \union (IF IsWait(f) THEN {Len(s) + 1} ELSE {})
         /\ Len(s) + 1 \notin Waits(s)
         /\ \A i \in Waits(s) : Depth(Append(s, f), i) = Depth(s, i) /\ Append(s, f)[i] = s[i]
<1> DEFINE t == Append(s, f)
<1>1. /\ t \in Seq(Frame) /\ Len(t) = Len(s) + 1 /\ Len(s) \in Nat
      /\ \A i \in 1..Len(s) : t[i] = s[i]
      /\ t[Len(s) + 1] = f
  BY Appended
<1> HIDE DEF t
<1>2. DOMAIN t = 1..(Len(s) + 1) /\ DOMAIN s = 1..Len(s)
  BY <1>1, LenProperties
<1>3. \A i : i \in 1..(Len(s) + 1) <=> i \in 1..Len(s) \/ i = Len(s) + 1
  BY <1>1
<1>4. Len(s) + 1 \notin 1..Len(s)
  BY <1>1
<1>5. Waits(t) = Waits(s) \union (IF IsWait(f) THEN {Len(s) + 1} ELSE {})
  BY <1>1, <1>2, <1>3, <1>4 DEF Waits
<1>6. ASSUME NEW i \in Waits(s) PROVE Depth(t, i) = Depth(s, i) /\ t[i] = s[i]
  <2>1. i \in 1..Len(s) /\ ~(Len(s) + 1 <= i)
    BY <1>1, <1>2 DEF Waits
  <2>2. {j \in Waits(t) : j <= i} = {j \in Waits(s) : j <= i}
    BY <1>5, <2>1
  <2> QED BY <1>1, <2>1, <2>2 DEF Depth
<1> QED BY <1>2, <1>4, <1>5, <1>6 DEF t, Waits

LEMMA TopDepth ==
  ASSUME NEW s \in Seq(Frame), NEW f \in Frame, IsWait(f)
  PROVE  /\ Cardinality(Waits(Append(s, f))) = Cardinality(Waits(s)) + 1
         /\ Depth(Append(s, f), Len(s) + 1) = Cardinality(Waits(s)) + 1
<1>1. Waits(Append(s, f)) = Waits(s) \union {Len(s) + 1} /\ Len(s) + 1 \notin Waits(s)
  BY WaitsPushed
<1>2. Cardinality(Waits(s) \union {Len(s) + 1}) = Cardinality(Waits(s)) + 1
  BY <1>1, FiniteWaits, FS_AddElement
<1>3. Len(s) \in Nat
  BY LenProperties
<1>4. \A j \in Waits(s) \union {Len(s) + 1} : j <= Len(s) + 1
  BY <1>3, FiniteWaits
<1>5. {j \in Waits(Append(s, f)) : j <= Len(s) + 1} = Waits(s) \union {Len(s) + 1}
  BY <1>1, <1>4
<1> QED BY <1>1, <1>2, <1>5 DEF Depth

LEMMA PlainPushed ==
  ASSUME NEW s \in Seq(Frame), NEW f \in Frame, ~IsWait(f), NEW r \in Seq(PendingReply)
  PROVE  Matches(Append(s, f), r) <=> Matches(s, r)
<1>1. Waits(Append(s, f)) = Waits(s)
  BY WaitsPushed
<1>2. \A i \in Waits(s) : Depth(Append(s, f), i) = Depth(s, i) /\ Append(s, f)[i] = s[i]
  BY WaitsPushed
<1> QED BY <1>1, <1>2 DEF Matches

LEMMA WaitPushed ==
  ASSUME NEW s \in Seq(Frame), NEW f \in Frame, IsWait(f),
         NEW r \in Seq(PendingReply), NEW e \in PendingReply, e.id = f.id,
         Matches(s, r)
  PROVE  Matches(Append(s, f), Append(r, e))
<1> DEFINE t == Append(s, f)
           u == Append(r, e)
<1>1. Len(u) = Len(r) + 1 /\ Len(r) \in Nat /\ u[Len(r) + 1] = e
      /\ \A i \in 1..Len(r) : u[i] = r[i]
  BY Appended
<1>2. Cardinality(Waits(t)) = Len(r) + 1 /\ Depth(t, Len(s) + 1) = Len(r) + 1
  BY TopDepth DEF Matches
<1>3. t[Len(s) + 1] = f
  BY Appended
<1>4. Waits(t) = Waits(s) \union {Len(s) + 1}
  BY WaitsPushed
<1>5. ASSUME NEW i \in Waits(s) PROVE t[i].id = u[Depth(t, i)].id
  <2>1. Depth(t, i) = Depth(s, i) /\ t[i] = s[i]
    BY WaitsPushed
  <2>2. Depth(s, i) \in 1..Len(r)
    BY FiniteWaits DEF Matches
  <2>3. s[i].id = r[Depth(s, i)].id
    BY DEF Matches
  <2> HIDE DEF t, u
  <2> QED BY <1>1, <2>1, <2>2, <2>3
<1> HIDE DEF t, u
<1>6. \A i \in Waits(t) : t[i].id = u[Depth(t, i)].id
  BY <1>1, <1>2, <1>3, <1>4, <1>5
<1> QED BY <1>1, <1>2, <1>6 DEF Matches, t, u

LEMMA WaitPopped ==
  ASSUME NEW s \in Seq(Frame), NEW f \in Frame, IsWait(f),
         NEW r \in Seq(PendingReply), Matches(Append(s, f), r)
  PROVE  /\ r # <<>> /\ Last(r) \in PendingReply /\ Last(r).id = f.id
         /\ Front(r) \in Seq(PendingReply)
         /\ Matches(s, Front(r))
<1> DEFINE t == Append(s, f)
<1>1. Len(r) = Cardinality(Waits(s)) + 1 /\ Depth(t, Len(s) + 1) = Cardinality(Waits(s)) + 1
  BY TopDepth DEF Matches
<1>2. Cardinality(Waits(s)) \in Nat
  BY FiniteWaits
<1>3. r # <<>>
  <2>1. Len(r) # 0
    BY <1>1, <1>2
  <2> QED BY <2>1, EmptySeq
<1>4. Front(r) \in Seq(PendingReply) /\ Last(r) \in PendingReply /\ r = Append(Front(r), Last(r))
  BY <1>3, Popped
<1>5. PICK q \in Seq(PendingReply), e \in PendingReply : q = Front(r) /\ e = Last(r) /\ r = Append(q, e)
  BY <1>4
<1>6. /\ Len(r) = Len(q) + 1 /\ Len(q) \in Nat /\ r[Len(q) + 1] = e
      /\ \A i \in 1..Len(q) : r[i] = q[i]
  BY <1>5, Appended
<1>7. Len(q) = Cardinality(Waits(s))
  BY <1>1, <1>2, <1>6
<1>8. Len(s) + 1 \in Waits(t) /\ t[Len(s) + 1] = f
  BY WaitsPushed, Appended
<1>9. e.id = f.id
  BY <1>1, <1>6, <1>7, <1>8 DEF Matches
<1>10. ASSUME NEW i \in Waits(s) PROVE s[i].id = q[Depth(s, i)].id
  <2>1. Depth(t, i) = Depth(s, i) /\ t[i] = s[i] /\ i \in Waits(t)
    BY WaitsPushed
  <2>2. Depth(s, i) \in 1..Len(q)
    BY <1>7, FiniteWaits
  <2>3. t[i].id = r[Depth(t, i)].id
    BY <2>1 DEF Matches
  <2> QED BY <1>6, <2>1, <2>2, <2>3
<1> QED BY <1>3, <1>4, <1>5, <1>7, <1>9, <1>10 DEF Matches

\* The same wait goes on in another phase.
LEMMA WaitReplaced ==
  ASSUME NEW s \in Seq(Frame), NEW f \in Frame, IsWait(f), NEW g \in Frame, IsWait(g), g.id = f.id,
         NEW r \in Seq(PendingReply), Matches(Append(s, f), r)
  PROVE  Matches(Append(s, g), r)
<1>1. /\ r # <<>> /\ Last(r) \in PendingReply /\ Last(r).id = f.id
      /\ Front(r) \in Seq(PendingReply) /\ Matches(s, Front(r))
  BY WaitPopped
<1>2. Matches(Append(s, g), Append(Front(r), Last(r)))
  BY <1>1, WaitPushed
<1> QED BY <1>1, <1>2, Popped

LEMMA SameIds ==
  ASSUME NEW s \in Seq(Frame), NEW r \in Seq(PendingReply), NEW u, Matches(s, r),
         Len(u) = Len(r), \A i \in 1..Len(r) : u[i].id = r[i].id
  PROVE  Matches(s, u)
<1>1. \A i \in Waits(s) : Depth(s, i) \in 1..Len(r)
  BY FiniteWaits DEF Matches
<1> QED BY <1>1 DEF Matches

-----------------------------------------------------------------------------
(* Only the innermost activation sleeps.                                   *)

NoneAsleep(frames) == \A i \in 1..Len(frames) : frames[i].at # "sleep"

\* The inductive invariant behind PendingMatchesStack.
Fits(frames, replies) ==
  /\ Matches(frames, replies)
  /\ frames # <<>> => NoneAsleep(Front(frames))

Nested == \A p \in Procs : Fits(stack[p], pending[p])

LEMMA AsleepPushed ==
  ASSUME NEW s \in Seq(Frame), NEW f \in Frame
  PROVE  NoneAsleep(Append(s, f)) <=> NoneAsleep(s) /\ f.at # "sleep"
<1> DEFINE t == Append(s, f)
<1>1. /\ Len(t) = Len(s) + 1 /\ Len(s) \in Nat
      /\ \A i \in 1..Len(s) : t[i] = s[i]
      /\ t[Len(s) + 1] = f
  BY Appended
<1> HIDE DEF t
<1>2. \A i : i \in 1..Len(t) <=> i \in 1..Len(s) \/ i = Len(s) + 1
  BY <1>1
<1> QED BY <1>1, <1>2 DEF NoneAsleep, t

LEMMA AllAwake ==
  ASSUME NEW s \in Seq(Frame), NEW r, Fits(s, r), s # <<>> => Last(s).at # "sleep"
  PROVE  NoneAsleep(s)
<1>1. CASE s = <<>>
  <2>1. Len(s) = 0
    BY <1>1
  <2> QED BY <2>1 DEF NoneAsleep
<1>2. CASE s # <<>>
  <2>1. s = Append(Front(s), Last(s)) /\ Front(s) \in Seq(Frame) /\ Last(s) \in Frame
    BY <1>2, Popped
  <2> QED BY <1>2, <2>1, AsleepPushed DEF Fits
<1> QED BY <1>1, <1>2

LEMMA FitsPushed ==
  ASSUME NEW s \in Seq(Frame), NEW f \in Frame, NEW r \in Seq(PendingReply),
         NoneAsleep(s), Matches(Append(s, f), r)
  PROVE  Fits(Append(s, f), r)
  BY Appended DEF Fits

LEMMA FitsAfterPop ==
  ASSUME NEW s \in Seq(Frame), NEW r \in Seq(PendingReply), NoneAsleep(s), Matches(s, r)
  PROVE  Fits(s, r)
<1>1. CASE s # <<>>
  <2>1. s = Append(Front(s), Last(s)) /\ Front(s) \in Seq(Frame) /\ Last(s) \in Frame
    BY <1>1, Popped
  <2> QED BY <2>1, AsleepPushed DEF Fits
<1> QED BY <1>1 DEF Fits

LEMMA OthersFit ==
  ASSUME TypeOK, Nested, NEW p \in Procs, NEW s, NEW r,
         stack' = [stack EXCEPT ![p] = s], pending' = [pending EXCEPT ![p] = r], Fits(s, r)
  PROVE  Nested'
<1>1. \A q \in Procs : stack'[q] = (IF q = p THEN s ELSE stack[q])
                     /\ pending'[q] = (IF q = p THEN r ELSE pending[q])
  BY DEF TypeOK
<1>2. \A q \in Procs : Fits(stack'[q], pending'[q])
  BY <1>1 DEF Nested
<1> QED BY <1>2 DEF Nested

\* The stack and the pending replies of a process that an action leaves alone.
LEMMA SamePending ==
  ASSUME TypeOK, NEW p \in Procs, UNCHANGED pending
  PROVE  pending' = [pending EXCEPT ![p] = pending[p]]
  BY DEF TypeOK

LEMMA InitNested == Init => Nested
<1> SUFFICES ASSUME Init, NEW p \in Procs PROVE Fits(<<>>, <<>>)
  BY DEF Nested, Init
<1>1. Waits(<<>>) = {}
  BY DEF Waits
<1> QED BY <1>1, FS_EmptySet DEF Fits, Matches

\* A handler, dispatchMessages or a drain goes on top of activations that are awake.
LEMMA PushPlain ==
  ASSUME TypeOK, Nested, NEW p \in Procs, NEW f \in Frame, ~IsWait(f),
         stack[p] # <<>> => Top(p).at # "sleep"
  PROVE  Fits(Append(stack[p], f), pending[p])
<1>1. stack[p] \in Seq(Frame) /\ pending[p] \in Seq(PendingReply) /\ Fits(stack[p], pending[p])
  BY DEF TypeOK, PendingReply, Nested
<1>2. NoneAsleep(stack[p])
  BY <1>1, AllAwake DEF Top
<1>3. Matches(Append(stack[p], f), pending[p])
  BY <1>1, PlainPushed DEF Fits
<1> QED BY <1>1, <1>2, <1>3, FitsPushed

\* What lies under an activation that does not wait.
LEMMA UnderPlain ==
  ASSUME TypeOK, Nested, NEW p \in Procs, stack[p] # <<>>, ~IsWait(Top(p))
  PROVE  /\ Front(stack[p]) \in Seq(Frame) /\ pending[p] \in Seq(PendingReply)
         /\ NoneAsleep(Front(stack[p])) /\ Matches(Front(stack[p]), pending[p])
         /\ Fits(Front(stack[p]), pending[p])
<1>1. pending[p] \in Seq(PendingReply) /\ Fits(stack[p], pending[p])
  BY DEF TypeOK, PendingReply, Nested
<1>2. /\ Front(stack[p]) \in Seq(Frame) /\ Top(p) \in Frame
      /\ stack[p] = Append(Front(stack[p]), Top(p))
  BY TopTypes
<1>3. NoneAsleep(Front(stack[p])) /\ Matches(stack[p], pending[p])
  BY <1>1 DEF Fits
<1>4. Matches(Front(stack[p]), pending[p])
  BY <1>1, <1>2, <1>3, PlainPushed
<1> QED BY <1>1, <1>2, <1>3, <1>4, FitsAfterPop

\* What lies under one that waits, and its pending reply.
LEMMA UnderWait ==
  ASSUME TypeOK, Nested, NEW p \in Procs, stack[p] # <<>>, IsWait(Top(p))
  PROVE  /\ pending[p] # <<>> /\ Last(pending[p]).id = Top(p).id
         /\ Front(stack[p]) \in Seq(Frame) /\ pending[p] \in Seq(PendingReply)
         /\ NoneAsleep(Front(stack[p]))
         /\ Fits(Front(stack[p]), Front(pending[p]))
         /\ \A g \in Frame : IsWait(g) /\ g.id = Top(p).id
               => Matches(Append(Front(stack[p]), g), pending[p])
<1>1. pending[p] \in Seq(PendingReply) /\ Fits(stack[p], pending[p])
  BY DEF TypeOK, PendingReply, Nested
<1>2. /\ Front(stack[p]) \in Seq(Frame) /\ Top(p) \in Frame
      /\ stack[p] = Append(Front(stack[p]), Top(p))
  BY TopTypes
<1>3. NoneAsleep(Front(stack[p])) /\ Matches(Append(Front(stack[p]), Top(p)), pending[p])
  BY <1>1, <1>2 DEF Fits
<1>4. /\ pending[p] # <<>> /\ Last(pending[p]).id = Top(p).id
      /\ Front(pending[p]) \in Seq(PendingReply)
      /\ Matches(Front(stack[p]), Front(pending[p]))
  BY <1>1, <1>2, <1>3, WaitPopped
<1>5. Fits(Front(stack[p]), Front(pending[p]))
  BY <1>2, <1>3, <1>4, FitsAfterPop
<1>6. \A g \in Frame : IsWait(g) /\ g.id = Top(p).id
        => Matches(Append(Front(stack[p]), g), pending[p])
  BY <1>1, <1>2, <1>3, WaitReplaced
<1> QED BY <1>1, <1>2, <1>3, <1>4, <1>5, <1>6

LEMMA ReturnNested ==
  ASSUME TypeOK, Nested, NEW p \in Procs, NEW replied, stack[p] # <<>>, IsWait(Top(p)),
         ReturnFromSync(p, replied)
  PROVE  Nested'
<1>1. /\ stack' = [stack EXCEPT ![p] = Front(stack[p])]
      /\ pending' = [pending EXCEPT ![p] = Front(pending[p])]
  BY DEF ReturnFromSync
<1>2. Fits(Front(stack[p]), Front(pending[p]))
  BY UnderWait
<1> QED BY <1>1, <1>2, OthersFit

\* The pending replies after processIncomingSyncReply.
Marked(replies, m) ==
  [i \in DOMAIN replies |->
     IF i \in {j \in DOMAIN replies : replies[j].id = m.id}
     THEN [replies[i] EXCEPT !.got = TRUE] ELSE replies[i]]

LEMMA RepliesMarked ==
  ASSUME NEW s \in Seq(PendingReply), NEW m
  PROVE  /\ Marked(s, m) \in Seq(PendingReply) /\ Len(Marked(s, m)) = Len(s)
         /\ \A i \in 1..Len(s) : Marked(s, m)[i].id = s[i].id
         /\ \A i \in 1..Len(s) : s[i].id # m.id => Marked(s, m)[i] = s[i]
<1> DEFINE r == Marked(s, m)
           hits == {j \in DOMAIN s : s[j].id = m.id}
<1>1. /\ DOMAIN s = 1..Len(s) /\ Len(s) \in Nat
      /\ \A i \in 1..Len(s) : s[i] \in PendingReply
  BY LenProperties, ElementOfSeq
<1>2. r = [i \in 1..Len(s) |-> IF i \in hits THEN [s[i] EXCEPT !.got = TRUE] ELSE s[i]]
  BY <1>1 DEF Marked
<1>3. \A i \in 1..Len(s) : i \in hits <=> s[i].id = m.id
  BY <1>1
<1> HIDE DEF hits, r
<1>4. r \in [1..Len(s) -> PendingReply]
  BY <1>1, <1>2 DEF PendingReply
<1>5. r \in Seq(PendingReply)
  BY <1>1, <1>4, SeqDef
<1>6. DOMAIN r = 1..Len(s) /\ DOMAIN r = 1..Len(r) /\ Len(r) \in Nat
  BY <1>4, <1>5, LenProperties
<1>7. \A a, b \in Nat : 1..a = 1..b => a = b
  <2> SUFFICES ASSUME NEW a \in Nat, NEW b \in Nat, 1..a = 1..b PROVE a = b
    OBVIOUS
  <2>1. a # 0 => a \in 1..b
    OBVIOUS
  <2>2. b # 0 => b \in 1..a
    OBVIOUS
  <2> QED BY <2>1, <2>2
<1>8. Len(r) = Len(s)
  BY <1>1, <1>6, <1>7
<1>9. \A i \in 1..Len(s) : r[i].id = s[i].id /\ (s[i].id # m.id => r[i] = s[i])
  BY <1>1, <1>2, <1>3 DEF PendingReply
<1> QED BY <1>5, <1>8, <1>9 DEF r

LEMMA NextNested == TypeOK /\ Nested /\ [Next]_vars => Nested'
<1> SUFFICES ASSUME TypeOK, Nested, [Next]_vars PROVE Nested'
  OBVIOUS
<1> USE DEF netVars, inVars, syncVars, threadVars, procVars
<1>0. ASSUME UNCHANGED <<stack, pending>> PROVE Nested'
  BY <1>0 DEF Nested
<1>1. ASSUME NEW p \in Procs, AppSends(p) PROVE Nested'
  <2>1. CASE SendSync(p)
    <3>1. NextId(p) \in Ids
      BY <2>1, IdTypes DEF SendSync
    <3> DEFINE s == Append(stack[p], Wait("check", NextId(p)))
               r == Append(pending[p], [id |-> NextId(p), got |-> FALSE])
    <3>2. stack[p] \in Seq(Frame) /\ pending[p] \in Seq(PendingReply) /\ Fits(stack[p], pending[p])
      BY DEF TypeOK, PendingReply, Nested
    <3>3. [id |-> NextId(p), got |-> FALSE] \in PendingReply
      BY <3>1 DEF PendingReply
    <3>4. /\ Wait("check", NextId(p)) \in Frame /\ IsWait(Wait("check", NextId(p)))
          /\ Wait("check", NextId(p)).id = NextId(p) /\ Wait("check", NextId(p)).at = "check"
      BY <3>1, Frames
    <3>5. Matches(s, r)
      BY <3>2, <3>3, <3>4, WaitPushed DEF Fits
    <3>6. s \in Seq(Frame) /\ r \in Seq(PendingReply)
      BY <3>2, <3>3, <3>4, Appended
    <3>7. NoneAsleep(stack[p])
      BY <2>1, <3>2, AllAwake DEF SendSync, AppCodeRuns, Top
    <3>8. NoneAsleep(s)
      BY <3>2, <3>4, <3>7, AsleepPushed
    <3>9. stack' = [stack EXCEPT ![p] = Append(s, Swap)] /\ pending' = [pending EXCEPT ![p] = r]
      BY <2>1 DEF SendSync
    <3> HIDE DEF s, r
    <3>10. Fits(Append(s, Swap), r)
      BY <3>5, <3>6, <3>8, Frames, PlainPushed, FitsPushed
    <3> QED BY <3>9, <3>10, OthersFit
  <2>2. CASE FinishInvalid(p)
    <3>1. Fits(Front(stack[p]), pending[p])
      BY <2>2, UnderPlain DEF FinishInvalid, At, IsWait
    <3>2. stack' = [stack EXCEPT ![p] = Front(stack[p])] /\ UNCHANGED pending
      BY <2>2 DEF FinishInvalid
    <3> QED BY <3>1, <3>2, SamePending, OthersFit
  <2>3. CASE (\E even \in BOOLEAN : SendAsync(p, even)) \/ SendSyncFails(p) \/ SecondarySendSync(p) \/ Invalidate(p)
    BY <1>0, <2>3 DEF SendAsync, SendSyncFails, SecondarySendSync, Invalidate
  <2> QED BY <1>1, <2>1, <2>2, <2>3 DEF AppSends
<1>2. ASSUME NEW p \in Procs, MainThread(p) PROVE Nested'
  <2>1. CASE DispatchOneMessage(p)
    <3>1. CASE incoming[p] = <<>> \/ ~client[p]
      <4>1. stack' = stack /\ UNCHANGED pending
        BY <2>1, <3>1 DEF DispatchOneMessage, Dispatch, TypeOK
      <4> QED BY <1>0, <4>1
    <3>2. CASE incoming[p] # <<>> /\ client[p]
      <4>1. /\ stack' = [stack EXCEPT ![p] = Append(stack[p], Handler(Head(incoming[p])))]
            /\ UNCHANGED pending /\ stack[p] = <<>>
        BY <2>1, <3>2 DEF DispatchOneMessage, Dispatch
      <4>2. Handler(Head(incoming[p])) \in Frame /\ ~IsWait(Handler(Head(incoming[p])))
        BY <3>2, Frames, HeadTailProperties DEF TypeOK
      <4>3. Fits(Append(stack[p], Handler(Head(incoming[p]))), pending[p])
        BY <4>1, <4>2, PushPlain
      <4> QED BY <4>1, <4>3, SamePending, OthersFit
    <3> QED BY <3>1, <3>2
  <2>2. CASE ResetDidSchedule(p)
    <3>1. /\ stack' = [stack EXCEPT ![p] = Append(stack[p], Swap)]
          /\ UNCHANGED pending /\ stack[p] = <<>>
      BY <2>2 DEF ResetDidSchedule
    <3>2. Fits(Append(stack[p], Swap), pending[p])
      BY <3>1, Frames, PushPlain
    <3> QED BY <3>1, <3>2, SamePending, OthersFit
  <2>3. CASE DispatchDidClose(p)
    BY <1>0, <2>3 DEF DispatchDidClose
  <2>4. CASE SwapMessages(p)
    <3>1. /\ stack' = [stack EXCEPT ![p] = Append(Front(stack[p]), Drain(syncQueue[p]))]
          /\ UNCHANGED pending
      BY <2>4 DEF SwapMessages
    <3>2. Drain(syncQueue[p]) \in Frame /\ ~IsWait(Drain(syncQueue[p]))
      BY Frames DEF TypeOK
    <3>3. Fits(Append(Front(stack[p]), Drain(syncQueue[p])), pending[p])
      BY <2>4, <3>2, UnderPlain, PlainPushed, FitsPushed DEF SwapMessages, At, IsWait
    <3> QED BY <3>1, <3>3, SamePending, OthersFit
  <2>5. CASE DrainNext(p)
    <3> DEFINE s == Append(Front(stack[p]), Drain(Tail(Top(p).todo)))
               h == Handler(Head(Top(p).todo))
    <3>1. /\ Head(Top(p).todo) \in Message /\ Tail(Top(p).todo) \in Seq(Message)
          /\ stack[p] # <<>> /\ ~IsWait(Top(p))
      BY <2>5, TopTypes, HeadTailProperties DEF DrainNext, At, IsWait
    <3>2. Drain(Tail(Top(p).todo)) \in Frame /\ ~IsWait(Drain(Tail(Top(p).todo)))
          /\ Drain(Tail(Top(p).todo)).at # "sleep" /\ h \in Frame /\ ~IsWait(h)
      BY <3>1, Frames
    <3>3. /\ Front(stack[p]) \in Seq(Frame) /\ pending[p] \in Seq(PendingReply)
          /\ NoneAsleep(Front(stack[p])) /\ Matches(Front(stack[p]), pending[p])
      BY <3>1, UnderPlain
    <3>4. Matches(s, pending[p]) /\ s \in Seq(Frame) /\ NoneAsleep(s)
      BY <3>2, <3>3, PlainPushed, Appended, AsleepPushed
    <3>5. Fits(s, pending[p])
      BY <3>2, <3>3, <3>4, FitsPushed
    <3>6. /\ stack' = [stack EXCEPT ![p] = IF client[p] THEN Append(s, h) ELSE s]
          /\ UNCHANGED pending
      BY <2>5 DEF DrainNext, Dispatch
    <3> HIDE DEF s, h
    <3>7. Fits(Append(s, h), pending[p])
      BY <3>2, <3>3, <3>4, PlainPushed, FitsPushed
    <3> QED BY <3>5, <3>6, <3>7, SamePending, OthersFit
  <2>6. CASE DrainDone(p)
    <3>1. Fits(Front(stack[p]), pending[p])
      BY <2>6, UnderPlain DEF DrainDone, At, IsWait
    <3>2. stack' = [stack EXCEPT ![p] = Front(stack[p])] /\ UNCHANGED pending
      BY <2>6 DEF DrainDone
    <3> QED BY <3>1, <3>2, SamePending, OthersFit
  <2>7. CASE FinishHandler(p)
    <3>1. Fits(Front(stack[p]), pending[p])
      BY <2>7, UnderPlain DEF FinishHandler, At, IsWait
    <3>2. stack' = [stack EXCEPT ![p] = Front(stack[p])] /\ UNCHANGED pending
      BY <2>7 DEF FinishHandler
    <3> QED BY <3>1, <3>2, SamePending, OthersFit
  <2>8. CASE CheckSyncReply(p)
    <3>0. stack[p] # <<>> /\ IsWait(Top(p))
      BY <2>8 DEF CheckSyncReply, At, IsWait
    <3>1. CASE ReturnFromSync(p, Last(pending[p]).got)
      BY <3>0, <3>1, ReturnNested
    <3>2. CASE stack' = [stack EXCEPT ![p] = Append(Front(@), Wait("sleep", Top(p).id))] /\ UNCHANGED <<alive, pending>>
      <4>1. Wait("sleep", Top(p).id) \in Frame /\ IsWait(Wait("sleep", Top(p).id))
            /\ Wait("sleep", Top(p).id).id = Top(p).id
        BY <3>0, TopTypes, Frames
      <4>2. Fits(Append(Front(stack[p]), Wait("sleep", Top(p).id)), pending[p])
        BY <3>0, <4>1, UnderWait, FitsPushed
      <4> QED BY <3>2, <4>2, SamePending, OthersFit
    <3> QED BY <2>8, <3>1, <3>2 DEF CheckSyncReply
  <2>9. CASE WakeUp(p)
    <3>0. stack[p] # <<>> /\ IsWait(Top(p))
      BY <2>9 DEF WakeUp, At, IsWait
    <3> DEFINE s == Append(Front(stack[p]), Wait("check", Top(p).id))
    <3>1. /\ Wait("check", Top(p).id) \in Frame /\ IsWait(Wait("check", Top(p).id))
          /\ Wait("check", Top(p).id).id = Top(p).id /\ Wait("check", Top(p).id).at # "sleep"
      BY <3>0, TopTypes, Frames
    <3>2. /\ Front(stack[p]) \in Seq(Frame) /\ pending[p] \in Seq(PendingReply)
          /\ NoneAsleep(Front(stack[p])) /\ Matches(s, pending[p])
      BY <3>0, <3>1, UnderWait
    <3>3. s \in Seq(Frame) /\ NoneAsleep(s)
      BY <3>1, <3>2, Appended, AsleepPushed
    <3>4. stack' = [stack EXCEPT ![p] = Append(s, Swap)] /\ UNCHANGED pending
      BY <2>9 DEF WakeUp
    <3> HIDE DEF s
    <3>5. Fits(Append(s, Swap), pending[p])
      BY <3>2, <3>3, Frames, PlainPushed, FitsPushed
    <3> QED BY <3>4, <3>5, SamePending, OthersFit
  <2> QED BY <1>2, <2>1, <2>2, <2>3, <2>4, <2>5, <2>6, <2>7, <2>8, <2>9 DEF MainThread
<1>3. ASSUME NEW p \in Procs, WorkQueue(p) PROVE Nested'
  <2>1. CASE ProcessIncomingMessage(p) /\ ~UNCHANGED pending
    <3>1. PICK m : ProcessSyncReply(p, m) /\ UNCHANGED stack
      BY <2>1 DEF ProcessIncomingMessage
    <3> DEFINE r == Marked(pending[p], m)
    <3>2. pending' = [pending EXCEPT ![p] = r]
      BY <2>1, <3>1 DEF ProcessSyncReply, Marked
    <3>3. stack[p] \in Seq(Frame) /\ pending[p] \in Seq(PendingReply) /\ Fits(stack[p], pending[p])
      BY DEF TypeOK, PendingReply, Nested
    <3>4. Len(r) = Len(pending[p])
      BY <3>3, RepliesMarked
    <3>5. \A i \in 1..Len(pending[p]) : r[i].id = pending[p][i].id
      BY <3>3, RepliesMarked
    <3> HIDE DEF r
    <3>6. Matches(stack[p], r)
      BY <3>3, <3>4, <3>5, SameIds DEF Fits
    <3>7. Fits(stack[p], r) /\ stack' = [stack EXCEPT ![p] = stack[p]]
      BY <3>1, <3>3, <3>6 DEF Fits, TypeOK
    <3> QED BY <3>2, <3>7, OthersFit
  <2>2. CASE ProcessIncomingMessage(p) /\ UNCHANGED pending
    BY <1>0, <2>2 DEF ProcessIncomingMessage
  <2>3. CASE \/ WriteMessage(p) \/ WriteBlocks(p) \/ WriteFails(p) \/ WriteShutsDown(p)
             \/ ConnectionDidClose(p) \/ ReadFails(p) \/ PlatformInvalidate(p) \/ PerformClose(p)
    BY <1>0, <2>3 DEF WriteMessage, WriteBlocks, WriteFails, WriteShutsDown, ConnectionDidClose,
                      DidClose, ReadFails, PlatformInvalidate, PerformClose
  <2> QED BY <1>3, <2>1, <2>2, <2>3 DEF WorkQueue
<1>4. ASSUME NEW p \in Procs, SendDelayedReply(p) \/ SecondaryReturns(p) \/ Crash(p) PROVE Nested'
  BY <1>0, <1>4 DEF SendDelayedReply, SecondaryReturns, Crash
<1>5. ASSUME NEW p \in Procs, SyncTimesOut(p) PROVE Nested'
  <2>1. stack[p] # <<>> /\ IsWait(Top(p)) /\ ReturnFromSync(p, FALSE)
    BY <1>5 DEF SyncTimesOut, At, IsWait
  <2> QED BY <2>1, ReturnNested
<1>6. UNCHANGED vars => Nested'
  BY <1>0 DEF vars
<1> QED BY <1>1, <1>2, <1>3, <1>4, <1>5, <1>6 DEF Next

\* m_pendingSyncReplies.last() is always the reply of the innermost sendSyncMessage,
\* whatever is dispatched while it waits.
THEOREM RepliesAreStacked == Spec => []PendingMatchesStack
<1>1. Nested => PendingMatchesStack
  BY DEF Nested, Fits, Matches, PendingMatchesStack
<1> QED BY <1>1, InitTypes, NextTypes, InitNested, NextNested, PTL DEF Spec

-----------------------------------------------------------------------------
(* No wake-up is lost.                                                     *)

\* A message that waits to be dispatched has set the semaphore, or the thread is about
\* to look; and the property itself.
Wakes(frames, replies, wait, open, queue, sem) ==
  /\ queue # <<>> => sem \/ (frames # <<>> /\ Last(frames).at = "swap")
  /\ /\ frames # <<>> /\ Last(frames).at = "sleep"
     /\ Last(replies).got \/ ~wait \/ ~open \/ queue # <<>>
     => sem

WakesAt(p) == Wakes(stack[p], pending[p], shouldWait[p], client[p], syncQueue[p], semaphore[p])
Woken      == \A p \in Procs : WakesAt(p)

View(p) == <<stack[p], pending[p], shouldWait[p], client[p], syncQueue[p], semaphore[p]>>

LEMMA InitWoken == Init => Woken
  BY DEF Init, Woken, WakesAt, Wakes

LEMMA OneWakes ==
  ASSUME Woken, NEW p \in Procs, \A q \in Procs : q # p => UNCHANGED View(q), WakesAt(p)'
  PROVE  Woken'
<1>1. ASSUME NEW q \in Procs, q # p PROVE WakesAt(q)'
  BY <1>1 DEF Woken, WakesAt, View
<1> QED BY <1>1 DEF Woken

LEMMA FrontAwake ==
  ASSUME NEW s \in Seq(Frame), NoneAsleep(s)
  PROVE  s # <<>> => Last(s).at # "sleep"
<1>1. s # <<>> => s = Append(Front(s), Last(s)) /\ Front(s) \in Seq(Frame) /\ Last(s) \in Frame
  BY Popped
<1> QED BY <1>1, AsleepPushed

\* The activation on top leaves; the one below does not sleep.
LEMMA PopWakes ==
  ASSUME TypeOK, Nested, NEW p \in Procs, stack[p] # <<>>, syncQueue[p] # <<>> => semaphore[p],
         \A q \in Procs : q # p => UNCHANGED View(q), Woken,
         stack' = [stack EXCEPT ![p] = Front(@)], UNCHANGED <<syncQueue, semaphore>>
  PROVE  Woken'
<1>1. Front(stack[p]) \in Seq(Frame) /\ NoneAsleep(Front(stack[p]))
  BY TopTypes DEF Nested, Fits
<1>2. stack'[p] = Front(stack[p])
  BY DEF TypeOK
<1>3. WakesAt(p)'
  BY <1>1, <1>2, FrontAwake DEF WakesAt, Wakes
<1> QED BY <1>3, OneWakes

\* An activation that does not sleep comes on top.
LEMMA PushWakes ==
  ASSUME TypeOK, NEW p \in Procs, NEW s \in Seq(Frame), NEW f \in Frame, f.at # "sleep",
         f.at # "swap" => (syncQueue'[p] # <<>> => semaphore'[p]),
         \A q \in Procs : q # p => UNCHANGED View(q), Woken,
         stack' = [stack EXCEPT ![p] = Append(s, f)]
  PROVE  Woken'
<1>1. stack'[p] = Append(s, f) /\ Append(s, f) # <<>> /\ Last(Append(s, f)) = f
  BY Appended DEF TypeOK
<1>2. WakesAt(p)'
  BY <1>1 DEF WakesAt, Wakes
<1> QED BY <1>2, OneWakes

LEMMA NextWoken == TypeOK /\ Nested /\ Woken /\ [Next]_vars => Woken'
<1> SUFFICES ASSUME TypeOK, Nested, Woken, [Next]_vars PROVE Woken'
  OBVIOUS
<1> USE DEF netVars, inVars, syncVars, threadVars, procVars
<1>0. ASSUME UNCHANGED <<stack, pending, shouldWait, client, syncQueue, semaphore>> PROVE Woken'
  BY <1>0 DEF Woken, WakesAt
<1>w. \A p \in Procs : Wakes(stack[p], pending[p], shouldWait[p], client[p], syncQueue[p], semaphore[p])
  BY DEF Woken, WakesAt
<1>1. ASSUME NEW p \in Procs, AppSends(p) PROVE Woken'
  <2>1. CASE SendSync(p)
    <3>1. NextId(p) \in Ids
      BY <2>1, IdTypes DEF SendSync
    <3>2. Append(stack[p], Wait("check", NextId(p))) \in Seq(Frame)
      BY <3>1, Frames, Appended DEF TypeOK
    <3>3. stack' = [stack EXCEPT ![p] = Append(Append(stack[p], Wait("check", NextId(p))), Swap)]
      BY <2>1 DEF SendSync
    <3>4. \A q \in Procs : q # p => UNCHANGED View(q)
      BY <2>1 DEF SendSync, View, TypeOK
    <3>5. Swap \in Frame /\ Swap.at = "swap"
      BY Frames
    <3> QED BY <3>2, <3>3, <3>4, <3>5, PushWakes
  <2>2. CASE FinishInvalid(p)
    <3>1. \A q \in Procs : q # p => UNCHANGED View(q)
      BY <2>2 DEF FinishInvalid, View, TypeOK
    <3>2. stack[p] # <<>> /\ (syncQueue[p] # <<>> => semaphore[p])
      BY <1>w, <2>2 DEF FinishInvalid, At, Top, Wakes
    <3> QED BY <2>2, <3>1, <3>2, PopWakes DEF FinishInvalid
  <2>3. CASE Invalidate(p)
    <3>1. \A q \in Procs : q # p => UNCHANGED View(q)
      BY <2>3 DEF Invalidate, View, TypeOK
    <3>2. WakesAt(p)'
      BY <1>w, <2>3 DEF Invalidate, AppCodeRuns, Top, WakesAt, Wakes
    <3> QED BY <3>1, <3>2, OneWakes
  <2>4. CASE (\E even \in BOOLEAN : SendAsync(p, even)) \/ SendSyncFails(p) \/ SecondarySendSync(p)
    BY <1>0, <2>4 DEF SendAsync, SendSyncFails, SecondarySendSync
  <2> QED BY <1>1, <2>1, <2>2, <2>3, <2>4 DEF AppSends
<1>2. ASSUME NEW p \in Procs, MainThread(p) PROVE Woken'
  <2>1. CASE DispatchOneMessage(p)
    <3>1. CASE incoming[p] = <<>> \/ ~client[p]
      <4>1. stack' = stack
        BY <2>1, <3>1 DEF DispatchOneMessage, Dispatch, TypeOK
      <4> QED BY <1>0, <2>1, <4>1 DEF DispatchOneMessage
    <3>2. CASE incoming[p] # <<>> /\ client[p]
      <4>1. /\ stack' = [stack EXCEPT ![p] = Append(stack[p], Handler(Head(incoming[p])))]
            /\ stack[p] = <<>>
        BY <2>1, <3>2 DEF DispatchOneMessage, Dispatch
      <4>2. /\ Handler(Head(incoming[p])) \in Frame /\ Handler(Head(incoming[p])).at = "handler"
        BY <3>2, Frames, HeadTailProperties DEF TypeOK
      <4>3. \A q \in Procs : q # p => UNCHANGED View(q)
        BY <2>1, <4>1 DEF DispatchOneMessage, View, TypeOK
      <4>4. syncQueue'[p] # <<>> => semaphore'[p]
        BY <1>w, <2>1, <4>1 DEF DispatchOneMessage, Wakes
      <4>5. stack[p] \in Seq(Frame) /\ Handler(Head(incoming[p])).at # "sleep"
        BY <4>2 DEF TypeOK
      <4> QED BY <4>1, <4>2, <4>3, <4>4, <4>5, PushWakes
    <3> QED BY <3>1, <3>2
  <2>2. CASE ResetDidSchedule(p)
    <3>1. stack' = [stack EXCEPT ![p] = Append(stack[p], Swap)] /\ stack[p] \in Seq(Frame)
      BY <2>2 DEF ResetDidSchedule, TypeOK
    <3>2. \A q \in Procs : q # p => UNCHANGED View(q)
      BY <2>2 DEF ResetDidSchedule, View, TypeOK
    <3>3. Swap \in Frame /\ Swap.at = "swap"
      BY Frames
    <3> QED BY <3>1, <3>2, <3>3, PushWakes
  <2>3. CASE DispatchDidClose(p)
    <3>1. \A q \in Procs : q # p => UNCHANGED View(q)
      BY <2>3 DEF DispatchDidClose, View, TypeOK
    <3>2. WakesAt(p)'
      BY <1>w, <2>3 DEF DispatchDidClose, WakesAt, Wakes
    <3> QED BY <3>1, <3>2, OneWakes
  <2>4. CASE SwapMessages(p)
    <3>1. stack' = [stack EXCEPT ![p] = Append(Front(stack[p]), Drain(syncQueue[p]))]
      BY <2>4 DEF SwapMessages
    <3>2. Drain(syncQueue[p]) \in Frame /\ Drain(syncQueue[p]).at = "drain"
      BY Frames DEF TypeOK
    <3>3. \A q \in Procs : q # p => UNCHANGED View(q)
      BY <2>4 DEF SwapMessages, View, TypeOK
    <3>4. syncQueue'[p] = <<>> /\ Front(stack[p]) \in Seq(Frame)
      BY <2>4, TopTypes DEF SwapMessages, At, TypeOK
    <3> QED BY <3>1, <3>2, <3>3, <3>4, PushWakes
  <2>5. CASE DrainNext(p)
    <3> DEFINE d == Drain(Tail(Top(p).todo))
               h == Handler(Head(Top(p).todo))
    <3>1. /\ Head(Top(p).todo) \in Message /\ Tail(Top(p).todo) \in Seq(Message)
          /\ Front(stack[p]) \in Seq(Frame)
      BY <2>5, TopTypes, HeadTailProperties DEF DrainNext, At
    <3>2. d \in Frame /\ d.at = "drain" /\ h \in Frame /\ h.at = "handler"
      BY <3>1, Frames
    <3>3. /\ stack' = [stack EXCEPT ![p] = IF client[p] THEN Append(Append(Front(stack[p]), d), h)
                                          ELSE Append(Front(stack[p]), d)]
      BY <2>5 DEF DrainNext, Dispatch
    <3>4. \A q \in Procs : q # p => UNCHANGED View(q)
      BY <2>5, <3>3 DEF DrainNext, View, TypeOK
    <3>5. syncQueue'[p] # <<>> => semaphore'[p]
      BY <1>w, <2>5 DEF DrainNext, At, Top, Wakes
    <3> HIDE DEF d, h
    <3>6. Append(Front(stack[p]), d) \in Seq(Frame)
      BY <3>1, <3>2, Appended
    <3>7. CASE client[p]
      BY <3>2, <3>3, <3>4, <3>5, <3>6, <3>7, PushWakes
    <3>8. CASE ~client[p]
      BY <3>1, <3>2, <3>3, <3>4, <3>5, <3>8, PushWakes
    <3> QED BY <3>7, <3>8
  <2>6. CASE DrainDone(p)
    <3>1. \A q \in Procs : q # p => UNCHANGED View(q)
      BY <2>6 DEF DrainDone, View, TypeOK
    <3>2. stack[p] # <<>> /\ (syncQueue[p] # <<>> => semaphore[p])
      BY <1>w, <2>6 DEF DrainDone, At, Top, Wakes
    <3> QED BY <2>6, <3>1, <3>2, PopWakes DEF DrainDone
  <2>7. CASE FinishHandler(p)
    <3>1. \A q \in Procs : q # p => UNCHANGED View(q)
      BY <2>7 DEF FinishHandler, View, TypeOK
    <3>2. stack[p] # <<>> /\ (syncQueue[p] # <<>> => semaphore[p])
      BY <1>w, <2>7 DEF FinishHandler, At, Top, Wakes
    <3> QED BY <2>7, <3>1, <3>2, PopWakes DEF FinishHandler
  <2>8. CASE CheckSyncReply(p)
    <3>1. CASE ReturnFromSync(p, Last(pending[p]).got)
      <4>1. \A q \in Procs : q # p => UNCHANGED View(q)
        BY <2>8, <3>1 DEF CheckSyncReply, ReturnFromSync, View, TypeOK
      <4>2. stack[p] # <<>> /\ (syncQueue[p] # <<>> => semaphore[p])
        BY <1>w, <2>8 DEF CheckSyncReply, At, Top, Wakes
      <4> QED BY <2>8, <3>1, <4>1, <4>2, PopWakes DEF CheckSyncReply, ReturnFromSync
    <3>2. CASE /\ ~(Last(pending[p]).got \/ ~shouldWait[p] \/ ~client[p])
               /\ stack' = [stack EXCEPT ![p] = Append(Front(@), Wait("sleep", Top(p).id))]
               /\ UNCHANGED <<alive, pending>>
      <4>1. \A q \in Procs : q # p => UNCHANGED View(q)
        BY <2>8, <3>2 DEF CheckSyncReply, View, TypeOK
      <4>2. /\ Front(stack[p]) \in Seq(Frame)
            /\ Wait("sleep", Top(p).id) \in Frame /\ Wait("sleep", Top(p).id).at = "sleep"
        BY <2>8, TopTypes, Frames DEF CheckSyncReply, At
      <4>3. /\ stack'[p] = Append(Front(stack[p]), Wait("sleep", Top(p).id))
            /\ stack'[p] # <<>> /\ Last(stack'[p]).at = "sleep"
        <5> DEFINE t == Append(Front(stack[p]), Wait("sleep", Top(p).id))
        <5>1. stack'[p] = t
          BY <3>2 DEF TypeOK
        <5>2. t # <<>> /\ Last(t) = Wait("sleep", Top(p).id)
          BY <4>2, Appended
        <5> HIDE DEF t
        <5> QED BY <4>2, <5>1, <5>2 DEF t
      <4>4. syncQueue[p] # <<>> => semaphore[p]
        BY <1>w, <2>8 DEF CheckSyncReply, At, Top, Wakes
      <4>5. WakesAt(p)'
        BY <2>8, <3>2, <4>3, <4>4 DEF CheckSyncReply, WakesAt, Wakes
      <4> QED BY <4>1, <4>5, OneWakes
    <3> QED BY <2>8, <3>1, <3>2 DEF CheckSyncReply
  <2>9. CASE WakeUp(p)
    <3>1. Append(Front(stack[p]), Wait("check", Top(p).id)) \in Seq(Frame)
      BY <2>9, TopTypes, Frames, Appended DEF WakeUp, At
    <3>2. stack' = [stack EXCEPT ![p] = Append(Append(Front(stack[p]), Wait("check", Top(p).id)), Swap)]
      BY <2>9 DEF WakeUp
    <3>3. \A q \in Procs : q # p => UNCHANGED View(q)
      BY <2>9 DEF WakeUp, View, TypeOK
    <3>4. Swap \in Frame /\ Swap.at = "swap"
      BY Frames
    <3> QED BY <3>1, <3>2, <3>3, <3>4, PushWakes
  <2> QED BY <1>2, <2>1, <2>2, <2>3, <2>4, <2>5, <2>6, <2>7, <2>8, <2>9 DEF MainThread
<1>3. ASSUME NEW p \in Procs, WorkQueue(p) PROVE Woken'
  <2>1. ASSUME DidClose(p) PROVE Woken'
    <3>1. \A q \in Procs : q # p => UNCHANGED View(q)
      BY <2>1 DEF DidClose, View, TypeOK
    <3>2. stack[p] # <<>> /\ Last(stack[p]).at = "sleep" => pending[p] # <<>>
      BY UnderWait DEF Top, IsWait
    <3>3. /\ UNCHANGED <<stack, pending, client, syncQueue>>
          /\ semaphore'[p] <=> semaphore[p] \/ pending[p] # <<>>
      BY <2>1 DEF DidClose, TypeOK
    <3>4. WakesAt(p)'
      BY <1>w, <3>2, <3>3 DEF WakesAt, Wakes
    <3> QED BY <3>1, <3>4, OneWakes
  <2>2. CASE ProcessIncomingMessage(p)
    <3>1. \A q \in Procs : q # p => UNCHANGED View(q)
      BY <2>2 DEF ProcessIncomingMessage, ProcessSyncReply, ProcessMarked, View, TypeOK
    <3>2. ASSUME NEW m, ProcessSyncReply(p, m), UNCHANGED <<stack, shouldWait, client, syncQueue>>
          PROVE  WakesAt(p)'
      <4> DEFINE hits == {i \in DOMAIN pending[p] : pending[p][i].id = m.id}
                 r == Marked(pending[p], m)
      <4>1. CASE hits # {}
        <5>1. pending' = [pending EXCEPT ![p] = r]
          BY <3>2, <4>1 DEF ProcessSyncReply, Marked
        <5>2. semaphore' = [semaphore EXCEPT ![p] = @ \/ Len(pending[p]) \in hits]
          BY <3>2, <4>1 DEF ProcessSyncReply
        <5>3. pending'[p] = r /\ (semaphore'[p] <=> semaphore[p] \/ Len(pending[p]) \in hits)
          BY <5>1, <5>2 DEF TypeOK
        <5>4. stack[p] # <<>> /\ Last(stack[p]).at = "sleep" => pending[p] # <<>>
          BY UnderWait DEF Top, IsWait
        <5>5. pending[p] \in Seq(PendingReply)
          BY DEF TypeOK, PendingReply
        <5>6. ASSUME pending[p] # <<>>, Last(r).got, Len(pending[p]) \notin hits
              PROVE  Last(pending[p]).got
          <6>1. /\ Len(pending[p]) \in 1..Len(pending[p]) /\ DOMAIN pending[p] = 1..Len(pending[p])
            BY <5>5, <5>6, EmptySeq, LenProperties
          <6>2. pending[p][Len(pending[p])].id # m.id
            BY <5>6, <6>1
          <6>3. Len(r) = Len(pending[p]) /\ r[Len(pending[p])] = pending[p][Len(pending[p])]
            BY <5>5, <6>1, <6>2, RepliesMarked
          <6> HIDE DEF r, hits
          <6> QED BY <5>6, <6>3 DEF Last
        <5> HIDE DEF r, hits
        <5> QED BY <1>w, <3>2, <5>3, <5>4, <5>6 DEF WakesAt, Wakes
      <4>2. CASE hits = {}
        BY <1>w, <3>2, <4>2 DEF ProcessSyncReply, WakesAt
      <4> QED BY <4>1, <4>2
    <3>3. ASSUME NEW m, ProcessMarked(p, m), UNCHANGED <<stack, shouldWait, client, pending>>
          PROVE  WakesAt(p)'
      <4>1. semaphore'[p]
        BY <3>3 DEF ProcessMarked, TypeOK
      <4> QED BY <4>1 DEF WakesAt, Wakes
    <3>4. UNCHANGED <<stack, shouldWait, client, pending, syncQueue, semaphore>> => WakesAt(p)'
      BY <1>w DEF WakesAt
    <3>5. WakesAt(p)'
      BY <2>2, <3>2, <3>3, <3>4 DEF ProcessIncomingMessage
    <3> QED BY <3>1, <3>5, OneWakes
  <2>3. CASE WriteShutsDown(p) \/ ConnectionDidClose(p)
    BY <2>1, <2>3 DEF WriteShutsDown, ConnectionDidClose
  <2>4. CASE \/ WriteMessage(p) \/ WriteBlocks(p) \/ WriteFails(p)
             \/ ReadFails(p) \/ PlatformInvalidate(p) \/ PerformClose(p)
    BY <1>0, <2>4 DEF WriteMessage, WriteBlocks, WriteFails, ReadFails, PlatformInvalidate, PerformClose
  <2> QED BY <1>3, <2>2, <2>3, <2>4 DEF WorkQueue
<1>4. ASSUME NEW p \in Procs, SendDelayedReply(p) \/ SecondaryReturns(p) \/ Crash(p) PROVE Woken'
  BY <1>0, <1>4 DEF SendDelayedReply, SecondaryReturns, Crash
<1>5. ASSUME NEW p \in Procs, SyncTimesOut(p) PROVE Woken'
  <2>1. \A q \in Procs : q # p => UNCHANGED View(q)
    BY <1>5 DEF SyncTimesOut, ReturnFromSync, View, TypeOK
  <2>2. stack[p] # <<>> /\ (syncQueue[p] # <<>> => semaphore[p])
    BY <1>w, <1>5 DEF SyncTimesOut, At, Top, Wakes
  <2> QED BY <1>5, <2>1, <2>2, PopWakes DEF SyncTimesOut, ReturnFromSync
<1>6. UNCHANGED vars => Woken'
  BY <1>0 DEF vars
<1> QED BY <1>1, <1>2, <1>3, <1>4, <1>5, <1>6 DEF Next

\* A thread asleep in waitForSyncReply has its semaphore set as soon as there is a reply,
\* a message to dispatch or the end of the connection.
THEOREM SleepersAreWoken == Spec => []NoLostWakeup
<1>1. Woken => NoLostWakeup
  BY DEF Woken, WakesAt, Wakes, NoLostWakeup, At, Top
<1> QED BY <1>1, InitTypes, NextTypes, InitNested, NextNested, InitWoken, NextWoken, PTL DEF Spec

-----------------------------------------------------------------------------
(* Counting the elements of a sequence that are in a set V.                *)

CountTo(s, n, V) == Cardinality({i \in 1..n : s[i] \in V})
Count(s, V)      == CountTo(s, Len(s), V)

LEMMA CountToType ==
  ASSUME NEW s, NEW n \in Nat, NEW V
  PROVE  /\ CountTo(s, n, V) \in Nat /\ CountTo(s, n, V) <= n
         /\ IsFiniteSet({i \in 1..n : s[i] \in V})
         /\ CountTo(s, n, V) = 0 <=> \A i \in 1..n : s[i] \notin V
<1> DEFINE H == {i \in 1..n : s[i] \in V}
<1>1. IsFiniteSet(1..n) /\ Cardinality(1..n) = n
  <2>1. n >= 1 => IsFiniteSet(1..n) /\ Cardinality(1..n) = n - 1 + 1
    BY FS_Interval
  <2>2. n = 0 => 1..n = {}
    OBVIOUS
  <2>3. n = 0 => IsFiniteSet(1..n) /\ Cardinality(1..n) = 0
    BY <2>2, FS_EmptySet
  <2> QED BY <2>1, <2>3
<1>2. H \subseteq 1..n
  OBVIOUS
<1>3. IsFiniteSet(H) /\ Cardinality(H) <= n
  BY <1>1, <1>2, FS_Subset
<1>4. Cardinality(H) \in Nat
  BY <1>3, FS_CardinalityType
<1>5. Cardinality(H) = 0 <=> H = {}
  BY <1>3, FS_EmptySet
<1>6. H = {} <=> \A i \in 1..n : s[i] \notin V
  OBVIOUS
<1> QED BY <1>3, <1>4, <1>5, <1>6 DEF CountTo

LEMMA CountType ==
  ASSUME NEW S, NEW s \in Seq(S), NEW V
  PROVE  /\ Count(s, V) \in Nat /\ Count(s, V) <= Len(s)
         /\ Count(s, V) = 0 <=> \A i \in 1..Len(s) : s[i] \notin V
<1>1. Len(s) \in Nat
  BY LenProperties
<1> QED BY <1>1, CountToType DEF Count

\* What one more index adds to a count.
LEMMA CountNext ==
  ASSUME NEW s, NEW n \in Nat, NEW V
  PROVE  CountTo(s, n + 1, V) = CountTo(s, n, V) + (IF s[n + 1] \in V THEN 1 ELSE 0)
<1> DEFINE H == {i \in 1..n : s[i] \in V}
           G == {i \in 1..(n + 1) : s[i] \in V}
<1>0. IsFiniteSet(H) /\ Cardinality(H) \in Nat
  BY CountToType, FS_CardinalityType
<1>1. IsFiniteSet(H) /\ n + 1 \notin H /\ Cardinality(H) \in Nat
  BY <1>0
<1>2. \A i : i \in 1..(n + 1) <=> i \in 1..n \/ i = n + 1
  OBVIOUS
<1>3. CASE s[n + 1] \in V
  <2>1. G = H \union {n + 1}
    BY <1>2, <1>3
  <2>2. Cardinality(H \union {n + 1}) = Cardinality(H) + 1
    BY <1>1, FS_AddElement
  <2> QED BY <1>3, <2>1, <2>2 DEF CountTo
<1>4. CASE s[n + 1] \notin V
  <2>1. G = H
    BY <1>2, <1>4
  <2> QED BY <1>1, <1>4, <2>1 DEF CountTo
<1> QED BY <1>3, <1>4

LEMMA CountSame ==
  ASSUME NEW s, NEW t, NEW n \in Nat, NEW V, \A i \in 1..n : s[i] \in V <=> t[i] \in V
  PROVE  CountTo(s, n, V) = CountTo(t, n, V)
<1>1. {i \in 1..n : s[i] \in V} = {i \in 1..n : t[i] \in V}
  OBVIOUS
<1> QED BY <1>1 DEF CountTo

LEMMA CountAppend ==
  ASSUME NEW S, NEW s \in Seq(S), NEW x \in S, NEW V
  PROVE  /\ Count(Append(s, x), V) = Count(s, V) + (IF x \in V THEN 1 ELSE 0)
         /\ \A n \in 0..Len(s) : CountTo(Append(s, x), n, V) = CountTo(s, n, V)
<1> DEFINE t == Append(s, x)
<1>1. Len(t) = Len(s) + 1 /\ Len(s) \in Nat /\ t[Len(s) + 1] = x /\ \A i \in 1..Len(s) : t[i] = s[i]
  BY Appended
<1> HIDE DEF t
<1>2. ASSUME NEW n \in 0..Len(s) PROVE CountTo(t, n, V) = CountTo(s, n, V)
  <2>1. n \in Nat /\ \A i \in 1..n : t[i] \in V <=> s[i] \in V
    BY <1>1
  <2> QED BY <2>1, CountSame
<1>3. CountTo(t, Len(s), V) = CountTo(s, Len(s), V)
  BY <1>1, <1>2
<1>4. CountTo(t, Len(s) + 1, V) = CountTo(t, Len(s), V) + (IF x \in V THEN 1 ELSE 0)
  BY <1>1, CountNext
<1> QED BY <1>1, <1>2, <1>3, <1>4 DEF Count, t

LEMMA CountTail ==
  ASSUME NEW S, NEW s \in Seq(S), s # <<>>, NEW V
  PROVE  /\ Tail(s) \in Seq(S) /\ Head(s) \in S
         /\ Count(s, V) = Count(Tail(s), V) + (IF Head(s) \in V THEN 1 ELSE 0)
         /\ \A n \in 0..Len(Tail(s)) :
              CountTo(s, n + 1, V) = CountTo(Tail(s), n, V) + (IF Head(s) \in V THEN 1 ELSE 0)
<1> DEFINE t == Tail(s)
<1>1. /\ t \in Seq(S) /\ Len(t) = Len(s) - 1 /\ Len(s) \in Nat /\ Len(s) >= 1 /\ Len(t) \in Nat
      /\ \A i \in 1..Len(t) : t[i] = s[i + 1]
      /\ Head(s) = s[1] /\ Head(s) \in S
  BY HeadTailProperties, LenProperties, EmptySeq
<1> HIDE DEF t
<1>2. ASSUME NEW n \in 0..Len(t)
      PROVE  CountTo(s, n + 1, V) = CountTo(t, n, V) + (IF Head(s) \in V THEN 1 ELSE 0)
  <2> DEFINE H == {i \in 1..n : t[i] \in V}
             K == {i \in 2..(n + 1) : s[i] \in V}
             G == {i \in 1..(n + 1) : s[i] \in V}
             f == [i \in H |-> i + 1]
  <2>1. n \in Nat
    BY <1>1
  <2>2. \A i \in 1..n : t[i] = s[i + 1]
    BY <1>1
  <2>3. IsFiniteSet(H)
    BY <2>1, CountToType
  <2>4. f \in Bijection(H, K)
    <3>1. \A i \in H : f[i] \in K
      BY <2>1, <2>2
    <3>2. \A k \in K : k - 1 \in H /\ f[k - 1] = k
      BY <2>1, <2>2
    <3>3. \A i, j \in H : f[i] = f[j] => i = j
      BY <2>1
    <3>4. \A k \in K : \E i \in H : f[i] = k
      BY <3>2
    <3> QED BY <3>1, <3>3, <3>4, Fun_IsBij
  <2>5. Cardinality(K) = Cardinality(H) /\ IsFiniteSet(K)
    BY <2>3, <2>4, FS_Bijection DEF ExistsBijection
  <2>6. CASE Head(s) \in V
    <3>1. G = K \union {1} /\ 1 \notin K
      <4>1. \A i : i \in 1..(n + 1) <=> i = 1 \/ i \in 2..(n + 1)
        BY <2>1
      <4>2. 1 \notin 2..(n + 1) /\ s[1] \in V
        BY <1>1, <2>6
      <4> QED BY <4>1, <4>2
    <3>2. Cardinality(K \union {1}) = Cardinality(K) + 1
      BY <2>5, <3>1, FS_AddElement
    <3>3. CountTo(s, n + 1, V) = Cardinality(K) + 1 /\ CountTo(t, n, V) = Cardinality(K)
      BY <2>5, <3>1, <3>2 DEF CountTo
    <3> QED BY <2>6, <3>3
  <2>7. CASE Head(s) \notin V
    <3>1. G = K
      BY <1>1, <2>1, <2>7
    <3>2. Cardinality(H) \in Nat
      BY <2>3, FS_CardinalityType
    <3>3. CountTo(s, n + 1, V) = Cardinality(H) /\ CountTo(t, n, V) = Cardinality(H)
      BY <2>5, <3>1 DEF CountTo
    <3> QED BY <2>7, <3>2, <3>3
  <2> QED BY <2>6, <2>7
<1>3. Count(s, V) = Count(t, V) + (IF Head(s) \in V THEN 1 ELSE 0)
  <2>1. Len(t) + 1 = Len(s) /\ Len(t) \in 0..Len(t)
    BY <1>1
  <2> QED BY <1>2, <2>1 DEF Count
<1> QED BY <1>1, <1>2, <1>3 DEF t

-----------------------------------------------------------------------------
(* Counting the messages of V that activations hold.                       *)

\* What a frame holds: the message it handles, or the messages it has yet to dispatch.
Content(f) == IF f.at = "handler" THEN <<f.msg>> ELSE f.todo

Row(frames, k, V) == {<<k, i>> : i \in {j \in 1..Len(Content(frames[k])) : Content(frames[k])[j] \in V}}
Slots(frames, V)  == UNION {Row(frames, k, V) : k \in 1..Len(frames)}
Held(frames, V)   == Cardinality(Slots(frames, V))

LEMMA Contents ==
  /\ \A f \in Frame : Content(f) \in Seq(Message \union {NoMsg})
  /\ Content(Swap) = <<>>
  /\ \A m \in Message : Content(Handler(m)) = <<m>>
  /\ \A s \in Seq(Message) : Content(Drain(s)) = s
  /\ \A ph \in {"check", "sleep"}, i \in Ids \union {0} : Content(Wait(ph, i)) = <<>>
<1>1. ASSUME NEW f \in Frame PROVE Content(f) \in Seq(Message \union {NoMsg})
  <2>1. f.todo \in Seq(Message) /\ f.msg \in Message \union {NoMsg}
    BY Fields
  <2>2. f.todo \in Seq(Message \union {NoMsg})
    BY <2>1, ElementOfSeq, LenProperties, SeqDef
  <2>3. <<f.msg>> \in Seq(Message \union {NoMsg})
    BY <2>1
  <2> QED BY <2>2, <2>3 DEF Content
<1> QED BY <1>1 DEF Content, Swap, Handler, Drain, Wait

LEMMA CountShort ==
  /\ \A V : Count(<<>>, V) = 0
  /\ \A V, m : Count(<<m>>, V) = IF m \in V THEN 1 ELSE 0
<1>1. ASSUME NEW V PROVE Count(<<>>, V) = 0
  <2>1. Len(<<>>) = 0 /\ {i \in 1..0 : <<>>[i] \in V} = {}
    OBVIOUS
  <2> QED BY <2>1, FS_EmptySet DEF Count, CountTo
<1>2. ASSUME NEW V, NEW m PROVE Count(<<m>>, V) = IF m \in V THEN 1 ELSE 0
  <2>1. <<>> \in Seq({m}) /\ m \in {m}
    BY EmptySeq
  <2>2. Count(Append(<<>>, m), V) = Count(<<>>, V) + (IF m \in V THEN 1 ELSE 0)
    BY <2>1, CountAppend
  <2>3. Append(<<>>, m) = <<m>>
    OBVIOUS
  <2> QED BY <1>1, <2>2, <2>3
<1> QED BY <1>1, <1>2

LEMMA RowCount ==
  ASSUME NEW s \in Seq(Frame), NEW k \in 1..Len(s), NEW V
  PROVE  IsFiniteSet(Row(s, k, V)) /\ Cardinality(Row(s, k, V)) = Count(Content(s[k]), V)
<1> DEFINE c == Content(s[k])
           H == {j \in 1..Len(c) : c[j] \in V}
           f == [j \in H |-> <<k, j>>]
<1>1. c \in Seq(Message \union {NoMsg})
  BY Contents, ElementOfSeq
<1>2. Len(c) \in Nat
  BY <1>1, LenProperties
<1>3. IsFiniteSet(H) /\ Cardinality(H) = Count(c, V)
  BY <1>2, CountToType DEF Count, CountTo
<1> HIDE DEF c
<1>4. f \in Bijection(H, {<<k, j>> : j \in H})
  <2>1. \A a, b \in H : f[a] = f[b] => a = b
    OBVIOUS
  <2>2. \A t \in {<<k, j>> : j \in H} : \E a \in H : f[a] = t
    OBVIOUS
  <2>3. f \in [H -> {<<k, j>> : j \in H}]
    OBVIOUS
  <2> QED BY <2>1, <2>2, <2>3, Fun_IsBij
<1>5. /\ IsFiniteSet({<<k, j>> : j \in H})
      /\ Cardinality({<<k, j>> : j \in H}) = Cardinality(H)
  BY <1>3, <1>4, FS_Bijection DEF ExistsBijection
<1>6. Row(s, k, V) = {<<k, j>> : j \in H}
  BY DEF Row, c
<1> QED BY <1>3, <1>5, <1>6 DEF c

LEMMA SlotsFinite ==
  ASSUME NEW s \in Seq(Frame), NEW V
  PROVE  IsFiniteSet(Slots(s, V)) /\ Held(s, V) \in Nat
<1> DEFINE R == {Row(s, k, V) : k \in 1..Len(s)}
           g == [k \in 1..Len(s) |-> Row(s, k, V)]
<1>1. Len(s) \in Nat
  BY LenProperties
<1>2. IsFiniteSet(1..Len(s))
  BY <1>1, FS_Interval
<1>3. g \in Surjection(1..Len(s), R)
  <2>1. g \in [1..Len(s) -> R] /\ \A t \in R : \E k \in 1..Len(s) : g[k] = t
    OBVIOUS
  <2> QED BY <2>1, Fun_IsSurj
<1>4. IsFiniteSet(R)
  BY <1>2, <1>3, FS_Surjection
<1>5. \A T \in R : IsFiniteSet(T)
  BY RowCount
<1>6. IsFiniteSet(UNION R)
  BY <1>4, <1>5, FS_UNION
<1> QED BY <1>6, FS_CardinalityType DEF Slots, Held

LEMMA HeldPush ==
  ASSUME NEW s \in Seq(Frame), NEW f \in Frame, NEW V
  PROVE  /\ Held(Append(s, f), V) = Held(s, V) + Count(Content(f), V)
         /\ Held(Append(s, f), V) \in Nat /\ Held(s, V) \in Nat /\ Count(Content(f), V) \in Nat
<1> DEFINE t == Append(s, f)
           n == Len(s) + 1
<1>1. /\ t \in Seq(Frame) /\ Len(t) = n /\ Len(s) \in Nat
      /\ \A i \in 1..Len(s) : t[i] = s[i]
      /\ t[n] = f
  BY Appended
<1> HIDE DEF t
<1>2. \A k : k \in 1..Len(t) <=> k \in 1..Len(s) \/ k = n
  BY <1>1
<1>3. \A k \in 1..Len(s) : Row(t, k, V) = Row(s, k, V)
  BY <1>1 DEF Row
<1>4. Slots(t, V) = Slots(s, V) \union Row(t, n, V)
  <2>1. ASSUME NEW x PROVE x \in Slots(t, V) <=> \E k \in 1..Len(t) : x \in Row(t, k, V)
    BY DEF Slots
  <2>2. ASSUME NEW x PROVE x \in Slots(s, V) <=> \E k \in 1..Len(s) : x \in Row(s, k, V)
    BY DEF Slots
  <2>3. ASSUME NEW x PROVE x \in Slots(t, V) <=> x \in Slots(s, V) \/ x \in Row(t, n, V)
    BY <1>2, <1>3, <2>1, <2>2
  <2> QED BY <2>3
<1>5. Slots(s, V) \intersect Row(t, n, V) = {}
  <2>1. \A x \in Row(t, n, V) : x[1] = n
    BY DEF Row
  <2>2. \A x \in Slots(s, V) : x[1] \in 1..Len(s)
    BY DEF Slots, Row
  <2>3. n \notin 1..Len(s)
    BY <1>1
  <2> QED BY <2>1, <2>2, <2>3
<1>6. /\ IsFiniteSet(Row(t, n, V)) /\ Cardinality(Row(t, n, V)) = Count(Content(f), V)
  <2>1. n \in 1..Len(t)
    BY <1>1
  <2> QED BY <1>1, <2>1, RowCount
<1>7. IsFiniteSet(Slots(s, V)) /\ Held(s, V) \in Nat
  BY SlotsFinite
<1>8. Count(Content(f), V) \in Nat
  BY <1>6, FS_CardinalityType
<1>9. Cardinality(Slots(t, V)) = Cardinality(Slots(s, V)) + Count(Content(f), V) - 0
  BY <1>4, <1>5, <1>6, <1>7, FS_Union, FS_EmptySet
<1> QED BY <1>7, <1>8, <1>9 DEF Held, t

LEMMA HeldPop ==
  ASSUME NEW s \in Seq(Frame), s # <<>>, NEW V
  PROVE  /\ Held(s, V) = Held(Front(s), V) + Count(Content(Last(s)), V)
         /\ Held(Front(s), V) \in Nat /\ Count(Content(Last(s)), V) \in Nat
<1>1. Front(s) \in Seq(Frame) /\ Last(s) \in Frame /\ s = Append(Front(s), Last(s))
  BY Popped
<1> QED BY <1>1, HeldPush

LEMMA HeldNone ==
  /\ \A V : Held(<<>>, V) = 0
  /\ \A s \in Seq(Frame) : \A V :
       Held(s, V) = 0 => \A k \in 1..Len(s) : \A i \in 1..Len(Content(s[k])) : Content(s[k])[i] \notin V
<1>1. ASSUME NEW V PROVE Held(<<>>, V) = 0
  <2>1. Slots(<<>>, V) = {}
    BY DEF Slots
  <2> QED BY <2>1, FS_EmptySet DEF Held
<1>2. ASSUME NEW s \in Seq(Frame), NEW V, Held(s, V) = 0,
             NEW k \in 1..Len(s), NEW i \in 1..Len(Content(s[k])), Content(s[k])[i] \in V
      PROVE  FALSE
  <2>1. Slots(s, V) = {}
    BY <1>2, SlotsFinite, FS_EmptySet DEF Held
  <2>2. <<k, i>> \in Row(s, k, V)
    BY <1>2 DEF Row
  <2> QED BY <2>1, <2>2 DEF Slots
<1> QED BY <1>1, <1>2

-----------------------------------------------------------------------------
(* Which messages take which of the two incoming paths.                    *)

\* What comes to m_incomingMessages and what skips it: never a reply.
InTurn     == {m \in Message : m.kind # "reply" /\ ~m.marked}
OutOfTurn  == {m \in Message : m.kind # "reply" /\ m.marked}
Dispatched == InTurn \union OutOfTurn

SortedFrame == {f \in Frame : /\ f.todo \in Seq(OutOfTurn)
                              /\ f.at # "drain" => f.todo = <<>>
                              /\ f.at = "handler" => f.msg \in Dispatched}

Sorted ==
  /\ incoming \in [Procs -> Seq(InTurn)]
  /\ syncQueue \in [Procs -> Seq(OutOfTurn)]
  /\ stack \in [Procs -> Seq(SortedFrame)]

LEMMA SortedFrames ==
  /\ \A m \in Dispatched : Handler(m) \in SortedFrame
  /\ Swap \in SortedFrame
  /\ \A s \in Seq(OutOfTurn) : Drain(s) \in SortedFrame
  /\ \A ph \in {"check", "sleep"}, i \in Ids \union {0} : Wait(ph, i) \in SortedFrame
<1>1. <<>> \in Seq(OutOfTurn)
  BY EmptySeq
<1>2. Dispatched \subseteq Message /\ OutOfTurn \subseteq Message
  BY DEF Dispatched, InTurn, OutOfTurn
<1>3. ASSUME NEW s \in Seq(OutOfTurn) PROVE Drain(s) \in SortedFrame
  <2>1. s \in Seq(Message)
    BY <1>2, ElementOfSeq, LenProperties, SeqDef
  <2>2. Drain(s) \in Frame
    BY <2>1, Frames
  <2> QED BY <2>2 DEF Drain, SortedFrame
<1>4. ASSUME NEW m \in Dispatched PROVE Handler(m) \in SortedFrame
  <2>1. Handler(m) \in Frame
    BY <1>2, Frames
  <2> QED BY <1>1, <2>1 DEF Handler, SortedFrame
<1>5. Swap \in SortedFrame
  BY <1>1, Frames DEF Swap, SortedFrame
<1>6. ASSUME NEW ph \in {"check", "sleep"}, NEW i \in Ids \union {0} PROVE Wait(ph, i) \in SortedFrame
  <2>1. Wait(ph, i) \in Frame
    BY Frames
  <2> QED BY <1>1, <2>1 DEF Wait, SortedFrame
<1> QED BY <1>3, <1>4, <1>5, <1>6

LEMMA InitSorted == Init => Sorted
<1>1. <<>> \in Seq(InTurn) /\ <<>> \in Seq(OutOfTurn) /\ <<>> \in Seq(SortedFrame)
  BY EmptySeq
<1>2. /\ [p \in Procs |-> <<>>] \in [Procs -> Seq(InTurn)]
      /\ [p \in Procs |-> <<>>] \in [Procs -> Seq(OutOfTurn)]
      /\ [p \in Procs |-> <<>>] \in [Procs -> Seq(SortedFrame)]
  BY <1>1
<1> QED BY <1>2, Zenon DEF Init, Sorted

\* The innermost activation and those below it.
LEMMA SortedTop ==
  ASSUME Sorted, NEW p \in Procs, stack[p] # <<>>
  PROVE  /\ Top(p) \in SortedFrame /\ Front(stack[p]) \in Seq(SortedFrame)
         /\ stack[p] = Append(Front(stack[p]), Top(p))
         /\ Top(p).todo \in Seq(OutOfTurn) /\ Top(p).id \in Ids \union {0}
<1>1. stack[p] \in Seq(SortedFrame)
  BY DEF Sorted
<1>2. Top(p) \in SortedFrame /\ Front(stack[p]) \in Seq(SortedFrame) /\ stack[p] = Append(Front(stack[p]), Top(p))
  BY <1>1, Popped DEF Top
<1>3. Top(p) \in Frame /\ Top(p).todo \in Seq(OutOfTurn)
  BY <1>2 DEF SortedFrame
<1> QED BY <1>2, <1>3, Fields

\* The innermost activation is replaced, or another comes on top.
LEMMA SortedPush ==
  ASSUME Sorted, NEW p \in Procs, NEW s \in Seq(SortedFrame), NEW f \in SortedFrame
  PROVE  Append(s, f) \in Seq(SortedFrame)
         /\ (stack' = [stack EXCEPT ![p] = Append(s, f)] => stack' \in [Procs -> Seq(SortedFrame)])
<1>1. Append(s, f) \in Seq(SortedFrame)
  BY Appended
<1> QED BY <1>1 DEF Sorted

LEMMA SortedSet ==
  ASSUME Sorted, NEW p \in Procs, NEW s \in Seq(SortedFrame), stack' = [stack EXCEPT ![p] = s]
  PROVE  stack' \in [Procs -> Seq(SortedFrame)]
  BY DEF Sorted

LEMMA NextSorted == TypeOK /\ Sorted /\ [Next]_vars => Sorted'
<1> SUFFICES ASSUME TypeOK, Sorted, [Next]_vars PROVE Sorted'
  OBVIOUS
<1> USE DEF netVars, inVars, syncVars, threadVars, procVars
<1>0. ASSUME UNCHANGED <<incoming, syncQueue, stack>> PROVE Sorted'
  BY <1>0 DEF Sorted
<1>s. ASSUME UNCHANGED <<incoming, syncQueue>>, stack' \in [Procs -> Seq(SortedFrame)] PROVE Sorted'
  BY <1>s DEF Sorted
<1>f. ASSUME NEW p \in Procs, stack[p] # <<>>, stack' = [stack EXCEPT ![p] = Front(@)],
             UNCHANGED <<incoming, syncQueue>>
      PROVE  Sorted'
  <2>1. Front(stack[p]) \in Seq(SortedFrame)
    BY <1>f, SortedTop
  <2>2. stack' \in [Procs -> Seq(SortedFrame)]
    BY <1>f, <2>1, SortedSet
  <2> QED BY <1>f, <1>s, <2>2
<1>1. ASSUME NEW p \in Procs, AppSends(p) PROVE Sorted'
  <2>1. CASE SendSync(p)
    <3>1. NextId(p) \in Ids
      BY <2>1, IdTypes DEF SendSync
    <3>2. Append(stack[p], Wait("check", NextId(p))) \in Seq(SortedFrame)
      BY <3>1, SortedFrames, SortedPush DEF Sorted
    <3>3. stack' = [stack EXCEPT ![p] = Append(Append(stack[p], Wait("check", NextId(p))), Swap)]
      BY <2>1 DEF SendSync
    <3>4. stack' \in [Procs -> Seq(SortedFrame)]
      BY <3>2, <3>3, SortedFrames, SortedPush
    <3> QED BY <1>s, <2>1, <3>4 DEF SendSync
  <2>2. CASE FinishInvalid(p)
    BY <1>f, <2>2 DEF FinishInvalid, At
  <2>3. CASE (\E even \in BOOLEAN : SendAsync(p, even)) \/ SendSyncFails(p) \/ SecondarySendSync(p) \/ Invalidate(p)
    BY <1>0, <2>3 DEF SendAsync, SendSyncFails, SecondarySendSync, Invalidate
  <2> QED BY <1>1, <2>1, <2>2, <2>3 DEF AppSends
<1>2. ASSUME NEW p \in Procs, MainThread(p) PROVE Sorted'
  <2>1. CASE DispatchOneMessage(p)
    <3>1. CASE incoming[p] = <<>>
      BY <1>0, <2>1, <3>1 DEF DispatchOneMessage
    <3>2. CASE incoming[p] # <<>>
      <4>1. incoming[p] \in Seq(InTurn)
        BY DEF Sorted
      <4>2. Head(incoming[p]) \in InTurn /\ Tail(incoming[p]) \in Seq(InTurn)
        BY <3>2, <4>1, HeadTailProperties
      <4>3. Handler(Head(incoming[p])) \in SortedFrame /\ stack[p] \in Seq(SortedFrame)
        BY <4>2, SortedFrames DEF Dispatched, Sorted
      <4>4. stack' = [stack EXCEPT ![p] = IF client[p] THEN Append(stack[p], Handler(Head(incoming[p]))) ELSE stack[p]]
        BY <2>1, <3>2 DEF DispatchOneMessage, Dispatch
      <4>5. stack' \in [Procs -> Seq(SortedFrame)]
        BY <4>3, <4>4, SortedPush, SortedSet
      <4>6. incoming' \in [Procs -> Seq(InTurn)]
        BY <2>1, <3>2, <4>2 DEF DispatchOneMessage, Sorted
      <4> QED BY <2>1, <3>2, <4>5, <4>6 DEF DispatchOneMessage, Sorted
    <3> QED BY <3>1, <3>2
  <2>2. CASE ResetDidSchedule(p)
    <3>1. stack' \in [Procs -> Seq(SortedFrame)]
      <4>1. stack[p] \in Seq(SortedFrame) /\ stack' = [stack EXCEPT ![p] = Append(stack[p], Swap)]
        BY <2>2 DEF ResetDidSchedule, Sorted
      <4> QED BY <4>1, SortedFrames, SortedPush
    <3> QED BY <1>s, <2>2, <3>1 DEF ResetDidSchedule
  <2>3. CASE DispatchDidClose(p)
    BY <1>0, <2>3 DEF DispatchDidClose
  <2>4. CASE SwapMessages(p)
    <3>1. /\ syncQueue[p] \in Seq(OutOfTurn) /\ <<>> \in Seq(OutOfTurn)
          /\ Front(stack[p]) \in Seq(SortedFrame)
      BY <2>4, SortedTop, EmptySeq DEF SwapMessages, At, Sorted
    <3>2. stack' = [stack EXCEPT ![p] = Append(Front(stack[p]), Drain(syncQueue[p]))]
      BY <2>4 DEF SwapMessages
    <3>3. stack' \in [Procs -> Seq(SortedFrame)]
      BY <3>1, <3>2, SortedFrames, SortedPush
    <3>4. syncQueue' \in [Procs -> Seq(OutOfTurn)]
      BY <2>4, <3>1 DEF SwapMessages, Sorted
    <3> QED BY <2>4, <3>3, <3>4 DEF SwapMessages, Sorted
  <2>5. CASE DrainNext(p)
    <3>1. /\ Head(Top(p).todo) \in OutOfTurn /\ Tail(Top(p).todo) \in Seq(OutOfTurn)
          /\ Front(stack[p]) \in Seq(SortedFrame)
      BY <2>5, SortedTop, HeadTailProperties DEF DrainNext, At
    <3>2. Append(Front(stack[p]), Drain(Tail(Top(p).todo))) \in Seq(SortedFrame)
      BY <3>1, SortedFrames, SortedPush
    <3>3. Handler(Head(Top(p).todo)) \in SortedFrame
      BY <3>1, SortedFrames DEF Dispatched
    <3>4. stack' = [stack EXCEPT ![p] =
                      IF client[p] THEN Append(Append(Front(stack[p]), Drain(Tail(Top(p).todo))), Handler(Head(Top(p).todo)))
                                   ELSE Append(Front(stack[p]), Drain(Tail(Top(p).todo)))]
      BY <2>5 DEF DrainNext, Dispatch
    <3>5. stack' \in [Procs -> Seq(SortedFrame)]
      BY <3>2, <3>3, <3>4, SortedPush, SortedSet
    <3> QED BY <1>s, <2>5, <3>5 DEF DrainNext
  <2>6. CASE DrainDone(p)
    BY <1>f, <2>6 DEF DrainDone, At
  <2>7. CASE FinishHandler(p)
    BY <1>f, <2>7 DEF FinishHandler, At
  <2>8. CASE CheckSyncReply(p)
    <3>1. CASE ReturnFromSync(p, Last(pending[p]).got)
      BY <1>f, <2>8, <3>1 DEF CheckSyncReply, ReturnFromSync, At
    <3>2. CASE stack' = [stack EXCEPT ![p] = Append(Front(@), Wait("sleep", Top(p).id))]
      <4>1. Front(stack[p]) \in Seq(SortedFrame) /\ Wait("sleep", Top(p).id) \in SortedFrame
        BY <2>8, SortedTop, SortedFrames DEF CheckSyncReply, At
      <4>2. stack' \in [Procs -> Seq(SortedFrame)]
        BY <3>2, <4>1, SortedPush
      <4> QED BY <1>s, <2>8, <4>2 DEF CheckSyncReply
    <3> QED BY <2>8, <3>1, <3>2 DEF CheckSyncReply
  <2>9. CASE WakeUp(p)
    <3>1. Append(Front(stack[p]), Wait("check", Top(p).id)) \in Seq(SortedFrame)
      BY <2>9, SortedTop, SortedFrames, SortedPush DEF WakeUp, At
    <3>2. stack' = [stack EXCEPT ![p] = Append(Append(Front(stack[p]), Wait("check", Top(p).id)), Swap)]
      BY <2>9 DEF WakeUp
    <3>3. stack' \in [Procs -> Seq(SortedFrame)]
      BY <3>1, <3>2, SortedFrames, SortedPush
    <3> QED BY <1>s, <2>9, <3>3 DEF WakeUp
  <2> QED BY <1>2, <2>1, <2>2, <2>3, <2>4, <2>5, <2>6, <2>7, <2>8, <2>9 DEF MainThread
<1>3. ASSUME NEW p \in Procs, WorkQueue(p) PROVE Sorted'
  <2>1. CASE ProcessIncomingMessage(p)
    <3>1. PICK m \in Message : m = Head(wire[p])
      BY <2>1, HeadTailProperties DEF ProcessIncomingMessage, TypeOK
    <3>2. CASE UNCHANGED inVars
      BY <1>0, <2>1, <3>2 DEF ProcessIncomingMessage
    <3>3. CASE TakenOutOfTurn(m) /\ ProcessMarked(p, m) /\ UNCHANGED incoming
      <4>1. m \in OutOfTurn
        BY <3>3 DEF TakenOutOfTurn, OutOfTurn
      <4>2. Append(syncQueue[p], m) \in Seq(OutOfTurn)
        BY <4>1, Appended DEF Sorted
      <4>3. syncQueue' \in [Procs -> Seq(OutOfTurn)]
        BY <3>3, <4>2 DEF ProcessMarked, Sorted
      <4> QED BY <2>1, <3>3, <4>3 DEF ProcessIncomingMessage, Sorted
    <3>4. CASE /\ m.kind # "reply" /\ ~TakenOutOfTurn(m)
               /\ incoming' = [incoming EXCEPT ![p] = Append(@, m)] /\ UNCHANGED syncQueue
      <4>1. m \in InTurn
        BY <3>4 DEF TakenOutOfTurn, InTurn
      <4>2. Append(incoming[p], m) \in Seq(InTurn)
        BY <4>1, Appended DEF Sorted
      <4>3. incoming' \in [Procs -> Seq(InTurn)]
        BY <3>4, <4>2 DEF Sorted
      <4> QED BY <2>1, <3>4, <4>3 DEF ProcessIncomingMessage, Sorted
    <3> QED BY <2>1, <3>1, <3>2, <3>3, <3>4 DEF ProcessIncomingMessage
  <2>2. CASE \/ WriteMessage(p) \/ WriteBlocks(p) \/ WriteFails(p) \/ WriteShutsDown(p)
             \/ ConnectionDidClose(p) \/ ReadFails(p) \/ PlatformInvalidate(p) \/ PerformClose(p)
    BY <1>0, <2>2 DEF WriteMessage, WriteBlocks, WriteFails, WriteShutsDown, DidClose,
                      ConnectionDidClose, ReadFails, PlatformInvalidate, PerformClose
  <2> QED BY <1>3, <2>1, <2>2 DEF WorkQueue
<1>4. ASSUME NEW p \in Procs, SendDelayedReply(p) \/ SecondaryReturns(p) \/ Crash(p) PROVE Sorted'
  BY <1>0, <1>4 DEF SendDelayedReply, SecondaryReturns, Crash
<1>5. ASSUME NEW p \in Procs, SyncTimesOut(p) PROVE Sorted'
  BY <1>f, <1>5 DEF SyncTimesOut, ReturnFromSync, At
<1>6. UNCHANGED vars => Sorted'
  BY <1>0 DEF vars
<1> QED BY <1>1, <1>2, <1>3, <1>4, <1>5, <1>6 DEF Next

-----------------------------------------------------------------------------
(* The places of a synchronous request, counted.                           *)

Named(kind, id) == {m \in Message : m.kind = kind /\ m.id = id}
Bit(b) == IF b THEN 1 ELSE 0

\* How many messages of V are on their way from p to its peer.
Way(p, V) == Count(out[p], V) + Count(wire[Peer(p)], V)

\* How many times p has the peer's request id, until it replies.
Here(p, id) == Count(incoming[p], Named("sync", id)) + Count(syncQueue[p], Named("sync", id))
               + Held(stack[p], Named("sync", id)) + Bit(id \in delayed[p])

\* In how many places p's request id is.
Total(p, id) == Way(p, Named("sync", id)) + Here(Peer(p), id)
                + Way(Peer(p), Named("reply", id)) + Bit(Answered(p, id))

Up(p) == client[Peer(p)] /\ ~Gone(p) /\ ~Gone(Peer(p))

OnceOnly ==
  \A p \in Procs : \A id \in Ids :
    /\ Total(p, id) <= 1
    /\ id > lastId[p] => Total(p, id) = 0
    /\ Up(p) /\ id \in Requests(p) => Total(p, id) = 1

LEMMA Ends == \A p \in Procs : Peer(p) \in Procs /\ Peer(p) # p /\ Peer(Peer(p)) = p /\ Procs = {p, Peer(p)}
<1>1. PICK a \in Procs, b \in Procs : a # b /\ Procs = {a, b}
  BY ConnectionAssumption
<1> QED BY <1>1, PeerType

LEMMA Names ==
  /\ \A m \in Message : \A k, i : m \in Named(k, i) <=> m.kind = k /\ m.id = i
  /\ \A k, i : NoMsg \notin Named(k, i)
  BY DEF Named, Message, NoMsg

LEMMA WayTypes ==
  ASSUME TypeOK, NEW p \in Procs, NEW V
  PROVE  Count(out[p], V) \in Nat /\ Count(wire[p], V) \in Nat /\ Way(p, V) \in Nat
<1>1. out[p] \in Seq(Message) /\ wire[p] \in Seq(Message) /\ wire[Peer(p)] \in Seq(Message)
  BY Ends DEF TypeOK
<1> QED BY <1>1, CountType DEF Way

LEMMA HereTypes ==
  ASSUME TypeOK, NEW p \in Procs, NEW V, NEW id
  PROVE  /\ Count(incoming[p], V) \in Nat /\ Count(syncQueue[p], V) \in Nat /\ Held(stack[p], V) \in Nat
         /\ Here(p, id) \in Nat
<1>1. incoming[p] \in Seq(Message) /\ syncQueue[p] \in Seq(Message) /\ stack[p] \in Seq(Frame)
  BY DEF TypeOK
<1>2. Count(incoming[p], V) \in Nat /\ Count(syncQueue[p], V) \in Nat /\ Held(stack[p], V) \in Nat
  BY <1>1, CountType, SlotsFinite
<1>3. Here(p, id) \in Nat
  BY <1>1, CountType, SlotsFinite DEF Here, Bit
<1> QED BY <1>2, <1>3

LEMMA TotalTypes ==
  ASSUME TypeOK, NEW p \in Procs, NEW id
  PROVE  Total(p, id) \in Nat
  BY WayTypes, HereTypes, Ends DEF Total, Bit

\* sendMessage adds one message on the way to the peer, when the connection is valid.
LEMMA WaySent ==
  ASSUME TypeOK, NEW p \in Procs, NEW q \in Procs, NEW id \in Ids, NEW even \in BOOLEAN,
         NEW kind \in {"async", "sync", "reply"}, SendMessage(p, kind, id, even), UNCHANGED wire,
         NEW k, NEW i
  PROVE  Way(q, Named(k, i))' = Way(q, Named(k, i)) + Bit(q = p /\ client[p] /\ k = kind /\ i = id)
<1> DEFINE marked == even /\ (p \notin OnlyWhenProcessing \/ ProcessingMarked(p))
           m == [kind |-> kind, id |-> id, marked |-> marked]
<1>1. m \in Message /\ m.kind = kind /\ m.id = id
  BY DEF Message
<1>2. out' = IF client[p] THEN [out EXCEPT ![p] = Append(@, m)] ELSE out
  BY DEF SendMessage
<1> HIDE DEF m
<1>3. out[q] \in Seq(Message) /\ out \in [Procs -> Seq(Message)]
  BY DEF TypeOK
<1>4. Count(Append(out[q], m), Named(k, i)) = Count(out[q], Named(k, i)) + Bit(k = kind /\ i = id)
  BY <1>1, <1>3, CountAppend, Names DEF Bit
<1>5. Count(out[q], Named(k, i)) \in Nat /\ Count(wire[Peer(q)], Named(k, i)) \in Nat
  BY WayTypes, Ends
<1>6. Count(out'[q], Named(k, i)) = Count(out[q], Named(k, i)) + Bit(q = p /\ client[p] /\ k = kind /\ i = id)
  BY <1>2, <1>3, <1>4, <1>5 DEF Bit
<1>7. Way(q, Named(k, i))' = Count(out'[q], Named(k, i)) + Count(wire[Peer(q)], Named(k, i))
  BY DEF Way
<1> QED BY <1>5, <1>6, <1>7 DEF Way, Bit

-----------------------------------------------------------------------------

KnownIds(replies, other, n) ==
  /\ \A i, j \in 1..Len(replies) : replies[i].id = replies[j].id => i = j
  /\ \A i \in 1..Len(replies) : replies[i].id <= n /\ replies[i].id # other
  /\ other <= n

Known == \A p \in Procs : KnownIds(pending[p], second[p].id, lastId[p])

LEMMA IdNumbers == \A id \in Ids : id \in Nat /\ id >= 1
  BY ConnectionAssumption DEF Ids

LEMMA PendingTypes ==
  ASSUME TypeOK, NEW p \in Procs
  PROVE  /\ pending[p] \in Seq(PendingReply) /\ Len(pending[p]) \in Nat /\ DOMAIN pending[p] = 1..Len(pending[p])
         /\ \A i \in 1..Len(pending[p]) : pending[p][i] \in PendingReply /\ pending[p][i].id \in Ids
         /\ second[p].id \in Ids \union {0} /\ lastId[p] \in Nat
<1>1. pending[p] \in Seq(PendingReply) /\ second[p].id \in Ids \union {0} /\ lastId[p] \in Nat
  BY DEF TypeOK, PendingReply
<1>2. \A x \in PendingReply : x.id \in Ids
  BY DEF PendingReply
<1> QED BY <1>1, <1>2, LenProperties, ElementOfSeq

LEMMA InitKnown == Init => Known
<1>1. Len(<<>>) = 0
  OBVIOUS
<1>2. Init => \A p \in Procs : pending[p] = <<>> /\ second[p].id = 0 /\ lastId[p] = 0
  BY DEF Init, NoSecond
<1>3. KnownIds(<<>>, 0, 0)
  BY <1>1 DEF KnownIds
<1> QED BY <1>2, <1>3 DEF Known

\* sendSyncMessage returns: the innermost pending reply goes.
LEMMA ReturnedReplies ==
  ASSUME TypeOK, NEW p \in Procs, pending[p] # <<>>
  PROVE  /\ Front(pending[p]) \in Seq(PendingReply)
         /\ Len(pending[p]) = Len(Front(pending[p])) + 1 /\ Len(Front(pending[p])) \in Nat
         /\ \A i \in 1..Len(Front(pending[p])) : Front(pending[p])[i] = pending[p][i]
         /\ Last(pending[p]) = pending[p][Len(pending[p])]
<1>1. pending[p] \in Seq(PendingReply)
  BY PendingTypes
<1>2. /\ Front(pending[p]) \in Seq(PendingReply) /\ Last(pending[p]) \in PendingReply
      /\ pending[p] = Append(Front(pending[p]), Last(pending[p]))
  BY <1>1, Popped
<1> QED BY <1>2, Appended DEF Last

\* A thread that waits for the reply of the main thread has one pending.
LEMMA WaitHasReply ==
  ASSUME TypeOK, Nested, NEW p \in Procs, At(p, "check") \/ At(p, "sleep")
  PROVE  pending[p] # <<>>
  BY UnderWait DEF At, IsWait

LEMMA KnownRest ==
  ASSUME NEW r, NEW u, NEW other, NEW n, KnownIds(r, other, n), Len(r) \in Nat, Len(u) \in Nat, Len(u) <= Len(r),
         \A i \in 1..Len(u) : u[i].id = r[i].id
  PROVE  KnownIds(u, other, n)
<1>1. \A i \in 1..Len(u) : i \in 1..Len(r)
  OBVIOUS
<1>2. /\ \A i, j \in 1..Len(r) : r[i].id = r[j].id => i = j
      /\ \A i \in 1..Len(r) : r[i].id <= n /\ r[i].id # other
      /\ other <= n
  BY DEF KnownIds
<1>3. ASSUME NEW i \in 1..Len(u), NEW j \in 1..Len(u), u[i].id = u[j].id PROVE i = j
  BY <1>1, <1>2, <1>3
<1>4. ASSUME NEW i \in 1..Len(u) PROVE u[i].id <= n /\ u[i].id # other
  <2>1. r[i].id <= n /\ r[i].id # other /\ u[i].id = r[i].id
    BY <1>1, <1>2
  <2> QED BY <2>1, Zenon
<1> QED BY <1>2, <1>3, <1>4, Zenon DEF KnownIds

\* processIncomingSyncReply: the pending reply with the id of the message is filled.
LEMMA ReplyFills ==
  ASSUME TypeOK, NEW p \in Procs, NEW m \in Message, ProcessSyncReply(p, m)
  PROVE  /\ \A q \in Procs : q # p => pending'[q] = pending[q] /\ second'[q] = second[q]
         /\ Len(pending'[p]) = Len(pending[p]) /\ second'[p].id = second[p].id
         /\ \A i \in 1..Len(pending[p]) : pending'[p][i].id = pending[p][i].id
         /\ \A i \in 1..Len(pending[p]) : pending[p][i].id # m.id => pending'[p][i] = pending[p][i]
         /\ second[p].id # m.id => second'[p] = second[p]
         /\ m.id \in Requests(p) => Answered(p, m.id)'
<1> DEFINE hits == {i \in DOMAIN pending[p] : pending[p][i].id = m.id}
<1>1. /\ pending \in [Procs -> Seq([id : Ids, got : BOOLEAN])] /\ m.id \in Ids
      /\ second \in [Procs -> [id : Ids \union {0}, got : BOOLEAN, signalled : BOOLEAN]]
  BY Fields DEF TypeOK
<1>2. DOMAIN pending[p] = 1..Len(pending[p]) /\ pending[p] \in Seq(PendingReply)
  BY PendingTypes
<1>3. CASE hits # {}
  <2>1. pending' = [pending EXCEPT ![p] = Marked(pending[p], m)] /\ UNCHANGED second
    BY <1>3 DEF ProcessSyncReply, Marked
  <2>2. pending'[p] = Marked(pending[p], m) /\ \A q \in Procs : q # p => pending'[q] = pending[q]
    BY <1>1, <2>1
  <2>3. /\ Len(pending'[p]) = Len(pending[p])
        /\ \A i \in 1..Len(pending[p]) : pending'[p][i].id = pending[p][i].id
        /\ \A i \in 1..Len(pending[p]) : pending[p][i].id # m.id => pending'[p][i] = pending[p][i]
    <3>1. /\ Len(Marked(pending[p], m)) = Len(pending[p])
          /\ \A i \in 1..Len(pending[p]) : Marked(pending[p], m)[i].id = pending[p][i].id
          /\ \A i \in 1..Len(pending[p]) : pending[p][i].id # m.id => Marked(pending[p], m)[i] = pending[p][i]
      BY <1>2, RepliesMarked
    <3> QED BY <2>2, <3>1, Zenon
  <2>4. Answered(p, m.id)'
    <3>1. PICK i \in DOMAIN pending[p] : pending[p][i].id = m.id
      BY <1>3
    <3>2. i \in hits
      BY <3>1
    <3>3. pending[p][i] \in PendingReply
      BY <1>2, PendingTypes
    <3>4. Marked(pending[p], m)[i] = [pending[p][i] EXCEPT !.got = TRUE]
      BY <3>2 DEF Marked
    <3>5. pending'[p][i].got /\ pending'[p][i].id = m.id
      BY <2>2, <3>1, <3>3, <3>4 DEF PendingReply
    <3>6. i \in DOMAIN pending'[p]
      BY <2>2 DEF Marked
    <3> QED BY <3>5, <3>6 DEF Answered
  <2> QED BY <2>1, <2>2, <2>3, <2>4
<1>4. CASE hits = {}
  <2>1. /\ UNCHANGED pending
        /\ second' = IF second[p].id = m.id
                     THEN [second EXCEPT ![p].got = TRUE, ![p].signalled = TRUE] ELSE second
    BY <1>4 DEF ProcessSyncReply
  <2>2. CASE second[p].id # m.id
    <3>1. m.id \notin Requests(p)
      BY <1>4, <2>2 DEF Requests
    <3> QED BY <2>1, <2>2, <3>1
  <2>3. CASE second[p].id = m.id
    <3>1. second'[p].id = second[p].id /\ second'[p].got /\ \A q \in Procs : q # p => second'[q] = second[q]
      BY <1>1, <2>1, <2>3
    <3>2. Answered(p, m.id)'
      BY <2>3, <3>1 DEF Answered
    <3> QED BY <2>1, <2>3, <3>1, <3>2
  <2> QED BY <2>2, <2>3
<1> QED BY <1>3, <1>4

LEMMA DidCloseKeeps ==
  ASSUME TypeOK, NEW p \in Procs, DidClose(p)
  PROVE  /\ UNCHANGED pending
         /\ \A q \in Procs : second'[q].id = second[q].id /\ second'[q].got = second[q].got
<1>1. /\ second' = [second EXCEPT ![p].signalled = @ \/ second[p].id # 0] /\ UNCHANGED pending
      /\ second \in [Procs -> [id : Ids \union {0}, got : BOOLEAN, signalled : BOOLEAN]]
  BY DEF DidClose, TypeOK
<1> QED BY <1>1

LEMMA KnownNew ==
  ASSUME NEW r \in Seq(PendingReply), NEW other \in Nat, NEW n \in Nat, KnownIds(r, other, n)
  PROVE  /\ \A m \in Nat : n <= m => KnownIds(r, other, m)
         /\ KnownIds(r, n + 1, n + 1) /\ KnownIds(r, 0, n)
         /\ n + 1 \in Ids => KnownIds(Append(r, [id |-> n + 1, got |-> FALSE]), other, n + 1)
<1>1. Len(r) \in Nat /\ \A i \in 1..Len(r) : r[i] \in PendingReply /\ r[i].id \in Nat /\ r[i].id >= 1
  <2>1. Len(r) \in Nat /\ \A i \in 1..Len(r) : r[i] \in PendingReply
    BY LenProperties, ElementOfSeq
  <2>2. \A x \in PendingReply : x.id \in Ids
    BY DEF PendingReply
  <2> QED BY <2>1, <2>2, IdNumbers
<1>2. \A m \in Nat : n <= m => KnownIds(r, other, m)
  BY <1>1 DEF KnownIds
<1>3. KnownIds(r, n + 1, n + 1) /\ KnownIds(r, 0, n)
  BY <1>1 DEF KnownIds
<1>4. ASSUME n + 1 \in Ids PROVE KnownIds(Append(r, [id |-> n + 1, got |-> FALSE]), other, n + 1)
  <2> DEFINE e == [id |-> n + 1, got |-> FALSE]
             t == Append(r, e)
  <2>1. e \in PendingReply /\ e.id = n + 1
    BY <1>4 DEF PendingReply
  <2> HIDE DEF e
  <2>2. /\ Len(t) = Len(r) + 1 /\ \A i \in 1..Len(r) : t[i] = r[i]
        /\ t[Len(r) + 1] = e
    BY <2>1, Appended
  <2> HIDE DEF t
  <2>3. \A i \in 1..Len(t) : i \in 1..Len(r) \/ i = Len(r) + 1
    BY <1>1, <2>2
  <2>4. \A i \in 1..Len(r) : r[i].id <= n /\ r[i].id # n + 1
    BY <1>1 DEF KnownIds
  <2>5. other # n + 1 /\ other <= n + 1
    BY DEF KnownIds
  <2> QED BY <1>1, <2>1, <2>2, <2>3, <2>4, <2>5 DEF KnownIds, t, e
<1> QED BY <1>2, <1>3, <1>4

\* One process's ids change.
LEMMA OthersKnown ==
  ASSUME Known, NEW p \in Procs,
         \A q \in Procs : q # p => pending'[q] = pending[q] /\ second'[q].id = second[q].id /\ lastId'[q] = lastId[q],
         KnownIds(pending'[p], second'[p].id, lastId'[p])
  PROVE  Known'
  BY DEF Known

LEMMA NextKnown == TypeOK /\ Nested /\ Known /\ [Next]_vars => Known'
<1> SUFFICES ASSUME TypeOK, Nested, Known, [Next]_vars PROVE Known'
  OBVIOUS
<1> USE DEF netVars, inVars, syncVars, threadVars, procVars
<1>0. ASSUME UNCHANGED <<pending, second, lastId>> PROVE Known'
  BY <1>0 DEF Known
<1>a. ASSUME NEW p \in Procs
      PROVE  /\ pending[p] \in Seq(PendingReply) /\ second[p].id \in Nat /\ lastId[p] \in Nat
             /\ KnownIds(pending[p], second[p].id, lastId[p])
             /\ \A n \in Nat : lastId[p] <= n => KnownIds(pending[p], second[p].id, n)
  <2>1. /\ pending[p] \in Seq(PendingReply) /\ second[p].id \in Nat /\ lastId[p] \in Nat
        /\ KnownIds(pending[p], second[p].id, lastId[p])
    BY PendingTypes, IdNumbers DEF Known
  <2> QED BY <2>1, KnownNew
<1>n. ASSUME NEW p \in Procs, NewId(p) 
      PROVE  /\ lastId'[p] = lastId[p] + 1 /\ \A q \in Procs : q # p => lastId'[q] = lastId[q]
             /\ NextId(p) = lastId[p] + 1 /\ NextId(p) \in Ids
  BY <1>n, IdTypes DEF NewId, NextId, TypeOK
<1>r. ASSUME NEW p \in Procs, NEW replied, At(p, "check") \/ At(p, "sleep"), ReturnFromSync(p, replied),
             UNCHANGED <<second, lastId>>
      PROVE  Known'
  <2>1. pending'[p] = Front(pending[p]) /\ \A q \in Procs : q # p => pending'[q] = pending[q]
    BY <1>r DEF ReturnFromSync, TypeOK
  <2>2. KnownIds(Front(pending[p]), second[p].id, lastId[p])
    BY <1>r, <1>a, WaitHasReply, ReturnedReplies, PendingTypes, KnownRest
  <2> QED BY <1>r, <2>1, <2>2, OthersKnown
<1>1. ASSUME NEW p \in Procs, AppSends(p) PROVE Known'
  <2>1. CASE SendSync(p)
    <3>1. /\ pending'[p] = Append(pending[p], [id |-> lastId[p] + 1, got |-> FALSE])
          /\ \A q \in Procs : q # p => pending'[q] = pending[q]
          /\ UNCHANGED second /\ NewId(p)
      BY <2>1 DEF SendSync, NextId, TypeOK
    <3>2. KnownIds(Append(pending[p], [id |-> lastId[p] + 1, got |-> FALSE]), second[p].id, lastId[p] + 1)
      BY <1>a, <1>n, <3>1, KnownNew
    <3> QED BY <1>n, <3>1, <3>2, OthersKnown
  <2>2. CASE (\E even \in BOOLEAN : SendAsync(p, even)) \/ SendSyncFails(p)
    <3>1. NewId(p) /\ UNCHANGED <<pending, second>>
      BY <2>2 DEF SendAsync, SendSyncFails
    <3>2. KnownIds(pending[p], second[p].id, lastId[p] + 1)
      BY <1>a
    <3> QED BY <1>n, <3>1, <3>2, OthersKnown
  <2>3. CASE SecondarySendSync(p)
    <3>1. /\ second'[p].id = lastId[p] + 1 /\ \A q \in Procs : q # p => second'[q].id = second[q].id
          /\ UNCHANGED pending /\ NewId(p)
      BY <2>3 DEF SecondarySendSync, NextId, TypeOK
    <3>2. KnownIds(pending[p], lastId[p] + 1, lastId[p] + 1)
      BY <1>a, KnownNew
    <3> QED BY <1>n, <3>1, <3>2, OthersKnown
  <2>4. CASE Invalidate(p) \/ FinishInvalid(p)
    BY <1>0, <2>4 DEF Invalidate, FinishInvalid
  <2> QED BY <1>1, <2>1, <2>2, <2>3, <2>4 DEF AppSends
<1>2. ASSUME NEW p \in Procs, MainThread(p) PROVE Known'
  <2>1. CASE CheckSyncReply(p)
    <3>1. CASE ReturnFromSync(p, Last(pending[p]).got)
      BY <1>r, <2>1, <3>1 DEF CheckSyncReply
    <3>2. CASE UNCHANGED pending
      BY <1>0, <2>1, <3>2 DEF CheckSyncReply
    <3> QED BY <2>1, <3>1, <3>2 DEF CheckSyncReply
  <2>2. CASE ~CheckSyncReply(p)
    BY <1>0, <1>2, <2>2 DEF MainThread, DispatchOneMessage, ResetDidSchedule, DispatchDidClose, SwapMessages,
                            DrainNext, DrainDone, FinishHandler, WakeUp
  <2> QED BY <2>1, <2>2
<1>3. ASSUME NEW p \in Procs, WorkQueue(p) PROVE Known'
  <2>1. CASE ProcessIncomingMessage(p) /\ ~UNCHANGED <<pending, second>>
    <3>1. PICK m \in Message : m = Head(wire[p])
      BY <2>1, HeadTailProperties DEF ProcessIncomingMessage, TypeOK
    <3>2. ProcessSyncReply(p, m) /\ UNCHANGED lastId
      BY <2>1, <3>1 DEF ProcessIncomingMessage
    <3>3. KnownIds(pending'[p], second[p].id, lastId[p])
      BY <1>a, <3>2, ReplyFills, PendingTypes, KnownRest
    <3> QED BY <3>2, <3>3, ReplyFills, OthersKnown
  <2>2. CASE ProcessIncomingMessage(p) /\ UNCHANGED <<pending, second>>
    BY <1>0, <2>2 DEF ProcessIncomingMessage
  <2>3. CASE WriteShutsDown(p) \/ ConnectionDidClose(p)
    <3>1. DidClose(p) /\ UNCHANGED <<pending, lastId>> /\ \A q \in Procs : second'[q].id = second[q].id
      BY <2>3, DidCloseKeeps DEF WriteShutsDown, ConnectionDidClose, DidClose
    <3> QED BY <3>1 DEF Known
  <2>4. CASE \/ WriteMessage(p) \/ WriteBlocks(p) \/ WriteFails(p) \/ ReadFails(p) \/ PlatformInvalidate(p) \/ PerformClose(p)
    BY <1>0, <2>4 DEF WriteMessage, WriteBlocks, WriteFails, ReadFails, PlatformInvalidate, PerformClose
  <2> QED BY <1>3, <2>1, <2>2, <2>3, <2>4 DEF WorkQueue
<1>4. ASSUME NEW p \in Procs, SecondaryReturns(p) PROVE Known'
  <2>1. /\ second'[p].id = 0 /\ \A q \in Procs : q # p => second'[q].id = second[q].id
        /\ UNCHANGED <<pending, lastId>>
    BY <1>4 DEF SecondaryReturns, NoSecond, TypeOK
  <2>2. KnownIds(pending[p], 0, lastId[p])
    BY <1>a, KnownNew
  <2> QED BY <2>1, <2>2, OthersKnown
<1>5. ASSUME NEW p \in Procs, SendDelayedReply(p) \/ Crash(p) PROVE Known'
  BY <1>0, <1>5 DEF SendDelayedReply, Crash
<1>6. ASSUME NEW p \in Procs, SyncTimesOut(p) PROVE Known'
  BY <1>r, <1>6 DEF SyncTimesOut
<1>7. UNCHANGED vars => Known'
  BY <1>0 DEF vars
<1> QED BY <1>1, <1>2, <1>3, <1>4, <1>5, <1>6, <1>7 DEF Next

\* Processes, clients and ends of the connection only go away.
LEMMA EndsFade ==
  TypeOK /\ [Next]_vars => \A a \in Procs : /\ (client'[a] => client[a]) /\ (alive'[a] => alive[a])
                                            /\ (connected'[a] => connected[a]) /\ (reading'[a] => reading[a])
                                            /\ lastId[a] <= lastId'[a]
<1> SUFFICES ASSUME TypeOK, [Next]_vars, NEW a \in Procs
             PROVE  /\ (client'[a] => client[a]) /\ (alive'[a] => alive[a])
                    /\ (connected'[a] => connected[a]) /\ (reading'[a] => reading[a])
                    /\ lastId[a] <= lastId'[a]
  OBVIOUS
<1> USE DEF netVars, inVars, syncVars, threadVars, procVars
<1> DEFINE Fades == /\ (client'[a] => client[a]) /\ (alive'[a] => alive[a])
                    /\ (connected'[a] => connected[a]) /\ (reading'[a] => reading[a])
                    /\ lastId[a] <= lastId'[a]
<1>t. \A n \in Nat : n <= n /\ n <= n + 1
  OBVIOUS
<1>s. lastId'[a] = lastId[a] => lastId[a] <= lastId'[a]
  BY <1>t DEF TypeOK
<1>n. ASSUME NEW p \in Procs, NewId(p) PROVE lastId[a] <= lastId'[a]
  BY <1>n, <1>t DEF NewId, TypeOK
<1>0. ASSUME UNCHANGED <<client, alive, connected, reading>>, lastId' = lastId \/ \E p \in Procs : NewId(p) PROVE Fades
  BY <1>0, <1>n, <1>s
<1>r. ASSUME NEW p \in Procs, NEW replied, alive[p], ReturnFromSync(p, replied), UNCHANGED <<client, connected, reading, lastId>>
      PROVE  Fades
  BY <1>r, <1>s DEF ReturnFromSync, FailedSync, TypeOK
<1>1. ASSUME NEW p \in Procs, AppSends(p) PROVE Fades
  <2>1. CASE SendSyncFails(p)
    BY <2>1, <1>n DEF SendSyncFails, AppCodeRuns, FailedSync, TypeOK
  <2>2. CASE Invalidate(p) \/ FinishInvalid(p)
    BY <2>2, <1>s DEF Invalidate, FinishInvalid, TypeOK
  <2>3. CASE (\E even \in BOOLEAN : SendAsync(p, even)) \/ SendSync(p) \/ SecondarySendSync(p)
    BY <1>0, <2>3 DEF SendAsync, SendSync, SecondarySendSync
  <2> QED BY <1>1, <2>1, <2>2, <2>3 DEF AppSends
<1>2. ASSUME NEW p \in Procs, MainThread(p) PROVE Fades
  <2>1. CASE CheckSyncReply(p)
    <3>1. CASE ReturnFromSync(p, Last(pending[p]).got)
      BY <1>r, <2>1, <3>1 DEF CheckSyncReply
    <3>2. CASE UNCHANGED alive
      BY <1>0, <2>1, <3>2 DEF CheckSyncReply
    <3> QED BY <2>1, <3>1, <3>2 DEF CheckSyncReply
  <2>2. CASE DispatchDidClose(p)
    BY <2>2, <1>s DEF DispatchDidClose, TypeOK
  <2>3. CASE ~CheckSyncReply(p) /\ ~DispatchDidClose(p)
    BY <1>0, <1>2, <2>3 DEF MainThread, DispatchOneMessage, ResetDidSchedule, SwapMessages,
                            DrainNext, DrainDone, FinishHandler, WakeUp
  <2> QED BY <2>1, <2>2, <2>3
<1>3. ASSUME NEW p \in Procs, WorkQueue(p) PROVE Fades
  <2>1. CASE WriteShutsDown(p) \/ ConnectionDidClose(p) \/ ReadFails(p)
    BY <2>1, <1>s DEF WriteShutsDown, ConnectionDidClose, DidClose, ReadFails, TypeOK
  <2>2. CASE PlatformInvalidate(p) \/ PerformClose(p)
    BY <2>2, <1>s DEF PlatformInvalidate, PerformClose, TypeOK
  <2>3. CASE WriteMessage(p) \/ WriteBlocks(p) \/ WriteFails(p) \/ ProcessIncomingMessage(p)
    BY <1>0, <2>3 DEF WriteMessage, WriteBlocks, WriteFails, ProcessIncomingMessage
  <2> QED BY <1>3, <2>1, <2>2, <2>3 DEF WorkQueue
<1>4. ASSUME NEW p \in Procs, SendDelayedReply(p) \/ SecondaryReturns(p) PROVE Fades
  BY <1>0, <1>4 DEF SendDelayedReply, SecondaryReturns
<1>5. ASSUME NEW p \in Procs, Crash(p) PROVE Fades
  BY <1>5, <1>s DEF Crash, TypeOK
<1>6. ASSUME NEW p \in Procs, SyncTimesOut(p) PROVE Fades
  BY <1>r, <1>6 DEF SyncTimesOut
<1>7. UNCHANGED vars => Fades
  BY <1>0 DEF vars
<1> QED BY <1>1, <1>2, <1>3, <1>4, <1>5, <1>6, <1>7 DEF Next

LEMMA UpFades == TypeOK /\ [Next]_vars => \A a \in Procs : Up(a)' => Up(a)
  BY EndsFade, Ends DEF Up, Gone

-----------------------------------------------------------------------------
(* What a step does to the places of a request.                            *)

Counted ==
  \A a \in Procs :
    /\ \A k, i : Way(a, Named(k, i)) \in Nat
    /\ \A i : Here(a, i) \in Nat /\ Total(a, i) \in Nat

LEMMA CountedBefore == TypeOK => Counted
  BY TotalTypes, WayTypes, HereTypes DEF Counted

LEMMA CountedAfter == TypeOK' => Counted'
  BY CountedBefore, PTL

\* No request is in more places than before, and none that is waited for in fewer.
LEMMA Kept ==
  ASSUME TypeOK, TypeOK', OnceOnly,
         \A a \in Procs : lastId[a] <= lastId'[a] /\ (Up(a)' => Up(a)),
         \A a \in Procs, i \in Ids :
           /\ Total(a, i)' <= Total(a, i)
           /\ Up(a)' /\ i \in Requests(a)' => i \in Requests(a) /\ Total(a, i)' = Total(a, i)
  PROVE  OnceOnly'
<1> SUFFICES ASSUME NEW a \in Procs, NEW i \in Ids
             PROVE  /\ Total(a, i)' <= 1
                    /\ i > lastId'[a] => Total(a, i)' = 0
                    /\ Up(a)' /\ i \in Requests(a)' => Total(a, i)' = 1
  BY DEF OnceOnly
<1>1. /\ Total(a, i) <= 1 /\ (i > lastId[a] => Total(a, i) = 0)
      /\ (Up(a) /\ i \in Requests(a) => Total(a, i) = 1)
  BY DEF OnceOnly
<1>2. Total(a, i) \in Nat /\ Total(a, i)' \in Nat
  BY CountedBefore, CountedAfter DEF Counted
<1>3. lastId[a] \in Nat /\ lastId'[a] \in Nat /\ i \in Nat
  BY IdNumbers DEF TypeOK
<1>4. i > lastId'[a] => i > lastId[a]
  BY <1>3
<1>5. /\ Total(a, i)' <= Total(a, i)
      /\ Up(a)' /\ i \in Requests(a)' => Up(a) /\ i \in Requests(a) /\ Total(a, i)' = Total(a, i)
  OBVIOUS
<1>6. \A m, n \in Nat : m <= n /\ n <= 1 => m <= 1 /\ (n = 0 => m = 0)
  OBVIOUS
<1> QED BY <1>1, <1>2, <1>4, <1>5, <1>6

LEMMA Sums ==
  \A w, h, r, s, h1, r1, s1 \in Nat :
    /\ s1 <= s /\ h1 + r1 <= h + r => w + h1 + r1 + s1 <= w + h + r + s
    /\ s1 = s /\ h1 + r1 = h + r => w + h1 + r1 + s1 = w + h + r + s
  OBVIOUS

\* p acts: what happens to the requests it was asked, while it only moves its own.
LEMMA Stepped ==
  ASSUME TypeOK, TypeOK', OnceOnly, NEW p \in Procs,
         \A a \in Procs : lastId[a] <= lastId'[a] /\ (Up(a)' => Up(a)),
         \A a \in Procs, i \in Ids :
           /\ Answered(a, i)' => Answered(a, i)
           /\ i \in Requests(a)' => i \in Requests(a) /\ (Answered(a, i) => Answered(a, i)'),
         \A a \in Procs, i \in Ids : Way(a, Named("sync", i))' = Way(a, Named("sync", i)),
         \A i \in Ids : /\ Here(Peer(p), i)' = Here(Peer(p), i)
                       /\ Way(Peer(p), Named("reply", i))' = Way(Peer(p), Named("reply", i)),
         \A i \in Ids :
           /\ Here(p, i)' + Way(p, Named("reply", i))' <= Here(p, i) + Way(p, Named("reply", i))
           /\ client'[p] => Here(p, i)' + Way(p, Named("reply", i))' = Here(p, i) + Way(p, Named("reply", i))
  PROVE  OnceOnly'
<1>1. ASSUME NEW a \in Procs, NEW i \in Ids
      PROVE  /\ Total(a, i)' <= Total(a, i)
             /\ Up(a)' /\ i \in Requests(a)' => i \in Requests(a) /\ Total(a, i)' = Total(a, i)
  <2>0. /\ Way(a, Named("sync", i)) \in Nat /\ Way(a, Named("sync", i))' \in Nat
        /\ Here(Peer(a), i) \in Nat /\ Here(Peer(a), i)' \in Nat
        /\ Way(Peer(a), Named("reply", i)) \in Nat /\ Way(Peer(a), Named("reply", i))' \in Nat
        /\ Bit(Answered(a, i)) \in Nat /\ Bit(Answered(a, i))' \in Nat
    BY CountedBefore, CountedAfter, Ends DEF Counted, Bit
  <2>1. PICK w \in Nat, h \in Nat, r \in Nat, s \in Nat, w1 \in Nat, h1 \in Nat, r1 \in Nat, s1 \in Nat :
          /\ w = Way(a, Named("sync", i)) /\ w1 = Way(a, Named("sync", i))'
          /\ h = Here(Peer(a), i) /\ h1 = Here(Peer(a), i)'
          /\ r = Way(Peer(a), Named("reply", i)) /\ r1 = Way(Peer(a), Named("reply", i))'
          /\ s = Bit(Answered(a, i)) /\ s1 = Bit(Answered(a, i))'
    BY <2>0
  <2>2. Total(a, i) = w + h + r + s /\ Total(a, i)' = w1 + h1 + r1 + s1
    BY <2>1 DEF Total
  <2>3. w1 = w
    BY <2>1
  <2>4. s1 <= s /\ (i \in Requests(a)' => i \in Requests(a) /\ s1 = s)
    BY <2>1 DEF Bit
  <2>5. h1 + r1 <= h + r /\ (client'[Peer(a)] => h1 + r1 = h + r)
    <3>1. CASE a = p
      <4>1. h1 = h /\ r1 = r
        BY <2>1, <3>1
      <4> QED BY <4>1
    <3>2. CASE Peer(a) = p
      BY <2>1, <3>2
    <3> QED BY <3>1, <3>2, Ends
  <2>6. Up(a)' => client'[Peer(a)]
    BY DEF Up
  <2>7. /\ w1 + h1 + r1 + s1 <= w + h + r + s
        /\ h1 + r1 = h + r /\ s1 = s => w1 + h1 + r1 + s1 = w + h + r + s
    BY <2>3, <2>4, <2>5, Sums
  <2> QED BY <2>2, <2>4, <2>5, <2>6, <2>7
<1> QED BY <1>1, Kept

LEMMA SameWay == UNCHANGED <<out, wire>> => \A a \in Procs : \A V : Way(a, V)' = Way(a, V)
  BY DEF Way

LEMMA SameHere ==
  ASSUME NEW a \in Procs, incoming'[a] = incoming[a], syncQueue'[a] = syncQueue[a],
         stack'[a] = stack[a], delayed'[a] = delayed[a]
  PROVE  \A i : Here(a, i)' = Here(a, i)
  BY DEF Here

LEMMA SameAnswers ==
  ASSUME UNCHANGED pending, \A a \in Procs : second'[a].id = second[a].id /\ second'[a].got = second[a].got
  PROVE  \A a \in Procs, i \in Ids :
           /\ Answered(a, i)' <=> Answered(a, i)
           /\ Requests(a)' = Requests(a)
  BY DEF Answered, Requests

\* The messages of the innermost activation.
LEMMA HeldTop ==
  ASSUME TypeOK, Sorted, NEW p \in Procs, stack[p] # <<>>, NEW V
  PROVE  /\ Top(p).at = "handler" => /\ Held(stack[p], V) = Held(Front(stack[p]), V) + (IF Top(p).msg \in V THEN 1 ELSE 0)
                                      /\ Top(p).msg \in Message
         /\ Top(p).at # "handler" => Held(stack[p], V) = Held(Front(stack[p]), V) + Count(Top(p).todo, V)
         /\ Top(p).at \notin {"handler", "drain"} => Held(stack[p], V) = Held(Front(stack[p]), V)
         /\ Held(Front(stack[p]), V) \in Nat /\ Front(stack[p]) \in Seq(Frame)
<1>1. stack[p] \in Seq(Frame)
  BY DEF TypeOK
<1>2. /\ Held(stack[p], V) = Held(Front(stack[p]), V) + Count(Content(Top(p)), V)
      /\ Held(Front(stack[p]), V) \in Nat
  BY <1>1, HeldPop DEF Top
<1>3. Top(p) \in SortedFrame
  BY SortedTop
<1>4. Top(p).at = "handler" => Content(Top(p)) = <<Top(p).msg>> /\ Top(p).msg \in Message
  BY <1>3 DEF Content, SortedFrame, Dispatched, InTurn, OutOfTurn
<1>5. Top(p).at # "handler" => Content(Top(p)) = Top(p).todo
  BY DEF Content
<1>6. Top(p).at \notin {"handler", "drain"} => Top(p).todo = <<>>
  BY <1>3 DEF SortedFrame
<1> QED BY <1>1, <1>2, <1>4, <1>5, <1>6, CountShort, FrontType

\* What p was asked only moves within p.
LEMMA MovedWithin ==
  ASSUME TypeOK, TypeOK', OnceOnly, NEW p \in Procs,
         \A a \in Procs : lastId[a] <= lastId'[a] /\ (Up(a)' => Up(a)),
         UNCHANGED <<out, wire, pending>>,
         \A a \in Procs : second'[a].id = second[a].id /\ second'[a].got = second[a].got,
         \A a \in Procs : a # p => /\ incoming'[a] = incoming[a] /\ syncQueue'[a] = syncQueue[a]
                                   /\ stack'[a] = stack[a] /\ delayed'[a] = delayed[a],
         \A i \in Ids : Here(p, i)' <= Here(p, i) /\ (client'[p] => Here(p, i)' = Here(p, i))
  PROVE  OnceOnly'
<1>1. \A a \in Procs : \A V : Way(a, V)' = Way(a, V)
  BY SameWay
<1>2. \A a \in Procs, i \in Ids :
        /\ Answered(a, i)' <=> Answered(a, i)
        /\ Requests(a)' = Requests(a)
  BY SameAnswers
<1>3. \A i \in Ids : Here(Peer(p), i)' = Here(Peer(p), i)
  BY SameHere, Ends
<1>4. ASSUME NEW i \in Ids
      PROVE  /\ Here(p, i)' + Way(p, Named("reply", i))' <= Here(p, i) + Way(p, Named("reply", i))
             /\ client'[p] => Here(p, i)' + Way(p, Named("reply", i))' = Here(p, i) + Way(p, Named("reply", i))
  <2>1. Here(p, i) \in Nat /\ Here(p, i)' \in Nat /\ Way(p, Named("reply", i)) \in Nat
    BY CountedBefore, CountedAfter DEF Counted
  <2>2. PICK h \in Nat, h1 \in Nat, r \in Nat : h = Here(p, i) /\ h1 = Here(p, i)' /\ r = Way(p, Named("reply", i))
    BY <2>1
  <2>3. h1 <= h /\ (client'[p] => h1 = h) /\ Way(p, Named("reply", i))' = r
    BY <1>1, <2>2
  <2>4. h1 + r <= h + r /\ (client'[p] => h1 + r = h + r)
    BY <2>3
  <2> QED BY <2>2, <2>3, <2>4
<1> QED BY <1>1, <1>2, <1>3, <1>4, Stepped, Ends

\* The parts of Here.
LEMMA HereParts ==
  ASSUME TypeOK, NEW p \in Procs, NEW V
  PROVE  /\ Count(incoming[p], V) \in Nat /\ Count(syncQueue[p], V) \in Nat /\ Held(stack[p], V) \in Nat
         /\ \A b : Bit(b) \in Nat
         /\ incoming[p] \in Seq(Message) /\ syncQueue[p] \in Seq(Message) /\ stack[p] \in Seq(Frame)
  BY HereTypes DEF TypeOK, Bit

\* dispatchOneMessage, the run loop's half of dispatchMessages and waitForSyncReply:
\* a message moves within the process, or is dropped with the client.
LEMMA DispatchOnce ==
  ASSUME TypeOK, Sorted, NEW p \in Procs, DispatchOneMessage(p), NEW i \in Ids
  PROVE  Here(p, i)' <= Here(p, i) /\ (client[p] => Here(p, i)' = Here(p, i))
<1> DEFINE V == Named("sync", i)
<1>0. /\ Count(incoming[p], V) \in Nat /\ Count(syncQueue[p], V) \in Nat /\ Held(stack[p], V) \in Nat
      /\ \A b : Bit(b) \in Nat
      /\ incoming[p] \in Seq(Message) /\ stack[p] \in Seq(Frame)
  BY HereParts
<1>1. CASE incoming[p] = <<>>
  <2>1. UNCHANGED <<incoming, stack, syncQueue, delayed>>
    BY <1>1 DEF DispatchOneMessage
  <2>2. Here(p, i)' = Here(p, i)
    BY <2>1 DEF Here
  <2> QED BY <2>2, HereTypes
<1>2. CASE incoming[p] # <<>>
  <2>1. /\ incoming'[p] = Tail(incoming[p]) /\ UNCHANGED <<syncQueue, delayed>>
        /\ stack'[p] = IF client[p] THEN Append(stack[p], Handler(Head(incoming[p]))) ELSE stack[p]
    BY <1>2 DEF DispatchOneMessage, Dispatch, TypeOK
  <2> DEFINE b == IF Head(incoming[p]) \in V THEN 1 ELSE 0
  <2>2. /\ Head(incoming[p]) \in Message /\ Count(incoming[p], V) = Count(Tail(incoming[p]), V) + b
        /\ Count(Tail(incoming[p]), V) \in Nat
    <3>1. /\ Tail(incoming[p]) \in Seq(Message) /\ Head(incoming[p]) \in Message
          /\ Count(incoming[p], V) = Count(Tail(incoming[p]), V) + b
      BY <1>0, <1>2, CountTail
    <3> QED BY <3>1, CountType
  <2>3. Handler(Head(incoming[p])) \in Frame /\ Content(Handler(Head(incoming[p]))) = <<Head(incoming[p])>>
    BY <2>2, Frames, Contents
  <2>4. Held(Append(stack[p], Handler(Head(incoming[p]))), V) = Held(stack[p], V) + b
    BY <1>0, <2>3, HeldPush, CountShort
  <2>5. PICK c \in Nat, k \in Nat, h \in Nat, d \in Nat, e \in Nat :
          /\ c = Count(Tail(incoming[p]), V) /\ k = Count(syncQueue[p], V) /\ h = Held(stack[p], V)
          /\ d = Bit(i \in delayed[p]) /\ e = b
    BY <1>0, <2>2
  <2>6. Here(p, i) = c + e + k + h + d
    BY <2>2, <2>5 DEF Here
  <2>7. Here(p, i)' = c + k + (IF client[p] THEN h + e ELSE h) + d
    BY <2>1, <2>4, <2>5 DEF Here
  <2> HIDE DEF b
  <2> QED BY <2>6, <2>7
<1> QED BY <1>1, <1>2

\* Only the stack of p changes, and holds as many messages as before.
LEMMA SameHeld ==
  ASSUME TypeOK, NEW p \in Procs, NEW i \in Ids, UNCHANGED <<incoming, syncQueue, delayed>>,
         Held(stack'[p], Named("sync", i)) = Held(stack[p], Named("sync", i))
  PROVE  Here(p, i)' <= Here(p, i) /\ Here(p, i)' = Here(p, i)
<1>1. Here(p, i)' = Here(p, i)
  BY DEF Here
<1> QED BY <1>1, HereTypes

\* A frame without messages replaces the innermost one, or comes on top of a stack.
LEMMA HeldEmpty ==
  ASSUME NEW s \in Seq(Frame), NEW f \in Frame, Content(f) = <<>>, NEW V
  PROVE  Append(s, f) \in Seq(Frame) /\ Held(Append(s, f), V) = Held(s, V)
  BY HeldPush, CountShort, Appended

LEMMA SwapOnce ==
  ASSUME TypeOK, Sorted, NEW p \in Procs, SwapMessages(p), NEW i \in Ids
  PROVE  Here(p, i)' <= Here(p, i) /\ Here(p, i)' = Here(p, i)
<1> DEFINE V == Named("sync", i)
<1>0. /\ Count(incoming[p], V) \in Nat /\ Count(syncQueue[p], V) \in Nat /\ Bit(i \in delayed[p]) \in Nat
      /\ syncQueue[p] \in Seq(Message)
  BY HereParts
<1>1. /\ stack'[p] = Append(Front(stack[p]), Drain(syncQueue[p])) /\ syncQueue'[p] = <<>>
      /\ UNCHANGED <<incoming, delayed>> /\ stack[p] # <<>> /\ Top(p).at = "swap"
  BY DEF SwapMessages, At, TypeOK
<1>2. /\ Held(stack[p], V) = Held(Front(stack[p]), V)
      /\ Held(Front(stack[p]), V) \in Nat /\ Front(stack[p]) \in Seq(Frame)
  BY <1>1, HeldTop
<1>3. Drain(syncQueue[p]) \in Frame /\ Content(Drain(syncQueue[p])) = syncQueue[p]
  BY <1>0, Frames, Contents
<1>4. Held(stack'[p], V) = Held(Front(stack[p]), V) + Count(syncQueue[p], V)
  BY <1>1, <1>2, <1>3, HeldPush
<1>5. Count(syncQueue'[p], V) = 0
  BY <1>1, CountShort
<1>6. PICK c \in Nat, k \in Nat, h \in Nat, d \in Nat :
        /\ c = Count(incoming[p], V) /\ k = Count(syncQueue[p], V) /\ h = Held(Front(stack[p]), V)
        /\ d = Bit(i \in delayed[p])
  BY <1>0, <1>2
<1>7. Here(p, i) = c + k + h + d
  BY <1>2, <1>6 DEF Here
<1>8. Here(p, i)' = c + 0 + (h + k) + d
  BY <1>1, <1>4, <1>5, <1>6 DEF Here
<1> QED BY <1>7, <1>8

LEMMA DrainOnce ==
  ASSUME TypeOK, Sorted, NEW p \in Procs, DrainNext(p), NEW i \in Ids
  PROVE  Here(p, i)' <= Here(p, i) /\ (client[p] => Here(p, i)' = Here(p, i))
<1> DEFINE V == Named("sync", i)
           m == Head(Top(p).todo)
           b == IF m \in V THEN 1 ELSE 0
           t == Append(Front(stack[p]), Drain(Tail(Top(p).todo)))
<1>0. /\ Count(incoming[p], V) \in Nat /\ Count(syncQueue[p], V) \in Nat /\ Bit(i \in delayed[p]) \in Nat
  BY HereParts
<1>1. /\ stack'[p] = (IF client[p] THEN Append(t, Handler(m)) ELSE t)
      /\ UNCHANGED <<incoming, syncQueue, delayed>> /\ stack[p] # <<>> /\ Top(p).at = "drain" /\ Top(p).todo # <<>>
      /\ Top(p).todo \in Seq(Message)
  <2>1. /\ stack' = [stack EXCEPT ![p] = IF client[p] THEN Append(t, Handler(m)) ELSE t]
        /\ UNCHANGED <<incoming, syncQueue, delayed>> /\ stack[p] # <<>> /\ Top(p).at = "drain" /\ Top(p).todo # <<>>
    BY DEF DrainNext, Dispatch, At, inVars
  <2> HIDE DEF t, m
  <2> QED BY <2>1, TopTypes DEF TypeOK
<1>2. /\ Held(stack[p], V) = Held(Front(stack[p]), V) + Count(Top(p).todo, V)
      /\ Held(Front(stack[p]), V) \in Nat /\ Front(stack[p]) \in Seq(Frame)
  BY <1>1, HeldTop
<1>3. /\ Tail(Top(p).todo) \in Seq(Message) /\ m \in Message
      /\ Count(Top(p).todo, V) = Count(Tail(Top(p).todo), V) + b
  BY <1>1, CountTail
<1>4. Count(Tail(Top(p).todo), V) \in Nat
  BY <1>3, CountType
<1>5. Drain(Tail(Top(p).todo)) \in Frame /\ Content(Drain(Tail(Top(p).todo))) = Tail(Top(p).todo)
  BY <1>3, Frames, Contents
<1>6. t \in Seq(Frame) /\ Held(t, V) = Held(Front(stack[p]), V) + Count(Tail(Top(p).todo), V)
  BY <1>2, <1>5, HeldPush, Appended
<1>7. Handler(m) \in Frame /\ Content(Handler(m)) = <<m>> /\ Count(<<m>>, V) = b
  BY <1>3, Frames, Contents, CountShort
<1>8. Held(Append(t, Handler(m)), V) = Held(t, V) + b
  <2> HIDE DEF t
  <2> QED BY <1>6, <1>7, HeldPush
<1>9. PICK c \in Nat, k \in Nat, h \in Nat, d \in Nat, r \in Nat, e \in Nat :
        /\ c = Count(incoming[p], V) /\ k = Count(syncQueue[p], V) /\ h = Held(Front(stack[p]), V)
        /\ d = Bit(i \in delayed[p]) /\ r = Count(Tail(Top(p).todo), V) /\ e = b
  BY <1>0, <1>2, <1>4
<1> HIDE DEF b, t, m
<1>10. Here(p, i) = c + k + (h + (r + e)) + d
  BY <1>2, <1>3, <1>9 DEF Here
<1>11. Here(p, i)' = c + k + (IF client[p] THEN h + r + e ELSE h + r) + d
  BY <1>1, <1>6, <1>8, <1>9 DEF Here
<1> QED BY <1>10, <1>11

LEMMA InnerOnce ==
  ASSUME TypeOK, Sorted, Nested, NEW p \in Procs, NEW i \in Ids,
         \/ ResetDidSchedule(p) \/ DrainDone(p) \/ WakeUp(p) \/ SyncTimesOut(p) \/ CheckSyncReply(p)
  PROVE  Here(p, i)' <= Here(p, i) /\ Here(p, i)' = Here(p, i)
<1> DEFINE V == Named("sync", i)
<1>1. stack[p] \in Seq(Frame) /\ UNCHANGED <<incoming, syncQueue, delayed>>
  BY DEF TypeOK, ResetDidSchedule, DrainDone, WakeUp, SyncTimesOut, CheckSyncReply, inVars
<1>2. CASE ResetDidSchedule(p)
  <2>1. stack'[p] = Append(stack[p], Swap)
    BY <1>2 DEF ResetDidSchedule, TypeOK
  <2>2. Held(stack'[p], V) = Held(stack[p], V)
    BY <1>1, <2>1, Frames, Contents, HeldEmpty
  <2> QED BY <1>1, <2>2, SameHeld
<1>3. CASE DrainDone(p)
  <2>1. stack'[p] = Front(stack[p]) /\ stack[p] # <<>> /\ Top(p).at = "drain" /\ Top(p).todo = <<>>
    BY <1>3 DEF DrainDone, At, TypeOK
  <2>2. Held(stack[p], V) = Held(Front(stack[p]), V) + Count(Top(p).todo, V) /\ Held(Front(stack[p]), V) \in Nat
    BY <2>1, HeldTop
  <2>3. Held(stack'[p], V) = Held(stack[p], V)
    BY <2>1, <2>2, CountShort
  <2> QED BY <1>1, <2>3, SameHeld
<1>4. ASSUME At(p, "check") \/ At(p, "sleep")
      PROVE  /\ Held(stack[p], V) = Held(Front(stack[p]), V)
             /\ Front(stack[p]) \in Seq(Frame)
             /\ \A ph \in {"check", "sleep"} :
                  /\ Append(Front(stack[p]), Wait(ph, Top(p).id)) \in Seq(Frame)
                  /\ Held(Append(Front(stack[p]), Wait(ph, Top(p).id)), V) = Held(stack[p], V)
  <2>1. stack[p] # <<>> /\ Top(p).at \notin {"handler", "drain"}
    BY <1>4 DEF At
  <2>2. Held(stack[p], V) = Held(Front(stack[p]), V) /\ Front(stack[p]) \in Seq(Frame) /\ Top(p).id \in Ids \union {0}
    BY <2>1, HeldTop, TopTypes
  <2>3. \A ph \in {"check", "sleep"} : Wait(ph, Top(p).id) \in Frame /\ Content(Wait(ph, Top(p).id)) = <<>>
    BY <2>2, Frames, Contents
  <2> QED BY <2>2, <2>3, HeldEmpty
<1>5. CASE WakeUp(p)
  <2>1. stack'[p] = Append(Append(Front(stack[p]), Wait("check", Top(p).id)), Swap) /\ At(p, "sleep")
    BY <1>5 DEF WakeUp, TypeOK
  <2>2. Held(stack'[p], V) = Held(stack[p], V)
    <3> DEFINE s == Append(Front(stack[p]), Wait("check", Top(p).id))
    <3>1. s \in Seq(Frame) /\ Held(s, V) = Held(stack[p], V)
      BY <1>4, <2>1
    <3> HIDE DEF s
    <3>2. Held(Append(s, Swap), V) = Held(s, V)
      BY <3>1, Frames, Contents, HeldEmpty
    <3> QED BY <2>1, <3>1, <3>2 DEF s
  <2> QED BY <1>1, <2>2, SameHeld
<1>6. CASE SyncTimesOut(p)
  <2>1. stack'[p] = Front(stack[p]) /\ At(p, "sleep")
    BY <1>6 DEF SyncTimesOut, ReturnFromSync, TypeOK
  <2> QED BY <1>1, <1>4, <2>1, SameHeld
<1>7. CASE CheckSyncReply(p)
  <2>1. At(p, "check") /\ (stack'[p] = Front(stack[p]) \/ stack'[p] = Append(Front(stack[p]), Wait("sleep", Top(p).id)))
    BY <1>7 DEF CheckSyncReply, ReturnFromSync, TypeOK
  <2>2. Held(stack'[p], V) = Held(stack[p], V)
    BY <1>4, <2>1
  <2> QED BY <1>1, <2>2, SameHeld
<1> QED BY <1>2, <1>3, <1>5, <1>6, <1>7

\* p holds a request of its peer, or has replied to it, at most once.
LEMMA AskedOnce ==
  ASSUME TypeOK, OnceOnly, NEW p \in Procs, NEW i \in Ids
  PROVE  /\ Here(p, i) + Way(p, Named("reply", i)) <= 1
         /\ Here(p, i) \in Nat /\ Way(p, Named("reply", i)) \in Nat
<1>1. Total(Peer(p), i) <= 1
  BY Ends DEF OnceOnly
<1>2. PICK w \in Nat, h \in Nat, r \in Nat, s \in Nat :
        /\ w = Way(Peer(p), Named("sync", i)) /\ h = Here(p, i)
        /\ r = Way(p, Named("reply", i)) /\ s = Bit(Answered(Peer(p), i))
  BY WayTypes, HereTypes, Ends DEF Bit
<1>3. Total(Peer(p), i) = w + h + r + s
  BY <1>2, Ends DEF Total
<1>4. h + r <= 1
  BY <1>1, <1>3
<1> QED BY <1>2, <1>4

\* sendMessage of a reply, or of nothing.
LEMMA WayReplied ==
  ASSUME TypeOK, NEW p \in Procs, NEW id \in Ids, SendMessage(p, "reply", id, FALSE), UNCHANGED wire
  PROVE  /\ \A a \in Procs, i \in Ids : Way(a, Named("sync", i))' = Way(a, Named("sync", i))
         /\ \A i \in Ids : Way(Peer(p), Named("reply", i))' = Way(Peer(p), Named("reply", i))
         /\ \A i \in Ids : Way(p, Named("reply", i))' = Way(p, Named("reply", i)) + Bit(client[p] /\ i = id)
<1>1. \A a \in Procs : \A k, i : Way(a, Named(k, i))' = Way(a, Named(k, i)) + Bit(a = p /\ client[p] /\ k = "reply" /\ i = id)
  BY WaySent
<1>2. \A n \in Nat : n + Bit(FALSE) = n
  BY DEF Bit
<1>3. \A a \in Procs : \A k, i : Way(a, Named(k, i)) \in Nat
  BY WayTypes
<1>4. ASSUME NEW a \in Procs, NEW i \in Ids PROVE Way(a, Named("sync", i))' = Way(a, Named("sync", i))
  <2>1. Way(a, Named("sync", i))' = Way(a, Named("sync", i)) + Bit(FALSE)
    BY <1>1 DEF Bit
  <2> QED BY <1>2, <1>3, <2>1
<1>5. ASSUME NEW i \in Ids PROVE Way(Peer(p), Named("reply", i))' = Way(Peer(p), Named("reply", i))
  <2>1. Way(Peer(p), Named("reply", i))' = Way(Peer(p), Named("reply", i)) + Bit(FALSE)
    BY <1>1, Ends DEF Bit
  <2> QED BY <1>2, <1>3, <2>1, Ends
<1>6. ASSUME NEW i \in Ids PROVE Way(p, Named("reply", i))' = Way(p, Named("reply", i)) + Bit(client[p] /\ i = id)
  BY <1>1 DEF Bit
<1> QED BY <1>4, <1>5, <1>6

Handed(p) ==
  /\ \A a \in Procs, i \in Ids : Way(a, Named("sync", i))' = Way(a, Named("sync", i))
  /\ \A i \in Ids : Way(Peer(p), Named("reply", i))' = Way(Peer(p), Named("reply", i))
  /\ \A i \in Ids :
       /\ Here(p, i)' + Way(p, Named("reply", i))' <= Here(p, i) + Way(p, Named("reply", i))
       /\ client'[p] => Here(p, i)' + Way(p, Named("reply", i))' = Here(p, i) + Way(p, Named("reply", i))

\* The handler of a message returns: with a reply, with the encoder kept, or with neither.
LEMMA HandlerDone ==
  ASSUME TypeOK, Sorted, OnceOnly, NEW p \in Procs, NEW m, m = Top(p).msg, At(p, "handler"),
         stack'[p] = Front(stack[p]), UNCHANGED <<incoming, syncQueue, wire>>,
         client'[p] => client[p],
         \/ (m.kind # "sync" \/ ~client'[p]) /\ UNCHANGED <<out, delayed>>
         \/ m.kind = "sync" /\ SendMessage(p, "reply", m.id, FALSE) /\ UNCHANGED delayed
         \/ m.kind = "sync" /\ UNCHANGED out /\ delayed' = [delayed EXCEPT ![p] = @ \union {m.id}]
  PROVE  Handed(p)
<1>1. m \in Message /\ m.id \in Ids
  BY HeldTop, Fields DEF At
<1>2. ASSUME NEW i \in Ids
      PROVE  /\ Here(p, i) = (Count(incoming[p], Named("sync", i)) + Count(syncQueue[p], Named("sync", i))
                              + Held(Front(stack[p]), Named("sync", i))) + Bit(m.kind = "sync" /\ m.id = i)
                             + Bit(i \in delayed[p])
             /\ Here(p, i)' = (Count(incoming[p], Named("sync", i)) + Count(syncQueue[p], Named("sync", i))
                              + Held(Front(stack[p]), Named("sync", i))) + Bit(i \in delayed'[p])
             /\ Count(incoming[p], Named("sync", i)) + Count(syncQueue[p], Named("sync", i))
                  + Held(Front(stack[p]), Named("sync", i)) \in Nat
  <2> DEFINE V == Named("sync", i)
  <2>1. /\ Held(stack[p], V) = Held(Front(stack[p]), V) + Bit(m.kind = "sync" /\ m.id = i)
        /\ Held(Front(stack[p]), V) \in Nat
    BY <1>1, HeldTop, Names DEF At, Bit
  <2>2. PICK c \in Nat, k \in Nat, h \in Nat, d \in Nat, b \in Nat :
          /\ c = Count(incoming[p], V) /\ k = Count(syncQueue[p], V) /\ h = Held(Front(stack[p]), V)
          /\ d = Bit(i \in delayed[p]) /\ b = Bit(m.kind = "sync" /\ m.id = i)
    BY <2>1, HereTypes DEF Bit
  <2>3. Here(p, i) = c + k + (h + b) + d /\ c + k + (h + b) + d = (c + k + h) + b + d /\ c + k + h \in Nat
    BY <2>1, <2>2 DEF Here
  <2>4. Here(p, i)' = (c + k + h) + Bit(i \in delayed'[p])
    BY <2>2 DEF Here
  <2> QED BY <2>2, <2>3, <2>4
<1>3. CASE (m.kind # "sync" \/ ~client'[p]) /\ UNCHANGED <<out, delayed>>
  <2>1. \A a \in Procs : \A V : Way(a, V)' = Way(a, V)
    BY <1>3, SameWay
  <2>2. ASSUME NEW i \in Ids
        PROVE  /\ Here(p, i)' + Way(p, Named("reply", i))' <= Here(p, i) + Way(p, Named("reply", i))
               /\ client'[p] => Here(p, i)' + Way(p, Named("reply", i))' = Here(p, i) + Way(p, Named("reply", i))
    <3>1. PICK n \in Nat, b \in Nat, d \in Nat, w \in Nat :
            /\ n = Count(incoming[p], Named("sync", i)) + Count(syncQueue[p], Named("sync", i))
                     + Held(Front(stack[p]), Named("sync", i))
            /\ b = Bit(m.kind = "sync" /\ m.id = i) /\ d = Bit(i \in delayed[p]) /\ w = Way(p, Named("reply", i))
      BY <1>2, WayTypes DEF Bit
    <3>2. Here(p, i) = n + b + d /\ Here(p, i)' = n + d /\ Way(p, Named("reply", i))' = w
      BY <1>2, <1>3, <2>1, <3>1
    <3>3. m.kind # "sync" => b = 0
      BY <3>1 DEF Bit
    <3> QED BY <1>3, <3>1, <3>2, <3>3
  <2> QED BY <2>1, <2>2, Ends DEF Handed
<1>4. CASE m.kind = "sync" /\ SendMessage(p, "reply", m.id, FALSE) /\ UNCHANGED delayed
  <2>1. ASSUME NEW i \in Ids
        PROVE  /\ Here(p, i)' + Way(p, Named("reply", i))' <= Here(p, i) + Way(p, Named("reply", i))
               /\ client'[p] => Here(p, i)' + Way(p, Named("reply", i))' = Here(p, i) + Way(p, Named("reply", i))
    <3>1. PICK n \in Nat, b \in Nat, d \in Nat, w \in Nat :
            /\ n = Count(incoming[p], Named("sync", i)) + Count(syncQueue[p], Named("sync", i))
                     + Held(Front(stack[p]), Named("sync", i))
            /\ b = Bit(m.kind = "sync" /\ m.id = i) /\ d = Bit(i \in delayed[p]) /\ w = Way(p, Named("reply", i))
      BY <1>2, WayTypes DEF Bit
    <3>2. Here(p, i) = n + b + d /\ Here(p, i)' = n + d
      BY <1>2, <1>4, <3>1
    <3>3. Way(p, Named("reply", i))' = w + (IF client[p] THEN b ELSE 0)
      BY <1>1, <1>4, <3>1, WayReplied DEF Bit
    <3> QED BY <3>1, <3>2, <3>3
  <2> QED BY <1>1, <1>4, <2>1, WayReplied DEF Handed
<1>5. CASE m.kind = "sync" /\ UNCHANGED out /\ delayed' = [delayed EXCEPT ![p] = @ \union {m.id}]
  <2>1. \A a \in Procs : \A V : Way(a, V)' = Way(a, V)
    BY <1>5, SameWay
  <2>2. ASSUME NEW i \in Ids
        PROVE  /\ Here(p, i)' + Way(p, Named("reply", i))' <= Here(p, i) + Way(p, Named("reply", i))
               /\ client'[p] => Here(p, i)' + Way(p, Named("reply", i))' = Here(p, i) + Way(p, Named("reply", i))
    <3>1. PICK n \in Nat, b \in Nat, d \in Nat, w \in Nat :
            /\ n = Count(incoming[p], Named("sync", i)) + Count(syncQueue[p], Named("sync", i))
                     + Held(Front(stack[p]), Named("sync", i))
            /\ b = Bit(m.kind = "sync" /\ m.id = i) /\ d = Bit(i \in delayed[p]) /\ w = Way(p, Named("reply", i))
      BY <1>2, WayTypes DEF Bit
    <3>2. Here(p, i) = n + b + d /\ Here(p, i)' = n + Bit(i \in delayed'[p]) /\ Way(p, Named("reply", i))' = w
      BY <1>2, <2>1, <3>1
    <3>3. n + b + d + w <= 1
      BY <3>1, <3>2, AskedOnce
    <3>4. Bit(i \in delayed'[p]) = b + d
      <4>1. i \in delayed'[p] <=> i = m.id \/ i \in delayed[p]
        BY <1>5 DEF TypeOK
      <4>2. b = (IF i = m.id THEN 1 ELSE 0) /\ d = (IF i \in delayed[p] THEN 1 ELSE 0)
        BY <1>5, <3>1 DEF Bit
      <4>3. b = 0 \/ d = 0
        BY <3>3
      <4> QED BY <4>1, <4>2, <4>3 DEF Bit
    <3> QED BY <3>1, <3>2, <3>4
  <2> QED BY <2>1, <2>2, Ends DEF Handed
<1> QED BY <1>3, <1>4, <1>5

LEMMA DelayedDone ==
  ASSUME TypeOK, NEW p \in Procs, SendDelayedReply(p)
  PROVE  Handed(p)
<1>1. PICK id \in delayed[p] : delayed' = [delayed EXCEPT ![p] = @ \ {id}] /\ SendMessage(p, "reply", id, FALSE)
  BY DEF SendDelayedReply
<1>2. id \in Ids /\ UNCHANGED <<incoming, syncQueue, stack, client, wire>>
  BY DEF TypeOK, SendDelayedReply, inVars, procVars
<1>3. ASSUME NEW i \in Ids
      PROVE  /\ Here(p, i)' + Way(p, Named("reply", i))' <= Here(p, i) + Way(p, Named("reply", i))
             /\ client'[p] => Here(p, i)' + Way(p, Named("reply", i))' = Here(p, i) + Way(p, Named("reply", i))
  <2> DEFINE V == Named("sync", i)
  <2>0. /\ Count(incoming[p], V) \in Nat /\ Count(syncQueue[p], V) \in Nat /\ Held(stack[p], V) \in Nat
        /\ Bit(i = id) \in Nat /\ Bit(i \in delayed'[p]) \in Nat /\ Way(p, Named("reply", i)) \in Nat
    BY HereTypes, WayTypes DEF Bit
  <2>1. PICK c \in Nat, k \in Nat, h \in Nat, b \in Nat, w \in Nat, d1 \in Nat :
          /\ c = Count(incoming[p], V) /\ k = Count(syncQueue[p], V) /\ h = Held(stack[p], V)
          /\ b = Bit(i = id) /\ d1 = Bit(i \in delayed'[p]) /\ w = Way(p, Named("reply", i))
    BY <2>0
  <2>2. Bit(i \in delayed[p]) = d1 + b
    <3>1. i \in delayed'[p] <=> i # id /\ i \in delayed[p]
      BY <1>1 DEF TypeOK
    <3> QED BY <1>1, <2>1, <3>1 DEF Bit
  <2>3. Here(p, i) = c + k + h + (d1 + b)
    BY <2>1, <2>2 DEF Here
  <2>4. Here(p, i)' = c + k + h + d1
    BY <1>2, <2>1 DEF Here
  <2>5. Way(p, Named("reply", i))' = w + (IF client[p] THEN b ELSE 0)
    BY <1>1, <1>2, <2>1, WayReplied DEF Bit
  <2> QED BY <1>2, <2>1, <2>3, <2>4, <2>5
<1> QED BY <1>1, <1>2, <1>3, WayReplied DEF Handed

AnswersFade ==
  \A a \in Procs, i \in Ids :
    /\ Answered(a, i)' => Answered(a, i)
    /\ i \in Requests(a)' => i \in Requests(a) /\ (Answered(a, i) => Answered(a, i)')

AnswersListed ==
  \A p \in Procs, i \in Ids :
    /\ i \in Requests(p) <=> (\E j \in 1..Len(pending[p]) : pending[p][j].id = i) \/ second[p].id = i
    /\ Answered(p, i) <=> (\E j \in 1..Len(pending[p]) : pending[p][j].id = i /\ pending[p][j].got) \/ (second[p].id = i /\ second[p].got)

LEMMA PendingRequests == TypeOK => AnswersListed
<1> SUFFICES ASSUME TypeOK, NEW p \in Procs, NEW i \in Ids
             PROVE  /\ i \in Requests(p) <=> (\E j \in 1..Len(pending[p]) : pending[p][j].id = i) \/ second[p].id = i
                    /\ Answered(p, i) <=> (\E j \in 1..Len(pending[p]) : pending[p][j].id = i /\ pending[p][j].got) \/ (second[p].id = i /\ second[p].got)
  BY DEF AnswersListed
<1>1. DOMAIN pending[p] = 1..Len(pending[p])
  BY PendingTypes
<1>2. i # 0
  BY IdNumbers
<1>3. i \in Requests(p) <=> (\E j \in 1..Len(pending[p]) : pending[p][j].id = i) \/ second[p].id = i
  <2>1. i \in {pending[p][j].id : j \in DOMAIN pending[p]} <=> \E j \in 1..Len(pending[p]) : pending[p][j].id = i
    BY <1>1
  <2>2. i \in {second[p].id} \ {0} <=> second[p].id = i
    BY <1>2
  <2> QED BY <2>1, <2>2 DEF Requests
<1>4. Answered(p, i) <=> (\E j \in 1..Len(pending[p]) : pending[p][j].id = i /\ pending[p][j].got) \/ (second[p].id = i /\ second[p].got)
  BY <1>1, Zenon DEF Answered
<1> QED BY <1>3, <1>4

LEMMA AnswersAfter == TypeOK' => AnswersListed'
  BY PendingRequests, PTL

\* sendSyncMessage returns: its request is waited for no more, the others as before.
LEMMA ReturnFades ==
  ASSUME TypeOK, TypeOK', Known, NEW p \in Procs, pending[p] # <<>>,
         pending' = [pending EXCEPT ![p] = Front(@)], UNCHANGED second
  PROVE  AnswersFade
<1> SUFFICES ASSUME NEW a \in Procs, NEW i \in Ids
             PROVE  /\ Answered(a, i)' => Answered(a, i)
                    /\ i \in Requests(a)' => i \in Requests(a) /\ (Answered(a, i) => Answered(a, i)')
  BY DEF AnswersFade
<1>1. CASE a # p
  <2>1. pending'[a] = pending[a] /\ second'[a] = second[a]
    BY <1>1 DEF TypeOK
  <2> QED BY <2>1 DEF Answered, Requests
<1>2. CASE a = p
  <2> DEFINE r == pending[p]
             u == Front(pending[p])
  <2>1. pending'[p] = u /\ second'[p] = second[p]
    BY DEF TypeOK
  <2>2. /\ Len(r) = Len(u) + 1 /\ Len(u) \in Nat /\ \A j \in 1..Len(u) : u[j] = r[j]
    BY ReturnedReplies
  <2>3. /\ i \in Requests(p) <=> (\E j \in 1..Len(r) : r[j].id = i) \/ second[p].id = i
        /\ Answered(p, i) <=> (\E j \in 1..Len(r) : r[j].id = i /\ r[j].got) \/ (second[p].id = i /\ second[p].got)
    BY PendingRequests DEF AnswersListed
  <2>4. /\ i \in Requests(p)' <=> (\E j \in 1..Len(u) : u[j].id = i) \/ second[p].id = i
        /\ Answered(p, i)' <=> (\E j \in 1..Len(u) : u[j].id = i /\ u[j].got) \/ (second[p].id = i /\ second[p].got)
    BY <2>1, AnswersAfter DEF AnswersListed
  <2>5. /\ \A j, k \in 1..Len(r) : r[j].id = r[k].id => j = k
        /\ \A j \in 1..Len(r) : r[j].id # second[p].id
    BY DEF Known, KnownIds
  <2> HIDE DEF r, u
  <2>6. \A j \in 1..Len(u) : j \in 1..Len(r)
    BY <2>2
  <2>7. Answered(p, i)' => Answered(p, i)
    BY <2>2, <2>3, <2>4, <2>6
  <2>8. i \in Requests(p)' => i \in Requests(p)
    BY <2>2, <2>3, <2>4, <2>6
  <2>9. ASSUME i \in Requests(p)', Answered(p, i) PROVE Answered(p, i)'
    <3>1. CASE second[p].id = i
      <4>1. ~\E j \in 1..Len(r) : r[j].id = i
        BY <2>5, <3>1
      <4> QED BY <2>3, <2>4, <2>9, <3>1, <4>1
    <3>2. CASE second[p].id # i
      <4>1. PICK j \in 1..Len(u) : u[j].id = i
        BY <2>4, <2>9, <3>2
      <4>2. PICK k \in 1..Len(r) : r[k].id = i /\ r[k].got
        BY <2>3, <2>9, <3>2
      <4>3. k = j
        BY <2>2, <2>5, <2>6, <4>1, <4>2
      <4>4. u[j].id = i /\ u[j].got
        BY <2>2, <4>1, <4>2, <4>3
      <4> QED BY <2>4, <4>4, Zenon
    <3> QED BY <3>1, <3>2
  <2> QED BY <1>2, <2>7, <2>8, <2>9
<1> QED BY <1>1, <1>2

LEMMA SecondFades ==
  ASSUME TypeOK, TypeOK', Known, NEW p \in Procs, UNCHANGED pending,
         second' = [second EXCEPT ![p] = NoSecond]
  PROVE  AnswersFade
<1> SUFFICES ASSUME NEW a \in Procs, NEW i \in Ids
             PROVE  /\ Answered(a, i)' => Answered(a, i)
                    /\ i \in Requests(a)' => i \in Requests(a) /\ (Answered(a, i) => Answered(a, i)')
  BY DEF AnswersFade
<1>1. CASE a # p
  <2>1. pending'[a] = pending[a] /\ second'[a] = second[a]
    BY <1>1 DEF TypeOK
  <2> QED BY <2>1 DEF Answered, Requests
<1>2. CASE a = p
  <2> DEFINE r == pending[p]
  <2>1. pending'[p] = r /\ second'[p].id = 0 /\ i # 0
    BY IdNumbers DEF TypeOK, NoSecond
  <2>2. /\ i \in Requests(p) <=> (\E j \in 1..Len(r) : r[j].id = i) \/ second[p].id = i
        /\ Answered(p, i) <=> (\E j \in 1..Len(r) : r[j].id = i /\ r[j].got) \/ (second[p].id = i /\ second[p].got)
    BY PendingRequests DEF AnswersListed
  <2>3. /\ i \in Requests(p)' <=> \E j \in 1..Len(r) : r[j].id = i
        /\ Answered(p, i)' <=> \E j \in 1..Len(r) : r[j].id = i /\ r[j].got
    BY <2>1, AnswersAfter DEF AnswersListed
  <2>4. \A j \in 1..Len(r) : r[j].id # second[p].id
    BY DEF Known, KnownIds
  <2> HIDE DEF r
  <2> QED BY <1>2, <2>2, <2>3, <2>4
<1> QED BY <1>1, <1>2

\* A message moves from m_outgoingMessages to the transport.
LEMMA WrittenOnce ==
  ASSUME TypeOK, NEW p \in Procs, WriteMessage(p)
  PROVE  \A a \in Procs : \A V : Way(a, V)' = Way(a, V)
<1> SUFFICES ASSUME NEW a \in Procs, NEW V PROVE Way(a, V)' = Way(a, V)
  OBVIOUS
<1>1. /\ out' = [out EXCEPT ![p] = Tail(@)] /\ wire' = [wire EXCEPT ![Peer(p)] = Append(@, Head(out[p]))]
      /\ out[p] # <<>>
  BY DEF WriteMessage
<1>2. /\ out[p] \in Seq(Message) /\ wire[Peer(p)] \in Seq(Message)
      /\ out \in [Procs -> Seq(Message)] /\ wire \in [Procs -> Seq(Message)]
  BY Ends DEF TypeOK
<1> DEFINE b == IF Head(out[p]) \in V THEN 1 ELSE 0
<1>3. /\ Head(out[p]) \in Message /\ Tail(out[p]) \in Seq(Message)
      /\ Count(out[p], V) = Count(Tail(out[p]), V) + b
  BY <1>1, <1>2, CountTail
<1>4. Count(Append(wire[Peer(p)], Head(out[p])), V) = Count(wire[Peer(p)], V) + b
  BY <1>2, <1>3, CountAppend
<1>5. Count(Tail(out[p]), V) \in Nat /\ Count(wire[Peer(p)], V) \in Nat /\ b \in Nat
  BY <1>2, <1>3, CountType
<1>6. CASE a = p
  <2>1. out'[p] = Tail(out[p]) /\ wire'[Peer(p)] = Append(wire[Peer(p)], Head(out[p]))
    BY <1>1, <1>2, Ends
  <2>2. PICK c \in Nat, w \in Nat, e \in Nat : c = Count(Tail(out[p]), V) /\ w = Count(wire[Peer(p)], V) /\ e = b
    BY <1>5
  <2> HIDE DEF b
  <2>3. Way(p, V) = (c + e) + w /\ Way(p, V)' = c + (w + e)
    BY <1>3, <1>4, <2>1, <2>2 DEF Way
  <2> QED BY <1>6, <2>3
<1>7. CASE a # p
  <2>1. out'[a] = out[a] /\ wire'[Peer(a)] = wire[Peer(a)]
    BY <1>1, <1>2, <1>7, Ends
  <2> QED BY <2>1 DEF Way
<1> QED BY <1>6, <1>7

\* A message is lost because the peer is gone.
LEMMA LostOnce ==
  ASSUME TypeOK, TypeOK', OnceOnly, NEW p \in Procs, LoseMessage(p),
         \A a \in Procs : lastId[a] <= lastId'[a] /\ (Up(a)' => Up(a)),
         UNCHANGED <<wire, pending, incoming, syncQueue, stack, delayed>>,
         \A a \in Procs : second'[a].id = second[a].id /\ second'[a].got = second[a].got
  PROVE  OnceOnly'
<1>1. \A a \in Procs : ~Up(a)'
  BY Ends DEF LoseMessage, Up
<1>2. ASSUME NEW a \in Procs, NEW k, NEW i
      PROVE  /\ Way(a, Named(k, i))' <= Way(a, Named(k, i))
             /\ Way(a, Named(k, i)) \in Nat /\ Way(a, Named(k, i))' \in Nat
  <2> DEFINE V == Named(k, i)
  <2>1. out' = [out EXCEPT ![p] = Tail(@)] /\ out[p] # <<>> /\ out \in [Procs -> Seq(Message)]
    BY DEF LoseMessage, TypeOK
  <2>2. Count(out[p], V) = Count(Tail(out[p]), V) + (IF Head(out[p]) \in V THEN 1 ELSE 0) /\ Tail(out[p]) \in Seq(Message)
    BY <2>1, CountTail
  <2>3. Count(Tail(out[p]), V) \in Nat
    BY <2>2, CountType
  <2>4. PICK c \in Nat, w \in Nat : c = Count(out[a], V) /\ w = Count(wire[Peer(a)], V)
    BY WayTypes, Ends
  <2>5. PICK c1 \in Nat : c1 = Count(out'[a], V) /\ c1 <= c
    BY <2>1, <2>2, <2>3, <2>4
  <2>6. Way(a, V) = c + w /\ Way(a, V)' = c1 + w
    BY <2>4, <2>5 DEF Way
  <2> QED BY <2>5, <2>6
<1>3. \A a \in Procs : \A i : Here(a, i)' = Here(a, i)
  BY SameHere
<1>4. \A a \in Procs, i \in Ids : Answered(a, i)' <=> Answered(a, i)
  BY SameAnswers
<1>5. ASSUME NEW a \in Procs, NEW i \in Ids PROVE Total(a, i)' <= Total(a, i)
  <2>0. /\ Way(a, Named("sync", i)) \in Nat /\ Way(a, Named("sync", i))' \in Nat
        /\ Way(Peer(a), Named("reply", i)) \in Nat /\ Way(Peer(a), Named("reply", i))' \in Nat
        /\ Here(Peer(a), i) \in Nat /\ Bit(Answered(a, i)) \in Nat
        /\ Way(a, Named("sync", i))' <= Way(a, Named("sync", i))
        /\ Way(Peer(a), Named("reply", i))' <= Way(Peer(a), Named("reply", i))
    BY <1>2, HereTypes, Ends DEF Bit
  <2>1. PICK w \in Nat, w1 \in Nat, h \in Nat, r \in Nat, r1 \in Nat, s \in Nat :
          /\ w = Way(a, Named("sync", i)) /\ w1 = Way(a, Named("sync", i))' /\ w1 <= w
          /\ r = Way(Peer(a), Named("reply", i)) /\ r1 = Way(Peer(a), Named("reply", i))' /\ r1 <= r
          /\ h = Here(Peer(a), i) /\ s = Bit(Answered(a, i))
    BY <2>0
  <2>2. Bit(Answered(a, i))' = s
    BY <1>4, <2>1 DEF Bit
  <2>3. Total(a, i) = w + h + r + s /\ Total(a, i)' = w1 + h + r1 + s
    BY <1>3, <2>1, <2>2, Ends DEF Total
  <2>4. w1 + h + r1 + s <= w + h + r + s
    BY <2>1
  <2> QED BY <2>3, <2>4
<1> QED BY <1>1, <1>5, Kept

\* What reading a message takes off the way.
LEMMA WayRead ==
  ASSUME TypeOK, TypeOK', NEW p \in Procs, wire[p] # <<>>, wire' = [wire EXCEPT ![p] = Tail(@)], UNCHANGED out
  PROVE  LET m == Head(wire[p]) IN
         /\ m \in Message
         /\ \A k, i : Way(p, Named(k, i))' = Way(p, Named(k, i))
         /\ \A k, i : Way(Peer(p), Named(k, i)) = Way(Peer(p), Named(k, i))' + Bit(m.kind = k /\ m.id = i)
<1> DEFINE m == Head(wire[p])
<1>0. wire[p] \in Seq(Message) /\ wire \in [Procs -> Seq(Message)]
  BY DEF TypeOK
<1>1. wire'[p] = Tail(wire[p]) /\ wire'[Peer(p)] = wire[Peer(p)]
  BY <1>0, Ends
<1>2. m \in Message
  BY <1>0, HeadTailProperties
<1>3. ASSUME NEW k, NEW i PROVE Way(p, Named(k, i))' = Way(p, Named(k, i))
  BY <1>1 DEF Way
<1>4. ASSUME NEW k, NEW i PROVE Way(Peer(p), Named(k, i)) = Way(Peer(p), Named(k, i))' + Bit(m.kind = k /\ m.id = i)
  <2> DEFINE V == Named(k, i)
  <2>1. /\ Tail(wire[p]) \in Seq(Message)
        /\ Count(wire[p], V) = Count(Tail(wire[p]), V) + (IF Head(wire[p]) \in V THEN 1 ELSE 0)
    BY <1>0, CountTail
  <2>2. Count(Tail(wire[p]), V) \in Nat
    BY <2>1, CountType
  <2>3. (IF Head(wire[p]) \in V THEN 1 ELSE 0) = Bit(m.kind = k /\ m.id = i) /\ Bit(m.kind = k /\ m.id = i) \in Nat
    BY <1>2, Names DEF Bit
  <2>4. PICK c \in Nat, w \in Nat, b \in Nat :
          c = Count(out[Peer(p)], V) /\ w = Count(Tail(wire[p]), V) /\ b = Bit(m.kind = k /\ m.id = i)
    BY <2>2, <2>3, WayTypes, Ends
  <2>5. Way(Peer(p), V) = c + (w + b) /\ Way(Peer(p), V)' = c + w
    BY <1>1, <2>1, <2>3, <2>4, Ends DEF Way
  <2> QED BY <2>4, <2>5
<1> QED BY <1>2, <1>3, <1>4

\* The four parts of Total.
LEMMA Parts ==
  ASSUME TypeOK, TypeOK', NEW a \in Procs, NEW i
  PROVE  /\ Way(a, Named("sync", i)) \in Nat /\ Way(a, Named("sync", i))' \in Nat
         /\ Here(Peer(a), i) \in Nat /\ Here(Peer(a), i)' \in Nat
         /\ Way(Peer(a), Named("reply", i)) \in Nat /\ Way(Peer(a), Named("reply", i))' \in Nat
         /\ Bit(Answered(a, i)) \in Nat /\ Bit(Answered(a, i))' \in Nat
         /\ Total(a, i) = Way(a, Named("sync", i)) + Here(Peer(a), i)
                            + Way(Peer(a), Named("reply", i)) + Bit(Answered(a, i))
         /\ Total(a, i)' = Way(a, Named("sync", i))' + Here(Peer(a), i)'
                            + Way(Peer(a), Named("reply", i))' + Bit(Answered(a, i))'
<1>1. /\ Way(a, Named("sync", i)) \in Nat /\ Way(a, Named("sync", i))' \in Nat
      /\ Here(Peer(a), i) \in Nat /\ Here(Peer(a), i)' \in Nat
      /\ Way(Peer(a), Named("reply", i)) \in Nat /\ Way(Peer(a), Named("reply", i))' \in Nat
      /\ Bit(Answered(a, i)) \in Nat /\ Bit(Answered(a, i))' \in Nat
  BY CountedBefore, CountedAfter, Ends DEF Counted, Bit
<1> QED BY <1>1 DEF Total

\* A reply fills the pending reply it is for, and no other.
LEMMA ReplyAnswers ==
  ASSUME TypeOK, TypeOK', NEW p \in Procs, NEW m \in Message, ProcessSyncReply(p, m)
  PROVE  /\ \A a \in Procs, i \in Ids : Requests(a)' = Requests(a) /\ (a # p \/ i # m.id => (Answered(a, i)' <=> Answered(a, i)))
         /\ m.id \in Requests(p) => Answered(p, m.id)'
<1>1. ASSUME NEW a \in Procs, NEW i \in Ids, a # p
      PROVE  Requests(a)' = Requests(a) /\ (Answered(a, i)' <=> Answered(a, i))
  <2>1. pending'[a] = pending[a] /\ second'[a] = second[a]
    BY <1>1, ReplyFills
  <2> QED BY <2>1 DEF Requests, Answered
<1>2. /\ Len(pending'[p]) = Len(pending[p]) /\ second'[p].id = second[p].id
      /\ \A j \in 1..Len(pending[p]) : pending'[p][j].id = pending[p][j].id
      /\ \A j \in 1..Len(pending[p]) : pending[p][j].id # m.id => pending'[p][j] = pending[p][j]
      /\ second[p].id # m.id => second'[p] = second[p]
      /\ m.id \in Requests(p) => Answered(p, m.id)'
  BY ReplyFills
<1>3. ASSUME NEW i \in Ids, i # m.id PROVE Answered(p, i)' <=> Answered(p, i)
  BY <1>2, <1>3, PendingRequests, AnswersAfter DEF AnswersListed
<1>4. Requests(p)' = Requests(p)
  <2>1. DOMAIN pending[p] = 1..Len(pending[p]) /\ DOMAIN pending'[p] = 1..Len(pending'[p])
    <3>1. pending[p] \in Seq([id : Ids, got : BOOLEAN]) /\ pending'[p] \in Seq([id : Ids, got : BOOLEAN])
      BY DEF TypeOK
    <3> QED BY <3>1, LenProperties
  <2>2. {pending'[p][j].id : j \in DOMAIN pending'[p]} = {pending[p][j].id : j \in DOMAIN pending[p]}
    BY <1>2, <2>1
  <2> QED BY <1>2, <2>2 DEF Requests
<1> QED BY <1>1, <1>2, <1>3, <1>4

\* processIncomingMessage of a request or an asynchronous message: it enters one queue.
LEMMA QueuedOnce ==
  ASSUME TypeOK, TypeOK', OnceOnly, NEW p \in Procs, NEW m \in Message,
         \A a \in Procs : lastId[a] <= lastId'[a] /\ (Up(a)' => Up(a)),
         \A k, i : Way(p, Named(k, i))' = Way(p, Named(k, i)),
         \A k, i : Way(Peer(p), Named(k, i)) = Way(Peer(p), Named(k, i))' + Bit(m.kind = k /\ m.id = i),
         m.kind # "reply", UNCHANGED <<pending, second>>,
         \A i : Here(Peer(p), i)' = Here(Peer(p), i),
         \A i : Here(p, i)' = Here(p, i) + Bit(m.kind = "sync" /\ m.id = i)
  PROVE  OnceOnly'
<1>1. \A a \in Procs, i \in Ids : (Answered(a, i)' <=> Answered(a, i)) /\ Requests(a)' = Requests(a)
  BY SameAnswers
<1>2. ASSUME NEW a \in Procs, NEW i \in Ids PROVE Total(a, i)' = Total(a, i)
  <2>0. /\ Way(a, Named("sync", i)) \in Nat /\ Way(a, Named("sync", i))' \in Nat
        /\ Here(Peer(a), i) \in Nat /\ Here(Peer(a), i)' \in Nat
        /\ Way(Peer(a), Named("reply", i)) \in Nat /\ Way(Peer(a), Named("reply", i))' \in Nat
        /\ Bit(Answered(a, i)) \in Nat /\ Bit(Answered(a, i))' \in Nat
    BY Parts
  <2>1. PICK w \in Nat, h \in Nat, r \in Nat, s \in Nat, w1 \in Nat, h1 \in Nat, r1 \in Nat, s1 \in Nat :
          /\ w = Way(a, Named("sync", i)) /\ w1 = Way(a, Named("sync", i))'
          /\ h = Here(Peer(a), i) /\ h1 = Here(Peer(a), i)'
          /\ r = Way(Peer(a), Named("reply", i)) /\ r1 = Way(Peer(a), Named("reply", i))'
          /\ s = Bit(Answered(a, i)) /\ s1 = Bit(Answered(a, i))'
    BY <2>0
  <2>t. Total(a, i) = w + h + r + s /\ Total(a, i)' = w1 + h1 + r1 + s1
    BY <2>1, Parts
  <2>2. s1 = s
    BY <1>1, <2>1 DEF Bit
  <2>3. r1 = r
    <3>1. CASE a = p
      <4>1. Bit(m.kind = "reply" /\ m.id = i) = 0
        BY DEF Bit
      <4> QED BY <2>1, <3>1, <4>1
    <3>2. CASE a = Peer(p)
      BY <2>1, <3>2, Ends
    <3> QED BY <3>1, <3>2, Ends
  <2>4. PICK b \in Nat : b = Bit(m.kind = "sync" /\ m.id = i)
    BY DEF Bit
  <2>5. w1 + h1 = w + h
    <3>1. CASE a = p
      BY <2>1, <3>1
    <3>2. CASE a = Peer(p)
      <4>1. w = w1 + b /\ h1 = h + b
        BY <2>1, <2>4, <3>2, Ends
      <4> QED BY <4>1
    <3> QED BY <3>1, <3>2, Ends
  <2>6. w1 + h1 + r1 + s1 = w + h + r + s
    BY <2>2, <2>3, <2>5
  <2> QED BY <2>t, <2>6
<1>3. \A a \in Procs, i \in Ids : Total(a, i)' <= Total(a, i)
  BY <1>2, CountedBefore DEF Counted
<1> QED BY <1>1, <1>2, <1>3, Kept

\* processIncomingMessage of a reply: the request is answered.
LEMMA AnsweredOnce ==
  ASSUME TypeOK, TypeOK', OnceOnly, NEW p \in Procs, NEW m \in Message,
         \A a \in Procs : lastId[a] <= lastId'[a] /\ (Up(a)' => Up(a)),
         \A k, i : Way(p, Named(k, i))' = Way(p, Named(k, i)),
         \A k, i : Way(Peer(p), Named(k, i)) = Way(Peer(p), Named(k, i))' + Bit(m.kind = k /\ m.id = i),
         m.kind = "reply", ProcessSyncReply(p, m),
         \A a \in Procs, i \in Ids : Here(a, i)' = Here(a, i)
  PROVE  OnceOnly'
<1>1. /\ \A a \in Procs, i \in Ids : Requests(a)' = Requests(a) /\ (a # p \/ i # m.id => (Answered(a, i)' <=> Answered(a, i)))
      /\ m.id \in Requests(p) => Answered(p, m.id)'
  BY ReplyAnswers
<1>2. ASSUME NEW a \in Procs, NEW i \in Ids
      PROVE  Total(a, i)' <= Total(a, i) /\ (i \in Requests(a) => Total(a, i)' = Total(a, i))
  <2>0. /\ Way(a, Named("sync", i)) \in Nat /\ Way(a, Named("sync", i))' \in Nat
        /\ Here(Peer(a), i) \in Nat /\ Here(Peer(a), i)' \in Nat
        /\ Way(Peer(a), Named("reply", i)) \in Nat /\ Way(Peer(a), Named("reply", i))' \in Nat
        /\ Bit(Answered(a, i)) \in Nat /\ Bit(Answered(a, i))' \in Nat
    BY Parts
  <2>1. PICK w \in Nat, h \in Nat, r \in Nat, s \in Nat, w1 \in Nat, h1 \in Nat, r1 \in Nat, s1 \in Nat :
          /\ w = Way(a, Named("sync", i)) /\ w1 = Way(a, Named("sync", i))'
          /\ h = Here(Peer(a), i) /\ h1 = Here(Peer(a), i)'
          /\ r = Way(Peer(a), Named("reply", i)) /\ r1 = Way(Peer(a), Named("reply", i))'
          /\ s = Bit(Answered(a, i)) /\ s1 = Bit(Answered(a, i))'
    BY <2>0
  <2>t. Total(a, i) = w + h + r + s /\ Total(a, i)' = w1 + h1 + r1 + s1
    BY <2>1, Parts
  <2>2. h1 = h
    BY <2>1, Ends
  <2>3. w1 = w
    <3>1. Bit(m.kind = "sync" /\ m.id = i) = 0
      BY DEF Bit
    <3> QED BY <2>1, <3>1, Ends
  <2>4. CASE a # p \/ i # m.id
    <3>1. s1 = s
      BY <1>1, <2>1, <2>4 DEF Bit
    <3>2. r1 = r
      <4>1. CASE a # p
        BY <2>1, <4>1, Ends
      <4>2. CASE a = p /\ i # m.id
        <5>1. Bit(m.kind = "reply" /\ m.id = i) = 0
          BY <4>2 DEF Bit
        <5> QED BY <2>1, <4>2, <5>1
      <4> QED BY <2>4, <4>1, <4>2
    <3>3. w1 + h1 + r1 + s1 = w + h + r + s
      BY <2>2, <2>3, <3>1, <3>2
    <3>4. Total(a, i)' = Total(a, i) /\ Total(a, i) \in Nat
      BY <2>t, <3>3
    <3> QED BY <3>4
  <2>5. CASE a = p /\ i = m.id
    <3>1. Bit(m.kind = "reply" /\ m.id = i) = 1
      BY <2>5 DEF Bit
    <3>2. r = r1 + 1
      BY <2>1, <2>5, <3>1
    <3>3. Total(a, i) <= 1
      BY DEF OnceOnly
    <3>4. w = 0 /\ h = 0 /\ r1 = 0 /\ s = 0 /\ r = 1
      BY <2>t, <3>2, <3>3
    <3>5. s1 <= 1 /\ (i \in Requests(a) => s1 = 1)
      BY <1>1, <2>1, <2>5 DEF Bit
    <3>6. Total(a, i) = 1 /\ Total(a, i)' = s1
      BY <2>t, <2>2, <2>3, <3>4
    <3> QED BY <3>5, <3>6
  <2> QED BY <2>4, <2>5
<1> QED BY <1>1, <1>2, Kept

-----------------------------------------------------------------------------
(* Each request is in one place at most, and in one while both ends are up.*)

\* A request that p starts to wait for: it is on its way, once.
LEMMA NewRequest ==
  ASSUME TypeOK, TypeOK', OnceOnly, NEW p \in Procs, NEW n \in Ids, n = lastId[p] + 1, NewId(p),
         \A a \in Procs : Up(a)' => Up(a),
         \A a \in Procs : \A k, i : Way(a, Named(k, i))' = Way(a, Named(k, i)) + Bit(a = p /\ k = "sync" /\ i = n),
         \A a \in Procs, i \in Ids : Here(a, i)' = Here(a, i),
         \A a \in Procs, i \in Ids :
           /\ Answered(a, i)' <=> Answered(a, i)
           /\ i \in Requests(a)' => i \in Requests(a) \/ (a = p /\ i = n)
  PROVE  OnceOnly'
<1> SUFFICES ASSUME NEW a \in Procs, NEW i \in Ids
             PROVE  /\ Total(a, i)' <= 1
                    /\ i > lastId'[a] => Total(a, i)' = 0
                    /\ Up(a)' /\ i \in Requests(a)' => Total(a, i)' = 1
  BY DEF OnceOnly
<1>1. Total(a, i)' = Total(a, i) + Bit(a = p /\ i = n) /\ Total(a, i) \in Nat
  <2>0. /\ Way(a, Named("sync", i)) \in Nat /\ Here(Peer(a), i) \in Nat
        /\ Way(Peer(a), Named("reply", i)) \in Nat /\ Bit(Answered(a, i)) \in Nat
    BY Parts
  <2>1. PICK w \in Nat, h \in Nat, r \in Nat, s \in Nat, b \in Nat :
          /\ w = Way(a, Named("sync", i)) /\ h = Here(Peer(a), i)
          /\ r = Way(Peer(a), Named("reply", i)) /\ s = Bit(Answered(a, i)) /\ b = Bit(a = p /\ i = n)
    BY <2>0 DEF Bit
  <2>2. Way(a, Named("sync", i))' = w + b
    BY <2>1 DEF Bit
  <2>3. Here(Peer(a), i)' = h /\ Bit(Answered(a, i))' = s
    BY <2>1, Ends DEF Bit
  <2>4. Way(Peer(a), Named("reply", i))' = r
    <3>1. Bit(Peer(a) = p /\ "reply" = "sync" /\ i = n) = 0
      BY DEF Bit
    <3> QED BY <2>1, <3>1, Ends
  <2>5. Total(a, i) = w + h + r + s /\ Total(a, i)' = w + b + h + r + s
    BY <2>1, <2>2, <2>3, <2>4, Parts
  <2> QED BY <2>1, <2>5
<1>2. /\ Total(a, i) <= 1 /\ (i > lastId[a] => Total(a, i) = 0)
      /\ (Up(a) /\ i \in Requests(a) => Total(a, i) = 1)
  BY DEF OnceOnly
<1>3. /\ lastId[a] \in Nat /\ i \in Nat /\ lastId'[a] = (IF a = p THEN lastId[a] + 1 ELSE lastId[a])
  BY IdNumbers DEF TypeOK, NewId
<1>4. CASE a = p /\ i = n
  <2>1. Total(a, i)' = 1
    BY <1>1, <1>2, <1>3, <1>4 DEF Bit
  <2> QED BY <1>3, <1>4, <2>1
<1>5. CASE ~(a = p /\ i = n)
  <2>1. Total(a, i)' = Total(a, i)
    BY <1>1, <1>5 DEF Bit
  <2>2. i > lastId'[a] => i > lastId[a]
    BY <1>3
  <2>3. Up(a)' /\ i \in Requests(a)' => Up(a) /\ i \in Requests(a)
    BY <1>5
  <2> QED BY <1>2, <2>1, <2>2, <2>3
<1> QED BY <1>4, <1>5

LEMMA InitOnce == Init => OnceOnly
<1> SUFFICES ASSUME Init, NEW p \in Procs, NEW i \in Ids
             PROVE  Total(p, i) = 0 /\ i \notin Requests(p)
  BY DEF OnceOnly
<1>1. \A a \in Procs : /\ out[a] = <<>> /\ wire[a] = <<>> /\ incoming[a] = <<>> /\ syncQueue[a] = <<>>
                       /\ stack[a] = <<>> /\ delayed[a] = {} /\ pending[a] = <<>> /\ second[a] = NoSecond
  BY DEF Init
<1>2. \A a \in Procs : \A V : Way(a, V) = 0
  BY <1>1, CountShort, Ends DEF Way
<1>3. \A a \in Procs : Here(a, i) = 0
  BY <1>1, CountShort, HeldNone DEF Here, Bit
<1>4. DOMAIN pending[p] = {} /\ second[p].id = 0 /\ second[p].got = FALSE
  BY <1>1 DEF NoSecond
<1>5. ~Answered(p, i) /\ Requests(p) = {}
  BY <1>4 DEF Answered, Requests
<1>6. Bit(Answered(p, i)) = 0
  BY <1>5 DEF Bit
<1> QED BY <1>2, <1>3, <1>5, <1>6, Ends DEF Total

LEMMA NextOnce == TypeOK /\ Sorted /\ Nested /\ Known /\ OnceOnly /\ [Next]_vars => OnceOnly'
<1> SUFFICES ASSUME TypeOK, Sorted, Nested, Known, OnceOnly, [Next]_vars PROVE OnceOnly'
  OBVIOUS
<1> USE DEF netVars, inVars, syncVars, threadVars, procVars
<1>t. TypeOK'
  BY NextTypes
<1>u. \A a \in Procs : lastId[a] <= lastId'[a] /\ (Up(a)' => Up(a)) /\ (client'[a] => client[a])
  BY EndsFade, UpFades
<1>0. ASSUME UNCHANGED <<out, wire, incoming, syncQueue, stack, delayed, pending>>,
             \A a \in Procs : second'[a].id = second[a].id /\ second'[a].got = second[a].got
      PROVE  OnceOnly'
  <2>1. \A a \in Procs, i \in Ids : Here(a, i)' = Here(a, i) /\ Here(a, i) \in Nat
    BY <1>0, SameHere, HereTypes
  <2>2. PICK p : p \in Procs
    BY ConnectionAssumption
  <2>3. \A i \in Ids : Here(p, i)' <= Here(p, i)
    BY <2>1, <2>2
  <2> QED BY <1>0, <1>t, <1>u, <2>1, <2>2, <2>3, MovedWithin
<1>m. ASSUME NEW p \in Procs, UNCHANGED <<out, wire, pending, second>>,
             \A a \in Procs : a # p => /\ incoming'[a] = incoming[a] /\ syncQueue'[a] = syncQueue[a]
                                       /\ stack'[a] = stack[a] /\ delayed'[a] = delayed[a],
             \A i \in Ids : Here(p, i)' <= Here(p, i) /\ (client[p] => Here(p, i)' = Here(p, i))
      PROVE  OnceOnly'
  BY <1>m, <1>t, <1>u, MovedWithin
<1>h. ASSUME NEW p \in Procs, Handed(p), UNCHANGED <<pending, second, incoming, syncQueue>>,
             \A a \in Procs : a # p => stack'[a] = stack[a] /\ delayed'[a] = delayed[a]
      PROVE  OnceOnly'
  <2>1. \A i \in Ids : Here(Peer(p), i)' = Here(Peer(p), i)
    BY <1>h, SameHere, Ends
  <2>2. \A a \in Procs, i \in Ids : (Answered(a, i)' <=> Answered(a, i)) /\ Requests(a)' = Requests(a)
    BY <1>h, SameAnswers
  <2>3. \A a \in Procs, i \in Ids :
          /\ Answered(a, i)' => Answered(a, i)
          /\ i \in Requests(a)' => i \in Requests(a) /\ (Answered(a, i) => Answered(a, i)')
    BY <2>2
  <2> QED BY <1>h, <1>t, <1>u, <2>1, <2>3, Stepped DEF Handed
<1>f. ASSUME AnswersFade, UNCHANGED <<out, wire>>, \A a \in Procs, i \in Ids : Here(a, i)' = Here(a, i)
      PROVE  OnceOnly'
  <2>1. \A a \in Procs : \A V : Way(a, V)' = Way(a, V)
    BY <1>f, SameWay
  <2>2. PICK p : p \in Procs
    BY ConnectionAssumption
  <2>3. \A i \in Ids :
          /\ Here(p, i)' + Way(p, Named("reply", i))' <= Here(p, i) + Way(p, Named("reply", i))
          /\ Here(p, i)' + Way(p, Named("reply", i))' = Here(p, i) + Way(p, Named("reply", i))
    BY <1>f, <2>1, <2>2, AskedOnce
  <2> QED BY <1>f, <1>t, <1>u, <2>1, <2>2, <2>3, Stepped, Ends DEF AnswersFade
<1>i. ASSUME NEW p \in Procs, UNCHANGED <<out, wire, pending, second, incoming, syncQueue, delayed>>,
             \A a \in Procs : a # p => stack'[a] = stack[a],
             ResetDidSchedule(p) \/ DrainDone(p) \/ WakeUp(p) \/ SyncTimesOut(p) \/ CheckSyncReply(p)
      PROVE  OnceOnly'
  <2>1. \A i \in Ids : Here(p, i)' <= Here(p, i) /\ Here(p, i)' = Here(p, i)
    BY <1>i, InnerOnce
  <2> QED BY <1>i, <1>m, <2>1
<1>r. ASSUME NEW p \in Procs, SyncTimesOut(p) \/ CheckSyncReply(p), NEW replied, ReturnFromSync(p, replied),
             At(p, "check") \/ At(p, "sleep")
      PROVE  OnceOnly'
  <2>1. /\ UNCHANGED <<out, wire, second, incoming, syncQueue, delayed>>
        /\ pending' = [pending EXCEPT ![p] = Front(@)] /\ \A a \in Procs : a # p => stack'[a] = stack[a]
    BY <1>r DEF SyncTimesOut, CheckSyncReply, ReturnFromSync, TypeOK
  <2>2. \A i \in Ids : Here(p, i)' = Here(p, i)
    BY <1>r, InnerOnce
  <2>3. \A a \in Procs, i \in Ids : Here(a, i)' = Here(a, i)
    BY <2>1, <2>2, SameHere
  <2>4. AnswersFade
    BY <1>t, <1>r, <2>1, WaitHasReply, ReturnFades
  <2> QED BY <1>f, <2>1, <2>3, <2>4
<1>1. ASSUME NEW p \in Procs, AppSends(p) PROVE OnceOnly'
  <2>1. CASE SendSync(p)
    <3> DEFINE n == NextId(p)
    <3>1. /\ n \in Ids /\ n = lastId[p] + 1 /\ NewId(p) /\ client[p] /\ SendMessage(p, "sync", n, TRUE)
          /\ UNCHANGED <<wire, second, incoming, syncQueue, delayed>>
          /\ pending' = [pending EXCEPT ![p] = Append(@, [id |-> n, got |-> FALSE])]
          /\ stack' = [stack EXCEPT ![p] = Append(Append(@, Wait("check", n)), Swap)]
      BY <2>1, IdTypes DEF SendSync, NextId
    <3> HIDE DEF n
    <3>2. \A a \in Procs : \A k, i : Way(a, Named(k, i))' = Way(a, Named(k, i)) + Bit(a = p /\ k = "sync" /\ i = n)
      <4>1. TRUE \in BOOLEAN /\ SendMessage(p, "sync", n, TRUE) /\ UNCHANGED wire /\ n \in Ids
        BY <3>1
      <4>2. \A a \in Procs : \A k, i : Way(a, Named(k, i))' = Way(a, Named(k, i)) + Bit(a = p /\ client[p] /\ k = "sync" /\ i = n)
        BY <4>1, WaySent
      <4> QED BY <3>1, <4>2
    <3>3. \A a \in Procs, i \in Ids : Here(a, i)' = Here(a, i)
      <4>1. stack[p] \in Seq(Frame) /\ Wait("check", n) \in Frame /\ Content(Wait("check", n)) = <<>>
        BY <3>1, Frames, Contents DEF TypeOK
      <4>2. ASSUME NEW i \in Ids PROVE Here(p, i)' = Here(p, i)
        <5> DEFINE s == Append(stack[p], Wait("check", n))
        <5>1. s \in Seq(Frame) /\ Held(s, Named("sync", i)) = Held(stack[p], Named("sync", i))
          BY <4>1, HeldEmpty
        <5> HIDE DEF s
        <5>2. Held(Append(s, Swap), Named("sync", i)) = Held(s, Named("sync", i))
          BY <5>1, Frames, Contents, HeldEmpty
        <5>3. stack'[p] = Append(s, Swap)
          BY <3>1 DEF TypeOK, s
        <5> QED BY <3>1, <5>1, <5>2, <5>3, SameHeld
      <4>3. \A a \in Procs : a # p => stack'[a] = stack[a]
        BY <3>1 DEF TypeOK
      <4> QED BY <3>1, <4>2, <4>3, SameHere
    <3>4. ASSUME NEW a \in Procs, NEW i \in Ids
          PROVE  /\ Answered(a, i)' <=> Answered(a, i)
                 /\ i \in Requests(a)' => i \in Requests(a) \/ (a = p /\ i = n)
      <4>1. CASE a # p
        <5>1. pending'[a] = pending[a] /\ second'[a] = second[a]
          BY <3>1, <4>1 DEF TypeOK
        <5> QED BY <5>1 DEF Answered, Requests
      <4>2. CASE a = p
        <5> DEFINE e == [id |-> n, got |-> FALSE]
                   u == Append(pending[p], e)
        <5>1. pending'[p] = u /\ second'[p] = second[p]
          BY <3>1 DEF TypeOK
        <5>2. e \in PendingReply /\ e.id = n /\ e.got = FALSE
          BY <3>1 DEF PendingReply
        <5> HIDE DEF e
        <5>3. /\ Len(u) = Len(pending[p]) + 1 /\ Len(pending[p]) \in Nat
              /\ \A j \in 1..Len(pending[p]) : u[j] = pending[p][j]
              /\ u[Len(pending[p]) + 1] = e
          BY <5>2, PendingTypes, Appended
        <5> HIDE DEF u
        <5>4. \A j : j \in 1..Len(u) <=> j \in 1..Len(pending[p]) \/ j = Len(pending[p]) + 1
          BY <5>3
        <5>5. /\ i \in Requests(p)' <=> (\E j \in 1..Len(u) : u[j].id = i) \/ second[p].id = i
              /\ Answered(p, i)' <=> (\E j \in 1..Len(u) : u[j].id = i /\ u[j].got) \/ (second[p].id = i /\ second[p].got)
          BY <1>t, <5>1, AnswersAfter DEF AnswersListed
        <5>6. /\ i \in Requests(p) <=> (\E j \in 1..Len(pending[p]) : pending[p][j].id = i) \/ second[p].id = i
              /\ Answered(p, i) <=> (\E j \in 1..Len(pending[p]) : pending[p][j].id = i /\ pending[p][j].got)
                                    \/ (second[p].id = i /\ second[p].got)
          BY PendingRequests DEF AnswersListed
        <5>7. (\E j \in 1..Len(u) : u[j].id = i) => (\E j \in 1..Len(pending[p]) : pending[p][j].id = i) \/ i = n
          BY <5>2, <5>3, <5>4
        <5>8. (\E j \in 1..Len(u) : u[j].id = i /\ u[j].got)
                <=> (\E j \in 1..Len(pending[p]) : pending[p][j].id = i /\ pending[p][j].got)
          BY <5>2, <5>3, <5>4
        <5> QED BY <4>2, <5>5, <5>6, <5>7, <5>8
      <4> QED BY <4>1, <4>2
    <3> QED BY <1>t, <1>u, <3>1, <3>2, <3>3, <3>4, NewRequest
  <2>2. CASE SecondarySendSync(p)
    <3> DEFINE n == NextId(p)
    <3>1. /\ n \in Ids /\ n = lastId[p] + 1 /\ NewId(p) /\ client[p] /\ SendMessage(p, "sync", n, FALSE)
          /\ UNCHANGED <<wire, pending, incoming, syncQueue, delayed, stack>>
          /\ second[p].id = 0 /\ second' = [second EXCEPT ![p] = [id |-> n, got |-> FALSE, signalled |-> FALSE]]
      BY <2>2, IdTypes DEF SecondarySendSync, NextId
    <3> HIDE DEF n
    <3>2. \A a \in Procs : \A k, i : Way(a, Named(k, i))' = Way(a, Named(k, i)) + Bit(a = p /\ k = "sync" /\ i = n)
      <4>1. FALSE \in BOOLEAN /\ SendMessage(p, "sync", n, FALSE) /\ UNCHANGED wire /\ n \in Ids
        BY <3>1
      <4>2. \A a \in Procs : \A k, i : Way(a, Named(k, i))' = Way(a, Named(k, i)) + Bit(a = p /\ client[p] /\ k = "sync" /\ i = n)
        BY <4>1, WaySent
      <4> QED BY <3>1, <4>2
    <3>3. \A a \in Procs, i \in Ids : Here(a, i)' = Here(a, i)
      BY <3>1, SameHere
    <3>4. ASSUME NEW a \in Procs, NEW i \in Ids
          PROVE  /\ Answered(a, i)' <=> Answered(a, i)
                 /\ i \in Requests(a)' => i \in Requests(a) \/ (a = p /\ i = n)
      <4>1. CASE a # p
        <5>1. pending'[a] = pending[a] /\ second'[a] = second[a]
          BY <3>1, <4>1 DEF TypeOK
        <5> QED BY <5>1 DEF Answered, Requests
      <4>2. CASE a = p
        <5>1. pending'[p] = pending[p] /\ second'[p].id = n /\ second'[p].got = FALSE /\ i # 0
          BY <3>1, IdNumbers DEF TypeOK
        <5>2. second[p].id # i
          BY <3>1, <5>1
        <5> QED BY <1>t, <4>2, <5>1, <5>2, PendingRequests, AnswersAfter DEF AnswersListed
      <4> QED BY <4>1, <4>2
    <3> QED BY <1>t, <1>u, <3>1, <3>2, <3>3, <3>4, NewRequest
  <2>3. ASSUME NEW even \in BOOLEAN, SendAsync(p, even) PROVE OnceOnly'
    <3>1. /\ NextId(p) \in Ids /\ SendMessage(p, "async", NextId(p), even)
          /\ UNCHANGED <<wire, pending, second, incoming, syncQueue, delayed, stack>>
      BY <2>3, IdTypes DEF SendAsync
    <3>2. ASSUME NEW a \in Procs, NEW k \in {"sync", "reply"}, NEW i PROVE Way(a, Named(k, i))' = Way(a, Named(k, i))
      <4>1. Way(a, Named(k, i))' = Way(a, Named(k, i)) + Bit(a = p /\ client[p] /\ k = "async" /\ i = NextId(p))
        BY <3>1, WaySent
      <4>2. Bit(a = p /\ client[p] /\ k = "async" /\ i = NextId(p)) = 0
        BY DEF Bit
      <4> QED BY <4>1, <4>2, WayTypes
    <3>3. \A a \in Procs, i \in Ids : Here(a, i)' = Here(a, i)
      BY <3>1, SameHere
    <3>4. Handed(p)
      <4>1. \A i \in Ids : Way(p, Named("reply", i)) \in Nat /\ Here(p, i) \in Nat
        BY WayTypes, HereTypes
      <4> QED BY <3>2, <3>3, <4>1, Ends DEF Handed
    <3> QED BY <1>h, <3>1, <3>4
  <2>4. CASE SendSyncFails(p) \/ Invalidate(p)
    BY <1>0, <2>4 DEF SendSyncFails, Invalidate
  <2>5. CASE FinishInvalid(p)
    <3> DEFINE m == Top(p).msg
    <3>1. /\ At(p, "handler") /\ stack' = [stack EXCEPT ![p] = Front(@)] /\ client'[p] = FALSE
          /\ UNCHANGED <<incoming, syncQueue, wire, delayed, pending, second>>
          /\ UNCHANGED out \/ (m.kind = "sync" /\ SendMessage(p, "reply", m.id, FALSE))
      BY <2>5 DEF FinishInvalid, TypeOK
    <3>2. stack'[p] = Front(stack[p]) /\ \A a \in Procs : a # p => stack'[a] = stack[a]
      BY <3>1 DEF TypeOK
    <3>3. Handed(p)
      BY <3>1, <3>2, HandlerDone
    <3> QED BY <1>h, <3>1, <3>2, <3>3
  <2> QED BY <1>1, <2>1, <2>2, <2>3, <2>4, <2>5 DEF AppSends
<1>2. ASSUME NEW p \in Procs, MainThread(p) PROVE OnceOnly'
  <2>1. CASE DispatchOneMessage(p)
    <3>1. /\ UNCHANGED <<out, wire, pending, second>>
          /\ \A a \in Procs : a # p => /\ incoming'[a] = incoming[a] /\ syncQueue'[a] = syncQueue[a]
                                       /\ stack'[a] = stack[a] /\ delayed'[a] = delayed[a]
      BY <2>1 DEF DispatchOneMessage, Dispatch, TypeOK
    <3>2. \A i \in Ids : Here(p, i)' <= Here(p, i) /\ (client[p] => Here(p, i)' = Here(p, i))
      BY <2>1, DispatchOnce
    <3> QED BY <1>m, <3>1, <3>2
  <2>2. CASE DispatchDidClose(p)
    BY <1>0, <2>2 DEF DispatchDidClose
  <2>3. CASE SwapMessages(p)
    <3>1. /\ UNCHANGED <<out, wire, pending, second>>
          /\ \A a \in Procs : a # p => /\ incoming'[a] = incoming[a] /\ syncQueue'[a] = syncQueue[a]
                                       /\ stack'[a] = stack[a] /\ delayed'[a] = delayed[a]
      BY <2>3 DEF SwapMessages, TypeOK
    <3>2. \A i \in Ids : Here(p, i)' <= Here(p, i) /\ Here(p, i)' = Here(p, i)
      BY <2>3, SwapOnce
    <3> QED BY <1>m, <3>1, <3>2
  <2>4. CASE DrainNext(p)
    <3>1. /\ UNCHANGED <<out, wire, pending, second>>
          /\ \A a \in Procs : a # p => /\ incoming'[a] = incoming[a] /\ syncQueue'[a] = syncQueue[a]
                                       /\ stack'[a] = stack[a] /\ delayed'[a] = delayed[a]
      BY <2>4 DEF DrainNext, Dispatch, TypeOK
    <3>2. \A i \in Ids : Here(p, i)' <= Here(p, i) /\ (client[p] => Here(p, i)' = Here(p, i))
      BY <2>4, DrainOnce
    <3> QED BY <1>m, <3>1, <3>2
  <2>5. CASE ResetDidSchedule(p) \/ DrainDone(p) \/ WakeUp(p)
    <3>1. /\ UNCHANGED <<out, wire, pending, second, incoming, syncQueue, delayed>>
          /\ \A a \in Procs : a # p => stack'[a] = stack[a]
      BY <2>5 DEF ResetDidSchedule, DrainDone, WakeUp, TypeOK
    <3> QED BY <1>i, <2>5, <3>1
  <2>6. CASE CheckSyncReply(p)
    <3>1. CASE ReturnFromSync(p, Last(pending[p]).got)
      BY <1>r, <2>6, <3>1 DEF CheckSyncReply
    <3>2. CASE stack' = [stack EXCEPT ![p] = Append(Front(@), Wait("sleep", Top(p).id))] /\ UNCHANGED pending
      <4>1. /\ UNCHANGED <<out, wire, pending, second, incoming, syncQueue, delayed>>
            /\ \A a \in Procs : a # p => stack'[a] = stack[a]
        BY <2>6, <3>2 DEF CheckSyncReply, TypeOK
      <4> QED BY <1>i, <2>6, <4>1
    <3> QED BY <2>6, <3>1, <3>2 DEF CheckSyncReply
  <2>7. CASE FinishHandler(p)
    <3> DEFINE m == Top(p).msg
    <3>1. /\ At(p, "handler") /\ stack' = [stack EXCEPT ![p] = Front(@)] /\ UNCHANGED client
          /\ UNCHANGED <<incoming, syncQueue, wire, pending, second>>
          /\ \/ m.kind # "sync" /\ UNCHANGED <<out, delayed>>
             \/ m.kind = "sync" /\ SendMessage(p, "reply", m.id, FALSE) /\ UNCHANGED delayed
             \/ m.kind = "sync" /\ UNCHANGED out /\ delayed' = [delayed EXCEPT ![p] = @ \union {m.id}]
      BY <2>7 DEF FinishHandler
    <3>2. /\ stack'[p] = Front(stack[p])
          /\ \A a \in Procs : a # p => stack'[a] = stack[a] /\ delayed'[a] = delayed[a]
      BY <3>1 DEF TypeOK
    <3>3. Handed(p)
      BY <3>1, <3>2, HandlerDone
    <3> QED BY <1>h, <3>1, <3>2, <3>3
  <2> QED BY <1>2, <2>1, <2>2, <2>3, <2>4, <2>5, <2>6, <2>7 DEF MainThread
<1>3. ASSUME NEW p \in Procs, WorkQueue(p) PROVE OnceOnly'
  <2>1. CASE WriteMessage(p)
    <3>1. /\ UNCHANGED <<incoming, syncQueue, stack, delayed, pending, second>>
      BY <2>1 DEF WriteMessage
    <3>2. \A a \in Procs, i \in Ids : Here(a, i)' = Here(a, i) /\ Here(a, i) \in Nat
      BY <3>1, SameHere, HereTypes
    <3>3. \A a \in Procs : \A k, i : Way(a, Named(k, i))' = Way(a, Named(k, i)) /\ Way(a, Named(k, i)) \in Nat
      BY <2>1, WrittenOnce, WayTypes
    <3>4. Handed(p)
      BY <3>2, <3>3, Ends DEF Handed
    <3> QED BY <1>h, <3>1, <3>4
  <2>2. CASE WriteFails(p)
    BY <1>t, <1>u, <2>2, LostOnce DEF WriteFails
  <2>3. CASE WriteShutsDown(p)
    <3>1. LoseMessage(p) /\ DidClose(p) /\ UNCHANGED <<wire, incoming, syncQueue, stack, delayed>>
      BY <2>3 DEF WriteShutsDown, DidClose
    <3> QED BY <1>t, <1>u, <3>1, DidCloseKeeps, LostOnce
  <2>4. CASE ConnectionDidClose(p)
    <3>1. DidClose(p) /\ UNCHANGED <<out, wire, incoming, syncQueue, stack, delayed>>
      BY <2>4 DEF ConnectionDidClose, DidClose
    <3> QED BY <1>0, <3>1, DidCloseKeeps
  <2>5. CASE WriteBlocks(p) \/ ReadFails(p) \/ PlatformInvalidate(p) \/ PerformClose(p)
    BY <1>0, <2>5 DEF WriteBlocks, ReadFails, PlatformInvalidate, PerformClose
  <2>6. CASE ProcessIncomingMessage(p)
    <3> DEFINE m == Head(wire[p])
    <3>1. wire[p] # <<>> /\ wire' = [wire EXCEPT ![p] = Tail(@)] /\ UNCHANGED <<out, stack, delayed>>
      BY <2>6 DEF ProcessIncomingMessage
    <3>2. /\ m \in Message
          /\ \A k, i : Way(p, Named(k, i))' = Way(p, Named(k, i))
          /\ \A k, i : Way(Peer(p), Named(k, i)) = Way(Peer(p), Named(k, i))' + Bit(m.kind = k /\ m.id = i)
      BY <1>t, <3>1, WayRead
    <3>3. CASE m.kind = "reply" /\ ProcessSyncReply(p, m) /\ UNCHANGED inVars
      <4>1. \A a \in Procs, i \in Ids : Here(a, i)' = Here(a, i)
        BY <3>1, <3>3, SameHere
      <4> QED BY <1>t, <1>u, <3>2, <3>3, <4>1, AnsweredOnce
    <3>q. /\ Count(Append(incoming[p], m), Named("sync", m.id)) \in Nat
          /\ \A i : /\ Count(Append(incoming[p], m), Named("sync", i)) = Count(incoming[p], Named("sync", i)) + Bit(m.kind = "sync" /\ m.id = i)
                   /\ Count(Append(syncQueue[p], m), Named("sync", i)) = Count(syncQueue[p], Named("sync", i)) + Bit(m.kind = "sync" /\ m.id = i)
      <4>1. incoming[p] \in Seq(Message) /\ syncQueue[p] \in Seq(Message)
        BY DEF TypeOK
      <4>2. \A i : (IF m \in Named("sync", i) THEN 1 ELSE 0) = Bit(m.kind = "sync" /\ m.id = i)
        BY <3>2, Names DEF Bit
      <4> HIDE DEF m
      <4>3. \A i : /\ Count(Append(incoming[p], m), Named("sync", i)) = Count(incoming[p], Named("sync", i)) + Bit(m.kind = "sync" /\ m.id = i)
                   /\ Count(Append(syncQueue[p], m), Named("sync", i)) = Count(syncQueue[p], Named("sync", i)) + Bit(m.kind = "sync" /\ m.id = i)
        BY <3>2, <4>1, <4>2, CountAppend
      <4>4. Append(incoming[p], m) \in Seq(Message)
        BY <3>2, <4>1, Appended
      <4> QED BY <4>3, <4>4, CountType
    <3>4. CASE m.kind # "reply" /\ UNCHANGED <<pending, second>> /\ \A a \in Procs : a # p => incoming'[a] = incoming[a] /\ syncQueue'[a] = syncQueue[a]
      <4>1. \A i : Here(Peer(p), i)' = Here(Peer(p), i)
        BY <3>1, <3>4, SameHere, Ends
      <4>2. ASSUME NEW i PROVE Here(p, i)' = Here(p, i) + Bit(m.kind = "sync" /\ m.id = i)
        <5> DEFINE V == Named("sync", i)
        <5>0. /\ Count(incoming[p], V) \in Nat /\ Count(syncQueue[p], V) \in Nat /\ Held(stack[p], V) \in Nat
              /\ Bit(i \in delayed[p]) \in Nat /\ Bit(m.kind = "sync" /\ m.id = i) \in Nat
          BY HereTypes DEF Bit
        <5>1. PICK c \in Nat, k \in Nat, h \in Nat, d \in Nat, b \in Nat :
                /\ c = Count(incoming[p], V) /\ k = Count(syncQueue[p], V) /\ h = Held(stack[p], V)
                /\ d = Bit(i \in delayed[p]) /\ b = Bit(m.kind = "sync" /\ m.id = i)
          BY <5>0
        <5>2. Here(p, i) = c + k + h + d
          BY <5>1 DEF Here
        <5>3. \/ incoming'[p] = Append(incoming[p], m) /\ syncQueue'[p] = syncQueue[p]
              \/ incoming'[p] = incoming[p] /\ syncQueue'[p] = Append(syncQueue[p], m)
          BY <2>6, <3>4 DEF ProcessIncomingMessage, ProcessMarked, TypeOK
        <5>4. Count(incoming'[p], V) + Count(syncQueue'[p], V) = c + k + b
          <6>1. CASE incoming'[p] = Append(incoming[p], m) /\ syncQueue'[p] = syncQueue[p]
            <7>1. Count(incoming'[p], V) = c + b /\ Count(syncQueue'[p], V) = k
              BY <3>q, <5>1, <6>1
            <7> QED BY <7>1
          <6>2. CASE incoming'[p] = incoming[p] /\ syncQueue'[p] = Append(syncQueue[p], m)
            <7>1. Count(incoming'[p], V) = c /\ Count(syncQueue'[p], V) = k + b
              BY <3>q, <5>1, <6>2
            <7> QED BY <7>1
          <6> QED BY <5>3, <6>1, <6>2
        <5>5. Here(p, i)' = (c + k + b) + h + d
          BY <3>1, <5>1, <5>4 DEF Here
        <5> QED BY <5>1, <5>2, <5>5
      <4> QED BY <1>t, <1>u, <3>2, <3>4, <4>1, <4>2, QueuedOnce
    <3>5. m.kind # "reply" => UNCHANGED <<pending, second>> /\ \A a \in Procs : a # p => incoming'[a] = incoming[a] /\ syncQueue'[a] = syncQueue[a]
      BY <2>6 DEF ProcessIncomingMessage, ProcessMarked, TypeOK
    <3> QED BY <2>6, <3>3, <3>4, <3>5 DEF ProcessIncomingMessage, TakenOutOfTurn
  <2> QED BY <1>3, <2>1, <2>2, <2>3, <2>4, <2>5, <2>6 DEF WorkQueue
<1>4. ASSUME NEW p \in Procs, SendDelayedReply(p) PROVE OnceOnly'
  <2>1. UNCHANGED <<pending, second, incoming, syncQueue, stack>> /\ \A a \in Procs : a # p => delayed'[a] = delayed[a]
    BY <1>4 DEF SendDelayedReply, TypeOK
  <2> QED BY <1>4, <1>h, <2>1, DelayedDone
<1>5. ASSUME NEW p \in Procs, SecondaryReturns(p) PROVE OnceOnly'
  <2>1. /\ UNCHANGED <<out, wire, pending, incoming, syncQueue, stack, delayed>>
        /\ second' = [second EXCEPT ![p] = NoSecond]
    BY <1>5 DEF SecondaryReturns
  <2>2. \A a \in Procs, i \in Ids : Here(a, i)' = Here(a, i)
    BY <2>1, SameHere
  <2> QED BY <1>t, <1>f, <2>1, <2>2, SecondFades
<1>6. ASSUME NEW p \in Procs, SyncTimesOut(p) PROVE OnceOnly'
  BY <1>6, <1>r DEF SyncTimesOut
<1>7. ASSUME NEW p \in Procs, Crash(p) PROVE OnceOnly'
  BY <1>0, <1>7 DEF Crash
<1>8. UNCHANGED vars => OnceOnly'
  BY <1>0 DEF vars
<1> QED BY <1>1, <1>2, <1>3, <1>4, <1>5, <1>6, <1>7, <1>8 DEF Next

LEMMA Elements ==
  ASSUME NEW S, NEW s \in Seq(S), NEW V
  PROVE  Count(s, V) = 0 <=> \A m \in ToSet(s) : m \notin V
<1>1. DOMAIN s = 1..Len(s)
  BY LenProperties
<1> QED BY <1>1, CountType DEF ToSet

\* One slot, or two, that hold a message of V.
LEMMA HeldSlots ==
  ASSUME NEW s \in Seq(Frame), NEW V
  PROVE  /\ Held(s, V) = 0 <=> Slots(s, V) = {}
         /\ \A a, b \in Slots(s, V) : a # b => Held(s, V) >= 2
<1>1. IsFiniteSet(Slots(s, V)) /\ Held(s, V) \in Nat
  BY SlotsFinite
<1>2. Held(s, V) = 0 <=> Slots(s, V) = {}
  BY <1>1, FS_EmptySet DEF Held
<1>3. ASSUME NEW a \in Slots(s, V), NEW b \in Slots(s, V), a # b PROVE Held(s, V) >= 2
  <2>1. IsFiniteSet({a}) /\ Cardinality({a}) = 1
    BY FS_Singleton
  <2>2. IsFiniteSet({a, b}) /\ Cardinality({a, b}) = 2
    <3>1. b \notin {a} /\ {a} \union {b} = {a, b}
      BY <1>3
    <3> QED BY <2>1, <3>1, FS_AddElement
  <2>3. Cardinality({a, b}) <= Cardinality(Slots(s, V))
    BY <1>1, FS_Subset
  <2> QED BY <1>1, <2>2, <2>3 DEF Held
<1> QED BY <1>2, <1>3

\* A frame has a slot for the message it handles, and for each it is to dispatch.
LEMMA FrameSlots ==
  ASSUME NEW s \in Seq(SortedFrame), NEW V, NoMsg \notin V
  PROVE  /\ \A f \in ToSet(s) : f.at = "handler" /\ f.msg \in V
              => \E a \in Slots(s, V) : s[a[1]].at = "handler"
         /\ \A f \in ToSet(s) : \A m \in ToSet(f.todo) : m \in V
              => \E a \in Slots(s, V) : s[a[1]].at # "handler"
         /\ Slots(s, V) # {} =>
              \E f \in ToSet(s) : \/ f.at = "handler" /\ f.msg \in V
                                  \/ \E m \in ToSet(f.todo) : m \in V
<1>0. DOMAIN s = 1..Len(s) /\ \A k \in 1..Len(s) : s[k] \in SortedFrame
  BY LenProperties, ElementOfSeq
<1>1. ASSUME NEW k \in 1..Len(s), s[k].at = "handler", s[k].msg \in V
      PROVE  \E a \in Slots(s, V) : s[a[1]].at = "handler"
  <2>1. Len(Content(s[k])) = 1 /\ Content(s[k])[1] = s[k].msg
    BY <1>1 DEF Content
  <2>2. <<k, 1>> \in Row(s, k, V)
    BY <1>1, <2>1 DEF Row
  <2> QED BY <1>1, <2>2 DEF Slots
<1>2. ASSUME NEW k \in 1..Len(s), NEW m \in ToSet(s[k].todo), m \in V
      PROVE  \E a \in Slots(s, V) : s[a[1]].at # "handler"
  <2>1. s[k] \in SortedFrame /\ s[k].todo \in Seq(OutOfTurn)
    BY <1>0 DEF SortedFrame
  <2>2. PICK i \in 1..Len(s[k].todo) : m = s[k].todo[i]
    BY <2>1, LenProperties DEF ToSet
  <2>3. s[k].todo # <<>>
    BY <2>2, EmptySeq
  <2>4. s[k].at # "handler"
    BY <2>1, <2>3 DEF SortedFrame
  <2>5. <<k, i>> \in Row(s, k, V)
    BY <1>2, <2>2, <2>4 DEF Row, Content
  <2> QED BY <2>4, <2>5 DEF Slots
<1>3. ASSUME NEW a \in Slots(s, V)
      PROVE  \E f \in ToSet(s) : \/ f.at = "handler" /\ f.msg \in V
                                 \/ \E m \in ToSet(f.todo) : m \in V
  <2>0. PICK k \in 1..Len(s) : \E i : i \in 1..Len(Content(s[k])) /\ Content(s[k])[i] \in V
    BY DEF Slots, Row
  <2>1. PICK i : i \in 1..Len(Content(s[k])) /\ Content(s[k])[i] \in V
    BY <2>0
  <2>2. s[k] \in ToSet(s) /\ s[k] \in SortedFrame
    BY <1>0 DEF ToSet
  <2>3. CASE s[k].at = "handler"
    <3>1. Len(<<s[k].msg>>) = 1 /\ <<s[k].msg>>[1] = s[k].msg
      OBVIOUS
    <3>2. s[k].msg \in V
      BY <2>1, <2>3, <3>1 DEF Content
    <3> QED BY <2>2, <2>3, <3>2
  <2>4. CASE s[k].at # "handler"
    <3>1. s[k].todo \in Seq(OutOfTurn)
      BY <2>2 DEF SortedFrame
    <3>2. i \in 1..Len(s[k].todo) /\ s[k].todo[i] \in V
      BY <2>1, <2>4 DEF Content
    <3>3. s[k].todo[i] \in ToSet(s[k].todo)
      BY <3>1, <3>2, LenProperties DEF ToSet
    <3> QED BY <2>2, <3>2, <3>3
  <2> QED BY <2>3, <2>4
<1>4. \A f : f \in ToSet(s) <=> \E k \in 1..Len(s) : f = s[k]
  BY <1>0 DEF ToSet
<1>5. ASSUME NEW f \in ToSet(s), f.at = "handler", f.msg \in V
      PROVE  \E a \in Slots(s, V) : s[a[1]].at = "handler"
  BY <1>1, <1>4, <1>5
<1>6. ASSUME NEW f \in ToSet(s), NEW m \in ToSet(f.todo), m \in V
      PROVE  \E a \in Slots(s, V) : s[a[1]].at # "handler"
  BY <1>2, <1>4, <1>6
<1> QED BY <1>3, <1>5, <1>6

\* The places of a request, counted.
LEMMA PlacesCounted ==
  ASSUME TypeOK, Sorted, NEW p \in Procs, NEW id \in Ids
  PROVE  LET q == Peer(p)
             V == Named("sync", id)
             queued == Way(p, V) + Count(incoming[q], V) + Count(syncQueue[q], V)
         IN /\ queued \in Nat /\ Held(stack[q], V) \in Nat
            /\ queued + Held(stack[q], V) = 0 <=> {"request", "handler"} \cap Places(p, id) = {}
            /\ "request" \in Places(p, id) => queued + Held(stack[q], V) >= 1
            /\ "handler" \in Places(p, id) => Held(stack[q], V) >= 1
            /\ {"request", "handler"} \subseteq Places(p, id) => queued + Held(stack[q], V) >= 2
<1> DEFINE q == Peer(p)
           V == Named("sync", id)
<1>0. q \in Procs /\ Peer(q) = p
  BY Ends
<1>1. /\ out[p] \in Seq(Message) /\ wire[q] \in Seq(Message)
      /\ incoming[q] \in Seq(Message) /\ syncQueue[q] \in Seq(Message)
      /\ stack[q] \in Seq(Frame) /\ stack[q] \in Seq(SortedFrame)
  BY <1>0 DEF TypeOK, Sorted
<1>2. \A m : m \in V <=> m \in Message /\ m.kind = "sync" /\ m.id = id
  BY DEF Named
<1>3. NoMsg \notin V
  BY Names
<1>4. /\ Count(out[p], V) \in Nat /\ Count(wire[q], V) \in Nat
      /\ Count(incoming[q], V) \in Nat /\ Count(syncQueue[q], V) \in Nat
      /\ Held(stack[q], V) \in Nat
  BY <1>0, WayTypes, HereTypes
<1>5. Way(p, V) = Count(out[p], V) + Count(wire[q], V)
  BY DEF Way
<1>6. \A f \in ToSet(stack[q]) : /\ f.at = "handler" => f.msg \in Message
                                 /\ \A m \in ToSet(f.todo) : m \in Message
  <2>1. \A f \in ToSet(stack[q]) : f \in SortedFrame
    BY <1>1, LenProperties, ElementOfSeq DEF ToSet
  <2>2. ASSUME NEW f \in ToSet(stack[q]), NEW m \in ToSet(f.todo) PROVE m \in Message
    <3>1. f.todo \in Seq(OutOfTurn)
      BY <2>1 DEF SortedFrame
    <3>2. m \in OutOfTurn
      BY <3>1, LenProperties, ElementOfSeq DEF ToSet
    <3> QED BY <3>2 DEF OutOfTurn
  <2> QED BY <2>1, <2>2 DEF SortedFrame, Dispatched, InTurn, OutOfTurn
<1>7. \A s \in {out[p], wire[q], incoming[q], syncQueue[q]} : \A m \in ToSet(s) : m \in Message
  BY <1>1, LenProperties, ElementOfSeq DEF ToSet
<1> DEFINE InTodo == \E f \in ToSet(stack[q]) : \E m \in ToSet(f.todo) : m \in V
           InHandler == \E f \in ToSet(stack[q]) : f.at = "handler" /\ f.msg \in V
           InQueue == \E s \in {out[p], wire[q], incoming[q], syncQueue[q]} : \E m \in ToSet(s) : m \in V
<1>8. "request" \in Places(p, id) <=> InQueue \/ InTodo
  <2>1. "request" \in Places(p, id) <=> \E m \in Undispatched(q) : m.kind = "sync" /\ m.id = id
    BY DEF Places
  <2>2. \A m : m \in Undispatched(q) <=>
                 \/ \E s \in {out[p], wire[q], incoming[q], syncQueue[q]} : m \in ToSet(s)
                 \/ \E f \in ToSet(stack[q]) : m \in ToSet(f.todo)
    BY <1>0 DEF Undispatched
  <2> QED BY <1>2, <1>6, <1>7, <2>1, <2>2
<1>9. "handler" \in Places(p, id) <=> InHandler
  BY <1>2, <1>6 DEF Places
<1>10. InQueue <=> ~(/\ Count(out[p], V) = 0 /\ Count(wire[q], V) = 0
                     /\ Count(incoming[q], V) = 0 /\ Count(syncQueue[q], V) = 0)
  <2>1. \A s \in {out[p], wire[q], incoming[q], syncQueue[q]} : Count(s, V) = 0 <=> \A m \in ToSet(s) : m \notin V
    BY <1>1, Elements
  <2> QED BY <2>1
<1>11. /\ InTodo \/ InHandler <=> Held(stack[q], V) # 0
       /\ InTodo /\ InHandler => Held(stack[q], V) >= 2
  <2>1. InHandler => \E a \in Slots(stack[q], V) : stack[q][a[1]].at = "handler"
    BY <1>1, <1>3, FrameSlots
  <2>2. InTodo => \E a \in Slots(stack[q], V) : stack[q][a[1]].at # "handler"
    BY <1>1, <1>3, FrameSlots
  <2>3. Slots(stack[q], V) # {} => InHandler \/ InTodo
    BY <1>1, <1>3, FrameSlots
  <2>4. Held(stack[q], V) = 0 <=> Slots(stack[q], V) = {}
    BY <1>1, HeldSlots
  <2>5. \A a, b \in Slots(stack[q], V) : a # b => Held(stack[q], V) >= 2
    BY <1>1, HeldSlots
  <2> HIDE DEF InTodo, InHandler
  <2> QED BY <2>1, <2>2, <2>3, <2>4, <2>5
<1> HIDE DEF InTodo, InHandler, InQueue
<1>12. PICK o \in Nat, w \in Nat, c \in Nat, k \in Nat, h \in Nat :
         /\ o = Count(out[p], V) /\ w = Count(wire[q], V)
         /\ c = Count(incoming[q], V) /\ k = Count(syncQueue[q], V) /\ h = Held(stack[q], V)
  BY <1>4
<1>13. PICK n \in Nat : n = o + w + c + k
  OBVIOUS
<1>14. n = Way(p, V) + Count(incoming[q], V) + Count(syncQueue[q], V)
  BY <1>5, <1>12, <1>13
<1>15. /\ InQueue <=> n >= 1
       /\ InTodo \/ InHandler <=> h >= 1
       /\ InTodo /\ InHandler => h >= 2
  <2>1. InQueue <=> ~(o = 0 /\ w = 0 /\ c = 0 /\ k = 0)
    BY <1>10, <1>12
  <2>2. (InTodo \/ InHandler <=> h # 0) /\ (InTodo /\ InHandler => h >= 2)
    BY <1>11, <1>12
  <2>3. n >= 1 <=> ~(o = 0 /\ w = 0 /\ c = 0 /\ k = 0)
    BY <1>13
  <2>4. h >= 1 <=> h # 0
    OBVIOUS
  <2> QED BY <2>1, <2>2, <2>3, <2>4
<1>16. /\ n + h = 0 <=> ~InQueue /\ ~InTodo /\ ~InHandler
       /\ InQueue \/ InTodo => n + h >= 1
       /\ InHandler => h >= 1
       /\ (InQueue \/ InTodo) /\ InHandler => n + h >= 2
  BY <1>15
<1> QED BY <1>8, <1>9, <1>12, <1>14, <1>16

\* The places of its reply.
LEMMA ReplyCounted ==
  ASSUME TypeOK, Sorted, NEW p \in Procs, NEW id \in Ids
  PROVE  "reply" \in Places(p, id) <=> Way(Peer(p), Named("reply", id)) # 0
<1> DEFINE q == Peer(p)
           V == Named("reply", id)
<1>0. q \in Procs /\ Peer(q) = p
  BY Ends
<1>1. /\ out[q] \in Seq(Message) /\ wire[p] \in Seq(Message)
      /\ incoming[p] \in Seq(InTurn) /\ syncQueue[p] \in Seq(OutOfTurn)
      /\ stack[p] \in Seq(SortedFrame)
  BY <1>0 DEF TypeOK, Sorted
<1>2. /\ \A m \in ToSet(incoming[p]) : m \in InTurn
      /\ \A m \in ToSet(syncQueue[p]) : m \in OutOfTurn
      /\ \A f \in ToSet(stack[p]) : f \in SortedFrame
      /\ \A s \in {out[q], wire[p]} : \A m \in ToSet(s) : m \in Message
  BY <1>1, LenProperties, ElementOfSeq DEF ToSet
<1>3. ASSUME NEW f \in ToSet(stack[p]), NEW m \in ToSet(f.todo) PROVE m \in OutOfTurn
  <2>1. f.todo \in Seq(OutOfTurn)
    BY <1>2 DEF SortedFrame
  <2> QED BY <2>1, LenProperties, ElementOfSeq DEF ToSet
<1>4. \A m : m \in V <=> m \in Message /\ m.kind = "reply" /\ m.id = id
  BY DEF Named
<1>5. \A m : m \in Undispatched(p) <=>
               \/ \E s \in {out[q], wire[p], incoming[p], syncQueue[p]} : m \in ToSet(s)
               \/ \E f \in ToSet(stack[p]) : m \in ToSet(f.todo)
  BY DEF Undispatched
<1>6. "reply" \in Places(p, id) <=> \E m \in Undispatched(p) : m.kind = "reply" /\ m.id = id
  BY DEF Places
<1>7. "reply" \in Places(p, id) <=> \E s \in {out[q], wire[p]} : \E m \in ToSet(s) : m \in V
  BY <1>2, <1>3, <1>4, <1>5, <1>6 DEF InTurn, OutOfTurn
<1>8. \A s \in {out[q], wire[p]} : Count(s, V) = 0 <=> \A m \in ToSet(s) : m \notin V
  BY <1>1, Elements
<1>9. "reply" \in Places(p, id) <=> ~(Count(out[q], V) = 0 /\ Count(wire[p], V) = 0)
  BY <1>7, <1>8
<1>10. Count(out[q], V) \in Nat /\ Count(wire[p], V) \in Nat /\ Way(q, V) = Count(out[q], V) + Count(wire[p], V)
  BY <1>0, WayTypes DEF Way
<1>11. \A x, y \in Nat : x + y # 0 <=> ~(x = 0 /\ y = 0)
  OBVIOUS
<1> QED BY <1>9, <1>10, <1>11

\* While both ends are up, an outstanding synchronous request is in exactly one
\* place: its request, a handler, a kept encoder, its reply, or the pending reply it
\* filled; and nothing that breaks the connection ever duplicates it.
LEMMA OnceInOnePlace == TypeOK /\ Sorted /\ OnceOnly => RequestInOnePlace
<1> SUFFICES ASSUME TypeOK, Sorted, OnceOnly, NEW p \in Procs, NEW id \in Requests(p)
             PROVE  /\ \A x, y \in Places(p, id) : x = y
                    /\ client[Peer(p)] /\ ~Gone(p) /\ ~Gone(Peer(p)) => Places(p, id) # {}
  BY DEF RequestInOnePlace
<1> DEFINE q == Peer(p)
           V == Named("sync", id)
           P == Places(p, id)
<1>1. id \in Ids
  <2>1. second[p].id \in Ids \union {0}
    BY DEF TypeOK
  <2> QED BY <2>1, PendingTypes DEF Requests
<1>2. q \in Procs
  BY Ends
<1>3. PICK n \in Nat, h \in Nat :
        /\ n = Way(p, V) + Count(incoming[q], V) + Count(syncQueue[q], V) /\ h = Held(stack[q], V)
        /\ n + h = 0 <=> {"request", "handler"} \cap P = {}
        /\ "request" \in P => n + h >= 1
        /\ "handler" \in P => h >= 1
        /\ {"request", "handler"} \subseteq P => n + h >= 2
  BY <1>1, PlacesCounted
<1>4. PICK d \in Nat, r \in Nat, b \in Nat :
        /\ d = Bit(id \in delayed[q]) /\ r = Way(q, Named("reply", id)) /\ b = Bit(Answered(p, id))
  BY <1>2, WayTypes DEF Bit
<1>5. Total(p, id) = n + h + d + r + b
  <2>1. PICK w \in Nat, c \in Nat, k \in Nat : w = Way(p, V) /\ c = Count(incoming[q], V) /\ k = Count(syncQueue[q], V)
    BY <1>2, WayTypes, HereTypes
  <2>2. n = w + c + k
    BY <1>3, <2>1
  <2>3. Here(q, id) = c + k + h + d
    BY <1>3, <1>4, <2>1 DEF Here
  <2>4. Total(p, id) = w + (c + k + h + d) + r + b
    BY <1>4, <2>1, <2>3 DEF Total
  <2> QED BY <2>2, <2>4
<1>6. /\ "delayed" \in P <=> d = 1
      /\ "answered" \in P <=> b = 1
      /\ d \in {0, 1} /\ b \in {0, 1}
  BY <1>4 DEF Bit, Places
<1>7. "reply" \in P <=> r >= 1
  BY <1>1, <1>4, ReplyCounted
<1>8. P \subseteq {"request", "handler", "delayed", "reply", "answered"}
  BY DEF Places
<1>9. n + h + d + r + b <= 1
  BY <1>1, <1>5 DEF OnceOnly
<1>10. ASSUME NEW x \in P, NEW y \in P, x # y PROVE FALSE
  <2> HIDE DEF P
  <2>1. /\ "answered" \in P => n + h = 0 /\ d = 0 /\ r = 0
        /\ "delayed" \in P => n + h = 0 /\ b = 0 /\ r = 0
        /\ "reply" \in P => n + h = 0 /\ b = 0 /\ d = 0
        /\ ~("request" \in P /\ "handler" \in P)
    <3>1. /\ b = 1 => n + h = 0 /\ d = 0 /\ r = 0
          /\ d = 1 => n + h = 0 /\ b = 0 /\ r = 0
          /\ r >= 1 => n + h = 0 /\ b = 0 /\ d = 0
          /\ n + h <= 1
      BY <1>9
    <3> QED BY <1>3, <1>6, <1>7, <3>1
  <2>2. n + h = 0 => "request" \notin P /\ "handler" \notin P
    BY <1>3
  <2>3. (d = 0 => "delayed" \notin P) /\ (r = 0 => "reply" \notin P) /\ (b = 0 => "answered" \notin P)
    BY <1>6, <1>7
  <2> QED BY <1>8, <1>10, <2>1, <2>2, <2>3
<1>11. ASSUME Up(p), P = {} PROVE FALSE
  <2>1. n + h + d + r + b = 1
    BY <1>1, <1>5, <1>11 DEF OnceOnly
  <2>2. n + h = 0 /\ d = 0 /\ b = 0 /\ r = 0
    BY <1>3, <1>6, <1>7, <1>11
  <2> QED BY <2>1, <2>2
<1> QED BY <1>10, <1>11 DEF Up

\* However requests cross and nest (sendSyncMessage, processIncomingMessage,
\* dispatchMessages, sendSyncReply), an outstanding one is in one place only and, while
\* both ends are up, in exactly one: none is lost, handled twice or answered twice.
THEOREM RequestsStayUnique == Spec => []RequestInOnePlace
<1> DEFINE I == TypeOK /\ Nested /\ Sorted /\ Known /\ OnceOnly
<1>1. Init => I
  BY InitTypes, InitNested, InitSorted, InitKnown, InitOnce
<1>2. I /\ [Next]_vars => I'
  BY NextTypes, NextNested, NextSorted, NextKnown, NextOnce
<1>3. I => RequestInOnePlace
  BY OnceInOnePlace
<1> QED BY <1>1, <1>2, <1>3, PTL DEF Spec

-----------------------------------------------------------------------------
(* The queues between sender and receiver keep the order of sending.       *)

\* a was sent before b, as far as the order of requests and notifications goes.
Ahead(a, b) == a.kind = "reply" \/ b.kind = "reply" \/ a.id < b.id

Increasing(s) == \A i, j \in 1..Len(s) : i < j => Ahead(s[i], s[j])
Before(s, t)  == \A i \in 1..Len(s), j \in 1..Len(t) : Ahead(s[i], t[j])
Sent(s, n)    == \A i \in 1..Len(s) : s[i].kind = "reply" \/ s[i].id <= n

\* Three queues that follow one another, of messages with ids up to n.
InOrder(s, t, u, n) ==
  /\ Increasing(s) /\ Increasing(t) /\ Increasing(u)
  /\ Before(s, t) /\ Before(s, u) /\ Before(t, u)
  /\ Sent(s, n) /\ Sent(t, n) /\ Sent(u, n)

InLine == \A p \in Procs : InOrder(incoming[p], wire[p], out[Peer(p)], lastId[Peer(p)])

LEMMA TailFacts ==
  ASSUME NEW s \in Seq(Message), s # <<>>
  PROVE  /\ Tail(s) \in Seq(Message) /\ Head(s) \in Message /\ Head(s) = s[1]
         /\ Len(s) \in Nat /\ Len(s) >= 1 /\ Len(Tail(s)) = Len(s) - 1
         /\ \A i \in 1..Len(Tail(s)) : i + 1 \in 1..Len(s) /\ Tail(s)[i] = s[i + 1]
  BY HeadTailProperties, LenProperties, EmptySeq

\* One of the queues loses its head.
LEMMA OrderTail ==
  ASSUME NEW s \in Seq(Message), NEW t \in Seq(Message), NEW u \in Seq(Message), NEW n, InOrder(s, t, u, n)
  PROVE  /\ s # <<>> => InOrder(Tail(s), t, u, n)
         /\ t # <<>> => InOrder(s, Tail(t), u, n)
         /\ u # <<>> => InOrder(s, t, Tail(u), n)
<1>1. ASSUME NEW v \in Seq(Message), v # <<>>, Increasing(v) PROVE Increasing(Tail(v))
  <2>1. ASSUME NEW i \in 1..Len(Tail(v)), NEW j \in 1..Len(Tail(v)), i < j PROVE Ahead(Tail(v)[i], Tail(v)[j])
    <3>1. i + 1 \in 1..Len(v) /\ j + 1 \in 1..Len(v) /\ i + 1 < j + 1 /\ Tail(v)[i] = v[i + 1] /\ Tail(v)[j] = v[j + 1]
      BY <1>1, <2>1, TailFacts
    <3> QED BY <1>1, <3>1 DEF Increasing
  <2> QED BY <2>1 DEF Increasing
<1>2. ASSUME NEW v \in Seq(Message), v # <<>>, NEW x
      PROVE  /\ Before(v, x) => Before(Tail(v), x)
             /\ Before(x, v) => Before(x, Tail(v))
             /\ Sent(v, n) => Sent(Tail(v), n)
  BY <1>2, TailFacts DEF Before, Sent
<1> QED BY <1>1, <1>2 DEF InOrder

\* The head of a queue moves to the end of the one before.
LEMMA OrderShift ==
  ASSUME NEW s \in Seq(Message), NEW t \in Seq(Message), t # <<>>, Increasing(s), Increasing(t), Before(s, t)
  PROVE  /\ Increasing(Append(s, Head(t))) /\ Increasing(Tail(t)) /\ Before(Append(s, Head(t)), Tail(t))
         /\ \A x : /\ Before(x, s) /\ Before(x, t) => Before(x, Append(s, Head(t)))
                   /\ Before(s, x) /\ Before(t, x) => Before(Append(s, Head(t)), x)
         /\ \A n : Sent(s, n) /\ Sent(t, n) => Sent(Append(s, Head(t)), n)
<1> DEFINE r == Append(s, Head(t))
           v == Tail(t)
<1>1. /\ Head(t) = t[1] /\ 1 \in 1..Len(t) /\ Head(t) \in Message
      /\ \A i \in 1..Len(v) : i + 1 \in 1..Len(t) /\ v[i] = t[i + 1]
  BY TailFacts
<1>2. Len(r) = Len(s) + 1 /\ Len(s) \in Nat /\ (\A i \in 1..Len(s) : r[i] = s[i]) /\ r[Len(s) + 1] = t[1]
  BY <1>1, Appended
<1>3. \A i \in 1..Len(r) : i \in 1..Len(s) \/ (i = Len(s) + 1 /\ r[i] = t[1])
  BY <1>2
<1>4. Len(t) \in Nat /\ Len(v) \in Nat
  BY TailFacts, LenProperties
<1> HIDE DEF r, v
<1>5. Increasing(r)
  <2>1. ASSUME NEW i \in 1..Len(r), NEW j \in 1..Len(r), i < j PROVE Ahead(r[i], r[j])
    <3>1. i \in 1..Len(s)
      BY <1>2, <2>1
    <3>2. CASE j \in 1..Len(s)
      BY <1>2, <2>1, <3>1, <3>2 DEF Increasing
    <3>3. CASE j = Len(s) + 1 /\ r[j] = t[1]
      BY <1>1, <1>2, <3>1, <3>3 DEF Before
    <3> QED BY <1>3, <3>2, <3>3
  <2> QED BY <2>1 DEF Increasing
<1>6. Increasing(v)
  <2>1. ASSUME NEW i \in 1..Len(v), NEW j \in 1..Len(v), i < j PROVE Ahead(v[i], v[j])
    <3>1. i + 1 < j + 1 /\ i + 1 \in 1..Len(t) /\ j + 1 \in 1..Len(t)
      BY <1>1, <1>4, <2>1
    <3> QED BY <1>1, <3>1 DEF Increasing
  <2> QED BY <2>1 DEF Increasing
<1>7. Before(r, v)
  <2>1. ASSUME NEW i \in 1..Len(r), NEW j \in 1..Len(v) PROVE Ahead(r[i], v[j])
    <3>1. j + 1 \in 1..Len(t) /\ v[j] = t[j + 1] /\ 1 < j + 1
      BY <1>1, <1>4
    <3>2. CASE i \in 1..Len(s)
      BY <1>2, <3>1, <3>2 DEF Before
    <3>3. CASE i = Len(s) + 1 /\ r[i] = t[1]
      BY <1>1, <3>1, <3>3 DEF Increasing
    <3> QED BY <1>3, <3>2, <3>3
  <2> QED BY <2>1 DEF Before
<1>8. ASSUME NEW x
      PROVE  /\ Before(x, s) /\ Before(x, t) => Before(x, r)
             /\ Before(s, x) /\ Before(t, x) => Before(r, x)
             /\ Sent(s, x) /\ Sent(t, x) => Sent(r, x)
  <2>1. \A i \in 1..Len(r) : (i \in 1..Len(s) /\ r[i] = s[i]) \/ r[i] = t[1]
    BY <1>2, <1>3
  <2> QED BY <1>1, <2>1 DEF Before, Sent
<1> QED BY <1>5, <1>6, <1>7, <1>8 DEF r, v

\* A message later than all those sent comes last.
LEMMA OrderSend ==
  ASSUME NEW s \in Seq(Message), NEW t \in Seq(Message), NEW u \in Seq(Message), NEW n \in Nat, NEW k \in Nat,
         InOrder(s, t, u, n), n <= k, NEW m \in Message, m.kind = "reply" \/ (n < m.id /\ m.id <= k)
  PROVE  InOrder(s, t, Append(u, m), k) /\ InOrder(s, t, u, k)
<1>1. /\ Len(Append(u, m)) = Len(u) + 1 /\ Len(u) \in Nat
      /\ \A i \in 1..Len(u) : Append(u, m)[i] = u[i]
      /\ Append(u, m)[Len(u) + 1] = m
  BY Appended
<1>2. m.id \in Nat /\ \A v \in Seq(Message) : \A i \in 1..Len(v) : v[i].id \in Nat
  BY ElementOfSeq, IdNumbers, Fields
<1>3. \A v \in Seq(Message) : Sent(v, n) => Sent(v, k) /\ \A i \in 1..Len(v) : Ahead(v[i], m)
  BY <1>2 DEF Sent, Ahead
<1> DEFINE r == Append(u, m)
<1>4. \A i \in 1..Len(r) : i \in 1..Len(u) \/ (i = Len(u) + 1 /\ r[i] = m)
  BY <1>1
<1>5. Increasing(r)
  <2>1. ASSUME NEW i \in 1..Len(r), NEW j \in 1..Len(r), i < j PROVE Ahead(r[i], r[j])
    <3>1. i \in 1..Len(u)
      BY <1>1, <2>1
    <3>2. CASE j \in 1..Len(u)
      BY <1>1, <2>1, <3>1, <3>2 DEF InOrder, Increasing
    <3>3. CASE j = Len(u) + 1 /\ r[j] = m
      BY <1>1, <1>3, <3>1, <3>3 DEF InOrder
    <3> QED BY <1>4, <3>2, <3>3
  <2> QED BY <2>1 DEF Increasing
<1>6. \A v \in Seq(Message) : Before(v, u) /\ Sent(v, n) => Before(v, r)
  BY <1>1, <1>3, <1>4 DEF Before
<1>7. Sent(r, k)
  BY <1>1, <1>3, <1>4 DEF InOrder, Sent
<1> HIDE DEF r
<1>8. InOrder(s, t, r, k)
  BY <1>3, <1>5, <1>6, <1>7 DEF InOrder
<1>9. InOrder(s, t, u, k)
  BY <1>3 DEF InOrder
<1> QED BY <1>8, <1>9 DEF r

LEMMA InitInLine == Init => InLine
<1> SUFFICES ASSUME Init, NEW p \in Procs PROVE InOrder(incoming[p], wire[p], out[Peer(p)], lastId[Peer(p)])
  BY DEF InLine
<1>1. incoming[p] = <<>> /\ wire[p] = <<>> /\ out[Peer(p)] = <<>>
  BY Ends DEF Init
<1>2. 1..Len(<<>>) = {}
  OBVIOUS
<1> QED BY <1>1, <1>2 DEF InOrder, Increasing, Before, Sent

LEMMA LineSent ==
  ASSUME TypeOK, InLine, NEW p \in Procs, NEW m \in Message, UNCHANGED <<incoming, wire>>,
         out' = out \/ out' = [out EXCEPT ![p] = Append(@, m)],
         lastId' \in [Procs -> Nat], lastId[p] <= lastId'[p], \A a \in Procs : a # p => lastId'[a] = lastId[a],
         m.kind = "reply" \/ (lastId[p] < m.id /\ m.id <= lastId'[p])
  PROVE  InLine'
<1> SUFFICES ASSUME NEW a \in Procs PROVE InOrder(incoming[a], wire[a], out'[Peer(a)], lastId'[Peer(a)])
  BY DEF InLine
<1>1. /\ incoming[a] \in Seq(Message) /\ wire[a] \in Seq(Message) /\ out[Peer(a)] \in Seq(Message)
      /\ lastId[p] \in Nat /\ lastId'[p] \in Nat
      /\ InOrder(incoming[a], wire[a], out[Peer(a)], lastId[Peer(a)])
  BY Ends DEF TypeOK, InLine
<1>2. CASE Peer(a) = p
  <2>1. out'[p] = out[p] \/ out'[p] = Append(out[p], m)
    BY DEF TypeOK
  <2>2. PICK n \in Nat, k \in Nat : n = lastId[p] /\ k = lastId'[p]
    BY <1>1
  <2>3. InOrder(incoming[a], wire[a], out[p], n) /\ out[p] \in Seq(Message)
    BY <1>1, <1>2, <2>2
  <2>4. InOrder(incoming[a], wire[a], Append(out[p], m), k) /\ InOrder(incoming[a], wire[a], out[p], k)
    BY <1>1, <2>2, <2>3, OrderSend
  <2> QED BY <1>2, <2>1, <2>2, <2>4
<1>3. CASE Peer(a) # p
  <2>1. out'[Peer(a)] = out[Peer(a)] /\ lastId'[Peer(a)] = lastId[Peer(a)]
    BY <1>3, Ends DEF TypeOK
  <2> QED BY <1>1, <2>1
<1> QED BY <1>2, <1>3

\* sendMessage of a message with the id handed out just now, or of a reply.
LEMMA LineNew ==
  ASSUME TypeOK, InLine, NEW p \in Procs, NewId(p), NEW even \in BOOLEAN, NEW kind \in {"async", "sync"},
         SendMessage(p, kind, NextId(p), even), UNCHANGED <<incoming, wire>>
  PROVE  InLine'
<1>1. NextId(p) \in Ids /\ lastId[p] \in Nat /\ lastId' = [lastId EXCEPT ![p] = NextId(p)] /\ NextId(p) = lastId[p] + 1
  BY IdTypes DEF TypeOK, NewId, NextId
<1>2. PICK b \in BOOLEAN : b = (even /\ (p \notin OnlyWhenProcessing \/ ProcessingMarked(p)))
  OBVIOUS
<1> DEFINE m == [kind |-> kind, id |-> NextId(p), marked |-> b]
<1>3. m \in Message /\ m.id = NextId(p)
  BY <1>1 DEF Message
<1>4. out' = out \/ out' = [out EXCEPT ![p] = Append(@, m)]
  BY <1>2 DEF SendMessage
<1>5. /\ lastId' \in [Procs -> Nat] /\ lastId[p] <= lastId'[p] /\ \A a \in Procs : a # p => lastId'[a] = lastId[a]
      /\ lastId[p] < m.id /\ m.id <= lastId'[p]
  BY <1>1, <1>3 DEF TypeOK
<1> HIDE DEF m
<1> QED BY <1>3, <1>4, <1>5, LineSent

LEMMA LineReply ==
  ASSUME TypeOK, InLine, NEW p \in Procs, NEW id \in Ids,
         SendMessage(p, "reply", id, FALSE), UNCHANGED <<incoming, wire, lastId>>
  PROVE  InLine'
<1> DEFINE m == [kind |-> "reply", id |-> id, marked |-> FALSE]
<1>1. m \in Message /\ m.kind = "reply"
  BY DEF Message
<1>2. out' = out \/ out' = [out EXCEPT ![p] = Append(@, m)]
  BY DEF SendMessage
<1>3. lastId' \in [Procs -> Nat] /\ lastId[p] <= lastId'[p]
  BY DEF TypeOK
<1> HIDE DEF m
<1> QED BY <1>1, <1>2, <1>3, LineSent

\* A queue of p loses its head.
LEMMA LineLost ==
  ASSUME TypeOK, InLine, NEW p \in Procs, UNCHANGED lastId,
         \/ incoming[p] # <<>> /\ incoming' = [incoming EXCEPT ![p] = Tail(@)] /\ UNCHANGED <<wire, out>>
         \/ wire[p] # <<>> /\ wire' = [wire EXCEPT ![p] = Tail(@)] /\ UNCHANGED <<incoming, out>>
         \/ out[p] # <<>> /\ out' = [out EXCEPT ![p] = Tail(@)] /\ UNCHANGED <<incoming, wire>>
  PROVE  InLine'
<1> SUFFICES ASSUME NEW a \in Procs PROVE InOrder(incoming'[a], wire'[a], out'[Peer(a)], lastId[Peer(a)])
  BY DEF InLine
<1>1. /\ incoming[a] \in Seq(Message) /\ wire[a] \in Seq(Message) /\ out[Peer(a)] \in Seq(Message)
      /\ InOrder(incoming[a], wire[a], out[Peer(a)], lastId[Peer(a)])
  BY Ends DEF TypeOK, InLine
<1>2. /\ incoming \in [Procs -> Seq(Message)] /\ wire \in [Procs -> Seq(Message)] /\ out \in [Procs -> Seq(Message)]
      /\ Peer(a) \in Procs
  BY Ends DEF TypeOK
<1>3. CASE incoming[p] # <<>> /\ incoming' = [incoming EXCEPT ![p] = Tail(@)] /\ UNCHANGED <<wire, out>>
  <2>1. incoming'[a] = incoming[a] \/ (incoming[a] # <<>> /\ incoming'[a] = Tail(incoming[a]))
    BY <1>2, <1>3
  <2>2. incoming[a] # <<>> => InOrder(Tail(incoming[a]), wire[a], out[Peer(a)], lastId[Peer(a)])
    BY <1>1, OrderTail
  <2> QED BY <1>1, <1>3, <2>1, <2>2
<1>4. CASE wire[p] # <<>> /\ wire' = [wire EXCEPT ![p] = Tail(@)] /\ UNCHANGED <<incoming, out>>
  <2>1. wire'[a] = wire[a] \/ (wire[a] # <<>> /\ wire'[a] = Tail(wire[a]))
    BY <1>2, <1>4
  <2>2. wire[a] # <<>> => InOrder(incoming[a], Tail(wire[a]), out[Peer(a)], lastId[Peer(a)])
    BY <1>1, OrderTail
  <2> QED BY <1>1, <1>4, <2>1, <2>2
<1>5. CASE out[p] # <<>> /\ out' = [out EXCEPT ![p] = Tail(@)] /\ UNCHANGED <<incoming, wire>>
  <2>1. out'[Peer(a)] = out[Peer(a)] \/ (out[Peer(a)] # <<>> /\ out'[Peer(a)] = Tail(out[Peer(a)]))
    BY <1>2, <1>5
  <2>2. out[Peer(a)] # <<>> => InOrder(incoming[a], wire[a], Tail(out[Peer(a)]), lastId[Peer(a)])
    BY <1>1, OrderTail
  <2> QED BY <1>1, <1>5, <2>1, <2>2
<1> QED BY <1>3, <1>4, <1>5

LEMMA NextInLine == TypeOK /\ InLine /\ [Next]_vars => InLine'
<1> SUFFICES ASSUME TypeOK, InLine, [Next]_vars PROVE InLine'
  OBVIOUS
<1>0. ASSUME UNCHANGED <<incoming, wire, out, lastId>> PROVE InLine'
  BY <1>0 DEF InLine
<1>1. ASSUME NEW p \in Procs, AppSends(p) PROVE InLine'
  <2>1. CASE SendSync(p)
    BY <2>1, LineNew DEF SendSync, inVars
  <2>2. ASSUME NEW even \in BOOLEAN, SendAsync(p, even) PROVE InLine'
    BY <2>2, LineNew DEF SendAsync, inVars
  <2>3. CASE SecondarySendSync(p)
    BY <2>3, LineNew DEF SecondarySendSync, inVars
  <2>4. CASE SendSyncFails(p)
    <3>1. NewId(p) /\ UNCHANGED <<incoming, wire, out>>
      BY <2>4 DEF SendSyncFails, inVars, netVars
    <3>2. NextId(p) \in Ids /\ lastId[p] \in Nat /\ lastId' = [lastId EXCEPT ![p] = NextId(p)] /\ NextId(p) = lastId[p] + 1
      BY <3>1, IdTypes DEF TypeOK, NewId, NextId
    <3> DEFINE m == [kind |-> "reply", id |-> NextId(p), marked |-> FALSE]
    <3>3. m \in Message /\ m.kind = "reply"
      BY <3>2 DEF Message
    <3>4. lastId' \in [Procs -> Nat] /\ lastId[p] <= lastId'[p] /\ \A a \in Procs : a # p => lastId'[a] = lastId[a]
      BY <3>2 DEF TypeOK
    <3> HIDE DEF m
    <3> QED BY <3>1, <3>3, <3>4, LineSent
  <2>5. CASE Invalidate(p)
    BY <1>0, <2>5 DEF Invalidate, inVars
  <2>6. CASE FinishInvalid(p)
    <3>1. CASE UNCHANGED out
      BY <1>0, <2>6, <3>1 DEF FinishInvalid, inVars
    <3>2. CASE Top(p).msg.kind = "sync" /\ SendMessage(p, "reply", Top(p).msg.id, FALSE)
      <4>1. Top(p).msg.id \in Ids
        BY <2>6, <3>2, TopTypes, Fields DEF FinishInvalid, At
      <4> QED BY <2>6, <3>2, <4>1, LineReply DEF FinishInvalid, inVars
    <3> QED BY <2>6, <3>1, <3>2 DEF FinishInvalid
  <2> QED BY <1>1, <2>1, <2>2, <2>3, <2>4, <2>5, <2>6 DEF AppSends
<1>2. ASSUME NEW p \in Procs, MainThread(p) PROVE InLine'
  <2>1. CASE DispatchOneMessage(p)
    <3>1. CASE incoming[p] = <<>>
      BY <1>0, <2>1, <3>1 DEF DispatchOneMessage, netVars, procVars
    <3>2. CASE incoming[p] # <<>>
      BY <2>1, <3>2, LineLost DEF DispatchOneMessage, netVars, procVars
    <3> QED BY <3>1, <3>2
  <2>2. CASE FinishHandler(p)
    <3>1. CASE UNCHANGED out
      BY <1>0, <2>2, <3>1 DEF FinishHandler, inVars, procVars
    <3>2. CASE Top(p).msg.kind = "sync" /\ SendMessage(p, "reply", Top(p).msg.id, FALSE)
      <4>1. Top(p).msg.id \in Ids
        BY <2>2, <3>2, TopTypes, Fields DEF FinishHandler, At
      <4> QED BY <2>2, <3>2, <4>1, LineReply DEF FinishHandler, inVars, procVars
    <3> QED BY <2>2, <3>1, <3>2 DEF FinishHandler
  <2>3. CASE \/ ResetDidSchedule(p) \/ DispatchDidClose(p) \/ SwapMessages(p) \/ DrainNext(p)
             \/ DrainDone(p) \/ CheckSyncReply(p) \/ WakeUp(p)
    BY <1>0, <2>3 DEF ResetDidSchedule, DispatchDidClose, SwapMessages, DrainNext,
                      DrainDone, CheckSyncReply, WakeUp, netVars, inVars, procVars
  <2> QED BY <1>2, <2>1, <2>2, <2>3 DEF MainThread
<1>3. ASSUME NEW p \in Procs, WorkQueue(p) PROVE InLine'
  <2>1. CASE WriteMessage(p)
    <3> DEFINE q == Peer(p)
    <3>1. /\ out[p] # <<>> /\ out' = [out EXCEPT ![p] = Tail(@)] /\ wire' = [wire EXCEPT ![q] = Append(@, Head(out[p]))]
          /\ UNCHANGED <<incoming, lastId>>
      BY <2>1 DEF WriteMessage, inVars, procVars
    <3> SUFFICES ASSUME NEW a \in Procs PROVE InOrder(incoming[a], wire'[a], out'[Peer(a)], lastId[Peer(a)])
      BY <3>1 DEF InLine
    <3>2. InOrder(incoming[a], wire[a], out[Peer(a)], lastId[Peer(a)])
      BY DEF InLine
    <3>3. /\ incoming[a] \in Seq(Message) /\ wire[a] \in Seq(Message) /\ out[Peer(a)] \in Seq(Message)
          /\ a = q => Peer(a) = p
          /\ a # q => Peer(a) # p
          /\ q \in Procs /\ Peer(a) \in Procs
      BY Ends DEF TypeOK
    <3>4. CASE a = q
      <4>1. wire'[a] = Append(wire[a], Head(out[p])) /\ out'[Peer(a)] = Tail(out[p])
        BY <3>1, <3>3, <3>4 DEF TypeOK
      <4>2. InOrder(incoming[a], wire[a], out[p], lastId[p]) /\ out[p] \in Seq(Message)
        BY <3>2, <3>3, <3>4
      <4>3. InOrder(incoming[a], wire[a], Tail(out[p]), lastId[p])
        BY <3>1, <3>3, <4>2, OrderTail
      <4>4. /\ Increasing(Append(wire[a], Head(out[p]))) /\ Before(Append(wire[a], Head(out[p])), Tail(out[p]))
            /\ Before(incoming[a], Append(wire[a], Head(out[p]))) /\ Sent(Append(wire[a], Head(out[p])), lastId[p])
        BY <3>1, <3>3, <4>2, OrderShift DEF InOrder
      <4> QED BY <3>3, <3>4, <4>1, <4>3, <4>4 DEF InOrder
    <3>5. CASE a # q
      <4>1. wire'[a] = wire[a] /\ out'[Peer(a)] = out[Peer(a)]
        BY <3>1, <3>3, <3>5 DEF TypeOK
      <4> QED BY <3>2, <4>1
    <3> QED BY <3>4, <3>5
  <2>2. CASE WriteFails(p) \/ WriteShutsDown(p)
    BY <2>2, LineLost DEF WriteFails, WriteShutsDown, LoseMessage, DidClose, inVars, procVars
  <2>3. CASE ConnectionDidClose(p) \/ WriteBlocks(p) \/ ReadFails(p) \/ PlatformInvalidate(p) \/ PerformClose(p)
    BY <1>0, <2>3 DEF ConnectionDidClose, DidClose, WriteBlocks, ReadFails, PlatformInvalidate, PerformClose,
                      inVars, procVars
  <2>4. CASE ProcessIncomingMessage(p)
    <3>1. wire[p] # <<>> /\ wire' = [wire EXCEPT ![p] = Tail(@)] /\ UNCHANGED <<out, lastId>>
      BY <2>4 DEF ProcessIncomingMessage, procVars
    <3>2. CASE UNCHANGED incoming
      BY <3>1, <3>2, LineLost
    <3>3. CASE incoming' = [incoming EXCEPT ![p] = Append(@, Head(wire[p]))]
      <4> SUFFICES ASSUME NEW a \in Procs PROVE InOrder(incoming'[a], wire'[a], out[Peer(a)], lastId[Peer(a)])
        BY <3>1 DEF InLine
      <4>1. InOrder(incoming[a], wire[a], out[Peer(a)], lastId[Peer(a)])
        BY DEF InLine
      <4>2. incoming[a] \in Seq(Message) /\ wire[a] \in Seq(Message) /\ out[Peer(a)] \in Seq(Message)
        BY Ends DEF TypeOK
      <4>3. CASE a = p
        <5>1. incoming'[a] = Append(incoming[a], Head(wire[a])) /\ wire'[a] = Tail(wire[a])
          BY <3>1, <3>3, <4>3 DEF TypeOK
        <5>2. InOrder(incoming[a], Tail(wire[a]), out[Peer(a)], lastId[Peer(a)])
          BY <3>1, <4>1, <4>2, <4>3, OrderTail
        <5>3. /\ Increasing(Append(incoming[a], Head(wire[a]))) /\ Before(Append(incoming[a], Head(wire[a])), Tail(wire[a]))
              /\ Before(Append(incoming[a], Head(wire[a])), out[Peer(a)])
              /\ Sent(Append(incoming[a], Head(wire[a])), lastId[Peer(a)])
          BY <3>1, <4>1, <4>2, <4>3, OrderShift DEF InOrder
        <5> QED BY <5>1, <5>2, <5>3 DEF InOrder
      <4>4. CASE a # p
        <5>1. incoming'[a] = incoming[a] /\ wire'[a] = wire[a]
          BY <3>1, <3>3, <4>4 DEF TypeOK
        <5> QED BY <4>1, <5>1
      <4> QED BY <4>3, <4>4
    <3> QED BY <2>4, <3>2, <3>3 DEF ProcessIncomingMessage, inVars
  <2> QED BY <1>3, <2>1, <2>2, <2>3, <2>4 DEF WorkQueue
<1>4. ASSUME NEW p \in Procs, SendDelayedReply(p) PROVE InLine'
  <2>1. PICK id \in delayed[p] : SendMessage(p, "reply", id, FALSE) /\ UNCHANGED <<incoming, wire, lastId>>
    BY <1>4 DEF SendDelayedReply, inVars, procVars
  <2>2. id \in Ids
    BY DEF TypeOK
  <2> QED BY <2>1, <2>2, LineReply
<1>5. ASSUME NEW p \in Procs, SecondaryReturns(p) \/ SyncTimesOut(p) \/ Crash(p) PROVE InLine'
  BY <1>0, <1>5 DEF SecondaryReturns, SyncTimesOut, Crash, netVars, inVars, procVars
<1>6. CASE UNCHANGED vars
  BY <1>0, <1>6 DEF vars, netVars, inVars, procVars
<1> QED BY <1>1, <1>2, <1>3, <1>4, <1>5, <1>6 DEF Next

-----------------------------------------------------------------------------
(* The functions dispatched to the run loop, against the queues they empty.*)

Work == {"one", "sync", "close"}
Ones(r, k) == CountTo(r, k, {"one"})

\* The functions r of a run loop against the queues they empty: one for each message
\* of m_incomingMessages, one for the other queue while the connection is in the work
\* set; and what the run loop does before it empties the other queue was sent before,
\* except while that function is running (z).
Turns(r, inc, sq, sch, z) ==
  /\ Count(r, {"one"}) = Len(inc)
  /\ sch <=> \E k \in 1..Len(r) : r[k] = "sync"
  /\ \A i, j \in 1..Len(r) : r[i] = "sync" /\ r[j] = "sync" => i = j
  /\ z \/ (/\ sq # <<>> => sch
           /\ \A k \in 1..Len(r) : r[k] = "sync" =>
                \A i \in 1..Ones(r, k), j \in 1..Len(sq) : Ahead(inc[i], sq[j]))

\* Between the two locks of dispatchMessageAndResetDidScheduleDispatchMessagesForConnection.
Resetting(p) == Len(stack[p]) = 1 /\ stack[p][1].at = "swap"

Ordered == \A p \in Procs : Turns(runLoop[p], incoming[p], syncQueue[p], scheduled[p], Resetting(p))

LEMMA OnesFacts ==
  ASSUME NEW r \in Seq(Work)
  PROVE  /\ Len(r) \in Nat /\ Count(r, {"one"}) \in Nat
         /\ \A k \in 1..Len(r) : Ones(r, k) \in Nat /\ Ones(r, k) <= Count(r, {"one"})
<1>1. Len(r) \in Nat
  BY LenProperties
<1>2. ASSUME NEW k \in 1..Len(r) PROVE Ones(r, k) \in Nat /\ Ones(r, k) <= Count(r, {"one"})
  <2> DEFINE A == {i \in 1..k : r[i] \in {"one"}}
             B == {i \in 1..Len(r) : r[i] \in {"one"}}
  <2>1. k \in Nat
    BY <1>1
  <2>2. IsFiniteSet(A) /\ IsFiniteSet(B)
    BY <1>1, <2>1, CountToType
  <2>3. A \subseteq B
    BY <1>1
  <2>4. Cardinality(A) \in Nat /\ Cardinality(A) <= Cardinality(B)
    BY <2>2, <2>3, FS_CardinalityType, FS_Subset
  <2> QED BY <2>4 DEF Ones, Count, CountTo
<1> QED BY <1>1, <1>2, CountType

\* The run loop takes the first function.
LEMMA TurnTaken ==
  ASSUME NEW r \in Seq(Work), r # <<>>, NEW inc \in Seq(Message), NEW sq \in Seq(Message),
         NEW sch \in BOOLEAN, NEW z \in BOOLEAN, Turns(r, inc, sq, sch, z)
  PROVE  /\ Head(r) = "one" => inc # <<>> /\ Turns(Tail(r), Tail(inc), sq, sch, z)
         /\ Head(r) = "sync" => Turns(Tail(r), inc, sq, FALSE, TRUE)
         /\ Head(r) = "close" => Turns(Tail(r), inc, sq, sch, z)
<1> DEFINE t == Tail(r)
<1>1. /\ t \in Seq(Work) /\ Head(r) = r[1] /\ Head(r) \in Work
      /\ Len(r) \in Nat /\ Len(r) >= 1 /\ Len(t) = Len(r) - 1
      /\ \A k \in 1..Len(t) : k + 1 \in 1..Len(r) /\ t[k] = r[k + 1]
  BY HeadTailProperties, LenProperties, EmptySeq
<1>2. /\ Count(r, {"one"}) = Count(t, {"one"}) + (IF Head(r) \in {"one"} THEN 1 ELSE 0)
      /\ \A k \in 0..Len(t) : Ones(r, k + 1) = Ones(t, k) + (IF Head(r) \in {"one"} THEN 1 ELSE 0)
  <2>1. /\ Count(r, {"one"}) = Count(Tail(r), {"one"}) + (IF Head(r) \in {"one"} THEN 1 ELSE 0)
        /\ \A k \in 0..Len(Tail(r)) : CountTo(r, k + 1, {"one"}) = CountTo(Tail(r), k, {"one"}) + (IF Head(r) \in {"one"} THEN 1 ELSE 0)
    <3>1. ASSUME NEW V
          PROVE  /\ Count(r, V) = Count(Tail(r), V) + (IF Head(r) \in V THEN 1 ELSE 0)
                 /\ \A k \in 0..Len(Tail(r)) : CountTo(r, k + 1, V) = CountTo(Tail(r), k, V) + (IF Head(r) \in V THEN 1 ELSE 0)
      BY CountTail
    <3> QED BY <3>1
  <2> QED BY <2>1 DEF Ones
<1>3. /\ Count(t, {"one"}) \in Nat
      /\ \A k \in 1..Len(t) : Ones(t, k) \in Nat /\ Ones(t, k) <= Count(t, {"one"}) /\ Ones(r, k + 1) \in Nat
  BY <1>1, OnesFacts
<1>4. \A k \in 1..Len(t) : k \in 0..Len(t)
  BY <1>1
<1>5. \A k \in 1..Len(r) : k = 1 \/ \E i \in 1..Len(t) : k = i + 1
  <2>1. ASSUME NEW k \in 1..Len(r), k # 1 PROVE k - 1 \in 1..Len(t) /\ k = (k - 1) + 1
    BY <1>1, <2>1
  <2> QED BY <2>1
<1> HIDE DEF t
<1>6. \A i, j \in 1..Len(t) : t[i] = "sync" /\ t[j] = "sync" => i = j
  <2>1. ASSUME NEW i \in 1..Len(t), NEW j \in 1..Len(t), t[i] = "sync", t[j] = "sync" PROVE i = j
    <3>1. i + 1 = j + 1
      BY <1>1, <2>1 DEF Turns
    <3> QED BY <1>1, <3>1
  <2> QED BY <2>1
<1>7. Head(r) # "sync" => (sch <=> \E k \in 1..Len(t) : t[k] = "sync")
  <2>1. sch <=> \E k \in 1..Len(r) : r[k] = "sync"
    BY DEF Turns
  <2>2. Head(r) # "sync" => ((\E k \in 1..Len(r) : r[k] = "sync") <=> \E k \in 1..Len(t) : t[k] = "sync")
    BY <1>1, <1>5
  <2> QED BY <2>1, <2>2
<1>8. CASE Head(r) = "one"
  <2>1. Count(r, {"one"}) = Count(t, {"one"}) + 1 /\ \A k \in 1..Len(t) : Ones(r, k + 1) = Ones(t, k) + 1
    BY <1>2, <1>4, <1>8
  <2>2. inc # <<>>
    BY <1>3, <2>1, EmptySeq DEF Turns
  <2>3. Len(Tail(inc)) = Len(inc) - 1 /\ \A i \in 1..Len(Tail(inc)) : Tail(inc)[i] = inc[i + 1]
    BY <2>2, TailFacts
  <2>4. Count(t, {"one"}) = Len(Tail(inc))
    BY <1>3, <2>1, <2>3 DEF Turns
  <2>5. ASSUME ~z, NEW k \in 1..Len(t), t[k] = "sync", NEW i \in 1..Ones(t, k), NEW j \in 1..Len(sq)
        PROVE  Ahead(Tail(inc)[i], sq[j])
    <3>1. k + 1 \in 1..Len(r) /\ r[k + 1] = "sync"
      BY <1>1, <2>5
    <3>2. i \in 1..Len(Tail(inc)) /\ i + 1 \in 1..Ones(r, k + 1)
      BY <1>3, <2>1, <2>4
    <3>3. Ahead(inc[i + 1], sq[j])
      BY <2>5, <3>1, <3>2 DEF Turns
    <3> QED BY <2>3, <3>2, <3>3
  <2> QED BY <1>6, <1>7, <1>8, <2>2, <2>4, <2>5 DEF Turns, t
<1>9. CASE Head(r) = "sync"
  <2>1. Count(t, {"one"}) = Len(inc)
    BY <1>2, <1>3, <1>9 DEF Turns
  <2>2. ASSUME NEW k \in 1..Len(t), t[k] = "sync" PROVE FALSE
    <3>1. k + 1 \in 1..Len(r) /\ 1 \in 1..Len(r) /\ r[k + 1] = "sync" /\ r[1] = "sync" /\ k + 1 # 1
      BY <1>1, <1>9, <2>2
    <3> QED BY <3>1 DEF Turns
  <2> QED BY <1>6, <1>9, <2>1, <2>2 DEF Turns, t
<1>10. CASE Head(r) = "close"
  <2>1. Count(t, {"one"}) = Len(inc) /\ \A k \in 1..Len(t) : Ones(r, k + 1) = Ones(t, k)
    BY <1>2, <1>3, <1>4, <1>10 DEF Turns
  <2>2. ASSUME ~z, NEW k \in 1..Len(t), t[k] = "sync", NEW i \in 1..Ones(t, k), NEW j \in 1..Len(sq)
        PROVE  Ahead(inc[i], sq[j])
    <3>1. k + 1 \in 1..Len(r) /\ r[k + 1] = "sync" /\ i \in 1..Ones(r, k + 1)
      BY <1>1, <2>1, <2>2
    <3> QED BY <2>2, <3>1 DEF Turns
  <2> QED BY <1>6, <1>7, <1>10, <2>1, <2>2 DEF Turns, t
<1> QED BY <1>1, <1>8, <1>9, <1>10 DEF t

\* A function is dispatched to the run loop.
LEMMA TurnAdded ==
  ASSUME NEW r \in Seq(Work), NEW inc \in Seq(Message), NEW sq \in Seq(Message),
         NEW sch \in BOOLEAN, NEW z \in BOOLEAN, Turns(r, inc, sq, sch, z)
  PROVE  /\ Turns(Append(r, "close"), inc, sq, sch, z)
         /\ \A m \in Message :
              /\ Turns(Append(r, "one"), Append(inc, m), sq, sch, z)
              /\ (\A i \in 1..Len(inc) : Ahead(inc[i], m)) =>
                   Turns(IF sch THEN r ELSE Append(r, "sync"), inc, Append(sq, m), TRUE, z)
<1>0. "one" \in Work /\ "close" \in Work /\ "sync" \in Work
  BY DEF Work
<1>1. Len(r) \in Nat /\ Count(r, {"one"}) \in Nat
      /\ \A k \in 1..Len(r) : Ones(r, k) \in Nat /\ Ones(r, k) <= Count(r, {"one"})
  BY OnesFacts
<1>2. Count(r, {"one"}) = Len(inc) /\ Len(inc) \in Nat /\ Len(sq) \in Nat
  BY LenProperties DEF Turns
<1>3. ASSUME NEW w \in Work
      PROVE  /\ Len(Append(r, w)) = Len(r) + 1 /\ Append(r, w)[Len(r) + 1] = w
             /\ \A k \in 1..Len(r) : Append(r, w)[k] = r[k] /\ Ones(Append(r, w), k) = Ones(r, k)
             /\ \A k \in 1..Len(Append(r, w)) : k \in 1..Len(r) \/ k = Len(r) + 1
             /\ Count(Append(r, w), {"one"}) = Count(r, {"one"}) + (IF w \in {"one"} THEN 1 ELSE 0)
  <2>1. /\ Len(Append(r, w)) = Len(r) + 1 /\ Append(r, w)[Len(r) + 1] = w
        /\ \A k \in 1..Len(r) : Append(r, w)[k] = r[k]
    BY Appended
  <2>2. /\ Count(Append(r, w), {"one"}) = Count(r, {"one"}) + (IF w \in {"one"} THEN 1 ELSE 0)
        /\ \A k \in 0..Len(r) : CountTo(Append(r, w), k, {"one"}) = CountTo(r, k, {"one"})
    BY CountAppend
  <2>3. \A k \in 1..Len(r) : k \in 0..Len(r)
    BY <1>1
  <2>4. \A k \in 1..(Len(r) + 1) : k \in 1..Len(r) \/ k = Len(r) + 1
    BY <1>1
  <2> QED BY <2>1, <2>2, <2>3, <2>4 DEF Ones
<1>4. ASSUME NEW w \in Work \ {"sync"}
      PROVE  /\ sch <=> \E k \in 1..Len(Append(r, w)) : Append(r, w)[k] = "sync"
             /\ \A i, j \in 1..Len(Append(r, w)) : Append(r, w)[i] = "sync" /\ Append(r, w)[j] = "sync" => i = j
             /\ \A k \in 1..Len(Append(r, w)) : Append(r, w)[k] = "sync" => k \in 1..Len(r) /\ r[k] = "sync"
  <2>1. \A k \in 1..Len(r) : k \in 1..Len(Append(r, w))
    BY <1>1, <1>3
  <2>2. \A k \in 1..Len(Append(r, w)) : Append(r, w)[k] = "sync" <=> k \in 1..Len(r) /\ r[k] = "sync"
    <3>1. Len(r) + 1 \notin 1..Len(r)
      BY <1>1
    <3> QED BY <1>3, <1>4, <3>1
  <2> QED BY <2>1, <2>2 DEF Turns
<1>5. ASSUME NEW m \in Message PROVE Turns(Append(r, "one"), Append(inc, m), sq, sch, z)
  <2> DEFINE t == Append(r, "one")
             v == Append(inc, m)
  <2>1. Len(v) = Len(inc) + 1 /\ \A i \in 1..Len(inc) : v[i] = inc[i]
    BY Appended
  <2>2. Count(t, {"one"}) = Len(v)
    BY <1>0, <1>2, <1>3, <2>1
  <2>3. ASSUME ~z, NEW k \in 1..Len(t), t[k] = "sync", NEW i \in 1..Ones(t, k), NEW j \in 1..Len(sq)
        PROVE  Ahead(v[i], sq[j])
    <3>1. k \in 1..Len(r) /\ r[k] = "sync"
      BY <1>0, <1>4, <2>3
    <3>2. Ones(t, k) = Ones(r, k)
      BY <1>0, <1>3, <3>1
    <3>3. i \in 1..Ones(r, k) /\ i \in 1..Len(inc)
      BY <1>1, <1>2, <3>1, <3>2
    <3> QED BY <2>1, <2>3, <3>1, <3>3 DEF Turns
  <2>4. /\ sch <=> \E k \in 1..Len(t) : t[k] = "sync"
        /\ \A i, j \in 1..Len(t) : t[i] = "sync" /\ t[j] = "sync" => i = j
    BY <1>0, <1>4
  <2> HIDE DEF t, v
  <2>5. Turns(t, v, sq, sch, z)
    BY <2>2, <2>3, <2>4 DEF Turns
  <2> QED BY <2>5 DEF t, v
<1>6. Turns(Append(r, "close"), inc, sq, sch, z)
  <2> DEFINE t == Append(r, "close")
  <2>2. Count(t, {"one"}) = Len(inc)
    BY <1>0, <1>2, <1>3
  <2>3. ASSUME ~z, NEW k \in 1..Len(t), t[k] = "sync", NEW i \in 1..Ones(t, k), NEW j \in 1..Len(sq)
        PROVE  Ahead(inc[i], sq[j])
    <3>1. k \in 1..Len(r) /\ r[k] = "sync"
      BY <1>0, <1>4, <2>3
    <3>2. Ones(t, k) = Ones(r, k)
      BY <1>0, <1>3, <3>1
    <3> QED BY <2>3, <3>1, <3>2 DEF Turns
  <2>4. /\ sch <=> \E k \in 1..Len(t) : t[k] = "sync"
        /\ \A i, j \in 1..Len(t) : t[i] = "sync" /\ t[j] = "sync" => i = j
    BY <1>0, <1>4
  <2> HIDE DEF t
  <2>5. Turns(t, inc, sq, sch, z)
    BY <2>2, <2>3, <2>4 DEF Turns
  <2> QED BY <2>5 DEF t
<1>7. ASSUME NEW m \in Message, \A i \in 1..Len(inc) : Ahead(inc[i], m)
      PROVE  Turns(IF sch THEN r ELSE Append(r, "sync"), inc, Append(sq, m), TRUE, z)
  <2> DEFINE u == Append(sq, m)
  <2>1. Len(u) = Len(sq) + 1 /\ (\A j \in 1..Len(sq) : u[j] = sq[j]) /\ u[Len(sq) + 1] = m
    BY Appended
  <2>2. \A j \in 1..Len(u) : j \in 1..Len(sq) \/ u[j] = m
    BY <1>2, <2>1
  <2> HIDE DEF u
  <2>3. CASE sch
    <3>1. ASSUME ~z, NEW k \in 1..Len(r), r[k] = "sync", NEW i \in 1..Ones(r, k), NEW j \in 1..Len(u)
          PROVE  Ahead(inc[i], u[j])
      <4>1. i \in 1..Len(inc)
        BY <1>1, <1>2
      <4> QED BY <1>7, <2>1, <2>2, <3>1, <4>1 DEF Turns
    <3>2. Turns(r, inc, u, TRUE, z)
      BY <2>3, <3>1 DEF Turns
    <3> QED BY <2>3, <3>2 DEF u
  <2>4. CASE ~sch
    <3> DEFINE t == Append(r, "sync")
    <3>1. \A k \in 1..Len(r) : r[k] # "sync"
      BY <2>4 DEF Turns
    <3>2. \A k \in 1..Len(t) : t[k] = "sync" <=> k = Len(r) + 1
      BY <1>0, <1>1, <1>3, <3>1
    <3>3. Count(t, {"one"}) = Len(inc) /\ Len(r) + 1 \in 1..Len(t) /\ Len(t) = Len(r) + 1
      BY <1>0, <1>1, <1>2, <1>3
    <3>4. Ones(t, Len(r) + 1) = Len(inc)
      BY <3>3 DEF Ones, Count
    <3>5. ~z => Len(sq) = 0
      BY <2>4, EmptySeq DEF Turns
    <3> HIDE DEF t
    <3>6. ASSUME ~z, NEW k \in 1..Len(t), t[k] = "sync", NEW i \in 1..Ones(t, k), NEW j \in 1..Len(u)
          PROVE  Ahead(inc[i], u[j])
      BY <1>7, <2>2, <3>2, <3>4, <3>5, <3>6
    <3>7. Turns(t, inc, u, TRUE, z)
      BY <3>2, <3>3, <3>6 DEF Turns
    <3> QED BY <2>4, <3>7 DEF t, u
  <2> QED BY <2>3, <2>4
<1> QED BY <1>5, <1>6, <1>7

LEMMA RunLoopTypes ==
  ASSUME TypeOK, NEW p \in Procs
  PROVE  /\ runLoop[p] \in Seq(Work) /\ incoming[p] \in Seq(Message) /\ syncQueue[p] \in Seq(Message)
         /\ scheduled[p] \in BOOLEAN /\ Resetting(p) \in BOOLEAN
  BY DEF TypeOK, Work, Resetting

LEMMA InitOrdered == Init => Ordered
<1> SUFFICES ASSUME Init, NEW p \in Procs
             PROVE  Turns(runLoop[p], incoming[p], syncQueue[p], scheduled[p], Resetting(p))
  BY DEF Ordered
<1>1. runLoop[p] = <<>> /\ incoming[p] = <<>> /\ syncQueue[p] = <<>> /\ scheduled[p] = FALSE
  BY DEF Init
<1>2. Count(<<>>, {"one"}) = 0
  BY CountShort
<1>3. Len(<<>>) = 0 /\ 1..0 = {}
  OBVIOUS
<1> QED BY <1>1, <1>2, <1>3 DEF Turns

\* Only the activation that empties the queue is innermost between the two locks.
LEMMA NotResetting ==
  ASSUME TypeOK, NEW p \in Procs, ~At(p, "swap")
  PROVE  ~Resetting(p)
<1> SUFFICES ASSUME Len(stack[p]) = 1, stack[p][1].at = "swap" PROVE FALSE
  BY DEF Resetting
<1>1. stack[p] \in Seq(Frame)
  BY DEF TypeOK
<1>2. stack[p] # <<>>
  BY <1>1, EmptySeq
<1>3. Top(p) = stack[p][1]
  BY <1>2 DEF Top, Last
<1> QED BY <1>2, <1>3 DEF At

\* Steps of p that leave the other process' run loop alone.
LEMMA OrderedAt ==
  ASSUME TypeOK, Ordered, NEW p \in Procs,
         \A a \in Procs : a # p => /\ runLoop'[a] = runLoop[a] /\ incoming'[a] = incoming[a]
                                   /\ syncQueue'[a] = syncQueue[a] /\ scheduled'[a] = scheduled[a]
                                   /\ stack'[a] = stack[a],
         Turns(runLoop'[p], incoming'[p], syncQueue'[p], scheduled'[p], Resetting(p)')
  PROVE  Ordered'
<1> SUFFICES ASSUME NEW a \in Procs, a # p
             PROVE  Turns(runLoop'[a], incoming'[a], syncQueue'[a], scheduled'[a], Resetting(a)')
  BY DEF Ordered
<1>1. Resetting(a)' <=> Resetting(a)
  BY DEF Resetting
<1>2. Turns(runLoop[a], incoming[a], syncQueue[a], scheduled[a], Resetting(a))
  BY DEF Ordered
<1>3. Turns(runLoop'[a], incoming'[a], syncQueue'[a], scheduled'[a], Resetting(a))
  BY <1>2
<1> QED BY <1>1, <1>3 DEF Turns

\* The condition that does not hold between the two locks may only be dropped.
LEMMA TurnsWeaken ==
  ASSUME NEW r, NEW inc, NEW sq, NEW sch, NEW z \in BOOLEAN, NEW y \in BOOLEAN, Turns(r, inc, sq, sch, z), z => y
  PROVE  Turns(r, inc, sq, sch, y)
  BY DEF Turns

\* Steps that change activations only.
LEMMA OrderedFrame ==
  ASSUME TypeOK, Ordered, TypeOK', NEW p \in Procs, ~At(p, "swap"), UNCHANGED inVars,
         \A a \in Procs : a # p => stack'[a] = stack[a]
  PROVE  Ordered'
<1>1. ~Resetting(p)
  BY NotResetting
<1>2. Turns(runLoop[p], incoming[p], syncQueue[p], scheduled[p], Resetting(p))
  BY DEF Ordered
<1>3. Resetting(p)' \in BOOLEAN
  BY DEF Resetting
<1>4. Turns(runLoop[p], incoming[p], syncQueue[p], scheduled[p], Resetting(p)')
  BY <1>1, <1>2, <1>3, RunLoopTypes, TurnsWeaken
<1> QED BY <1>4, OrderedAt DEF inVars

LEMMA NextOrdered == TypeOK /\ InLine /\ Sorted /\ Ordered /\ [Next]_vars => Ordered'
<1> SUFFICES ASSUME TypeOK, InLine, Sorted, Ordered, [Next]_vars PROVE Ordered'
  OBVIOUS
<1>t. TypeOK'
  BY NextTypes
<1>0. ASSUME UNCHANGED <<inVars, stack>> PROVE Ordered'
  BY <1>0 DEF Ordered, Turns, Resetting, inVars
<1>z. ASSUME NEW p \in Procs
      PROVE  /\ Turns(runLoop[p], incoming[p], syncQueue[p], scheduled[p], Resetting(p))
             /\ runLoop[p] \in Seq(Work) /\ incoming[p] \in Seq(Message) /\ syncQueue[p] \in Seq(Message)
             /\ scheduled[p] \in BOOLEAN /\ Resetting(p) \in BOOLEAN /\ Resetting(p)' \in BOOLEAN
             /\ ~At(p, "swap") => ~Resetting(p)
             /\ stack[p] = <<>> \/ AppCodeRuns(p) => ~At(p, "swap")
  BY RunLoopTypes, NotResetting DEF Ordered, Resetting, AppCodeRuns, At
<1>w. ASSUME NEW p \in Procs
      PROVE  /\ Turns(runLoop[p], incoming[p], syncQueue[p], scheduled[p], Resetting(p))
             /\ runLoop[p] \in Seq(Work) /\ incoming[p] \in Seq(Message) /\ syncQueue[p] \in Seq(Message)
             /\ scheduled[p] \in BOOLEAN /\ Resetting(p) \in BOOLEAN
  BY <1>z
<1>d. ASSUME NEW p \in Procs, runLoop' = [runLoop EXCEPT ![p] = Append(@, "close")],
             UNCHANGED <<incoming, syncQueue, scheduled, stack>>
      PROVE  Ordered'
  <2>1. Turns(Append(runLoop[p], "close"), incoming[p], syncQueue[p], scheduled[p], Resetting(p))
    BY <1>w, TurnAdded
  <2>2. runLoop'[p] = Append(runLoop[p], "close") /\ \A a \in Procs : a # p => runLoop'[a] = runLoop[a]
    BY <1>d DEF TypeOK
  <2>3. Resetting(p)' <=> Resetting(p)
    BY <1>d DEF Resetting
  <2>4. Turns(runLoop'[p], incoming'[p], syncQueue'[p], scheduled'[p], Resetting(p)')
    BY <1>d, <1>z, <2>1, <2>2, <2>3, TurnsWeaken
  <2> QED BY <1>d, <2>2, <2>4, OrderedAt
<1>1. ASSUME NEW p \in Procs, AppSends(p) PROVE Ordered'
  <2>1. CASE SendSync(p)
    <3>1. ~At(p, "swap") /\ UNCHANGED inVars /\ \A a \in Procs : a # p => stack'[a] = stack[a]
      BY <1>z, <2>1 DEF SendSync, TypeOK
    <3> QED BY <1>t, <3>1, OrderedFrame
  <2>2. CASE FinishInvalid(p)
    <3>1. ~At(p, "swap") /\ UNCHANGED inVars /\ \A a \in Procs : a # p => stack'[a] = stack[a]
      BY <2>2 DEF FinishInvalid, At, TypeOK
    <3> QED BY <1>t, <3>1, OrderedFrame
  <2>3. CASE (\E even \in BOOLEAN : SendAsync(p, even)) \/ SendSyncFails(p) \/ SecondarySendSync(p) \/ Invalidate(p)
    BY <1>0, <2>3 DEF SendAsync, SendSyncFails, SecondarySendSync, Invalidate, threadVars
  <2> QED BY <1>1, <2>1, <2>2, <2>3 DEF AppSends
<1>2. ASSUME NEW p \in Procs, MainThread(p) PROVE Ordered'
  <2>1. CASE DispatchOneMessage(p)
    <3>1. /\ runLoop[p] # <<>> /\ Head(runLoop[p]) = "one" /\ stack[p] = <<>>
          /\ runLoop' = [runLoop EXCEPT ![p] = Tail(@)] /\ UNCHANGED <<syncQueue, scheduled>>
      BY <2>1 DEF DispatchOneMessage
    <3>2. incoming[p] # <<>> /\ Turns(Tail(runLoop[p]), Tail(incoming[p]), syncQueue[p], scheduled[p], Resetting(p))
      BY <1>w, <3>1, TurnTaken
    <3>3. /\ incoming' = [incoming EXCEPT ![p] = Tail(@)]
          /\ \A a \in Procs : a # p => stack'[a] = stack[a]
      BY <2>1, <3>2 DEF DispatchOneMessage, Dispatch, TypeOK
    <3>4. runLoop'[p] = Tail(runLoop[p]) /\ incoming'[p] = Tail(incoming[p])
          /\ \A a \in Procs : a # p => runLoop'[a] = runLoop[a] /\ incoming'[a] = incoming[a]
      BY <3>1, <3>3 DEF TypeOK
    <3>5. Resetting(p) => Resetting(p)'
      BY <1>z, <3>1
    <3>6. Turns(Tail(runLoop[p]), Tail(incoming[p]), syncQueue[p], scheduled[p], Resetting(p)')
      BY <1>z, <3>2, <3>5, TurnsWeaken
    <3> QED BY <3>1, <3>3, <3>4, <3>6, OrderedAt
  <2>2. CASE ResetDidSchedule(p)
    <3>1. /\ runLoop[p] # <<>> /\ Head(runLoop[p]) = "sync" /\ stack[p] = <<>>
          /\ runLoop' = [runLoop EXCEPT ![p] = Tail(@)] /\ scheduled' = [scheduled EXCEPT ![p] = FALSE]
          /\ stack' = [stack EXCEPT ![p] = Append(@, Swap)] /\ UNCHANGED <<incoming, syncQueue>>
      BY <2>2 DEF ResetDidSchedule
    <3>2. Turns(Tail(runLoop[p]), incoming[p], syncQueue[p], FALSE, TRUE)
      BY <1>w, <3>1, TurnTaken
    <3>3. /\ runLoop'[p] = Tail(runLoop[p]) /\ scheduled'[p] = FALSE /\ stack'[p] = Append(<<>>, Swap)
          /\ \A a \in Procs : a # p => runLoop'[a] = runLoop[a] /\ scheduled'[a] = scheduled[a] /\ stack'[a] = stack[a]
      BY <3>1 DEF TypeOK
    <3>4. Resetting(p)'
      BY <3>3, Frames DEF Resetting
    <3>5. Turns(runLoop'[p], incoming'[p], syncQueue'[p], scheduled'[p], Resetting(p)')
      BY <1>z, <3>1, <3>2, <3>3, <3>4, TurnsWeaken
    <3> QED BY <3>1, <3>3, <3>5, OrderedAt
  <2>3. CASE DispatchDidClose(p)
    <3>1. /\ runLoop[p] # <<>> /\ Head(runLoop[p]) = "close"
          /\ runLoop' = [runLoop EXCEPT ![p] = Tail(@)] /\ UNCHANGED <<incoming, syncQueue, scheduled, stack>>
      BY <2>3 DEF DispatchDidClose, threadVars
    <3>2. Turns(Tail(runLoop[p]), incoming[p], syncQueue[p], scheduled[p], Resetting(p))
      BY <1>w, <3>1, TurnTaken
    <3>3. /\ runLoop'[p] = Tail(runLoop[p])
          /\ \A a \in Procs : a # p => runLoop'[a] = runLoop[a]
      BY <3>1 DEF TypeOK
    <3>4. Resetting(p)' <=> Resetting(p)
      BY <3>1 DEF Resetting
    <3>5. Turns(runLoop'[p], incoming'[p], syncQueue'[p], scheduled'[p], Resetting(p)')
      BY <1>z, <3>1, <3>2, <3>3, <3>4, TurnsWeaken
    <3> QED BY <3>1, <3>3, <3>5, OrderedAt
  <2>4. CASE SwapMessages(p)
    <3>1. /\ syncQueue' = [syncQueue EXCEPT ![p] = <<>>] /\ UNCHANGED <<incoming, scheduled, runLoop>>
          /\ \A a \in Procs : a # p => stack'[a] = stack[a]
      BY <2>4 DEF SwapMessages, TypeOK
    <3>2. syncQueue'[p] = <<>> /\ \A a \in Procs : a # p => syncQueue'[a] = syncQueue[a]
      BY <3>1 DEF TypeOK
    <3>3. Turns(runLoop[p], incoming[p], <<>>, scheduled[p], Resetting(p)')
      <4>1. Len(<<>>) = 0 /\ 1..0 = {}
        OBVIOUS
      <4> QED BY <1>z, <4>1 DEF Turns
    <3> QED BY <3>1, <3>2, <3>3, OrderedAt
  <2>5. CASE DrainNext(p) \/ DrainDone(p)
    <3>1. ~At(p, "swap") /\ UNCHANGED inVars /\ \A a \in Procs : a # p => stack'[a] = stack[a]
      BY <2>5 DEF DrainNext, DrainDone, Dispatch, At, TypeOK
    <3> QED BY <1>t, <3>1, OrderedFrame
  <2>6. CASE FinishHandler(p)
    <3>1. ~At(p, "swap") /\ UNCHANGED inVars /\ \A a \in Procs : a # p => stack'[a] = stack[a]
      BY <2>6 DEF FinishHandler, At, TypeOK
    <3> QED BY <1>t, <3>1, OrderedFrame
  <2>7. CASE CheckSyncReply(p)
    <3>1. ~At(p, "swap") /\ UNCHANGED inVars
      BY <2>7 DEF CheckSyncReply, At
    <3>2. \A a \in Procs : a # p => stack'[a] = stack[a]
      BY <2>7 DEF CheckSyncReply, ReturnFromSync, TypeOK
    <3> QED BY <1>t, <3>1, <3>2, OrderedFrame
  <2>8. CASE WakeUp(p)
    <3>1. ~At(p, "swap") /\ UNCHANGED inVars /\ \A a \in Procs : a # p => stack'[a] = stack[a]
      BY <2>8 DEF WakeUp, At, TypeOK
    <3> QED BY <1>t, <3>1, OrderedFrame
  <2> QED BY <1>2, <2>1, <2>2, <2>3, <2>4, <2>5, <2>6, <2>7, <2>8 DEF MainThread
<1>3. ASSUME NEW p \in Procs, WorkQueue(p) PROVE Ordered'
  <2>1. CASE ProcessIncomingMessage(p)
    <3> DEFINE m == Head(wire[p])
    <3>1. wire[p] # <<>> /\ UNCHANGED stack
      BY <2>1 DEF ProcessIncomingMessage
    <3>2. m \in Message /\ 1 \in 1..Len(wire[p]) /\ m = wire[p][1]
      BY <3>1, TailFacts DEF TypeOK
    <3>3. \A i \in 1..Len(incoming[p]) : Ahead(incoming[p][i], m)
      BY <3>2 DEF InLine, InOrder, Before
    <3>4. Resetting(p)' <=> Resetting(p)
      BY <3>1 DEF Resetting
    <3> HIDE DEF m
    <3>5. /\ Turns(Append(runLoop[p], "one"), Append(incoming[p], m), syncQueue[p], scheduled[p], Resetting(p))
          /\ Turns(IF scheduled[p] THEN runLoop[p] ELSE Append(runLoop[p], "sync"), incoming[p],
                   Append(syncQueue[p], m), TRUE, Resetting(p))
      <4>1. \A n \in Message :
              /\ Turns(Append(runLoop[p], "one"), Append(incoming[p], n), syncQueue[p], scheduled[p], Resetting(p))
              /\ (\A i \in 1..Len(incoming[p]) : Ahead(incoming[p][i], n)) =>
                   Turns(IF scheduled[p] THEN runLoop[p] ELSE Append(runLoop[p], "sync"), incoming[p],
                         Append(syncQueue[p], n), TRUE, Resetting(p))
        BY <1>w, TurnAdded
      <4> QED BY <3>2, <3>3, <4>1
    <3>6. CASE UNCHANGED inVars
      BY <1>0, <3>1, <3>6
    <3>7. CASE ProcessMarked(p, m) /\ UNCHANGED incoming
      <4>1. /\ syncQueue'[p] = Append(syncQueue[p], m) /\ scheduled'[p] = TRUE
            /\ runLoop'[p] = IF scheduled[p] THEN runLoop[p] ELSE Append(runLoop[p], "sync")
            /\ \A a \in Procs : a # p => /\ runLoop'[a] = runLoop[a] /\ syncQueue'[a] = syncQueue[a]
                                         /\ scheduled'[a] = scheduled[a]
        BY <3>7 DEF ProcessMarked, TypeOK
      <4>2. Turns(runLoop'[p], incoming'[p], syncQueue'[p], scheduled'[p], Resetting(p)')
        BY <1>z, <3>4, <3>5, <3>7, <4>1, TurnsWeaken
      <4> QED BY <3>1, <3>7, <4>1, <4>2, OrderedAt
    <3>8. CASE /\ incoming' = [incoming EXCEPT ![p] = Append(@, m)] /\ runLoop' = [runLoop EXCEPT ![p] = Append(@, "one")]
               /\ UNCHANGED <<syncQueue, scheduled>>
      <4>1. /\ incoming'[p] = Append(incoming[p], m) /\ runLoop'[p] = Append(runLoop[p], "one")
            /\ \A a \in Procs : a # p => runLoop'[a] = runLoop[a] /\ incoming'[a] = incoming[a]
        BY <3>8 DEF TypeOK
      <4>2. Turns(runLoop'[p], incoming'[p], syncQueue'[p], scheduled'[p], Resetting(p)')
        BY <1>z, <3>4, <3>5, <3>8, <4>1, TurnsWeaken
      <4> QED BY <3>1, <3>8, <4>1, <4>2, OrderedAt
    <3> QED BY <2>1, <3>6, <3>7, <3>8 DEF ProcessIncomingMessage, m
  <2>2. CASE WriteShutsDown(p) \/ ConnectionDidClose(p)
    BY <1>d, <2>2 DEF WriteShutsDown, ConnectionDidClose, DidClose
  <2>3. CASE \/ WriteMessage(p) \/ WriteBlocks(p) \/ WriteFails(p) \/ ReadFails(p)
             \/ PlatformInvalidate(p) \/ PerformClose(p)
    BY <1>0, <2>3 DEF WriteMessage, WriteBlocks, WriteFails, ReadFails, PlatformInvalidate, PerformClose, threadVars
  <2> QED BY <1>3, <2>1, <2>2, <2>3 DEF WorkQueue
<1>4. ASSUME NEW p \in Procs, SyncTimesOut(p) PROVE Ordered'
  <2>1. ~At(p, "swap") /\ UNCHANGED inVars /\ \A a \in Procs : a # p => stack'[a] = stack[a]
    BY <1>4 DEF SyncTimesOut, ReturnFromSync, At, TypeOK
  <2> QED BY <1>t, <2>1, OrderedFrame
<1>5. ASSUME NEW p \in Procs, SendDelayedReply(p) \/ SecondaryReturns(p) \/ Crash(p) PROVE Ordered'
  BY <1>0, <1>5 DEF SendDelayedReply, SecondaryReturns, Crash, threadVars
<1>6. CASE UNCHANGED vars
  BY <1>0, <1>6 DEF vars, threadVars
<1> QED BY <1>1, <1>2, <1>3, <1>4, <1>5, <1>6 DEF Next

-----------------------------------------------------------------------------
(* A request that took its turn overtakes nothing.                         *)

\* What the activations are to dispatch yet, and what they handle.
Todo(frames)     == UNION {ToSet(f.todo) : f \in ToSet(frames)}
Handling(frames) == {f.msg : f \in {g \in ToSet(frames) : g.at = "handler"}}

LEMMA ToSets ==
  ASSUME NEW S, NEW s \in Seq(S)
  PROVE  /\ ToSet(<<>>) = {}
         /\ \A x \in S : ToSet(Append(s, x)) = ToSet(s) \union {x}
         /\ s # <<>> => /\ Head(s) \in ToSet(s) /\ ToSet(Tail(s)) \subseteq ToSet(s)
                        /\ Last(s) \in ToSet(s) /\ ToSet(Front(s)) \subseteq ToSet(s)
<1>1. \A t \in Seq(S) : \A x : x \in ToSet(t) <=> \E i \in 1..Len(t) : x = t[i]
  BY LenProperties DEF ToSet
<1>2. ToSet(<<>>) = {}
  BY DEF ToSet
<1>3. ASSUME NEW x \in S PROVE ToSet(Append(s, x)) = ToSet(s) \union {x}
  <2> DEFINE t == Append(s, x)
  <2>1. t \in Seq(S) /\ Len(t) = Len(s) + 1 /\ Len(s) \in Nat /\ t[Len(s) + 1] = x /\ \A i \in 1..Len(s) : t[i] = s[i]
    BY Appended
  <2> HIDE DEF t
  <2>2. \A y : y \in ToSet(t) <=> y \in ToSet(s) \/ y = x
    <3>1. \A i : i \in 1..Len(t) <=> i \in 1..Len(s) \/ i = Len(s) + 1
      BY <2>1
    <3> QED BY <1>1, <2>1, <3>1
  <2> QED BY <2>2 DEF t
<1>4. ASSUME s # <<>>
      PROVE  /\ Head(s) \in ToSet(s) /\ ToSet(Tail(s)) \subseteq ToSet(s)
             /\ Last(s) \in ToSet(s) /\ ToSet(Front(s)) \subseteq ToSet(s)
  <2>1. /\ Tail(s) \in Seq(S) /\ Len(Tail(s)) = Len(s) - 1 /\ Len(s) \in Nat /\ Len(s) >= 1
        /\ Head(s) = s[1] /\ \A i \in 1..Len(Tail(s)) : i + 1 \in 1..Len(s) /\ Tail(s)[i] = s[i + 1]
    BY <1>4, HeadTailProperties, LenProperties, EmptySeq
  <2>2. ToSet(Tail(s)) \subseteq ToSet(s) /\ Head(s) \in ToSet(s)
    <3>1. (\A x : x \in ToSet(s) <=> \E i \in 1..Len(s) : x = s[i])
          /\ (\A x : x \in ToSet(Tail(s)) <=> \E i \in 1..Len(Tail(s)) : x = Tail(s)[i])
      BY <1>1, <2>1
    <3>2. 1 \in 1..Len(s)
      BY <2>1
    <3> QED BY <2>1, <3>1, <3>2
  <2>3. Front(s) \in Seq(S) /\ Last(s) \in S /\ s = Append(Front(s), Last(s))
    BY <1>4, Popped
  <2> DEFINE f == Front(s)
             l == Last(s)
  <2> HIDE DEF f, l
  <2>4. f \in Seq(S) /\ l \in S /\ s = Append(f, l)
    BY <2>3 DEF f, l
  <2>5. \A i \in 1..Len(f) : i \in 1..Len(s) /\ s[i] = f[i]
    BY <2>4, Appended
  <2>6. Len(f) + 1 \in 1..Len(s) /\ s[Len(f) + 1] = l
    BY <2>4, Appended
  <2>7. ToSet(f) \subseteq ToSet(s) /\ l \in ToSet(s)
    <3>1. (\A x : x \in ToSet(s) <=> \E i \in 1..Len(s) : x = s[i])
          /\ (\A x : x \in ToSet(f) <=> \E i \in 1..Len(f) : x = f[i])
      BY <1>1, <2>4
    <3> QED BY <2>5, <2>6, <3>1
  <2> QED BY <2>2, <2>7 DEF f, l
<1> QED BY <1>2, <1>3, <1>4

LEMMA FramesPushed ==
  ASSUME NEW s \in Seq(Frame), NEW f \in Frame
  PROVE  /\ Todo(Append(s, f)) = Todo(s) \union ToSet(f.todo)
         /\ Handling(Append(s, f)) \subseteq Handling(s) \union {f.msg}
         /\ f.at # "handler" => Handling(Append(s, f)) = Handling(s)
<1>1. ToSet(Append(s, f)) = ToSet(s) \union {f}
  BY ToSets
<1> QED BY <1>1 DEF Todo, Handling

LEMMA FramesPopped ==
  ASSUME NEW s \in Seq(Frame), s # <<>>
  PROVE  /\ Todo(Front(s)) \subseteq Todo(s) /\ Handling(Front(s)) \subseteq Handling(s)
         /\ ToSet(Last(s).todo) \subseteq Todo(s)
<1>1. ToSet(Front(s)) \subseteq ToSet(s) /\ Last(s) \in ToSet(s)
  BY ToSets
<1> QED BY <1>1 DEF Todo, Handling

\* What is on its way to p's application, but for what it handles already.
LEMMA StillToCome ==
  \A p \in Procs : Undispatched(p) = ToSet(out[Peer(p)]) \union ToSet(wire[p]) \union ToSet(incoming[p])
                                     \union ToSet(syncQueue[p]) \union Todo(stack[p])
  BY DEF Undispatched, Todo

Later(m, n) == m.kind = "reply" \/ m.id > n

InTurnFirst ==
  \A p \in Procs : \A h \in Handling(stack[p]) :
    h.kind = "sync" /\ ~h.marked => \A m \in Undispatched(p) : Later(m, h.id)

LEMMA FirstIsProperty == InTurnFirst <=> UnmarkedSyncOvertakesNothing
  BY DEF InTurnFirst, UnmarkedSyncOvertakesNothing, Handling, Later

\* The ids of the requests that p handles were handed out.
LEMMA HandledIds ==
  ASSUME TypeOK, Sorted, OnceOnly, NEW p \in Procs, NEW h \in Handling(stack[p]), h.kind = "sync"
  PROVE  h.id \in Ids /\ h.id <= lastId[Peer(p)]
<1> DEFINE q == Peer(p)
<1>1. q \in Procs /\ Peer(q) = p
  BY Ends
<1>2. PICK f \in ToSet(stack[p]) : f.at = "handler" /\ f.msg = h
  BY DEF Handling
<1>3. f \in SortedFrame
  BY <1>2, LenProperties, ElementOfSeq DEF Sorted, ToSet
<1>4. h \in Message /\ h.id \in Ids
  BY <1>2, <1>3, Fields DEF SortedFrame, Dispatched, InTurn, OutOfTurn
<1>5. "handler" \in Places(q, h.id)
  BY <1>1, <1>2 DEF Places
<1>6. PICK n \in Nat, k \in Nat :
        /\ n = Way(q, Named("sync", h.id)) + Count(incoming[p], Named("sync", h.id)) + Count(syncQueue[p], Named("sync", h.id))
        /\ k = Held(stack[p], Named("sync", h.id)) /\ k >= 1
  BY <1>1, <1>4, <1>5, PlacesCounted
<1>7. Total(q, h.id) # 0
  <2>1. PICK w \in Nat, c \in Nat, s \in Nat, d \in Nat, r \in Nat, b \in Nat :
          /\ w = Way(q, Named("sync", h.id)) /\ c = Count(incoming[p], Named("sync", h.id))
          /\ s = Count(syncQueue[p], Named("sync", h.id)) /\ d = Bit(h.id \in delayed[p])
          /\ r = Way(p, Named("reply", h.id)) /\ b = Bit(Answered(q, h.id))
    BY <1>1, WayTypes, HereTypes DEF Bit
  <2>2. Total(q, h.id) = w + (c + s + k + d) + r + b
    BY <1>1, <1>6, <2>1 DEF Total, Here
  <2> QED BY <1>6, <2>1, <2>2
<1>8. ~(h.id > lastId[q])
  BY <1>1, <1>4, <1>7 DEF OnceOnly
<1>9. lastId[q] \in Nat /\ h.id \in Nat
  BY <1>1, <1>4, IdNumbers DEF TypeOK
<1> QED BY <1>4, <1>8, <1>9

\* A step that adds nothing for p but messages sent just now, nor makes it handle
\* anything but what took the path for deadlocks.
LEMMA FirstKept ==
  ASSUME TypeOK, Sorted, OnceOnly, InTurnFirst,
         \A a \in Procs :
           /\ \A m \in Undispatched(a)' : \/ m \in Undispatched(a)
                                          \/ m.kind = "reply"
                                          \/ m.id \in Nat /\ m.id > lastId[Peer(a)]
           /\ \A h \in Handling(stack'[a]) : h \in Handling(stack[a]) \/ h.marked
  PROVE  InTurnFirst'
<1> SUFFICES ASSUME NEW a \in Procs, NEW h \in Handling(stack'[a]), h.kind = "sync", ~h.marked, NEW m \in Undispatched(a)'
             PROVE  Later(m, h.id)
  BY DEF InTurnFirst
<1>1. h \in Handling(stack[a])
  OBVIOUS
<1>2. h.id \in Ids /\ h.id <= lastId[Peer(a)] /\ h.id \in Nat /\ lastId[Peer(a)] \in Nat
  BY <1>1, HandledIds, IdNumbers, Ends DEF TypeOK
<1>3. CASE m \in Undispatched(a)
  BY <1>1, <1>3 DEF InTurnFirst
<1>4. CASE m.kind = "reply"
  BY <1>4 DEF Later
<1>5. CASE m.id \in Nat /\ m.id > lastId[Peer(a)]
  BY <1>2, <1>5 DEF Later
<1> QED BY <1>3, <1>4, <1>5

\* Of a: activations returned, or came that neither dispatch nor handle; and the
\* messages that came to m_outgoingMessages are new.
Narrower(a) == Todo(stack'[a]) \subseteq Todo(stack[a]) /\ Handling(stack'[a]) \subseteq Handling(stack[a])
NewIn(a)    == \A m \in ToSet(out'[a]) : \/ m \in ToSet(out[a])
                                         \/ m.kind = "reply"
                                         \/ m.id \in Nat /\ m.id > lastId[a]

LEMMA ComingNext ==
  \A p \in Procs : Undispatched(p)' = ToSet(out'[Peer(p)]) \union ToSet(wire'[p]) \union ToSet(incoming'[p])
                                      \union ToSet(syncQueue'[p]) \union Todo(stack'[p])
  BY DEF Undispatched, Todo

LEMMA FirstQuiet ==
  ASSUME TypeOK, Sorted, OnceOnly, InTurnFirst, UNCHANGED <<wire, incoming, syncQueue>>,
         \A a \in Procs : Narrower(a) /\ NewIn(a)
  PROVE  InTurnFirst'
<1>1. ASSUME NEW a \in Procs
      PROVE  /\ \A m \in Undispatched(a)' : \/ m \in Undispatched(a)
                                            \/ m.kind = "reply"
                                            \/ m.id \in Nat /\ m.id > lastId[Peer(a)]
             /\ \A h \in Handling(stack'[a]) : h \in Handling(stack[a]) \/ h.marked
  <2>1. NewIn(Peer(a)) /\ Narrower(a)
    BY Ends
  <2> QED BY <2>1, StillToCome, ComingNext DEF Narrower, NewIn
<1> QED BY <1>1, FirstKept

LEMMA SentIsNew ==
  ASSUME TypeOK, NEW p \in Procs, NEW id \in Ids, NEW even \in BOOLEAN, NEW kind \in {"async", "sync", "reply"},
         SendMessage(p, kind, id, even), kind = "reply" \/ id > lastId[p]
  PROVE  \A a \in Procs : NewIn(a)
<1> DEFINE marked == even /\ (p \notin OnlyWhenProcessing \/ ProcessingMarked(p))
           m == [kind |-> kind, id |-> id, marked |-> marked]
<1>1. marked \in BOOLEAN
  OBVIOUS
<1>2. m \in Message /\ m.kind = kind /\ m.id = id
  <2> HIDE DEF marked
  <2> QED BY <1>1 DEF Message
<1>3. out' = IF client[p] THEN [out EXCEPT ![p] = Append(@, m)] ELSE out
  BY DEF SendMessage
<1> HIDE DEF m
<1>4. \A a \in Procs : out'[a] = out[a] \/ (a = p /\ out'[a] = Append(out[p], m))
  BY <1>3 DEF TypeOK
<1>5. ToSet(Append(out[p], m)) = ToSet(out[p]) \union {m}
  BY <1>2, ToSets DEF TypeOK
<1>6. m.kind = "reply" \/ (m.id \in Nat /\ m.id > lastId[p])
  BY <1>2, IdNumbers
<1>7. ASSUME NEW a \in Procs PROVE NewIn(a)
  <2>1. CASE out'[a] = out[a]
    BY <2>1 DEF NewIn
  <2>2. CASE a = p /\ out'[a] = Append(out[p], m)
    BY <1>5, <1>6, <2>2 DEF NewIn
  <2> QED BY <1>4, <2>1, <2>2
<1> QED BY <1>7

LEMMA NothingNew ==
  /\ \A a \in Procs : out'[a] = out[a] => NewIn(a)
  /\ \A a \in Procs : stack'[a] = stack[a] => Narrower(a)
  BY DEF NewIn, Narrower

LEMMA PopNarrows ==
  ASSUME TypeOK, NEW p \in Procs, stack[p] # <<>>, stack' = [stack EXCEPT ![p] = Front(@)]
  PROVE  \A a \in Procs : Narrower(a)
<1>1. stack[p] \in Seq(Frame)
  BY DEF TypeOK
<1>2. \A a \in Procs : stack'[a] = stack[a] \/ (a = p /\ stack'[a] = Front(stack[p]))
  BY DEF TypeOK
<1> QED BY <1>1, <1>2, FramesPopped DEF Narrower

\* A frame that neither dispatches nor handles, after others that are no more.
LEMMA IdleNarrows ==
  ASSUME NEW s \in Seq(Frame), NEW u \in Seq(Frame), Todo(s) \subseteq Todo(u), Handling(s) \subseteq Handling(u),
         NEW f \in {Swap} \union {Wait(ph, i) : ph \in {"check", "sleep"}, i \in Ids \union {0}}
  PROVE  /\ Append(s, f) \in Seq(Frame)
         /\ Todo(Append(s, f)) \subseteq Todo(u) /\ Handling(Append(s, f)) \subseteq Handling(u)
<1>1. f \in Frame /\ f.at # "handler" /\ f.todo = <<>>
  BY Frames DEF Swap, Wait
<1>2. ToSet(<<>>) = {}
  BY DEF ToSet
<1> QED BY <1>1, <1>2, FramesPushed, Appended

LEMMA NewIdIsNew == TypeOK => \A p \in Procs : NewId(p) => NextId(p) \in Ids /\ NextId(p) > lastId[p]
<1> SUFFICES ASSUME TypeOK, NEW p \in Procs, NewId(p) PROVE NextId(p) \in Ids /\ NextId(p) > lastId[p]
  OBVIOUS
<1>1. lastId[p] \in Nat
  BY DEF TypeOK
<1> QED BY <1>1, IdTypes DEF NextId

\* dispatchOneMessage with nothing else on the main thread: the message was sent
\* before all that is still to come, on either path.
LEMMA OldestIsFirst ==
  ASSUME TypeOK, Sorted, InLine, Ordered, NEW p \in Procs, stack[p] = <<>>, runLoop[p] # <<>>,
         Head(runLoop[p]) = "one", incoming[p] # <<>>,
         NEW m \in ToSet(out[Peer(p)]) \union ToSet(wire[p]) \union ToSet(Tail(incoming[p])) \union ToSet(syncQueue[p])
  PROVE  Ahead(Head(incoming[p]), m)
<1> DEFINE h == Head(incoming[p])
<1>1. /\ incoming[p] \in Seq(Message) /\ h = incoming[p][1] /\ 1 \in 1..Len(incoming[p])
      /\ \A i \in 1..Len(Tail(incoming[p])) : i + 1 \in 1..Len(incoming[p]) /\ 1 < i + 1 /\ Tail(incoming[p])[i] = incoming[p][i + 1]
      /\ Tail(incoming[p]) \in Seq(Message)
  <2>1. incoming[p] \in Seq(Message)
    BY DEF TypeOK
  <2> QED BY <2>1, TailFacts
<1>2. out[Peer(p)] \in Seq(Message) /\ wire[p] \in Seq(Message) /\ syncQueue[p] \in Seq(Message) /\ runLoop[p] \in Seq(Work)
  BY Ends DEF TypeOK, Work
<1>3. InOrder(incoming[p], wire[p], out[Peer(p)], lastId[Peer(p)])
  BY DEF InLine
<1>e. \A s \in Seq(Message) : \A x \in ToSet(s) : \E i \in 1..Len(s) : x = s[i]
  BY LenProperties DEF ToSet
<1>4. CASE m \in ToSet(out[Peer(p)])
  <2>1. PICK i \in 1..Len(out[Peer(p)]) : m = out[Peer(p)][i]
    BY <1>2, <1>4, <1>e
  <2> QED BY <1>1, <1>3, <2>1 DEF InOrder, Before
<1>5. CASE m \in ToSet(wire[p])
  <2>1. PICK i \in 1..Len(wire[p]) : m = wire[p][i]
    BY <1>2, <1>5, <1>e
  <2> QED BY <1>1, <1>3, <2>1 DEF InOrder, Before
<1>6. CASE m \in ToSet(Tail(incoming[p]))
  <2>1. PICK i \in 1..Len(Tail(incoming[p])) : m = Tail(incoming[p])[i]
    BY <1>1, <1>6, <1>e
  <2> QED BY <1>1, <1>3, <2>1 DEF InOrder, Increasing
<1>7. CASE m \in ToSet(syncQueue[p])
  <2>1. PICK j \in 1..Len(syncQueue[p]) : m = syncQueue[p][j]
    BY <1>2, <1>7, <1>e
  <2>2. ~Resetting(p)
    BY NotResetting DEF At
  <2>3. Turns(runLoop[p], incoming[p], syncQueue[p], scheduled[p], FALSE)
    <3>1. Turns(runLoop[p], incoming[p], syncQueue[p], scheduled[p], Resetting(p))
      BY DEF Ordered
    <3> QED BY <2>2, <3>1 DEF Turns
  <2>4. syncQueue[p] # <<>>
    BY <2>1, EmptySeq
  <2>5. PICK k \in 1..Len(runLoop[p]) : runLoop[p][k] = "sync"
    BY <2>3, <2>4 DEF Turns
  <2>6. 1 \in 1..Ones(runLoop[p], k)
    <3>1. Len(runLoop[p]) \in Nat /\ k \in Nat /\ 1 \in 1..k /\ runLoop[p][1] = "one"
      BY <1>2, LenProperties, HeadTailProperties
    <3>2. CountTo(runLoop[p], k, {"one"}) \in Nat /\ CountTo(runLoop[p], k, {"one"}) # 0
      <4>1. /\ CountTo(runLoop[p], k, {"one"}) \in Nat
            /\ CountTo(runLoop[p], k, {"one"}) = 0 <=> \A i \in 1..k : runLoop[p][i] \notin {"one"}
        BY <3>1, CountToType
      <4> QED BY <3>1, <4>1
    <3> QED BY <3>2 DEF Ones
  <2>7. Ahead(incoming[p][1], syncQueue[p][j])
    BY <2>3, <2>5, <2>6 DEF Turns
  <2> QED BY <1>1, <2>1, <2>7
<1> QED BY <1>4, <1>5, <1>6, <1>7

LEMMA NextFirst == TypeOK /\ Sorted /\ OnceOnly /\ InLine /\ Ordered /\ InTurnFirst /\ [Next]_vars => InTurnFirst'
<1> SUFFICES ASSUME TypeOK, Sorted, OnceOnly, InLine, Ordered, InTurnFirst, [Next]_vars PROVE InTurnFirst'
  OBVIOUS
<1>i. TypeOK /\ Sorted /\ OnceOnly /\ InTurnFirst
  OBVIOUS
<1>0. ASSUME UNCHANGED <<out, wire, incoming, syncQueue, stack>> PROVE InTurnFirst'
  BY <1>0, FirstQuiet, NothingNew
<1>q. ASSUME NEW p \in Procs, UNCHANGED <<wire, incoming, syncQueue>>,
             stack' = stack \/ (stack[p] # <<>> /\ stack' = [stack EXCEPT ![p] = Front(@)]),
             out' = out \/ \A a \in Procs : NewIn(a)
      PROVE  InTurnFirst'
  BY <1>q, FirstQuiet, NothingNew, PopNarrows
<1>r. ASSUME NEW p \in Procs, stack[p] # <<>>, Top(p).msg.kind = "sync", SendMessage(p, "reply", Top(p).msg.id, FALSE)
      PROVE  \A a \in Procs : NewIn(a)
  <2>1. Top(p).msg.id \in Ids
    BY <1>r, TopTypes, Fields
  <2> QED BY <1>r, <2>1, SentIsNew
<1>1. ASSUME NEW p \in Procs, AppSends(p) PROVE InTurnFirst'
  <2>1. CASE SendSync(p)
    <3>1. /\ NewId(p) /\ SendMessage(p, "sync", NextId(p), TRUE) /\ UNCHANGED <<wire, incoming, syncQueue>>
          /\ stack' = [stack EXCEPT ![p] = Append(Append(@, Wait("check", NextId(p))), Swap)]
      BY <2>1 DEF SendSync, inVars
    <3>2. NextId(p) \in Ids /\ \A a \in Procs : NewIn(a)
      BY <3>1, NewIdIsNew, SentIsNew
    <3> DEFINE t == Append(stack[p], Wait("check", NextId(p)))
    <3>3. stack[p] \in Seq(Frame)
      BY DEF TypeOK
    <3>4. t \in Seq(Frame) /\ Todo(t) \subseteq Todo(stack[p]) /\ Handling(t) \subseteq Handling(stack[p])
      BY <3>2, <3>3, IdleNarrows
    <3>5. \A a \in Procs : stack'[a] = stack[a] \/ (a = p /\ stack'[a] = Append(t, Swap))
      BY <3>1 DEF TypeOK
    <3> HIDE DEF t
    <3>6. Todo(Append(t, Swap)) \subseteq Todo(stack[p]) /\ Handling(Append(t, Swap)) \subseteq Handling(stack[p])
      BY <3>3, <3>4, IdleNarrows
    <3>7. \A a \in Procs : Narrower(a)
      BY <3>5, <3>6 DEF Narrower
    <3> QED BY <3>1, <3>2, <3>7, FirstQuiet
  <2>2. ASSUME NEW even \in BOOLEAN, SendAsync(p, even) PROVE InTurnFirst'
    <3>1. NewId(p) /\ SendMessage(p, "async", NextId(p), even) /\ UNCHANGED <<wire, incoming, syncQueue, stack>>
      BY <2>2 DEF SendAsync, inVars, threadVars
    <3>2. \A a \in Procs : NewIn(a)
      BY <3>1, NewIdIsNew, SentIsNew
    <3> QED BY <1>q, <3>1, <3>2
  <2>3. CASE SecondarySendSync(p)
    <3>1. NewId(p) /\ SendMessage(p, "sync", NextId(p), FALSE) /\ UNCHANGED <<wire, incoming, syncQueue, stack>>
      BY <2>3 DEF SecondarySendSync, inVars
    <3>2. \A a \in Procs : NewIn(a)
      BY <3>1, NewIdIsNew, SentIsNew
    <3> QED BY <1>q, <3>1, <3>2
  <2>4. CASE SendSyncFails(p) \/ Invalidate(p)
    BY <1>0, <2>4 DEF SendSyncFails, Invalidate, netVars, inVars, threadVars
  <2>5. CASE FinishInvalid(p)
    <3>1. stack[p] # <<>> /\ stack' = [stack EXCEPT ![p] = Front(@)] /\ UNCHANGED <<wire, incoming, syncQueue>>
      BY <2>5 DEF FinishInvalid, At, inVars
    <3>2. out' = out \/ \A a \in Procs : NewIn(a)
      BY <1>r, <2>5, <3>1 DEF FinishInvalid
    <3> QED BY <1>q, <3>1, <3>2
  <2> QED BY <1>1, <2>1, <2>2, <2>3, <2>4, <2>5 DEF AppSends
<1>2. ASSUME NEW p \in Procs, MainThread(p) PROVE InTurnFirst'
  <2>1. CASE DispatchOneMessage(p)
    <3>1. /\ stack[p] = <<>> /\ runLoop[p] # <<>> /\ Head(runLoop[p]) = "one"
          /\ UNCHANGED <<out, wire, syncQueue>>
      BY <2>1 DEF DispatchOneMessage, netVars
    <3>2. CASE incoming[p] = <<>>
      BY <1>0, <2>1, <3>1, <3>2 DEF DispatchOneMessage
    <3>3. CASE incoming[p] # <<>>
      <4> DEFINE h == Head(incoming[p])
      <4>1. /\ incoming' = [incoming EXCEPT ![p] = Tail(@)]
            /\ stack' = [stack EXCEPT ![p] = IF client[p] THEN Append(stack[p], Handler(h)) ELSE stack[p]]
        BY <2>1, <3>3 DEF DispatchOneMessage, Dispatch
      <4>2. h \in Message /\ h \in InTurn /\ ToSet(Tail(incoming[p])) \subseteq ToSet(incoming[p])
        <5>1. incoming[p] \in Seq(InTurn)
          BY DEF Sorted
        <5> QED BY <3>3, <5>1, HeadTailProperties, ToSets DEF InTurn
      <4>3. \A m \in ToSet(out[Peer(p)]) \union ToSet(wire[p]) \union ToSet(Tail(incoming[p])) \union ToSet(syncQueue[p]) : Ahead(h, m)
        BY <3>1, <3>3, OldestIsFirst
      <4> HIDE DEF h
      <4>4. Todo(<<>>) = {} /\ Handling(<<>>) = {} /\ <<>> \in Seq(Frame)
        BY EmptySeq DEF Todo, Handling, ToSet
      <4>5. Todo(stack'[p]) = {} /\ Handling(stack'[p]) \subseteq {h}
        <5>1. stack'[p] = Append(<<>>, Handler(h)) \/ stack'[p] = <<>>
          BY <3>1, <4>1 DEF TypeOK
        <5>2. Handler(h) \in Frame /\ Handler(h).todo = <<>> /\ Handler(h).msg = h
          BY <4>2, Frames DEF Handler
        <5>3. ToSet(<<>>) = {}
          BY DEF ToSet
        <5> QED BY <4>4, <5>1, <5>2, <5>3, FramesPushed
      <4>6. /\ incoming'[p] = Tail(incoming[p])
            /\ \A a \in Procs : a # p => incoming'[a] = incoming[a] /\ stack'[a] = stack[a]
        BY <4>1 DEF TypeOK
      <4>7. ASSUME NEW m \in Undispatched(p)' PROVE Ahead(h, m)
        <5>1. m \in ToSet(out[Peer(p)]) \union ToSet(wire[p]) \union ToSet(Tail(incoming[p])) \union ToSet(syncQueue[p])
          BY <3>1, <4>5, <4>6, <4>7, ComingNext
        <5> QED BY <4>3, <5>1
      <4>8. \A m \in Undispatched(p)' : m \in Message
        <5>1. /\ out'[Peer(p)] \in Seq(Message) /\ wire'[p] \in Seq(Message) /\ incoming'[p] \in Seq(Message) /\ syncQueue'[p] \in Seq(Message)
          BY NextTypes, Ends DEF TypeOK
        <5>2. \A s \in Seq(Message) : ToSet(s) \subseteq Message
          BY LenProperties, ElementOfSeq DEF ToSet
        <5> QED BY <4>5, <5>1, <5>2, ComingNext
      <4> SUFFICES ASSUME NEW a \in Procs, NEW g \in Handling(stack'[a]), g.kind = "sync", ~g.marked, NEW m \in Undispatched(a)'
                   PROVE  Later(m, g.id)
        BY DEF InTurnFirst
      <4>9. CASE a = p
        <5>1. g = h
          BY <4>5, <4>9
        <5>2. Ahead(h, m) /\ m \in Message /\ m.id \in Nat /\ h.id \in Nat
          BY <4>2, <4>7, <4>8, <4>9, Fields, IdNumbers
        <5> QED BY <5>1, <5>2 DEF Ahead, Later
      <4>10. CASE a # p
        <5>1. g \in Handling(stack[a]) /\ m \in Undispatched(a)
          BY <3>1, <4>6, <4>10, StillToCome, ComingNext
        <5> QED BY <5>1 DEF InTurnFirst
      <4> QED BY <4>9, <4>10
    <3> QED BY <3>2, <3>3
  <2>2. CASE ResetDidSchedule(p)
    <3>1. stack' = [stack EXCEPT ![p] = Append(@, Swap)] /\ UNCHANGED <<out, wire, incoming, syncQueue>>
      BY <2>2 DEF ResetDidSchedule, netVars
    <3>2. Todo(Append(stack[p], Swap)) \subseteq Todo(stack[p]) /\ Handling(Append(stack[p], Swap)) \subseteq Handling(stack[p])
      <4>1. stack[p] \in Seq(Frame)
        BY DEF TypeOK
      <4> QED BY <4>1, IdleNarrows
    <3>3. \A a \in Procs : stack'[a] = stack[a] \/ (a = p /\ stack'[a] = Append(stack[p], Swap))
      BY <3>1 DEF TypeOK
    <3>4. \A a \in Procs : Narrower(a)
      BY <3>2, <3>3 DEF Narrower
    <3> QED BY <3>1, <3>4, NothingNew, FirstQuiet
  <2>3. CASE DispatchDidClose(p)
    BY <1>0, <2>3 DEF DispatchDidClose, netVars, threadVars
  <2>4. CASE SwapMessages(p)
    <3>1. /\ stack[p] # <<>> /\ stack' = [stack EXCEPT ![p] = Append(Front(@), Drain(syncQueue[p]))]
          /\ syncQueue' = [syncQueue EXCEPT ![p] = <<>>] /\ UNCHANGED <<out, wire, incoming>>
      BY <2>4 DEF SwapMessages, At, netVars
    <3>2. stack[p] \in Seq(Frame) /\ Front(stack[p]) \in Seq(Frame) /\ syncQueue[p] \in Seq(Message)
      BY <3>1, TopTypes DEF TypeOK
    <3>3. Drain(syncQueue[p]) \in Frame /\ Drain(syncQueue[p]).todo = syncQueue[p] /\ Drain(syncQueue[p]).at # "handler"
      BY <3>2, Frames DEF Drain
    <3>4. /\ Todo(Append(Front(stack[p]), Drain(syncQueue[p]))) \subseteq Todo(stack[p]) \union ToSet(syncQueue[p])
          /\ Handling(Append(Front(stack[p]), Drain(syncQueue[p]))) \subseteq Handling(stack[p])
      BY <3>1, <3>2, <3>3, FramesPushed, FramesPopped
    <3>5. /\ stack'[p] = Append(Front(stack[p]), Drain(syncQueue[p])) /\ syncQueue'[p] = <<>> /\ ToSet(<<>>) = {}
          /\ \A a \in Procs : a # p => stack'[a] = stack[a] /\ syncQueue'[a] = syncQueue[a]
      BY <3>1 DEF TypeOK, ToSet
    <3>6. ASSUME NEW a \in Procs
          PROVE  (\A m \in Undispatched(a)' : m \in Undispatched(a)) /\ \A h \in Handling(stack'[a]) : h \in Handling(stack[a])
      BY <3>1, <3>4, <3>5, StillToCome, ComingNext
    <3> QED BY <3>6, FirstKept
  <2>5. CASE DrainNext(p)
    <3> DEFINE rest == Append(Front(stack[p]), Drain(Tail(Top(p).todo)))
               h == Head(Top(p).todo)
    <3>1. /\ stack[p] # <<>> /\ Top(p).todo # <<>> /\ UNCHANGED <<out, wire, incoming, syncQueue>>
          /\ stack' = [stack EXCEPT ![p] = IF client[p] THEN Append(rest, Handler(h)) ELSE rest]
      BY <2>5 DEF DrainNext, Dispatch, At, netVars, inVars
    <3>2. /\ stack[p] \in Seq(Frame) /\ Front(stack[p]) \in Seq(Frame)
          /\ Top(p).todo \in Seq(OutOfTurn) /\ h \in OutOfTurn /\ Tail(Top(p).todo) \in Seq(OutOfTurn)
      BY <3>1, TopTypes, SortedTop, HeadTailProperties DEF TypeOK
    <3>3. /\ h \in Message /\ h.marked /\ Drain(Tail(Top(p).todo)) \in Frame
          /\ Drain(Tail(Top(p).todo)).todo = Tail(Top(p).todo) /\ Drain(Tail(Top(p).todo)).at # "handler"
          /\ ToSet(Tail(Top(p).todo)) \subseteq ToSet(Top(p).todo)
      <4>1. Drain(Tail(Top(p).todo)) \in SortedFrame
        BY <3>2, SortedFrames
      <4> QED BY <3>1, <3>2, <4>1, ToSets DEF OutOfTurn, SortedFrame, Drain
    <3>4. rest \in Seq(Frame) /\ Todo(rest) \subseteq Todo(stack[p]) /\ Handling(rest) \subseteq Handling(stack[p])
      <4>1. ToSet(Top(p).todo) \subseteq Todo(stack[p])
        BY <3>1, <3>2, FramesPopped DEF Top
      <4> QED BY <3>1, <3>2, <3>3, <4>1, FramesPushed, FramesPopped, Appended
    <3>5. Handler(h) \in Frame /\ Handler(h).todo = <<>> /\ Handler(h).msg = h /\ ToSet(<<>>) = {}
      BY <3>3, Frames DEF Handler, ToSet
    <3> HIDE DEF rest, h
    <3>6. Todo(Append(rest, Handler(h))) \subseteq Todo(stack[p]) /\ Handling(Append(rest, Handler(h))) \subseteq Handling(stack[p]) \union {h}
      BY <3>4, <3>5, FramesPushed
    <3>7. \A a \in Procs : stack'[a] = stack[a] \/ (a = p /\ (stack'[a] = Append(rest, Handler(h)) \/ stack'[a] = rest))
      BY <3>1 DEF TypeOK
    <3>8. ASSUME NEW a \in Procs
          PROVE  (\A m \in Undispatched(a)' : m \in Undispatched(a)) /\ \A g \in Handling(stack'[a]) : g \in Handling(stack[a]) \/ g.marked
      <4>1. Todo(stack'[a]) \subseteq Todo(stack[a]) /\ \A g \in Handling(stack'[a]) : g \in Handling(stack[a]) \/ g.marked
        <5>1. CASE stack'[a] = stack[a]
          BY <5>1
        <5>2. CASE a = p /\ stack'[a] = Append(rest, Handler(h))
          BY <3>3, <3>6, <5>2
        <5>3. CASE a = p /\ stack'[a] = rest
          BY <3>4, <5>3
        <5> QED BY <3>7, <5>1, <5>2, <5>3
      <4> QED BY <3>1, <4>1, StillToCome, ComingNext
    <3> QED BY <3>8, FirstKept
  <2>6. CASE DrainDone(p)
    BY <1>q, <2>6 DEF DrainDone, At, netVars, inVars
  <2>7. CASE FinishHandler(p)
    <3>1. stack[p] # <<>> /\ stack' = [stack EXCEPT ![p] = Front(@)] /\ UNCHANGED <<wire, incoming, syncQueue>>
      BY <2>7 DEF FinishHandler, At, inVars
    <3>2. out' = out \/ \A a \in Procs : NewIn(a)
      BY <1>r, <2>7, <3>1 DEF FinishHandler
    <3> QED BY <1>q, <3>1, <3>2
  <2>8. CASE CheckSyncReply(p)
    <3>1. CASE ReturnFromSync(p, Last(pending[p]).got)
      BY <1>q, <2>8, <3>1 DEF CheckSyncReply, ReturnFromSync, At, netVars, inVars
    <3>2. CASE stack' = [stack EXCEPT ![p] = Append(Front(@), Wait("sleep", Top(p).id))]
      <4>1. stack[p] # <<>> /\ UNCHANGED <<out, wire, incoming, syncQueue>>
        BY <2>8 DEF CheckSyncReply, At, netVars, inVars
      <4>2. stack[p] \in Seq(Frame) /\ Front(stack[p]) \in Seq(Frame) /\ Top(p).id \in Ids \union {0}
        BY <4>1, TopTypes DEF TypeOK
      <4> DEFINE t == Append(Front(stack[p]), Wait("sleep", Top(p).id))
      <4>3. Todo(t) \subseteq Todo(stack[p]) /\ Handling(t) \subseteq Handling(stack[p])
        BY <4>1, <4>2, FramesPopped, IdleNarrows
      <4>4. \A a \in Procs : stack'[a] = stack[a] \/ (a = p /\ stack'[a] = t)
        BY <3>2 DEF TypeOK
      <4> HIDE DEF t
      <4>5. \A a \in Procs : Narrower(a)
        BY <4>3, <4>4 DEF Narrower
      <4> QED BY <4>1, <4>5, NothingNew, FirstQuiet
    <3> QED BY <2>8, <3>1, <3>2 DEF CheckSyncReply
  <2>9. CASE WakeUp(p)
    <3>1. /\ stack[p] # <<>> /\ UNCHANGED <<out, wire, incoming, syncQueue>>
          /\ stack' = [stack EXCEPT ![p] = Append(Append(Front(@), Wait("check", Top(p).id)), Swap)]
      BY <2>9 DEF WakeUp, At, netVars, inVars
    <3>2. stack[p] \in Seq(Frame) /\ Front(stack[p]) \in Seq(Frame) /\ Top(p).id \in Ids \union {0}
      BY <3>1, TopTypes DEF TypeOK
    <3> DEFINE t == Append(Front(stack[p]), Wait("check", Top(p).id))
    <3>3. t \in Seq(Frame) /\ Todo(t) \subseteq Todo(stack[p]) /\ Handling(t) \subseteq Handling(stack[p])
      BY <3>1, <3>2, FramesPopped, IdleNarrows
    <3>4. \A a \in Procs : stack'[a] = stack[a] \/ (a = p /\ stack'[a] = Append(t, Swap))
      BY <3>1 DEF TypeOK
    <3> HIDE DEF t
    <3>5. Todo(Append(t, Swap)) \subseteq Todo(stack[p]) /\ Handling(Append(t, Swap)) \subseteq Handling(stack[p])
      BY <3>2, <3>3, IdleNarrows
    <3>6. \A a \in Procs : Narrower(a)
      BY <3>4, <3>5 DEF Narrower
    <3> QED BY <3>1, <3>6, NothingNew, FirstQuiet
  <2> QED BY <1>2, <2>1, <2>2, <2>3, <2>4, <2>5, <2>6, <2>7, <2>8, <2>9 DEF MainThread
<1>3. ASSUME NEW p \in Procs, WorkQueue(p) PROVE InTurnFirst'
  <2>1. CASE WriteMessage(p)
    <3> DEFINE q == Peer(p)
    <3>1. /\ out[p] # <<>> /\ out' = [out EXCEPT ![p] = Tail(@)] /\ wire' = [wire EXCEPT ![q] = Append(@, Head(out[p]))]
          /\ UNCHANGED <<incoming, syncQueue, stack>>
      BY <2>1 DEF WriteMessage, inVars, threadVars
    <3>2. out[p] \in Seq(Message) /\ wire[q] \in Seq(Message) /\ q \in Procs /\ Peer(q) = p /\ Head(out[p]) \in Message
      BY <3>1, Ends, HeadTailProperties DEF TypeOK
    <3>3. /\ ToSet(Tail(out[p])) \subseteq ToSet(out[p]) /\ Head(out[p]) \in ToSet(out[p])
          /\ ToSet(Append(wire[q], Head(out[p]))) = ToSet(wire[q]) \union {Head(out[p])}
      BY <3>1, <3>2, ToSets
    <3>4. /\ out'[p] = Tail(out[p]) /\ wire'[q] = Append(wire[q], Head(out[p]))
          /\ \A a \in Procs : (a # p => out'[a] = out[a]) /\ (a # q => wire'[a] = wire[a])
      BY <3>1, <3>2 DEF TypeOK
    <3>5. ASSUME NEW a \in Procs PROVE \A m \in Undispatched(a)' : m \in Undispatched(a)
      <4>1. CASE a = q
        BY <3>1, <3>2, <3>3, <3>4, <4>1, StillToCome, ComingNext
      <4>2. CASE a # q
        <5>1. Peer(a) # p /\ Peer(a) \in Procs
          BY <4>2, Ends
        <5> QED BY <3>1, <3>4, <4>2, <5>1, StillToCome, ComingNext
      <4> QED BY <4>1, <4>2
    <3> QED BY <3>1, <3>5, FirstKept
  <2>2. CASE WriteFails(p) \/ WriteShutsDown(p)
    <3>1. out[p] # <<>> /\ out' = [out EXCEPT ![p] = Tail(@)] /\ UNCHANGED <<wire, incoming, syncQueue, stack>>
      BY <2>2 DEF WriteFails, WriteShutsDown, LoseMessage, DidClose, inVars, threadVars
    <3>2. ToSet(Tail(out[p])) \subseteq ToSet(out[p])
      BY <3>1, ToSets DEF TypeOK
    <3>3. \A a \in Procs : out'[a] = out[a] \/ (a = p /\ out'[a] = Tail(out[p]))
      BY <3>1 DEF TypeOK
    <3>4. \A a \in Procs : NewIn(a)
      BY <3>2, <3>3 DEF NewIn
    <3> QED BY <1>q, <3>1, <3>4
  <2>3. CASE ProcessIncomingMessage(p)
    <3> DEFINE m == Head(wire[p])
    <3>1. wire[p] # <<>> /\ wire' = [wire EXCEPT ![p] = Tail(@)] /\ UNCHANGED <<out, stack>>
      BY <2>3 DEF ProcessIncomingMessage
    <3>2. m \in Message /\ m \in ToSet(wire[p]) /\ ToSet(Tail(wire[p])) \subseteq ToSet(wire[p])
      <4>1. wire[p] \in Seq(Message)
        BY DEF TypeOK
      <4> QED BY <3>1, <4>1, HeadTailProperties, ToSets
    <3>3. /\ ToSet(Append(incoming[p], m)) = ToSet(incoming[p]) \union {m}
          /\ ToSet(Append(syncQueue[p], m)) = ToSet(syncQueue[p]) \union {m}
      <4>1. incoming[p] \in Seq(Message) /\ syncQueue[p] \in Seq(Message)
        BY DEF TypeOK
      <4> QED BY <3>2, <4>1, ToSets
    <3>4. \/ UNCHANGED <<incoming, syncQueue>>
          \/ syncQueue' = [syncQueue EXCEPT ![p] = Append(@, m)] /\ UNCHANGED incoming
          \/ incoming' = [incoming EXCEPT ![p] = Append(@, m)] /\ UNCHANGED syncQueue
      BY <2>3 DEF ProcessIncomingMessage, ProcessMarked, inVars
    <3> HIDE DEF m
    <3>5. \A a \in Procs : /\ ToSet(wire'[a]) \subseteq ToSet(wire[a])
                           /\ ToSet(incoming'[a]) \subseteq ToSet(incoming[a]) \union ToSet(wire[a])
                           /\ ToSet(syncQueue'[a]) \subseteq ToSet(syncQueue[a]) \union ToSet(wire[a])
      <4>1. \A a \in Procs : wire'[a] = wire[a] \/ (a = p /\ wire'[a] = Tail(wire[p]))
        BY <3>1 DEF TypeOK
      <4>2. \A a \in Procs : /\ incoming'[a] = incoming[a] \/ (a = p /\ incoming'[a] = Append(incoming[p], m))
                             /\ syncQueue'[a] = syncQueue[a] \/ (a = p /\ syncQueue'[a] = Append(syncQueue[p], m))
        BY <3>4 DEF TypeOK
      <4> QED BY <3>2, <3>3, <4>1, <4>2
    <3>6. \A a \in Procs : \A x \in Undispatched(a)' : x \in Undispatched(a)
      BY <3>1, <3>5, StillToCome, ComingNext
    <3> QED BY <3>1, <3>6, FirstKept
  <2>4. CASE WriteBlocks(p) \/ ConnectionDidClose(p) \/ ReadFails(p) \/ PlatformInvalidate(p) \/ PerformClose(p)
    BY <1>0, <2>4 DEF WriteBlocks, ConnectionDidClose, DidClose, ReadFails, PlatformInvalidate, PerformClose,
                      inVars, threadVars
  <2> QED BY <1>3, <2>1, <2>2, <2>3, <2>4 DEF WorkQueue
<1>4. ASSUME NEW p \in Procs, SendDelayedReply(p) PROVE InTurnFirst'
  <2>1. PICK id \in delayed[p] : SendMessage(p, "reply", id, FALSE) /\ UNCHANGED <<wire, incoming, syncQueue, stack>>
    BY <1>4 DEF SendDelayedReply, inVars
  <2>2. id \in Ids
    BY DEF TypeOK
  <2>3. \A a \in Procs : NewIn(a)
    BY <2>1, <2>2, SentIsNew
  <2> QED BY <1>q, <2>1, <2>3
<1>5. ASSUME NEW p \in Procs, SyncTimesOut(p) PROVE InTurnFirst'
  BY <1>q, <1>5 DEF SyncTimesOut, ReturnFromSync, At, netVars, inVars
<1>6. ASSUME NEW p \in Procs, SecondaryReturns(p) \/ Crash(p) PROVE InTurnFirst'
  BY <1>0, <1>6 DEF SecondaryReturns, Crash, netVars, inVars, threadVars
<1>7. CASE UNCHANGED vars
  BY <1>0, <1>7 DEF vars, netVars, inVars, threadVars
<1> QED BY <1>1, <1>2, <1>3, <1>4, <1>5, <1>6, <1>7 DEF Next

\* WebProcess.cpp counts on it for the policy messages: a synchronous request that is
\* not to be dispatched while waiting never gets ahead of what its sender sent before,
\* in whichever of dispatchOneMessage, dispatchMessages and the two nested waits it runs.
THEOREM SyncKeepsItsTurn == Spec => []UnmarkedSyncOvertakesNothing
<1> DEFINE I == TypeOK /\ Nested /\ Sorted /\ Known /\ OnceOnly /\ InLine /\ Ordered /\ InTurnFirst
<1>1. Init => I
  <2>1. Init => InTurnFirst
    BY DEF Init, InTurnFirst, Handling, ToSet
  <2> QED BY <2>1, InitTypes, InitNested, InitSorted, InitKnown, InitOnce, InitInLine, InitOrdered
<1>2. I /\ [Next]_vars => I'
  BY NextTypes, NextNested, NextSorted, NextKnown, NextOnce, NextInLine, NextOrdered, NextFirst
<1>3. I => UnmarkedSyncOvertakesNothing
  BY FirstIsProperty
<1> QED BY <1>1, <1>2, <1>3, PTL DEF Spec

=============================================================================
