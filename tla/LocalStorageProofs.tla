--------------------------- MODULE LocalStorageProofs ---------------------------
(***************************************************************************)
(* The local storage area and its copies, for any processes, keys, values  *)
(* and quota and any number of operations.                                 *)
(*                                                                         *)
(* The markers are proved exact whatever the order in which the manager    *)
(* runs its tasks; that the copies agree needs them to run in order.       *)
(***************************************************************************)
EXTENDS LocalStorage, SequenceTheorems, FiniteSetTheorems, FunctionTheorems, TLAPS

-----------------------------------------------------------------------------
(* Sequences, and counting their elements that are in a set V.             *)

LEMMA Appended ==
  ASSUME NEW S, NEW s \in Seq(S), NEW x \in S
  PROVE  /\ Append(s, x) \in Seq(S) /\ Len(Append(s, x)) = Len(s) + 1 /\ Len(s) \in Nat
         /\ \A i \in 1..Len(s) : Append(s, x)[i] = s[i]
         /\ Append(s, x)[Len(s) + 1] = x
BY AppendProperties, LenProperties

LEMMA Removed ==
  ASSUME NEW S, NEW s \in Seq(S), NEW i \in 1..Len(s)
  PROVE  /\ RemoveAt(s, i) \in Seq(S) /\ Len(RemoveAt(s, i)) = Len(s) - 1 /\ Len(s) \in Nat
         /\ \A j \in 1..(Len(s) - 1) : RemoveAt(s, i)[j] = IF j < i THEN s[j] ELSE s[j + 1]
<1> DEFINE a == SubSeq(s, 1, i - 1)
           b == SubSeq(s, i + 1, Len(s))
<1>0. Len(s) \in Nat /\ \A j \in 1..Len(s) : s[j] \in S
  BY LenProperties, ElementOfSeq
<1>1. /\ a \in Seq(S) /\ Len(a) = i - 1
      /\ \A j \in 1..(i - 1) : a[j] = s[j]
  <2>1. \A j \in 1..(i - 1) : s[j] \in S
    BY <1>0
  <2>2. 1 \in Int /\ i - 1 \in Int /\ i - 1 >= 1 - 1
    BY <1>0
  <2> QED BY <1>0, <2>1, <2>2, SubSeqProperties
<1>2. /\ b \in Seq(S) /\ Len(b) = Len(s) - i
      /\ \A j \in 1..(Len(s) - i) : b[j] = s[j + i]
  <2>1. \A j \in (i + 1)..Len(s) : s[j] \in S
    BY <1>0
  <2> QED BY <1>0, <2>1, SubSeqProperties
<1> HIDE DEF a, b
<1>3. /\ a \o b \in Seq(S) /\ Len(a \o b) = Len(a) + Len(b)
      /\ \A j \in 1..(Len(a) + Len(b)) : (a \o b)[j] = IF j <= Len(a) THEN a[j] ELSE b[j - Len(a)]
  BY <1>1, <1>2, ConcatProperties
<1>4. RemoveAt(s, i) = a \o b
  BY DEF RemoveAt, a, b
<1>5. ASSUME NEW j \in 1..(Len(s) - 1) PROVE (a \o b)[j] = IF j < i THEN s[j] ELSE s[j + 1]
  <2>1. CASE j < i
    BY <1>0, <1>1, <1>2, <1>3, <2>1
  <2>2. CASE ~(j < i)
    <3>1. (a \o b)[j] = b[j - (i - 1)]
      BY <1>0, <1>1, <1>2, <1>3, <2>2
    <3>2. j - (i - 1) \in 1..(Len(s) - i) /\ (j - (i - 1)) + i = j + 1
      BY <1>0, <2>2
    <3> QED BY <1>2, <2>2, <3>1, <3>2
  <2> QED BY <2>1, <2>2
<1> QED BY <1>0, <1>1, <1>2, <1>3, <1>4, <1>5

\* How many of the first n elements are in V; how many of all are.
CountTo(s, n, V) == Cardinality({i \in 1..n : s[i] \in V})
Count(s, V)      == CountTo(s, Len(s), V)

LEMMA CountToType ==
  ASSUME NEW s, NEW n \in Nat, NEW V
  PROVE  /\ CountTo(s, n, V) \in Nat /\ CountTo(s, n, V) <= n
         /\ IsFiniteSet({i \in 1..n : s[i] \in V})
         /\ CountTo(s, n, V) = 0 <=> \A i \in 1..n : s[i] \notin V
<1> DEFINE H == {i \in 1..n : s[i] \in V}
<1>1. IsFiniteSet(1..n) /\ Cardinality(1..n) = n
  <2>1. n >= 1 => IsFiniteSet(1..n) /\ Cardinality(1..n) = n - 1 + 1
    BY FS_Interval
  <2>2. n = 0 => 1..n = {}
    OBVIOUS
  <2>3. n = 0 => IsFiniteSet(1..n) /\ Cardinality(1..n) = 0
    BY <2>2, FS_EmptySet
  <2> QED BY <2>1, <2>3
<1>2. H \subseteq 1..n
  OBVIOUS
<1>3. IsFiniteSet(H) /\ Cardinality(H) <= n
  BY <1>1, <1>2, FS_Subset
<1>4. Cardinality(H) \in Nat
  BY <1>3, FS_CardinalityType
<1>5. Cardinality(H) = 0 <=> H = {}
  BY <1>3, FS_EmptySet
<1>6. H = {} <=> \A i \in 1..n : s[i] \notin V
  OBVIOUS
<1> QED BY <1>3, <1>4, <1>5, <1>6 DEF CountTo

LEMMA CountType ==
  ASSUME NEW S, NEW s \in Seq(S), NEW V
  PROVE  /\ Count(s, V) \in Nat /\ Count(s, V) <= Len(s)
         /\ Count(s, V) = 0 <=> \A i \in 1..Len(s) : s[i] \notin V
<1>1. Len(s) \in Nat
  BY LenProperties
<1> QED BY <1>1, CountToType DEF Count

\* What one more index adds to a count.
LEMMA CountNext ==
  ASSUME NEW s, NEW n \in Nat, NEW V
  PROVE  CountTo(s, n + 1, V) = CountTo(s, n, V) + (IF s[n + 1] \in V THEN 1 ELSE 0)
<1> DEFINE H == {i \in 1..n : s[i] \in V}
           G == {i \in 1..(n + 1) : s[i] \in V}
<1>0. IsFiniteSet(H) /\ Cardinality(H) \in Nat
  BY CountToType, FS_CardinalityType
<1>1. IsFiniteSet(H) /\ n + 1 \notin H /\ Cardinality(H) \in Nat
  BY <1>0
<1>2. \A i : i \in 1..(n + 1) <=> i \in 1..n \/ i = n + 1
  OBVIOUS
<1>3. CASE s[n + 1] \in V
  <2>1. G = H \union {n + 1}
    BY <1>2, <1>3
  <2>2. Cardinality(H \union {n + 1}) = Cardinality(H) + 1
    BY <1>1, FS_AddElement
  <2> QED BY <1>3, <2>1, <2>2 DEF CountTo
<1>4. CASE s[n + 1] \notin V
  <2>1. G = H
    BY <1>2, <1>4
  <2> QED BY <1>1, <1>4, <2>1 DEF CountTo
<1> QED BY <1>3, <1>4

LEMMA CountSame ==
  ASSUME NEW s, NEW t, NEW n \in Nat, NEW V, \A i \in 1..n : s[i] \in V <=> t[i] \in V
  PROVE  CountTo(s, n, V) = CountTo(t, n, V)
<1>1. {i \in 1..n : s[i] \in V} = {i \in 1..n : t[i] \in V}
  OBVIOUS
<1> QED BY <1>1 DEF CountTo

LEMMA CountAppend ==
  ASSUME NEW S, NEW s \in Seq(S), NEW x \in S, NEW V
  PROVE  /\ Count(Append(s, x), V) = Count(s, V) + (IF x \in V THEN 1 ELSE 0)
         /\ \A n \in 0..Len(s) : CountTo(Append(s, x), n, V) = CountTo(s, n, V)
<1> DEFINE t == Append(s, x)
<1>1. Len(t) = Len(s) + 1 /\ Len(s) \in Nat /\ t[Len(s) + 1] = x /\ \A i \in 1..Len(s) : t[i] = s[i]
  BY Appended
<1> HIDE DEF t
<1>2. ASSUME NEW n \in 0..Len(s) PROVE CountTo(t, n, V) = CountTo(s, n, V)
  <2>1. n \in Nat /\ \A i \in 1..n : t[i] \in V <=> s[i] \in V
    BY <1>1
  <2> QED BY <2>1, CountSame
<1>3. CountTo(t, Len(s), V) = CountTo(s, Len(s), V)
  BY <1>1, <1>2
<1>4. CountTo(t, Len(s) + 1, V) = CountTo(t, Len(s), V) + (IF x \in V THEN 1 ELSE 0)
  BY <1>1, CountNext
<1> QED BY <1>1, <1>2, <1>3, <1>4 DEF Count, t

LEMMA CountTail ==
  ASSUME NEW S, NEW s \in Seq(S), s # <<>>, NEW V
  PROVE  /\ Tail(s) \in Seq(S) /\ Head(s) \in S
         /\ Count(s, V) = Count(Tail(s), V) + (IF Head(s) \in V THEN 1 ELSE 0)
         /\ \A n \in 0..Len(Tail(s)) :
              CountTo(s, n + 1, V) = CountTo(Tail(s), n, V) + (IF Head(s) \in V THEN 1 ELSE 0)
<1> DEFINE t == Tail(s)
<1>1. /\ t \in Seq(S) /\ Len(t) = Len(s) - 1 /\ Len(s) \in Nat /\ Len(s) >= 1 /\ Len(t) \in Nat
      /\ \A i \in 1..Len(t) : t[i] = s[i + 1]
      /\ Head(s) = s[1] /\ Head(s) \in S
  BY HeadTailProperties, LenProperties, EmptySeq
<1> HIDE DEF t
<1>2. ASSUME NEW n \in 0..Len(t)
      PROVE  CountTo(s, n + 1, V) = CountTo(t, n, V) + (IF Head(s) \in V THEN 1 ELSE 0)
  <2> DEFINE H == {i \in 1..n : t[i] \in V}
             K == {i \in 2..(n + 1) : s[i] \in V}
             G == {i \in 1..(n + 1) : s[i] \in V}
             f == [i \in H |-> i + 1]
  <2>1. n \in Nat
    BY <1>1
  <2>2. \A i \in 1..n : t[i] = s[i + 1]
    BY <1>1
  <2>3. IsFiniteSet(H)
    BY <2>1, CountToType
  <2>4. f \in Bijection(H, K)
    <3>1. \A i \in H : f[i] \in K
      BY <2>1, <2>2
    <3>2. \A k \in K : k - 1 \in H /\ f[k - 1] = k
      BY <2>1, <2>2
    <3>3. \A i, j \in H : f[i] = f[j] => i = j
      BY <2>1
    <3>4. \A k \in K : \E i \in H : f[i] = k
      BY <3>2
    <3> QED BY <3>1, <3>3, <3>4, Fun_IsBij
  <2>5. Cardinality(K) = Cardinality(H) /\ IsFiniteSet(K)
    BY <2>3, <2>4, FS_Bijection DEF ExistsBijection
  <2>6. CASE Head(s) \in V
    <3>1. G = K \union {1} /\ 1 \notin K
      <4>1. \A i : i \in 1..(n + 1) <=> i = 1 \/ i \in 2..(n + 1)
        BY <2>1
      <4>2. 1 \notin 2..(n + 1) /\ s[1] \in V
        BY <1>1, <2>6
      <4> QED BY <4>1, <4>2
    <3>2. Cardinality(K \union {1}) = Cardinality(K) + 1
      BY <2>5, <3>1, FS_AddElement
    <3>3. CountTo(s, n + 1, V) = Cardinality(K) + 1 /\ CountTo(t, n, V) = Cardinality(K)
      BY <2>5, <3>1, <3>2 DEF CountTo
    <3> QED BY <2>6, <3>3
  <2>7. CASE Head(s) \notin V
    <3>1. G = K
      BY <1>1, <2>1, <2>7
    <3>2. Cardinality(H) \in Nat
      BY <2>3, FS_CardinalityType
    <3>3. CountTo(s, n + 1, V) = Cardinality(H) /\ CountTo(t, n, V) = Cardinality(H)
      BY <2>5, <3>1 DEF CountTo
    <3> QED BY <2>7, <3>2, <3>3
  <2> QED BY <2>6, <2>7
<1>3. Count(s, V) = Count(t, V) + (IF Head(s) \in V THEN 1 ELSE 0)
  <2>1. Len(t) + 1 = Len(s) /\ Len(t) \in 0..Len(t)
    BY <1>1
  <2> QED BY <1>2, <2>1 DEF Count
<1> QED BY <1>1, <1>2, <1>3 DEF t

LEMMA CountRemoved ==
  ASSUME NEW S, NEW s \in Seq(S), NEW i \in 1..Len(s), NEW V
  PROVE  Count(s, V) = Count(RemoveAt(s, i), V) + (IF s[i] \in V THEN 1 ELSE 0)
<1> DEFINE r == RemoveAt(s, i)
<1>1. /\ r \in Seq(S) /\ Len(r) = Len(s) - 1 /\ Len(s) \in Nat
      /\ \A j \in 1..(Len(s) - 1) : r[j] = IF j < i THEN s[j] ELSE s[j + 1]
  BY Removed
<1> HIDE DEF r
<1> DEFINE H == {j \in 1..Len(r) : r[j] \in V}
           G == {j \in 1..Len(s) : s[j] \in V}
           K == G \ {i}
           f == [j \in H |-> IF j < i THEN j ELSE j + 1]
<1>2. IsFiniteSet(H) /\ Cardinality(H) \in Nat /\ IsFiniteSet(G) /\ Cardinality(G) \in Nat
  <2>1. Len(r) \in Nat
    BY <1>1
  <2>2. IsFiniteSet(H) /\ IsFiniteSet(G)
    BY <1>1, <2>1, CountToType
  <2> QED BY <2>2, FS_CardinalityType
<1>3. f \in Bijection(H, K)
  <2>1. \A j \in H : f[j] \in K
    BY <1>1
  <2>2. \A j, k \in H : f[j] = f[k] => j = k
    BY <1>1
  <2>3. ASSUME NEW k \in K PROVE \E j \in H : f[j] = k
    <3>1. CASE k < i
      <4>1. k \in 1..(Len(s) - 1)
        BY <1>1, <3>1
      <4>2. k \in H
        BY <1>1, <3>1, <4>1
      <4>3. f[k] = k
        BY <3>1, <4>2
      <4> QED BY <4>2, <4>3
    <3>2. CASE ~(k < i)
      <4>1. k - 1 \in 1..(Len(s) - 1) /\ ~(k - 1 < i) /\ (k - 1) + 1 = k
        BY <1>1, <3>2
      <4>2. k - 1 \in H
        BY <1>1, <4>1
      <4>3. f[k - 1] = k
        BY <4>1, <4>2
      <4> QED BY <4>2, <4>3
    <3> QED BY <3>1, <3>2
  <2> QED BY <2>1, <2>2, <2>3, Fun_IsBij
<1>4. Cardinality(K) = Cardinality(H) /\ IsFiniteSet(K)
  BY <1>2, <1>3, FS_Bijection DEF ExistsBijection
<1>5. CASE s[i] \in V
  <2>1. G = K \union {i} /\ i \notin K
    BY <1>5
  <2>2. Cardinality(K \union {i}) = Cardinality(K) + 1
    BY <1>4, <2>1, FS_AddElement
  <2> QED BY <1>4, <1>5, <2>1, <2>2 DEF Count, CountTo, r
<1>6. CASE s[i] \notin V
  <2>0. i \notin G
    BY <1>6
  <2>1. G = K
    BY <2>0
  <2>2. Cardinality(G) = Cardinality(H)
    BY <1>4, <2>1
  <2>3. Count(s, V) = Cardinality(G) /\ Count(RemoveAt(s, i), V) = Cardinality(H)
    BY DEF Count, CountTo, r
  <2> QED BY <1>2, <1>6, <2>2, <2>3
<1> QED BY <1>5, <1>6

-----------------------------------------------------------------------------
(* What the manager tells.                                                  *)

\* toProcess' after an acknowledgement alone.
Noted(p, ack) ==
  toProcess' = [toProcess EXCEPT ![p] = Append(@, ack)]

LEMMA ToldNothing ==
  ASSUME TypeOK, NEW p \in Procs, NEW ack \in Notice, Tell(p, NoEvent, ack)
  PROVE  Noted(p, ack)
<1>1. \A q \in Procs : toProcess[q] \in Seq(Notice)
  BY DEF TypeOK
<1>2. toProcess' = [q \in Procs |-> toProcess[q] \o <<>> \o (IF q = p THEN <<ack>> ELSE <<>>)]
  BY DEF Tell, NoEvent
<1>3. ASSUME NEW q \in Procs PROVE toProcess[q] \o <<>> = toProcess[q]
  BY <1>1, ConcatEmptySeq
<1>4. toProcess' = [q \in Procs |-> toProcess[q] \o (IF q = p THEN <<ack>> ELSE <<>>)]
  BY <1>2, <1>3
<1>5. toProcess[p] \o <<ack>> = Append(toProcess[p], ack)
  BY <1>1, AppendIsConcat
<1>6. toProcess' = [q \in Procs |-> IF q = p THEN Append(toProcess[p], ack) ELSE toProcess[q]]
  BY <1>3, <1>4, <1>5
<1>7. toProcess \in [Procs -> Seq(Notice)]
  BY DEF TypeOK
<1> QED BY <1>6, <1>7 DEF Noted

\* toProcess' after an event and the acknowledgement.
Heard(p, k, v, ack) ==
  toProcess' = [q \in Procs |->
                  IF q = p THEN Append(Append(toProcess[q], Event(p, q, k, v)), ack)
                  ELSE Append(toProcess[q], Event(p, q, k, v))]

LEMMA ToldOne ==
  ASSUME TypeOK, NEW p \in Procs, NEW ack \in Notice,
         NEW k \in Keys \union {Null}, NEW v \in Values \union {Null}, Tell(p, OneEvent(k, v), ack)
  PROVE  /\ Heard(p, k, v, ack)
         /\ \A q \in Procs : Event(p, q, k, v) \in Notice
<1>1. \A q \in Procs : toProcess[q] \in Seq(Notice)
  BY DEF TypeOK
<1>2. \A q \in Procs : Event(p, q, k, v) \in Notice
  BY DEF Event, Msg, Notice
<1>3. OneEvent(k, v) # {} /\ (CHOOSE e \in OneEvent(k, v) : TRUE) = [key |-> k, value |-> v]
  BY DEF OneEvent
<1>4. toProcess' = [q \in Procs |-> toProcess[q] \o <<Event(p, q, k, v)>> \o (IF q = p THEN <<ack>> ELSE <<>>)]
  <2> DEFINE E == OneEvent(k, v)
             g == [key |-> k, value |-> v]
  <2>1. toProcess' = [q \in Procs |-> toProcess[q]
                        \o (IF E = {} THEN <<>> ELSE LET e == CHOOSE e \in E : TRUE IN <<Event(p, q, e.key, e.value)>>)
                        \o (IF q = p THEN <<ack>> ELSE <<>>)]
    BY DEF Tell
  <2>2. E # {} /\ (CHOOSE e \in E : TRUE) = g
    BY <1>3
  <2>3. g.key = k /\ g.value = v
    OBVIOUS
  <2> HIDE DEF E, g
  <2> QED BY <2>1, <2>2, <2>3
<1>5. ASSUME NEW q \in Procs
      PROVE  /\ toProcess[q] \o <<Event(p, q, k, v)>> = Append(toProcess[q], Event(p, q, k, v))
             /\ Append(toProcess[q], Event(p, q, k, v)) \in Seq(Notice)
  BY <1>1, <1>2, AppendIsConcat, AppendProperties
<1>6. ASSUME NEW q \in Procs
      PROVE  /\ Append(toProcess[q], Event(p, q, k, v)) \o <<>> = Append(toProcess[q], Event(p, q, k, v))
             /\ Append(toProcess[q], Event(p, q, k, v)) \o <<ack>>
                  = Append(Append(toProcess[q], Event(p, q, k, v)), ack)
  BY <1>5, AppendIsConcat, ConcatEmptySeq
<1>7. toProcess' = [q \in Procs |-> Append(toProcess[q], Event(p, q, k, v))
                                      \o (IF q = p THEN <<ack>> ELSE <<>>)]
  BY <1>4, <1>5
<1>8. Heard(p, k, v, ack)
  BY <1>6, <1>7 DEF Heard
<1> QED BY <1>2, <1>8

\* What the actions append has the type of its queue.
LEMMA Messages ==
  /\ \A s \in Nat : Msg("get", s, Null, Null, FALSE) \in Request /\ Msg("clear", s, Null, Null, FALSE) \in Request
  /\ \A s \in Nat, k \in Keys, v \in Values \union {Null}, op \in {"set", "remove"} :
       Msg(op, s, k, v, FALSE) \in Request
  /\ \A s \in Nat, k \in Keys \union {Null}, v \in Values \union {Null}, f \in BOOLEAN,
        op \in {"didGet", "didSet", "didRemove", "didClear", "event", "clearCache"} :
       Msg(op, s, k, v, f) \in Notice
BY DEF Msg, Request, Notice

LEMMA Queued ==
  ASSUME TypeOK, NEW p \in Procs
  PROVE  /\ \A i \in DOMAIN toManager[p] : toManager[p][i] \in Request /\ i \in 1..Len(toManager[p])
         /\ \A i \in Runnable(p) : i \in DOMAIN toManager[p]
         /\ \A i \in Runnable(p) : toManager[p][i].seed \in Nat /\ toManager[p][i].key \in Keys \union {Null}
                                     /\ toManager[p][i].value \in Values \union {Null}
                                     /\ toManager[p][i].op \in {"get", "set", "remove", "clear"}
<1>1. toManager[p] \in Seq(Request)
  BY DEF TypeOK
<1>2. \A i \in DOMAIN toManager[p] : toManager[p][i] \in Request /\ i \in 1..Len(toManager[p])
  BY <1>1, LenProperties, ElementOfSeq
<1>3. \A i \in Runnable(p) : i \in DOMAIN toManager[p]
  BY DEF Runnable
<1> QED BY <1>2, <1>3 DEF Request

-----------------------------------------------------------------------------
(* Types.                                                                  *)

LEMMA InitTypes == Init => TypeOK
<1> SUFFICES ASSUME Init PROVE TypeOK
  OBVIOUS
<1>1. Empty \in Items
  BY DEF Empty, Items
<1>2. ops \in [Procs -> 0..MaxOps] /\ deletes \in 0..MaxDeletes
  BY LocalStorageAssumption DEF Init
<1>3. toManager \in [Procs -> Seq(Request)] /\ toProcess \in [Procs -> Seq(Notice)]
  BY EmptySeq DEF Init
<1> QED BY <1>1, <1>2, <1>3 DEF Init, TypeOK

\* The types of what a process keeps for itself.
CopyOK ==
  /\ loaded \in [Procs -> BOOLEAN] /\ map \in [Procs -> Items] /\ seed \in [Procs -> Nat]
  /\ pendingValues \in [Procs -> [Keys -> Nat]]
  /\ pendingClear \in [Procs -> BOOLEAN] /\ pendingGet \in [Procs -> BOOLEAN] /\ hurt \subseteq Procs

RestOK ==
  /\ area \in Items /\ waiting \in [Procs -> BOOLEAN] /\ reply \in [Procs -> SUBSET Items]
  /\ toManager \in [Procs -> Seq(Request)] /\ toProcess \in [Procs -> Seq(Notice)]
  /\ ops \in [Procs -> 0..MaxOps] /\ deletes \in 0..MaxDeletes

LEMMA PartsNext == CopyOK' /\ RestOK' => TypeOK'
BY DEF TypeOK, CopyOK, RestOK

LEMMA EmptyType == Empty \in Items /\ [k \in Keys |-> Null] \in Items /\ [k \in Keys |-> 0] \in [Keys -> Nat]
BY DEF Empty, Items

LEMMA SendType ==
  ASSUME TypeOK, NEW p \in Procs, NEW m \in Request, Send(p, m)
  PROVE  toManager' \in [Procs -> Seq(Request)]
<1>1. Append(toManager[p], m) \in Seq(Request)
  BY AppendProperties DEF TypeOK
<1> QED BY <1>1 DEF Send, TypeOK

LEMMA OpType ==
  ASSUME TypeOK, NEW p \in Procs, CountOp(p)
  PROVE  ops' \in [Procs -> 0..MaxOps]
<1>1. ops[p] + 1 \in 0..MaxOps
  BY LocalStorageAssumption DEF CountOp, TypeOK
<1> QED BY <1>1 DEF CountOp, TypeOK

LEMMA ScriptTypes ==
  ASSUME TypeOK, NEW p \in Procs, Scripts(p)
  PROVE  TypeOK'
<1>0. seed \in [Procs -> Nat] /\ seed[p] + 1 \in Nat
  BY DEF TypeOK
<1>1. CASE StartLoad(p)
  <2>1. toManager' \in [Procs -> Seq(Request)]
    BY <1>0, <1>1, Messages, SendType DEF StartLoad
  <2>2. ops' \in [Procs -> 0..MaxOps]
    BY <1>1, OpType DEF StartLoad
  <2> QED BY <1>1, <2>1, <2>2 DEF StartLoad, copyVars, TypeOK
<1>2. CASE Clear(p)
  <2>1. toManager' \in [Procs -> Seq(Request)]
    BY <1>0, <1>2, Messages, SendType DEF Clear
  <2>2. ops' \in [Procs -> 0..MaxOps]
    BY <1>2, OpType DEF Clear
  <2>3. CopyOK'
    BY <1>2, EmptyType DEF Clear, ResetValues, CopyOK, TypeOK
  <2>4. RestOK'
    BY <1>2, <2>1, <2>2 DEF Clear, RestOK, TypeOK
  <2> QED BY <2>3, <2>4, PartsNext
<1>3. ASSUME NEW k \in Keys, NEW v \in Values \union {Null}, ChangeItem(p, k, v) PROVE TypeOK'
  <2>1. toManager' \in [Procs -> Seq(Request)]
    <3>1. (IF v = Null THEN "remove" ELSE "set") \in {"set", "remove"}
      OBVIOUS
    <3>2. Msg(IF v = Null THEN "remove" ELSE "set", seed[p], k, v, FALSE) \in Request
      BY <1>0, <3>1, Messages
    <3> QED BY <1>3, <3>2, SendType DEF ChangeItem
  <2>2. ops' \in [Procs -> 0..MaxOps]
    BY <1>3, OpType DEF ChangeItem
  <2>3. CopyOK'
    <3>1. [map[p] EXCEPT ![k] = v] \in Items /\ map \in [Procs -> Items]
      BY DEF TypeOK, Items
    <3>2. map' = [map EXCEPT ![p] = [map[p] EXCEPT ![k] = v]]
      BY <1>3, <3>1 DEF ChangeItem
    <3>3. map' \in [Procs -> Items]
      BY <3>1, <3>2
    <3>4. pendingValues' \in [Procs -> [Keys -> Nat]]
      BY <1>3 DEF ChangeItem, TypeOK
    <3> QED BY <1>3, <3>3, <3>4 DEF ChangeItem, CopyOK, TypeOK
  <2>4. RestOK'
    BY <1>3, <2>1, <2>2 DEF ChangeItem, RestOK, TypeOK
  <2> QED BY <2>3, <2>4, PartsNext
<1> QED BY <1>1, <1>2, <1>3 DEF Scripts

LEMMA NotedType ==
  ASSUME TypeOK, NEW p \in Procs, NEW ack \in Notice, Noted(p, ack)
  PROVE  toProcess' \in [Procs -> Seq(Notice)]
<1>1. Append(toProcess[p], ack) \in Seq(Notice)
  BY AppendProperties DEF TypeOK
<1> QED BY <1>1 DEF Noted, TypeOK

LEMMA HeardType ==
  ASSUME TypeOK, NEW p \in Procs, NEW ack \in Notice, NEW k, NEW v,
         \A q \in Procs : Event(p, q, k, v) \in Notice, Heard(p, k, v, ack)
  PROVE  toProcess' \in [Procs -> Seq(Notice)]
<1>1. \A q \in Procs : Append(toProcess[q], Event(p, q, k, v)) \in Seq(Notice)
  BY AppendProperties DEF TypeOK
<1>2. \A q \in Procs : Append(Append(toProcess[q], Event(p, q, k, v)), ack) \in Seq(Notice)
  BY <1>1, AppendProperties
<1> QED BY <1>1, <1>2 DEF Heard

\* What the manager tells: an acknowledgement, or an event for all and one.
LEMMA TellTypes ==
  ASSUME TypeOK, NEW p \in Procs, NEW ack \in Notice,
         NEW k \in Keys \union {Null}, NEW v \in Values \union {Null},
         Tell(p, NoEvent, ack) \/ Tell(p, OneEvent(k, v), ack)
  PROVE  toProcess' \in [Procs -> Seq(Notice)]
<1>1. CASE Tell(p, NoEvent, ack)
  BY <1>1, ToldNothing, NotedType
<1>2. CASE Tell(p, OneEvent(k, v), ack)
  BY <1>2, ToldOne, HeardType
<1> QED BY <1>1, <1>2

LEMMA ReceiveType ==
  ASSUME TypeOK, NEW p \in Procs, NEW i \in Runnable(p), NEW op, Receive(p, i, op)
  PROVE  toManager' \in [Procs -> Seq(Request)] /\ toManager' = [toManager EXCEPT ![p] = RemoveAt(toManager[p], i)]
<1>1. toManager[p] \in Seq(Request) /\ i \in 1..Len(toManager[p])
  BY Queued DEF TypeOK
<1>2. RemoveAt(toManager[p], i) \in Seq(Request)
  BY <1>1, Removed
<1> QED BY <1>2 DEF Receive, TypeOK

LEMMA ManagerTypes ==
  ASSUME TypeOK, NEW p \in Procs, Manager(p)
  PROVE  TypeOK'
<1> PICK i \in Runnable(p) : GetValues(p, i) \/ SetItem(p, i) \/ RemoveItem(p, i) \/ ClearArea(p, i)
  BY DEF Manager
<1> DEFINE m == toManager[p][i]
<1>1. m.seed \in Nat /\ m.key \in Keys \union {Null} /\ m.value \in Values \union {Null}
  BY Queued
<1>2. Null \in Keys \union {Null} /\ Null \in Values \union {Null}
  OBVIOUS
<1>3. TypeOK => area \in Items
  BY DEF TypeOK
<1>4. [area EXCEPT ![m.key] = m.value] \in Items /\ [area EXCEPT ![m.key] = Null] \in Items
  BY <1>1, <1>3 DEF Items
<1>5. CASE GetValues(p, i)
  <2>1. Msg("didGet", m.seed, Null, Null, FALSE) \in Notice
    BY <1>1, Messages
  <2>2. toProcess' \in [Procs -> Seq(Notice)]
    BY <1>2, <1>5, <2>1, TellTypes DEF GetValues
  <2>3. toManager' \in [Procs -> Seq(Request)]
    BY <1>5, ReceiveType DEF GetValues
  <2> QED BY <1>5, <2>2, <2>3 DEF GetValues, Receive, copyVars, TypeOK
<1>6. CASE SetItem(p, i)
  <2> DEFINE over == OverQuota(area, m.key)
             ack == Msg("didSet", m.seed, m.key, Null, over)
  <2>1. over \in BOOLEAN
    BY DEF OverQuota
  <2>2. ack \in Notice
    BY <1>1, <2>1, Messages
  <2>3. Tell(p, NoEvent, ack) \/ Tell(p, OneEvent(m.key, m.value), ack)
    BY <1>6 DEF SetItem
  <2>4. toProcess' \in [Procs -> Seq(Notice)]
    <3> HIDE DEF m, ack
    <3> QED BY <1>1, <2>2, <2>3, TellTypes
  <2>5. toManager' \in [Procs -> Seq(Request)]
    BY <1>6, ReceiveType DEF SetItem
  <2>6. area' \in Items
    BY <1>3, <1>4, <1>6 DEF SetItem
  <2> QED BY <1>6, <2>4, <2>5, <2>6 DEF SetItem, Receive, copyVars, TypeOK
<1>7. CASE RemoveItem(p, i)
  <2> DEFINE ack == Msg("didRemove", m.seed, m.key, Null, FALSE)
  <2>2. ack \in Notice
    BY <1>1, Messages
  <2>3. Tell(p, NoEvent, ack) \/ Tell(p, OneEvent(m.key, Null), ack)
    BY <1>7 DEF RemoveItem
  <2>4. toProcess' \in [Procs -> Seq(Notice)]
    <3> HIDE DEF m, ack
    <3> QED BY <1>1, <1>2, <2>2, <2>3, TellTypes
  <2>5. toManager' \in [Procs -> Seq(Request)]
    BY <1>7, ReceiveType DEF RemoveItem
  <2>6. area' \in Items
    BY <1>3, <1>4, <1>7 DEF RemoveItem
  <2> QED BY <1>7, <2>4, <2>5, <2>6 DEF RemoveItem, Receive, copyVars, TypeOK
<1>8. CASE ClearArea(p, i)
  <2> DEFINE ack == Msg("didClear", m.seed, Null, Null, FALSE)
  <2>2. ack \in Notice
    BY <1>1, Messages
  <2>3. Tell(p, NoEvent, ack) \/ Tell(p, OneEvent(Null, Null), ack)
    BY <1>8 DEF ClearArea
  <2>4. toProcess' \in [Procs -> Seq(Notice)]
    <3> HIDE DEF m, ack
    <3> QED BY <1>1, <1>2, <2>2, <2>3, TellTypes
  <2>5. toManager' \in [Procs -> Seq(Request)]
    BY <1>8, ReceiveType DEF ClearArea
  <2>6. area' \in Items
    BY <1>8, EmptyType DEF ClearArea
  <2> QED BY <1>8, <2>4, <2>5, <2>6 DEF ClearArea, Receive, copyVars, TypeOK
<1> QED BY <1>5, <1>6, <1>7, <1>8

LEMMA DeleteTypes == TypeOK /\ DeleteAllEntries => TypeOK'
<1> SUFFICES ASSUME TypeOK, DeleteAllEntries PROVE TypeOK'
  OBVIOUS
<1>1. Msg("clearCache", 0, Null, Null, FALSE) \in Notice
  BY Messages
<1>2. toProcess' \in [Procs -> Seq(Notice)]
  BY <1>1, AppendProperties DEF DeleteAllEntries, TypeOK
<1>3. deletes' \in 0..MaxDeletes
  BY LocalStorageAssumption DEF DeleteAllEntries, TypeOK
<1>4. area' \in Items
  BY EmptyType DEF DeleteAllEntries
<1> QED BY <1>2, <1>3, <1>4 DEF DeleteAllEntries, copyVars, TypeOK

LEMMA DeliverType ==
  ASSUME TypeOK, NEW p \in Procs, NEW op, Deliver(p, op)
  PROVE  /\ RestOK' /\ Head(toProcess[p]) \in Notice
         /\ toProcess[p] \in Seq(Notice) /\ toProcess[p] # <<>>
<1>1. toProcess[p] \in Seq(Notice) /\ toProcess[p] # <<>>
  BY DEF TypeOK, Deliver
<1>2. Tail(toProcess[p]) \in Seq(Notice) /\ Head(toProcess[p]) \in Notice
  BY <1>1, HeadTailProperties
<1>3. toProcess' \in [Procs -> Seq(Notice)]
  BY <1>2 DEF Deliver, TypeOK
<1> QED BY <1>1, <1>2, <1>3 DEF Deliver, RestOK, TypeOK

LEMMA DropType ==
  ASSUME TypeOK, NEW p \in Procs, DropCopy(p)
  PROVE  CopyOK'
<1>1. seed[p] + 1 \in Nat
  BY DEF TypeOK
<1> QED BY <1>1, EmptyType DEF DropCopy, ResetValues, CopyOK, TypeOK

LEMMA DoneType ==
  ASSUME TypeOK, NEW p \in Procs, NEW k, ChangeDone(p, k)
  PROVE  pendingValues' \in [Procs -> [Keys -> Nat]]
<1> DEFINE n == IF pendingValues[p][k] > 0 THEN pendingValues[p][k] - 1 ELSE 0
<1>1. pendingValues \in [Procs -> [Keys -> Nat]] /\ pendingValues[p] \in [Keys -> Nat]
  BY DEF TypeOK
<1>2. pendingValues' = [pendingValues EXCEPT ![p] = [pendingValues[p] EXCEPT ![k] = n]]
  BY <1>1 DEF ChangeDone
<1>3. [pendingValues[p] EXCEPT ![k] = n] \in [Keys -> Nat]
  <2>1. k \in Keys => n \in Nat
    BY <1>1
  <2> HIDE DEF n
  <2>2. CASE k \in Keys
    BY <1>1, <2>1, <2>2
  <2>3. CASE k \notin Keys
    BY <1>1, <2>3
  <2> QED BY <2>2, <2>3
<1> HIDE DEF n
<1> QED BY <1>1, <1>2, <1>3

LEMMA MainTypes ==
  ASSUME TypeOK, NEW p \in Procs, MainThread(p)
  PROVE  TypeOK'
<1>1. CASE FinishLoad(p)
  BY <1>1 DEF FinishLoad, TypeOK
<1>2. CASE DidGetValues(p)
  <2>1. RestOK' /\ CopyOK'
    BY <1>2, DeliverType DEF DidGetValues, CopyOK, TypeOK
  <2> QED BY <2>1, PartsNext
<1>3. CASE DidSetItem(p)
  <2>1. RestOK'
    BY <1>3, DeliverType DEF DidSetItem
  <2>2. CASE UNCHANGED copyVars
    <3>1. CopyOK'
      BY <2>2 DEF copyVars, CopyOK, TypeOK
    <3> QED BY <2>1, <3>1, PartsNext
  <2>3. CASE DropCopy(p)
    BY <2>1, <2>3, DropType, PartsNext
  <2>4. ASSUME NEW k, ChangeDone(p, k), UNCHANGED <<loaded, map, seed, pendingClear, pendingGet, hurt>> PROVE TypeOK'
    <3>1. CopyOK'
      BY <2>4, DoneType DEF CopyOK, TypeOK
    <3> QED BY <2>1, <3>1, PartsNext
  <2> QED BY <1>3, <2>2, <2>3, <2>4 DEF DidSetItem
<1>4. CASE DidRemoveItem(p)
  <2>1. RestOK'
    BY <1>4, DeliverType DEF DidRemoveItem
  <2>2. pendingValues' \in [Procs -> [Keys -> Nat]]
    BY <1>4, DoneType DEF DidRemoveItem, TypeOK
  <2>3. CopyOK'
    BY <1>4, <2>2 DEF DidRemoveItem, CopyOK, TypeOK
  <2> QED BY <2>1, <2>3, PartsNext
<1>5. CASE DidClear(p)
  <2>1. RestOK' /\ CopyOK'
    BY <1>5, DeliverType DEF DidClear, CopyOK, TypeOK
  <2> QED BY <2>1, PartsNext
<1>6. CASE DispatchStorageEvent(p)
  <2> DEFINE e == Head(toProcess[p])
  <2>1. RestOK' /\ e.value \in Values \union {Null}
    BY <1>6, DeliverType DEF DispatchStorageEvent, Notice
  <2>2. map' \in [Procs -> Items] /\ loaded' \in [Procs -> BOOLEAN] /\ hurt' \subseteq Procs
    <3>1. CASE UNCHANGED <<map, loaded, hurt>>
      BY <3>1 DEF TypeOK
    <3>2. CASE ApplyClear(p)
      BY <3>2, EmptyType DEF ApplyClear, TypeOK
    <3>3. ASSUME NEW k, NEW v \in Values \union {Null}, ApplyItem(p, k, v)
          PROVE  map' \in [Procs -> Items] /\ loaded' \in [Procs -> BOOLEAN] /\ hurt' \subseteq Procs
      <4>1. [map[p] EXCEPT ![k] = v] \in Items /\ map \in [Procs -> Items]
        BY <3>3 DEF TypeOK, Items
      <4>2. [map EXCEPT ![p][k] = v] = [map EXCEPT ![p] = [map[p] EXCEPT ![k] = v]]
        BY <4>1
      <4>3. map' \in [Procs -> Items]
        BY <3>3, <4>1, <4>2 DEF ApplyItem
      <4> QED BY <3>3, <4>3 DEF ApplyItem, TypeOK
    <3> QED BY <1>6, <2>1, <3>1, <3>2, <3>3 DEF DispatchStorageEvent
  <2>3. CopyOK'
    BY <1>6, <2>2 DEF DispatchStorageEvent, CopyOK, TypeOK
  <2> QED BY <2>1, <2>3, PartsNext
<1>7. CASE ClearCache(p)
  <2>1. RestOK' /\ CopyOK'
    BY <1>7, DeliverType, DropType DEF ClearCache
  <2> QED BY <2>1, PartsNext
<1> QED BY <1>1, <1>2, <1>3, <1>4, <1>5, <1>6, <1>7 DEF MainThread

LEMMA NextTypes == TypeOK /\ [Next]_vars => TypeOK'
<1> SUFFICES ASSUME TypeOK, [Next]_vars PROVE TypeOK'
  OBVIOUS
<1>1. CASE UNCHANGED vars
  BY <1>1 DEF vars, copyVars, TypeOK
<1>2. ASSUME NEW p \in Procs, Scripts(p) \/ Manager(p) \/ MainThread(p) PROVE TypeOK'
  BY <1>2, ScriptTypes, ManagerTypes, MainTypes
<1>3. CASE DeleteAllEntries
  BY <1>3, DeleteTypes
<1> QED BY <1>1, <1>2, <1>3 DEF Next

-----------------------------------------------------------------------------
(* The messages under way, and the markers that count them.                *)

\* The messages of S of one kind.
As(S, op, s, k) == {m \in S : m.op = op /\ m.seed = s /\ m.key = k}

\* The requests of the current seed under way, and their acknowledgements.
Underway(p, requestOp, noticeOp, k) ==
  Count(toManager[p], As(Request, requestOp, seed[p], k)) + Count(toProcess[p], As(Notice, noticeOp, seed[p], k))

\* What a process with this seed may have sent, and what it may be sent.
Requests(s) ==
  {m \in Request : /\ m.seed <= s
                   /\ m.op \in {"get", "clear"} <=> m.key = Null
                   /\ m.op # "set" => m.value = Null}
Notices(s) ==
  {m \in Notice : /\ m.seed <= s
                  /\ m.op \in {"didGet", "didClear"} => m.key = Null
                  /\ m.op \in {"didSet", "didRemove"} => m.key # Null
                  /\ m.key = Null => m.value = Null}

Pairs == {<<"get", "didGet">>, <<"set", "didSet">>, <<"remove", "didRemove">>, <<"clear", "didClear">>}

Proper(p) == toManager[p] \in Seq(Requests(seed[p])) /\ toProcess[p] \in Seq(Notices(seed[p]))

\* The markers of a process and what they stand for.
Marked(p) ==
  /\ waiting[p] => ~loaded[p]
  /\ pendingGet[p] => loaded[p]
  /\ ~loaded[p] => ~pendingClear[p] /\ \A k \in Keys : pendingValues[p][k] = 0
  /\ \A k \in Keys : pendingValues[p][k] = Underway(p, "set", "didSet", k) + Underway(p, "remove", "didRemove", k)
  /\ Underway(p, "clear", "didClear", Null) = IF pendingClear[p] THEN 1 ELSE 0
  /\ Underway(p, "get", "didGet", Null) = IF pendingGet[p] \/ waiting[p] THEN 1 ELSE 0

AllProper == \A p \in Procs : Proper(p)
AllMarked == \A p \in Procs : Marked(p)

LEMMA Subseqs ==
  ASSUME NEW S, NEW T, S \subseteq T, NEW s \in Seq(S)
  PROVE  s \in Seq(T)
<1>1. \A i \in 1..Len(s) : s[i] \in S
  BY ElementOfSeq
<1>2. Len(s) \in Nat /\ DOMAIN s = 1..Len(s) /\ s = [i \in 1..Len(s) |-> s[i]]
  BY LenProperties
<1>3. s \in [1..Len(s) -> T]
  BY <1>1, <1>2
<1> QED BY <1>2, <1>3, SeqDef

LEMMA Grow ==
  ASSUME NEW s \in Nat
  PROVE  /\ Requests(s) \subseteq Requests(s + 1) /\ Notices(s) \subseteq Notices(s + 1)
         /\ Requests(s) \subseteq Request /\ Notices(s) \subseteq Notice
<1>1. Requests(s) \subseteq Request /\ Notices(s) \subseteq Notice
  BY DEF Requests, Notices
<1>2. /\ \A m \in Request : m.seed \in Nat
      /\ \A m \in Notice : m.seed \in Nat
  BY DEF Request, Notice
<1>3. \A n \in Nat : n <= s => n <= s + 1
  OBVIOUS
<1>4. /\ \A m \in Request : m.seed <= s => m.seed <= s + 1
      /\ \A m \in Notice : m.seed <= s => m.seed <= s + 1
  BY <1>2, <1>3
<1>5. Requests(s) \subseteq Requests(s + 1)
  BY <1>4 DEF Requests
<1>6. Notices(s) \subseteq Notices(s + 1)
  BY <1>4 DEF Notices
<1> QED BY <1>1, <1>5, <1>6

LEMMA Keep ==
  ASSUME NEW p \in Procs, TypeOK, AllProper
  PROVE  /\ seed[p] \in Nat
         /\ toManager[p] \in Seq(Requests(seed[p])) /\ toProcess[p] \in Seq(Notices(seed[p]))
         /\ toManager[p] \in Seq(Requests(seed[p] + 1)) /\ toProcess[p] \in Seq(Notices(seed[p] + 1))
<1>1. seed[p] \in Nat /\ toManager[p] \in Seq(Requests(seed[p])) /\ toProcess[p] \in Seq(Notices(seed[p]))
  BY DEF TypeOK, AllProper, Proper
<1> QED BY <1>1, Grow, Subseqs

\* Nothing under way belongs to a seed that is still to come.
LEMMA NoneYet ==
  ASSUME NEW p \in Procs, TypeOK, AllProper, NEW ro, NEW no, NEW k
  PROVE  /\ Count(toManager[p], As(Request, ro, seed[p] + 1, k)) = 0
         /\ Count(toProcess[p], As(Notice, no, seed[p] + 1, k)) = 0
<1>1. /\ seed[p] \in Nat
      /\ toManager[p] \in Seq(Requests(seed[p])) /\ toProcess[p] \in Seq(Notices(seed[p]))
  BY Keep
<1>2. \A i \in 1..Len(toManager[p]) : toManager[p][i] \in Requests(seed[p])
  BY <1>1, ElementOfSeq
<1>3. \A i \in 1..Len(toProcess[p]) : toProcess[p][i] \in Notices(seed[p])
  BY <1>1, ElementOfSeq
<1>4. \A i \in 1..Len(toManager[p]) : toManager[p][i] \notin As(Request, ro, seed[p] + 1, k)
  BY <1>1, <1>2 DEF As, Requests
<1>5. \A i \in 1..Len(toProcess[p]) : toProcess[p][i] \notin As(Notice, no, seed[p] + 1, k)
  BY <1>1, <1>3 DEF As, Notices
<1> QED BY <1>1, <1>4, <1>5, CountType

LEMMA UnderwayType ==
  ASSUME NEW p \in Procs, TypeOK, AllProper, NEW ro, NEW no, NEW k
  PROVE  /\ Underway(p, ro, no, k) \in Nat
         /\ Count(toManager[p], As(Request, ro, seed[p], k)) \in Nat
         /\ Count(toProcess[p], As(Notice, no, seed[p], k)) \in Nat
<1>1. toManager[p] \in Seq(Requests(seed[p])) /\ toProcess[p] \in Seq(Notices(seed[p]))
  BY Keep
<1> QED BY <1>1, CountType DEF Underway

LEMMA SameUnderway ==
  ASSUME NEW p \in Procs, toManager'[p] = toManager[p], toProcess'[p] = toProcess[p], seed'[p] = seed[p],
         NEW ro, NEW no, NEW k
  PROVE  Underway(p, ro, no, k)' = Underway(p, ro, no, k)
BY DEF Underway

LEMMA SendUnderway ==
  ASSUME NEW p \in Procs, TypeOK, AllProper, NEW m \in Requests(seed[p]),
         toManager'[p] = Append(toManager[p], m), toProcess'[p] = toProcess[p], seed'[p] = seed[p]
  PROVE  /\ Proper(p)'
         /\ \A ro, no, k : Underway(p, ro, no, k)'
                             = Underway(p, ro, no, k) + (IF m \in As(Request, ro, seed[p], k) THEN 1 ELSE 0)
<1>1. toManager[p] \in Seq(Requests(seed[p])) /\ toProcess[p] \in Seq(Notices(seed[p]))
  BY Keep
<1>2. Append(toManager[p], m) \in Seq(Requests(seed[p]))
  BY <1>1, Appended
<1>3. ASSUME NEW ro, NEW no, NEW k
      PROVE  Underway(p, ro, no, k)'
                = Underway(p, ro, no, k) + (IF m \in As(Request, ro, seed[p], k) THEN 1 ELSE 0)
  <2> DEFINE V == As(Request, ro, seed[p], k)
             W == As(Notice, no, seed[p], k)
  <2>1. Count(toManager[p], V) \in Nat /\ Count(toProcess[p], W) \in Nat
    BY UnderwayType
  <2>2. Count(Append(toManager[p], m), V) = Count(toManager[p], V) + (IF m \in V THEN 1 ELSE 0)
    <3> HIDE DEF V
    <3> QED BY <1>1, CountAppend
  <2>3. Underway(p, ro, no, k)' = Count(Append(toManager[p], m), V) + Count(toProcess[p], W)
    BY DEF Underway
  <2>4. Underway(p, ro, no, k) = Count(toManager[p], V) + Count(toProcess[p], W)
    BY DEF Underway
  <2> HIDE DEF V, W
  <2>5. Underway(p, ro, no, k)' = Underway(p, ro, no, k) + (IF m \in V THEN 1 ELSE 0)
    BY <2>1, <2>2, <2>3, <2>4
  <2> QED BY <2>5 DEF V
<1> QED BY <1>1, <1>2, <1>3 DEF Proper

LEMMA RenewUnderway ==
  ASSUME NEW p \in Procs, TypeOK, AllProper, NEW m \in Requests(seed[p] + 1), m.seed = seed[p] + 1,
         toManager'[p] = Append(toManager[p], m), toProcess'[p] = toProcess[p], seed'[p] = seed[p] + 1
  PROVE  /\ Proper(p)'
         /\ \A ro, no, k : Underway(p, ro, no, k)' = IF m \in As(Request, ro, seed[p] + 1, k) THEN 1 ELSE 0
<1>1. toManager[p] \in Seq(Requests(seed[p] + 1)) /\ toProcess[p] \in Seq(Notices(seed[p] + 1))
  BY Keep
<1>2. Append(toManager[p], m) \in Seq(Requests(seed[p] + 1))
  BY <1>1, Appended
<1>3. ASSUME NEW ro, NEW no, NEW k
      PROVE  Underway(p, ro, no, k)' = IF m \in As(Request, ro, seed[p] + 1, k) THEN 1 ELSE 0
  <2> DEFINE V == As(Request, ro, seed[p] + 1, k)
             W == As(Notice, no, seed[p] + 1, k)
  <2>1. Count(toManager[p], V) = 0 /\ Count(toProcess[p], W) = 0
    BY NoneYet
  <2>2. Count(Append(toManager[p], m), V) = Count(toManager[p], V) + (IF m \in V THEN 1 ELSE 0)
    <3> HIDE DEF V
    <3> QED BY <1>1, CountAppend
  <2>3. Underway(p, ro, no, k)' = Count(Append(toManager[p], m), V) + Count(toProcess[p], W)
    BY DEF Underway
  <2> HIDE DEF V, W
  <2>5. Underway(p, ro, no, k)' = IF m \in V THEN 1 ELSE 0
    BY <2>1, <2>2, <2>3
  <2> QED BY <2>5 DEF V
<1> QED BY <1>1, <1>2, <1>3 DEF Proper

LEMMA DropUnderway ==
  ASSUME NEW p \in Procs, TypeOK, AllProper, toProcess[p] # <<>>,
         toManager'[p] = toManager[p], toProcess'[p] = Tail(toProcess[p]), seed'[p] = seed[p] + 1
  PROVE  /\ Proper(p)'
         /\ \A ro, no, k : Underway(p, ro, no, k)' = 0
<1>1. toManager[p] \in Seq(Requests(seed[p] + 1)) /\ toProcess[p] \in Seq(Notices(seed[p] + 1))
  BY Keep
<1>2. Tail(toProcess[p]) \in Seq(Notices(seed[p] + 1))
  BY <1>1, HeadTailProperties
<1>3. ASSUME NEW ro, NEW no, NEW k PROVE Underway(p, ro, no, k)' = 0
  <2> DEFINE V == As(Request, ro, seed[p] + 1, k)
             W == As(Notice, no, seed[p] + 1, k)
  <2>1. Count(toManager[p], V) = 0 /\ Count(toProcess[p], W) = 0
    BY NoneYet
  <2>2. Underway(p, ro, no, k)' = Count(toManager[p], V) + Count(Tail(toProcess[p]), W)
    BY DEF Underway
  <2> HIDE DEF V, W
  <2>3. /\ Count(toProcess[p], W) = Count(Tail(toProcess[p]), W) + (IF Head(toProcess[p]) \in W THEN 1 ELSE 0)
        /\ Count(Tail(toProcess[p]), W) \in Nat
    BY <1>1, <1>2, CountTail, CountType
  <2> QED BY <2>1, <2>2, <2>3
<1> QED BY <1>1, <1>2, <1>3 DEF Proper

LEMMA DeliverUnderway ==
  ASSUME NEW p \in Procs, TypeOK, AllProper, toProcess[p] # <<>>,
         toManager'[p] = toManager[p], toProcess'[p] = Tail(toProcess[p]), seed'[p] = seed[p]
  PROVE  /\ Proper(p)' /\ Head(toProcess[p]) \in Notices(seed[p])
         /\ \A ro, no, k :
              /\ Underway(p, ro, no, k) = Underway(p, ro, no, k)'
                   + (IF Head(toProcess[p]) \in As(Notice, no, seed[p], k) THEN 1 ELSE 0)
              /\ Underway(p, ro, no, k)' \in Nat
<1>1. toManager[p] \in Seq(Requests(seed[p])) /\ toProcess[p] \in Seq(Notices(seed[p]))
  BY Keep
<1>2. Tail(toProcess[p]) \in Seq(Notices(seed[p])) /\ Head(toProcess[p]) \in Notices(seed[p])
  BY <1>1, HeadTailProperties
<1>3. ASSUME NEW ro, NEW no, NEW k
      PROVE  /\ Underway(p, ro, no, k) = Underway(p, ro, no, k)'
                  + (IF Head(toProcess[p]) \in As(Notice, no, seed[p], k) THEN 1 ELSE 0)
             /\ Underway(p, ro, no, k)' \in Nat
  <2> DEFINE V == As(Request, ro, seed[p], k)
             W == As(Notice, no, seed[p], k)
  <2>1. Count(toManager[p], V) \in Nat /\ Count(toProcess[p], W) \in Nat
    BY UnderwayType
  <2>2. Underway(p, ro, no, k)' = Count(toManager[p], V) + Count(Tail(toProcess[p]), W)
    BY DEF Underway
  <2>3. Underway(p, ro, no, k) = Count(toManager[p], V) + Count(toProcess[p], W)
    BY DEF Underway
  <2> HIDE DEF V, W
  <2>4. /\ Count(toProcess[p], W) = Count(Tail(toProcess[p]), W) + (IF Head(toProcess[p]) \in W THEN 1 ELSE 0)
        /\ Count(Tail(toProcess[p]), W) \in Nat
    BY <1>1, <1>2, CountTail, CountType
  <2>5. /\ Underway(p, ro, no, k) = Underway(p, ro, no, k)' + (IF Head(toProcess[p]) \in W THEN 1 ELSE 0)
        /\ Underway(p, ro, no, k)' \in Nat
    BY <2>1, <2>2, <2>3, <2>4
  <2> QED BY <2>5 DEF W
<1> QED BY <1>1, <1>2, <1>3 DEF Proper

\* An event or a clearCache more.
LEMMA TellUnderway ==
  ASSUME NEW p \in Procs, TypeOK, AllProper, NEW m \in Notices(seed[p]), m.op \in {"event", "clearCache"},
         toManager'[p] = toManager[p], toProcess'[p] = Append(toProcess[p], m), seed'[p] = seed[p]
  PROVE  /\ Proper(p)'
         /\ \A pair \in Pairs : \A k : Underway(p, pair[1], pair[2], k)' = Underway(p, pair[1], pair[2], k)
<1>1. toManager[p] \in Seq(Requests(seed[p])) /\ toProcess[p] \in Seq(Notices(seed[p]))
  BY Keep
<1>2. Append(toProcess[p], m) \in Seq(Notices(seed[p]))
  BY <1>1, Appended
<1>3. ASSUME NEW pair \in Pairs, NEW k
      PROVE  Underway(p, pair[1], pair[2], k)' = Underway(p, pair[1], pair[2], k)
  <2> DEFINE V == As(Request, pair[1], seed[p], k)
             W == As(Notice, pair[2], seed[p], k)
  <2>1. m \notin W
    BY DEF As, Pairs
  <2>2. Underway(p, pair[1], pair[2], k)' = Count(toManager[p], V) + Count(Append(toProcess[p], m), W)
    BY DEF Underway
  <2>3. Underway(p, pair[1], pair[2], k) = Count(toManager[p], V) + Count(toProcess[p], W)
    BY DEF Underway
  <2> HIDE DEF V, W
  <2>4. Count(Append(toProcess[p], m), W) = Count(toProcess[p], W) + 0
    BY <1>1, <2>1, CountAppend
  <2>5. Count(toProcess[p], W) \in Nat
    BY <1>1, CountType
  <2> QED BY <2>2, <2>3, <2>4, <2>5
<1> QED BY <1>1, <1>2, <1>3 DEF Proper

\* A request gives way to its acknowledgement, behind an event or not.
LEMMA AnswerUnderway ==
  ASSUME NEW p \in Procs, TypeOK, AllProper, NEW i \in DOMAIN toManager[p],
         NEW ack \in Notices(seed[p]), NEW e \in Notices(seed[p]), e.op = "event",
         ack.seed = toManager[p][i].seed, ack.key = toManager[p][i].key,
         <<toManager[p][i].op, ack.op>> \in Pairs,
         toManager'[p] = RemoveAt(toManager[p], i), seed'[p] = seed[p],
         toProcess'[p] = Append(toProcess[p], ack) \/ toProcess'[p] = Append(Append(toProcess[p], e), ack)
  PROVE  /\ Proper(p)'
         /\ \A pair \in Pairs : \A k : Underway(p, pair[1], pair[2], k)' = Underway(p, pair[1], pair[2], k)
<1> DEFINE m == toManager[p][i]
           t == Append(toProcess[p], e)
<1>1. toManager[p] \in Seq(Requests(seed[p])) /\ toProcess[p] \in Seq(Notices(seed[p]))
  BY Keep
<1>2. i \in 1..Len(toManager[p]) /\ m \in Requests(seed[p])
  BY <1>1, LenProperties, ElementOfSeq
<1>3. /\ t \in Seq(Notices(seed[p])) /\ Append(toProcess[p], ack) \in Seq(Notices(seed[p]))
      /\ RemoveAt(toManager[p], i) \in Seq(Requests(seed[p]))
  BY <1>1, <1>2, Appended, Removed
<1>4. Append(t, ack) \in Seq(Notices(seed[p]))
  BY <1>3, Appended
<1>5. ASSUME NEW pair \in Pairs, NEW k
      PROVE  Underway(p, pair[1], pair[2], k)' = Underway(p, pair[1], pair[2], k)
  <2> DEFINE V == As(Request, pair[1], seed[p], k)
             W == As(Notice, pair[2], seed[p], k)
  <2>1. e \notin W
    BY DEF As, Pairs
  <2>2. m \in V <=> ack \in W
    <3>1. m \in Request /\ ack \in Notice
      BY <1>2 DEF Requests, Notices
    <3>2. m.op = pair[1] <=> ack.op = pair[2]
      BY DEF Pairs
    <3> QED BY <3>1, <3>2 DEF As
  <2>3. Underway(p, pair[1], pair[2], k)' = Count(RemoveAt(toManager[p], i), V) + Count(toProcess'[p], W)
    BY DEF Underway
  <2>4. Underway(p, pair[1], pair[2], k) = Count(toManager[p], V) + Count(toProcess[p], W)
    BY DEF Underway
  <2> HIDE DEF V, W
  <2>5. /\ Count(toManager[p], V) = Count(RemoveAt(toManager[p], i), V) + (IF m \in V THEN 1 ELSE 0)
        /\ Count(RemoveAt(toManager[p], i), V) \in Nat
    BY <1>1, <1>2, <1>3, CountRemoved, CountType
  <2>6. Count(toProcess'[p], W) = Count(toProcess[p], W) + (IF ack \in W THEN 1 ELSE 0)
    <3>0. Count(toProcess[p], W) \in Nat
      BY <1>1, CountType
    <3>1. Count(Append(toProcess[p], ack), W) = Count(toProcess[p], W) + (IF ack \in W THEN 1 ELSE 0)
      BY <1>1, CountAppend
    <3>2. Count(t, W) = Count(toProcess[p], W) + 0
      BY <1>1, <2>1, CountAppend
    <3> HIDE DEF t
    <3>3. Count(Append(t, ack), W) = Count(t, W) + (IF ack \in W THEN 1 ELSE 0)
      BY <1>3, CountAppend
    <3>4. Append(t, ack) = Append(Append(toProcess[p], e), ack)
      BY DEF t
    <3>5. CASE toProcess'[p] = Append(toProcess[p], ack)
      BY <3>1, <3>5
    <3>6. CASE toProcess'[p] = Append(t, ack)
      <4>1. Count(Append(t, ack), W) = Count(toProcess[p], W) + 0 + (IF ack \in W THEN 1 ELSE 0)
        BY <3>2, <3>3
      <4> QED BY <3>0, <3>6, <4>1
    <3> QED BY <3>4, <3>5, <3>6
  <2>7. Count(toProcess[p], W) \in Nat
    BY <1>1, CountType
  <2> HIDE DEF m
  <2> QED BY <2>2, <2>3, <2>4, <2>5, <2>6, <2>7
<1> QED BY <1>3, <1>4, <1>5 DEF Proper

\* What an action of p leaves alone at q.
SameCopy(q) ==
  /\ loaded'[q] = loaded[q] /\ map'[q] = map[q] /\ seed'[q] = seed[q]
  /\ pendingValues'[q] = pendingValues[q] /\ pendingClear'[q] = pendingClear[q] /\ pendingGet'[q] = pendingGet[q]
  /\ (q \in hurt' <=> q \in hurt)

SameAt(q) ==
  /\ SameCopy(q) /\ waiting'[q] = waiting[q] /\ reply'[q] = reply[q]
  /\ toManager'[q] = toManager[q] /\ toProcess'[q] = toProcess[q]

LEMMA ScriptSame ==
  ASSUME TypeOK, NEW p \in Procs, Scripts(p), NEW q \in Procs, q # p
  PROVE  SameAt(q) /\ area' = area
<1>1. CASE StartLoad(p)
  BY <1>1 DEF StartLoad, Send, SameAt, SameCopy, copyVars, TypeOK
<1>2. CASE Clear(p)
  BY <1>2 DEF Clear, ResetValues, Send, SameAt, SameCopy, TypeOK
<1>3. ASSUME NEW k \in Keys, NEW v \in Values \union {Null}, ChangeItem(p, k, v) PROVE SameAt(q) /\ area' = area
  BY <1>3 DEF ChangeItem, Send, SameAt, SameCopy, TypeOK
<1> QED BY <1>1, <1>2, <1>3 DEF Scripts

LEMMA MainSame ==
  ASSUME TypeOK, NEW p \in Procs, MainThread(p), NEW q \in Procs, q # p
  PROVE  SameAt(q) /\ area' = area
<1> USE DEF SameAt, SameCopy, Deliver
<1>1. CASE FinishLoad(p)
  BY <1>1 DEF FinishLoad, TypeOK
<1>2. CASE DidGetValues(p)
  BY <1>2 DEF DidGetValues, TypeOK
<1>3. CASE DidSetItem(p)
  BY <1>3 DEF DidSetItem, ChangeDone, DropCopy, ResetValues, copyVars, TypeOK
<1>4. CASE DidRemoveItem(p)
  BY <1>4 DEF DidRemoveItem, ChangeDone, TypeOK
<1>5. CASE DidClear(p)
  BY <1>5 DEF DidClear, TypeOK
<1>6. CASE DispatchStorageEvent(p)
  BY <1>6 DEF DispatchStorageEvent, ApplyClear, ApplyItem, TypeOK
<1>7. CASE ClearCache(p)
  BY <1>7 DEF ClearCache, DropCopy, ResetValues, TypeOK
<1> QED BY <1>1, <1>2, <1>3, <1>4, <1>5, <1>6, <1>7 DEF MainThread

LEMMA SameMarked ==
  ASSUME TypeOK, AllProper, AllMarked, NEW q \in Procs, SameAt(q)
  PROVE  Proper(q)' /\ Marked(q)'
<1>1. \A ro, no, k : Underway(q, ro, no, k)' = Underway(q, ro, no, k)
  BY SameUnderway DEF SameAt, SameCopy
<1>2. Proper(q)'
  BY DEF SameAt, SameCopy, AllProper, Proper
<1>3. Marked(q)'
  <2>1. Marked(q)
    BY DEF AllMarked
  <2>2. Underway(q, "clear", "didClear", Null)' = IF pendingClear'[q] THEN 1 ELSE 0
    BY <1>1, <2>1 DEF Marked, SameAt, SameCopy
  <2>3. Underway(q, "get", "didGet", Null)' = IF pendingGet'[q] \/ waiting'[q] THEN 1 ELSE 0
    BY <1>1, <2>1 DEF Marked, SameAt, SameCopy
  <2>4. \A k \in Keys : pendingValues'[q][k] = Underway(q, "set", "didSet", k)' + Underway(q, "remove", "didRemove", k)'
    BY <1>1, <2>1 DEF Marked, SameAt, SameCopy
  <2> QED BY <2>1, <2>2, <2>3, <2>4 DEF Marked, SameAt, SameCopy
<1> QED BY <1>2, <1>3

\* The numbers of requests under way, as they matter to the markers.
LEMMA Numbers ==
  ASSUME TypeOK, AllProper, NEW p \in Procs, NEW k
  PROVE  /\ Underway(p, "set", "didSet", k) \in Nat /\ Underway(p, "remove", "didRemove", k) \in Nat
         /\ Underway(p, "get", "didGet", k) \in Nat /\ Underway(p, "clear", "didClear", k) \in Nat
BY UnderwayType

LEMMA ScriptMarked ==
  ASSUME TypeOK, AllProper, AllMarked, NEW p \in Procs, Scripts(p)
  PROVE  Proper(p)' /\ Marked(p)'
<1>0. /\ Marked(p) /\ seed[p] \in Nat /\ seed[p] + 1 \in Nat /\ Null \notin Keys
      /\ seed[p] <= seed[p] /\ seed[p] + 1 <= seed[p] + 1
  BY LocalStorageAssumption DEF AllMarked, TypeOK
<1>1. CASE StartLoad(p)
  <2> DEFINE m == Msg("get", seed[p], Null, Null, FALSE)
  <2>1. m \in Requests(seed[p]) /\ m \in Request
    BY <1>0, Messages DEF Requests, Msg
  <2>2. toManager'[p] = Append(toManager[p], m) /\ toProcess'[p] = toProcess[p] /\ seed'[p] = seed[p]
    BY <1>1 DEF StartLoad, Send, copyVars, TypeOK
  <2>3. /\ Proper(p)'
        /\ \A ro, no, k : Underway(p, ro, no, k)'
                            = Underway(p, ro, no, k) + (IF m \in As(Request, ro, seed[p], k) THEN 1 ELSE 0)
    <3> HIDE DEF m
    <3> QED BY <2>1, <2>2, SendUnderway
  <2>4. /\ \A k : m \notin As(Request, "set", seed[p], k) /\ m \notin As(Request, "remove", seed[p], k)
        /\ m \notin As(Request, "clear", seed[p], Null)
        /\ m \in As(Request, "get", seed[p], Null)
    BY <2>1 DEF As, Msg
  <2> HIDE DEF m
  <2>5. /\ \A k : /\ Underway(p, "set", "didSet", k)' = Underway(p, "set", "didSet", k)
                  /\ Underway(p, "remove", "didRemove", k)' = Underway(p, "remove", "didRemove", k)
        /\ Underway(p, "clear", "didClear", Null)' = Underway(p, "clear", "didClear", Null)
        /\ Underway(p, "get", "didGet", Null)' = Underway(p, "get", "didGet", Null) + 1
    BY <2>3, <2>4, Numbers
  <2>6. /\ waiting'[p] /\ ~waiting[p] /\ ~loaded[p]
        /\ loaded'[p] = loaded[p] /\ pendingClear'[p] = pendingClear[p] /\ pendingGet'[p] = pendingGet[p]
        /\ pendingValues'[p] = pendingValues[p]
    BY <1>1 DEF StartLoad, copyVars, TypeOK
  <2>7. Underway(p, "get", "didGet", Null)' = 1
    BY <1>0, <2>5, <2>6 DEF Marked
  <2>8. Underway(p, "clear", "didClear", Null)' = IF pendingClear'[p] THEN 1 ELSE 0
    BY <1>0, <2>5, <2>6 DEF Marked
  <2>9. \A k \in Keys : pendingValues'[p][k] = Underway(p, "set", "didSet", k)' + Underway(p, "remove", "didRemove", k)'
    BY <1>0, <2>5, <2>6 DEF Marked
  <2> QED BY <1>0, <2>3, <2>6, <2>7, <2>8, <2>9 DEF Marked
<1>2. CASE Clear(p)
  <2> DEFINE m == Msg("clear", seed[p] + 1, Null, Null, FALSE)
  <2>1. m \in Requests(seed[p] + 1) /\ m \in Request /\ m.seed = seed[p] + 1
    BY <1>0, Messages DEF Requests, Msg
  <2>2. toManager'[p] = Append(toManager[p], m) /\ toProcess'[p] = toProcess[p] /\ seed'[p] = seed[p] + 1
    BY <1>2 DEF Clear, ResetValues, Send, TypeOK
  <2>3. /\ Proper(p)'
        /\ \A ro, no, k : Underway(p, ro, no, k)' = IF m \in As(Request, ro, seed[p] + 1, k) THEN 1 ELSE 0
    <3> HIDE DEF m
    <3> QED BY <2>1, <2>2, RenewUnderway
  <2>4. /\ \A k : m \notin As(Request, "set", seed[p] + 1, k) /\ m \notin As(Request, "remove", seed[p] + 1, k)
        /\ m \notin As(Request, "get", seed[p] + 1, Null)
        /\ m \in As(Request, "clear", seed[p] + 1, Null)
    BY <2>1 DEF As, Msg
  <2> HIDE DEF m
  <2>5. /\ \A k : Underway(p, "set", "didSet", k)' = 0 /\ Underway(p, "remove", "didRemove", k)' = 0
        /\ Underway(p, "clear", "didClear", Null)' = 1
        /\ Underway(p, "get", "didGet", Null)' = 0
    BY <2>3, <2>4
  <2>6. /\ ~waiting'[p] /\ loaded'[p] /\ pendingClear'[p] /\ ~pendingGet'[p]
        /\ \A k \in Keys : pendingValues'[p][k] = 0
    BY <1>2 DEF Clear, ResetValues, TypeOK
  <2> QED BY <2>3, <2>5, <2>6 DEF Marked
<1>3. ASSUME NEW k \in Keys, NEW v \in Values \union {Null}, ChangeItem(p, k, v) PROVE Proper(p)' /\ Marked(p)'
  <2> DEFINE op == IF v = Null THEN "remove" ELSE "set"
             m == Msg(op, seed[p], k, v, FALSE)
  <2>1. m \in Requests(seed[p]) /\ m \in Request
    BY <1>0, Messages DEF Requests, Msg
  <2>2. toManager'[p] = Append(toManager[p], m) /\ toProcess'[p] = toProcess[p] /\ seed'[p] = seed[p]
    BY <1>3 DEF ChangeItem, Send, TypeOK
  <2>3. /\ Proper(p)'
        /\ \A ro, no, j : Underway(p, ro, no, j)'
                            = Underway(p, ro, no, j) + (IF m \in As(Request, ro, seed[p], j) THEN 1 ELSE 0)
    <3> HIDE DEF m
    <3> QED BY <2>1, <2>2, SendUnderway
  <2>4. /\ \A j : j # k => m \notin As(Request, "set", seed[p], j) /\ m \notin As(Request, "remove", seed[p], j)
        /\ m \notin As(Request, "clear", seed[p], Null) /\ m \notin As(Request, "get", seed[p], Null)
        /\ m \in As(Request, "set", seed[p], k) <=> m \notin As(Request, "remove", seed[p], k)
    BY <2>1 DEF As, Msg
  <2> HIDE DEF m
  <2>5. /\ Underway(p, "clear", "didClear", Null)' = Underway(p, "clear", "didClear", Null)
        /\ Underway(p, "get", "didGet", Null)' = Underway(p, "get", "didGet", Null)
    BY <2>3, <2>4, Numbers
  <2>6. /\ waiting'[p] = waiting[p] /\ ~waiting[p] /\ loaded[p]
        /\ loaded'[p] = loaded[p] /\ pendingClear'[p] = pendingClear[p] /\ pendingGet'[p] = pendingGet[p]
        /\ \A j \in Keys : pendingValues'[p][j] = IF j = k THEN pendingValues[p][j] + 1 ELSE pendingValues[p][j]
    BY <1>3 DEF ChangeItem, TypeOK
  <2>7. \A j \in Keys : pendingValues'[p][j] = Underway(p, "set", "didSet", j)' + Underway(p, "remove", "didRemove", j)'
    <3>1. ASSUME NEW j \in Keys, j # k
          PROVE  pendingValues'[p][j] = Underway(p, "set", "didSet", j)' + Underway(p, "remove", "didRemove", j)'
      <4>1. /\ Underway(p, "set", "didSet", j)' = Underway(p, "set", "didSet", j)
            /\ Underway(p, "remove", "didRemove", j)' = Underway(p, "remove", "didRemove", j)
        BY <2>3, <2>4, <3>1, Numbers
      <4> QED BY <1>0, <2>6, <3>1, <4>1 DEF Marked
    <3>2. pendingValues'[p][k] = Underway(p, "set", "didSet", k)' + Underway(p, "remove", "didRemove", k)'
      <4>1. PICK a \in Nat, b \in Nat : a = Underway(p, "set", "didSet", k) /\ b = Underway(p, "remove", "didRemove", k)
        BY Numbers
      <4>2. pendingValues[p][k] = a + b
        BY <1>0, <4>1 DEF Marked
      <4>3. \/ Underway(p, "set", "didSet", k)' = a + 1 /\ Underway(p, "remove", "didRemove", k)' = b
            \/ Underway(p, "set", "didSet", k)' = a /\ Underway(p, "remove", "didRemove", k)' = b + 1
        BY <2>3, <2>4, <4>1
      <4> QED BY <2>6, <4>2, <4>3
    <3> QED BY <3>1, <3>2
  <2>8. /\ Underway(p, "clear", "didClear", Null)' = IF pendingClear'[p] THEN 1 ELSE 0
        /\ Underway(p, "get", "didGet", Null)' = IF pendingGet'[p] \/ waiting'[p] THEN 1 ELSE 0
    BY <1>0, <2>5, <2>6 DEF Marked
  <2> QED BY <2>3, <2>6, <2>7, <2>8 DEF Marked
<1> QED BY <1>1, <1>2, <1>3 DEF Scripts

-----------------------------------------------------------------------------
(* What the manager does to them.                                          *)

\* What the two kinds of telling append, process by process.
LEMMA ToldEach ==
  ASSUME TypeOK, NEW p \in Procs, NEW ack \in Notice,
         NEW k \in Keys \union {Null}, NEW v \in Values \union {Null},
         Tell(p, NoEvent, ack) \/ Tell(p, OneEvent(k, v), ack)
  PROVE  /\ \A q \in Procs : Event(p, q, k, v) \in Notice
         /\ \/ toProcess'[p] = Append(toProcess[p], ack)
            \/ toProcess'[p] = Append(Append(toProcess[p], Event(p, p, k, v)), ack)
         /\ \A q \in Procs \ {p} : \/ toProcess'[q] = toProcess[q]
                                   \/ toProcess'[q] = Append(toProcess[q], Event(p, q, k, v))
<1>0. \A q \in Procs : Event(p, q, k, v) \in Notice
  BY DEF Event, Msg, Notice
<1>1. CASE Tell(p, NoEvent, ack)
  <2>1. Noted(p, ack)
    BY <1>1, ToldNothing
  <2> QED BY <1>0, <2>1 DEF Noted, TypeOK
<1>2. CASE Tell(p, OneEvent(k, v), ack)
  <2>1. Heard(p, k, v, ack)
    BY <1>2, ToldOne
  <2> QED BY <1>0, <2>1 DEF Heard, TypeOK
<1> QED BY <1>1, <1>2

\* Marked only looks at the copy, at waiting and at the numbers under way.
LEMMA MarkedBy ==
  ASSUME TypeOK, AllProper, AllMarked, NEW q \in Procs, SameCopy(q), waiting'[q] = waiting[q],
         \A pair \in Pairs : \A k : Underway(q, pair[1], pair[2], k)' = Underway(q, pair[1], pair[2], k)
  PROVE  Marked(q)'
<1>1. \A k : /\ Underway(q, "set", "didSet", k)' = Underway(q, "set", "didSet", k)
             /\ Underway(q, "remove", "didRemove", k)' = Underway(q, "remove", "didRemove", k)
             /\ Underway(q, "clear", "didClear", k)' = Underway(q, "clear", "didClear", k)
             /\ Underway(q, "get", "didGet", k)' = Underway(q, "get", "didGet", k)
  <2>1. {<<"set", "didSet">>, <<"remove", "didRemove">>, <<"clear", "didClear">>, <<"get", "didGet">>} \subseteq Pairs
    BY DEF Pairs
  <2>2. \A a, b, k : <<a, b>> \in Pairs => Underway(q, a, b, k)' = Underway(q, a, b, k)
    OBVIOUS
  <2> QED BY <2>1, <2>2
<1>2. Marked(q)
  BY DEF AllMarked
<1>3. /\ Underway(q, "clear", "didClear", Null)' = IF pendingClear'[q] THEN 1 ELSE 0
      /\ Underway(q, "get", "didGet", Null)' = IF pendingGet'[q] \/ waiting'[q] THEN 1 ELSE 0
  BY <1>1, <1>2 DEF Marked, SameCopy
<1>4. \A k \in Keys : pendingValues'[q][k] = Underway(q, "set", "didSet", k)' + Underway(q, "remove", "didRemove", k)'
  BY <1>1, <1>2 DEF Marked, SameCopy
<1> QED BY <1>2, <1>3, <1>4 DEF Marked, SameCopy

LEMMA EventProper ==
  ASSUME TypeOK, NEW p, NEW q \in Procs, NEW k, NEW v, Event(p, q, k, v) \in Notice, k = Null => v = Null
  PROVE  Event(p, q, k, v) \in Notices(seed[q]) /\ Event(p, q, k, v).op = "event"
<1>1. seed[q] \in Nat /\ 0 <= seed[q]
  BY DEF TypeOK
<1> QED BY <1>1 DEF Event, Msg, Notices

\* One request of p handled, its acknowledgement sent.
LEMMA AnswerMarked ==
  ASSUME TypeOK, AllProper, AllMarked, NEW p \in Procs, NEW i \in DOMAIN toManager[p], NEW ack \in Notice,
         NEW k \in Keys \union {Null}, NEW v \in Values \union {Null}, k = Null => v = Null,
         ack.seed = toManager[p][i].seed, ack.key = toManager[p][i].key, ack.value = Null,
         <<toManager[p][i].op, ack.op>> \in Pairs,
         toManager' = [toManager EXCEPT ![p] = RemoveAt(@, i)],
         UNCHANGED <<copyVars, waiting>>,
         Tell(p, NoEvent, ack) \/ Tell(p, OneEvent(k, v), ack)
  PROVE  \A q \in Procs : Proper(q)' /\ Marked(q)'
<1>0. /\ \A q \in Procs : Event(p, q, k, v) \in Notice
      /\ \/ toProcess'[p] = Append(toProcess[p], ack)
         \/ toProcess'[p] = Append(Append(toProcess[p], Event(p, p, k, v)), ack)
      /\ \A q \in Procs \ {p} : \/ toProcess'[q] = toProcess[q]
                                \/ toProcess'[q] = Append(toProcess[q], Event(p, q, k, v))
  <2>1. CASE Tell(p, NoEvent, ack)
    BY <2>1, ToldEach
  <2>2. CASE Tell(p, OneEvent(k, v), ack)
    BY <2>2, ToldEach
  <2> QED BY <2>1, <2>2
<1> SUFFICES ASSUME NEW q \in Procs PROVE Proper(q)' /\ Marked(q)'
  OBVIOUS
<1>1. SameCopy(q) /\ waiting'[q] = waiting[q] /\ seed'[q] = seed[q]
  BY DEF copyVars, SameCopy
<1>2. Event(p, q, k, v) \in Notices(seed[q]) /\ Event(p, q, k, v).op = "event"
  BY <1>0, EventProper
<1>3. CASE q = p
  <2>1. toManager[p][i] \in Requests(seed[p])
    <3>1. toManager[p] \in Seq(Requests(seed[p]))
      BY Keep
    <3> QED BY <3>1, LenProperties, ElementOfSeq
  <2>2. ack \in Notices(seed[p])
    BY <2>1 DEF Requests, Notices, Pairs
  <2>3. toManager'[p] = RemoveAt(toManager[p], i)
    BY DEF TypeOK
  <2>4. \/ toProcess'[p] = Append(toProcess[p], ack)
        \/ toProcess'[p] = Append(Append(toProcess[p], Event(p, p, k, v)), ack)
    BY <1>0
  <2>5. /\ Proper(p)'
        /\ \A pair \in Pairs : \A j : Underway(p, pair[1], pair[2], j)' = Underway(p, pair[1], pair[2], j)
    BY <1>1, <1>2, <1>3, <2>2, <2>3, <2>4, AnswerUnderway
  <2> QED BY <1>1, <1>3, <2>5, MarkedBy
<1>4. CASE q # p
  <2>1. toManager'[q] = toManager[q]
    BY <1>4 DEF TypeOK
  <2>2. toProcess'[q] = toProcess[q] \/ toProcess'[q] = Append(toProcess[q], Event(p, q, k, v))
    BY <1>0, <1>4
  <2>3. CASE toProcess'[q] = toProcess[q]
    <3>1. Proper(q)'
      BY <1>1, <2>1, <2>3 DEF AllProper, Proper
    <3>2. \A pair \in Pairs : \A j : Underway(q, pair[1], pair[2], j)' = Underway(q, pair[1], pair[2], j)
      BY <1>1, <2>1, <2>3, SameUnderway
    <3> QED BY <1>1, <3>1, <3>2, MarkedBy
  <2>4. CASE toProcess'[q] = Append(toProcess[q], Event(p, q, k, v))
    <3>1. /\ Proper(q)'
          /\ \A pair \in Pairs : \A j : Underway(q, pair[1], pair[2], j)' = Underway(q, pair[1], pair[2], j)
      BY <1>1, <1>2, <2>1, <2>4, TellUnderway
    <3> QED BY <1>1, <3>1, MarkedBy
  <2> QED BY <2>2, <2>3, <2>4
<1> QED BY <1>3, <1>4

\* What a request looks like, op by op.
LEMMA RequestShape ==
  ASSUME TypeOK, AllProper, NEW p \in Procs, NEW i \in DOMAIN toManager[p]
  PROVE  LET m == toManager[p][i] IN
         /\ m \in Request /\ m.seed \in Nat /\ m.seed <= seed[p]
         /\ m.key \in Keys \union {Null} /\ m.value \in Values \union {Null}
         /\ m.op \in {"get", "clear"} => m.key = Null /\ m.value = Null
         /\ m.op \in {"set", "remove"} => m.key \in Keys
         /\ m.op = "remove" => m.value = Null
<1>1. toManager[p] \in Seq(Requests(seed[p]))
  BY Keep
<1>2. toManager[p][i] \in Requests(seed[p])
  BY <1>1, LenProperties, ElementOfSeq
<1> QED BY <1>2 DEF Requests, Request

LEMMA ManagerMarked ==
  ASSUME TypeOK, AllProper, AllMarked, NEW p \in Procs, Manager(p)
  PROVE  \A q \in Procs : Proper(q)' /\ Marked(q)'
<1> PICK i \in Runnable(p) : GetValues(p, i) \/ SetItem(p, i) \/ RemoveItem(p, i) \/ ClearArea(p, i)
  BY DEF Manager
<1> DEFINE m == toManager[p][i]
<1>0. i \in DOMAIN toManager[p]
  BY Queued
<1>1. /\ m.seed \in Nat
      /\ m.key \in Keys \union {Null} /\ m.value \in Values \union {Null}
      /\ m.op \in {"get", "clear"} => m.key = Null /\ m.value = Null
      /\ m.op \in {"set", "remove"} => m.key \in Keys
  BY <1>0, RequestShape
<1>2. Null \notin Keys /\ Null \in Keys \union {Null} /\ Null \in Values \union {Null}
  BY LocalStorageAssumption
<1>5. CASE GetValues(p, i)
  <2> DEFINE ack == Msg("didGet", m.seed, Null, Null, FALSE)
  <2>1. ack \in Notice
    BY <1>1, Messages
  <2>2. m.op = "get"
    BY <1>5 DEF GetValues, Receive
  <2>3. ack.seed = m.seed /\ ack.key = m.key /\ ack.value = Null /\ <<m.op, ack.op>> \in Pairs
    BY <1>1, <2>2 DEF Msg, Pairs
  <2>4. Tell(p, NoEvent, ack) /\ toManager' = [toManager EXCEPT ![p] = RemoveAt(@, i)] /\ UNCHANGED <<copyVars, waiting>>
    BY <1>5 DEF GetValues, Receive
  <2> HIDE DEF ack
  <2> QED BY <1>0, <1>2, <2>1, <2>3, <2>4, AnswerMarked
<1>6. CASE SetItem(p, i)
  <2> DEFINE over == OverQuota(area, m.key)
             ack == Msg("didSet", m.seed, m.key, Null, over)
  <2>1. over \in BOOLEAN /\ ack \in Notice
    BY <1>1, Messages DEF OverQuota
  <2>2. m.op = "set"
    BY <1>6 DEF SetItem, Receive
  <2>3. ack.seed = m.seed /\ ack.key = m.key /\ ack.value = Null /\ <<m.op, ack.op>> \in Pairs
    BY <1>1, <2>2 DEF Msg, Pairs
  <2>4. /\ Tell(p, NoEvent, ack) \/ Tell(p, OneEvent(m.key, m.value), ack)
        /\ toManager' = [toManager EXCEPT ![p] = RemoveAt(@, i)] /\ UNCHANGED <<copyVars, waiting>>
    BY <1>6 DEF SetItem, Receive
  <2>5. m.key = Null => m.value = Null
    BY <1>1, <1>2, <2>2
  <2> HIDE DEF ack
  <2> QED BY <1>0, <1>1, <2>1, <2>3, <2>4, <2>5, AnswerMarked
<1>7. CASE RemoveItem(p, i)
  <2> DEFINE ack == Msg("didRemove", m.seed, m.key, Null, FALSE)
  <2>1. ack \in Notice
    BY <1>1, Messages
  <2>2. m.op = "remove"
    BY <1>7 DEF RemoveItem, Receive
  <2>3. ack.seed = m.seed /\ ack.key = m.key /\ ack.value = Null /\ <<m.op, ack.op>> \in Pairs
    BY <1>1, <2>2 DEF Msg, Pairs
  <2>4. /\ Tell(p, NoEvent, ack) \/ Tell(p, OneEvent(m.key, Null), ack)
        /\ toManager' = [toManager EXCEPT ![p] = RemoveAt(@, i)] /\ UNCHANGED <<copyVars, waiting>>
    BY <1>7 DEF RemoveItem, Receive
  <2> HIDE DEF ack
  <2> QED BY <1>0, <1>1, <1>2, <2>1, <2>3, <2>4, AnswerMarked
<1>8. CASE ClearArea(p, i)
  <2> DEFINE ack == Msg("didClear", m.seed, Null, Null, FALSE)
  <2>1. ack \in Notice
    BY <1>1, Messages
  <2>2. m.op = "clear"
    BY <1>8 DEF ClearArea, Receive
  <2>3. ack.seed = m.seed /\ ack.key = m.key /\ ack.value = Null /\ <<m.op, ack.op>> \in Pairs
    BY <1>1, <2>2 DEF Msg, Pairs
  <2>4. /\ Tell(p, NoEvent, ack) \/ Tell(p, OneEvent(Null, Null), ack)
        /\ toManager' = [toManager EXCEPT ![p] = RemoveAt(@, i)] /\ UNCHANGED <<copyVars, waiting>>
    BY <1>8 DEF ClearArea, Receive
  <2> HIDE DEF ack
  <2> QED BY <1>0, <1>2, <2>1, <2>3, <2>4, AnswerMarked
<1> QED BY <1>5, <1>6, <1>7, <1>8

LEMMA DeleteMarked ==
  ASSUME TypeOK, AllProper, AllMarked, DeleteAllEntries, NEW q \in Procs
  PROVE  Proper(q)' /\ Marked(q)'
<1> DEFINE m == Msg("clearCache", 0, Null, Null, FALSE)
<1>1. m \in Notices(seed[q]) /\ m.op \in {"event", "clearCache"}
  <2>1. m \in Notice
    BY Messages
  <2>2. seed[q] \in Nat /\ 0 <= seed[q]
    BY DEF TypeOK
  <2> QED BY <2>1, <2>2 DEF Msg, Notices
<1>2. SameCopy(q) /\ waiting'[q] = waiting[q] /\ seed'[q] = seed[q] /\ toManager'[q] = toManager[q]
  BY DEF DeleteAllEntries, copyVars, SameCopy
<1>3. toProcess'[q] = Append(toProcess[q], m)
  BY DEF DeleteAllEntries
<1> HIDE DEF m
<1>4. /\ Proper(q)'
      /\ \A pair \in Pairs : \A j : Underway(q, pair[1], pair[2], j)' = Underway(q, pair[1], pair[2], j)
  BY <1>1, <1>2, <1>3, TellUnderway
<1> QED BY <1>2, <1>4, MarkedBy

-----------------------------------------------------------------------------
(* What the main thread does to them.                                      *)

\* The message delivered, and how the numbers fall by one if it is of the current seed.
LEMMA DeliveredNumbers ==
  ASSUME TypeOK, AllProper, NEW p \in Procs, NEW op, Deliver(p, op), seed'[p] = seed[p]
  PROVE  LET h == Head(toProcess[p]) IN
         /\ Proper(p)' /\ h \in Notices(seed[p]) /\ h.op = op
         /\ waiting'[p] = waiting[p] /\ ~waiting[p]
         /\ \A ro, no, k : no # op \/ h.seed # seed[p] => Underway(p, ro, no, k)' = Underway(p, ro, no, k)
         /\ \A ro, k : h.seed = seed[p] =>
              /\ Underway(p, ro, op, k) = Underway(p, ro, op, k)' + (IF h.key = k THEN 1 ELSE 0)
              /\ Underway(p, ro, op, k)' \in Nat
<1> DEFINE h == Head(toProcess[p])
<1>1. /\ toProcess[p] # <<>> /\ toManager'[p] = toManager[p] /\ toProcess'[p] = Tail(toProcess[p])
      /\ waiting'[p] = waiting[p] /\ ~waiting[p] /\ h.op = op
  BY DEF Deliver, TypeOK
<1>2. /\ Proper(p)' /\ h \in Notices(seed[p])
      /\ \A ro, no, k :
           /\ Underway(p, ro, no, k) = Underway(p, ro, no, k)' + (IF h \in As(Notice, no, seed[p], k) THEN 1 ELSE 0)
           /\ Underway(p, ro, no, k)' \in Nat
  BY <1>1, DeliverUnderway
<1>3. h \in Notice
  BY <1>2 DEF Notices
<1> HIDE DEF h
<1>4. \A no, k : h \in As(Notice, no, seed[p], k) <=> no = op /\ h.seed = seed[p] /\ h.key = k
  BY <1>1, <1>3 DEF As
<1>5. ASSUME NEW ro, NEW no, NEW k, no # op \/ h.seed # seed[p]
      PROVE  Underway(p, ro, no, k)' = Underway(p, ro, no, k)
  <2>1. h \notin As(Notice, no, seed[p], k)
    BY <1>4, <1>5
  <2> QED BY <1>2, <2>1
<1>6. ASSUME NEW ro, NEW k, h.seed = seed[p]
      PROVE  /\ Underway(p, ro, op, k) = Underway(p, ro, op, k)' + (IF h.key = k THEN 1 ELSE 0)
             /\ Underway(p, ro, op, k)' \in Nat
  <2>1. h \in As(Notice, op, seed[p], k) <=> h.key = k
    BY <1>4, <1>6
  <2> QED BY <1>2, <2>1
<1> QED BY <1>1, <1>2, <1>5, <1>6 DEF h

LEMMA DroppedMarked ==
  ASSUME TypeOK, AllProper, NEW p \in Procs, NEW op, Deliver(p, op), DropCopy(p)
  PROVE  Proper(p)' /\ Marked(p)'
<1>1. /\ toProcess[p] # <<>> /\ toManager'[p] = toManager[p] /\ toProcess'[p] = Tail(toProcess[p])
      /\ ~waiting'[p] /\ seed'[p] = seed[p] + 1
  BY DEF Deliver, DropCopy, ResetValues, TypeOK
<1>2. Proper(p)' /\ \A ro, no, k : Underway(p, ro, no, k)' = 0
  BY <1>1, DropUnderway
<1>3. /\ ~loaded'[p] /\ ~pendingClear'[p] /\ ~pendingGet'[p]
      /\ \A k \in Keys : pendingValues'[p][k] = 0
  BY DEF DropCopy, ResetValues, TypeOK
<1> QED BY <1>1, <1>2, <1>3 DEF Marked

\* An acknowledgement of a change is taken off its key's count.
LEMMA DoneMarked ==
  ASSUME TypeOK, AllProper, AllMarked, NEW p \in Procs, NEW op \in {"didSet", "didRemove"}, Deliver(p, op),
         ChangeDone(p, Head(toProcess[p]).key), Head(toProcess[p]).seed = seed[p],
         UNCHANGED <<loaded, map, seed, pendingClear, pendingGet, hurt>>
  PROVE  Proper(p)' /\ Marked(p)'
<1> DEFINE h == Head(toProcess[p])
<1>1. /\ Proper(p)' /\ h \in Notices(seed[p]) /\ h.op = op
      /\ waiting'[p] = waiting[p] /\ ~waiting[p]
      /\ \A ro, no, j : no # op \/ h.seed # seed[p] => Underway(p, ro, no, j)' = Underway(p, ro, no, j)
      /\ \A ro, j : h.seed = seed[p] =>
           /\ Underway(p, ro, op, j) = Underway(p, ro, op, j)' + (IF h.key = j THEN 1 ELSE 0)
           /\ Underway(p, ro, op, j)' \in Nat
  BY DeliveredNumbers
<1>2. PICK k \in Keys : k = h.key
  BY <1>1 DEF Notices, Notice
<1>3. Marked(p)
  BY DEF AllMarked
<1>4. \A j \in Keys : pendingValues'[p][j] = IF j # k THEN pendingValues[p][j]
                                             ELSE IF pendingValues[p][j] > 0 THEN pendingValues[p][j] - 1 ELSE 0
  BY <1>2 DEF ChangeDone, TypeOK
<1>k. \A ro : Underway(p, ro, op, k) = Underway(p, ro, op, k)' + 1 /\ Underway(p, ro, op, k)' \in Nat
  BY <1>1, <1>2
<1>5. /\ Underway(p, "clear", "didClear", Null)' = Underway(p, "clear", "didClear", Null)
      /\ Underway(p, "get", "didGet", Null)' = Underway(p, "get", "didGet", Null)
  BY <1>1
<1>6. ASSUME NEW j \in Keys
      PROVE  pendingValues'[p][j] = Underway(p, "set", "didSet", j)' + Underway(p, "remove", "didRemove", j)'
  <2>1. PICK a \in Nat, b \in Nat : a = Underway(p, "set", "didSet", j) /\ b = Underway(p, "remove", "didRemove", j)
    BY Numbers
  <2>2. pendingValues[p][j] = a + b
    BY <1>3, <2>1 DEF Marked
  <2>3. CASE op = "didSet"
    <3>1. /\ a = Underway(p, "set", "didSet", j)' + (IF k = j THEN 1 ELSE 0)
          /\ Underway(p, "set", "didSet", j)' \in Nat
          /\ b = Underway(p, "remove", "didRemove", j)'
      BY <1>1, <1>2, <2>1, <2>3
    <3> QED BY <1>4, <2>2, <3>1
  <2>4. CASE op = "didRemove"
    <3>1. /\ b = Underway(p, "remove", "didRemove", j)' + (IF k = j THEN 1 ELSE 0)
          /\ Underway(p, "remove", "didRemove", j)' \in Nat
          /\ a = Underway(p, "set", "didSet", j)'
      BY <1>1, <1>2, <2>1, <2>4
    <3> QED BY <1>4, <2>2, <3>1
  <2> QED BY <2>3, <2>4
<1>7. loaded[p]
  <2>1. pendingValues[p][k] > 0
    <3>1. PICK a \in Nat, b \in Nat : a = Underway(p, "set", "didSet", k) /\ b = Underway(p, "remove", "didRemove", k)
      BY Numbers
    <3>2. pendingValues[p][k] = a + b
      BY <1>2, <1>3, <3>1 DEF Marked
    <3>3. a > 0 \/ b > 0
      <4>1. /\ op = "didSet" => a = Underway(p, "set", "didSet", k)' + 1 /\ Underway(p, "set", "didSet", k)' \in Nat
            /\ op = "didRemove" => b = Underway(p, "remove", "didRemove", k)' + 1 /\ Underway(p, "remove", "didRemove", k)' \in Nat
        BY <1>k, <3>1
      <4>2. CASE op = "didSet"
        BY <3>1, <4>1, <4>2
      <4>3. CASE op = "didRemove"
        BY <3>1, <4>1, <4>3
      <4> QED BY <4>2, <4>3
    <3> QED BY <3>1, <3>2, <3>3
  <2>2. ~loaded[p] => pendingValues[p][k] = 0
    BY <1>2, <1>3 DEF Marked
  <2> QED BY <2>1, <2>2
<1>8. /\ loaded'[p] = loaded[p] /\ pendingClear'[p] = pendingClear[p] /\ pendingGet'[p] = pendingGet[p]
  OBVIOUS
<1>9. /\ Underway(p, "clear", "didClear", Null)' = IF pendingClear'[p] THEN 1 ELSE 0
      /\ Underway(p, "get", "didGet", Null)' = IF pendingGet'[p] \/ waiting'[p] THEN 1 ELSE 0
  BY <1>1, <1>3, <1>5, <1>8 DEF Marked
<1> QED BY <1>1, <1>3, <1>6, <1>7, <1>8, <1>9 DEF Marked

\* A message that leaves all numbers alone, and at most touches the items.
LEMMA IdleMarked ==
  ASSUME TypeOK, AllProper, AllMarked, NEW p \in Procs, NEW op, Deliver(p, op),
         seed'[p] = seed[p], pendingValues'[p] = pendingValues[p],
         pendingClear'[p] = pendingClear[p], pendingGet'[p] = pendingGet[p], loaded[p] => loaded'[p],
         Head(toProcess[p]).seed # seed[p] \/ op = "event"
  PROVE  Proper(p)' /\ Marked(p)'
<1> DEFINE h == Head(toProcess[p])
<1>1. /\ Proper(p)' /\ h.op = op /\ waiting'[p] = waiting[p] /\ ~waiting[p]
      /\ \A ro, no, k : no # op \/ h.seed # seed[p] => Underway(p, ro, no, k)' = Underway(p, ro, no, k)
  BY DeliveredNumbers
<1>2. /\ \A k : Underway(p, "set", "didSet", k)' = Underway(p, "set", "didSet", k)
      /\ \A k : Underway(p, "remove", "didRemove", k)' = Underway(p, "remove", "didRemove", k)
      /\ \A k : Underway(p, "clear", "didClear", k)' = Underway(p, "clear", "didClear", k)
      /\ \A k : Underway(p, "get", "didGet", k)' = Underway(p, "get", "didGet", k)
  BY <1>1
<1>3. Marked(p)
  BY DEF AllMarked
<1>4. /\ Underway(p, "clear", "didClear", Null)' = IF pendingClear'[p] THEN 1 ELSE 0
      /\ Underway(p, "get", "didGet", Null)' = IF pendingGet'[p] \/ waiting'[p] THEN 1 ELSE 0
      /\ \A k \in Keys : pendingValues'[p][k] = Underway(p, "set", "didSet", k)' + Underway(p, "remove", "didRemove", k)'
  BY <1>1, <1>2, <1>3 DEF Marked
<1> QED BY <1>1, <1>3, <1>4 DEF Marked

LEMMA MainMarked ==
  ASSUME TypeOK, AllProper, AllMarked, NEW p \in Procs, MainThread(p)
  PROVE  Proper(p)' /\ Marked(p)'
<1> DEFINE h == Head(toProcess[p])
<1>0. Marked(p) /\ Null \notin Keys
  BY LocalStorageAssumption DEF AllMarked
<1>1. CASE FinishLoad(p)
  <2>1. /\ toManager'[p] = toManager[p] /\ toProcess'[p] = toProcess[p] /\ seed'[p] = seed[p]
        /\ loaded'[p] /\ pendingGet'[p] /\ ~waiting'[p] /\ waiting[p]
        /\ pendingValues'[p] = pendingValues[p] /\ pendingClear'[p] = pendingClear[p]
    BY <1>1 DEF FinishLoad, TypeOK
  <2>2. \A ro, no, k : Underway(p, ro, no, k)' = Underway(p, ro, no, k)
    BY <2>1, SameUnderway
  <2>3. Proper(p)'
    BY <2>1 DEF AllProper, Proper
  <2>4. /\ Underway(p, "clear", "didClear", Null)' = IF pendingClear'[p] THEN 1 ELSE 0
        /\ Underway(p, "get", "didGet", Null)' = IF pendingGet'[p] \/ waiting'[p] THEN 1 ELSE 0
        /\ \A k \in Keys : pendingValues'[p][k] = Underway(p, "set", "didSet", k)' + Underway(p, "remove", "didRemove", k)'
    BY <1>0, <2>1, <2>2 DEF Marked
  <2> QED BY <2>1, <2>3, <2>4 DEF Marked
<1>2. CASE DidGetValues(p)
  <2>1. /\ Deliver(p, "didGet") /\ seed' = seed /\ pendingValues' = pendingValues /\ loaded' = loaded
        /\ pendingClear' = pendingClear
        /\ pendingGet'[p] = IF Current(p) THEN FALSE ELSE pendingGet[p]
    BY <1>2 DEF DidGetValues, TypeOK
  <2>2. CASE ~Current(p)
    BY <2>1, <2>2, IdleMarked DEF Current
  <2>3. CASE Current(p)
    <3>1. /\ Proper(p)' /\ h \in Notices(seed[p]) /\ h.op = "didGet"
          /\ waiting'[p] = waiting[p] /\ ~waiting[p]
          /\ \A ro, no, k : no # "didGet" => Underway(p, ro, no, k)' = Underway(p, ro, no, k)
          /\ \A ro, k : /\ Underway(p, ro, "didGet", k) = Underway(p, ro, "didGet", k)' + (IF h.key = k THEN 1 ELSE 0)
                        /\ Underway(p, ro, "didGet", k)' \in Nat
      <4>1. h.seed = seed[p]
        BY <2>3 DEF Current
      <4> QED BY <2>1, <4>1, DeliveredNumbers
    <3>2. h.key = Null
      BY <3>1 DEF Notices
    <3>3. Underway(p, "get", "didGet", Null)' = 0
      <4>1. Underway(p, "get", "didGet", Null) \in {0, 1}
        BY <1>0 DEF Marked
      <4> QED BY <3>1, <3>2, <4>1
    <3>4. /\ \A k : Underway(p, "set", "didSet", k)' = Underway(p, "set", "didSet", k)
          /\ \A k : Underway(p, "remove", "didRemove", k)' = Underway(p, "remove", "didRemove", k)
          /\ \A k : Underway(p, "clear", "didClear", k)' = Underway(p, "clear", "didClear", k)
      BY <3>1
    <3>5. /\ Underway(p, "clear", "didClear", Null)' = IF pendingClear'[p] THEN 1 ELSE 0
          /\ \A k \in Keys : pendingValues'[p][k] = Underway(p, "set", "didSet", k)' + Underway(p, "remove", "didRemove", k)'
      BY <1>0, <2>1, <3>4 DEF Marked
    <3>6. ~pendingGet'[p] /\ ~waiting'[p]
      BY <2>1, <2>3, <3>1
    <3> QED BY <1>0, <2>1, <3>1, <3>3, <3>5, <3>6 DEF Marked
  <2> QED BY <2>2, <2>3
<1>3. CASE DidSetItem(p)
  <2>1. Deliver(p, "didSet")
    BY <1>3 DEF DidSetItem
  <2>2. CASE ~Current(p) /\ UNCHANGED copyVars
    BY <2>1, <2>2, IdleMarked DEF Current, copyVars
  <2>3. CASE DropCopy(p)
    BY <2>1, <2>3, DroppedMarked
  <2>4. CASE /\ Current(p) /\ ChangeDone(p, h.key)
             /\ UNCHANGED <<loaded, map, seed, pendingClear, pendingGet, hurt>>
    BY <2>1, <2>4, DoneMarked DEF Current
  <2> QED BY <1>3, <2>2, <2>3, <2>4 DEF DidSetItem
<1>4. CASE DidRemoveItem(p)
  <2>1. /\ Deliver(p, "didRemove") /\ UNCHANGED <<loaded, map, seed, pendingClear, pendingGet, hurt>>
        /\ IF Current(p) THEN ChangeDone(p, h.key) ELSE UNCHANGED pendingValues
    BY <1>4 DEF DidRemoveItem
  <2>2. CASE ~Current(p)
    BY <2>1, <2>2, IdleMarked DEF Current
  <2>3. CASE Current(p)
    BY <2>1, <2>3, DoneMarked DEF Current
  <2> QED BY <2>2, <2>3
<1>5. CASE DidClear(p)
  <2>1. /\ Deliver(p, "didClear") /\ seed' = seed /\ pendingValues' = pendingValues /\ loaded' = loaded
        /\ pendingGet' = pendingGet
        /\ pendingClear'[p] = IF Current(p) THEN FALSE ELSE pendingClear[p]
    BY <1>5 DEF DidClear, TypeOK
  <2>2. CASE ~Current(p)
    BY <2>1, <2>2, IdleMarked DEF Current
  <2>3. CASE Current(p)
    <3>1. /\ Proper(p)' /\ h \in Notices(seed[p]) /\ h.op = "didClear"
          /\ waiting'[p] = waiting[p] /\ ~waiting[p]
          /\ \A ro, no, k : no # "didClear" => Underway(p, ro, no, k)' = Underway(p, ro, no, k)
          /\ \A ro, k : /\ Underway(p, ro, "didClear", k) = Underway(p, ro, "didClear", k)' + (IF h.key = k THEN 1 ELSE 0)
                        /\ Underway(p, ro, "didClear", k)' \in Nat
      <4>1. h.seed = seed[p]
        BY <2>3 DEF Current
      <4> QED BY <2>1, <4>1, DeliveredNumbers
    <3>2. h.key = Null
      BY <3>1 DEF Notices
    <3>3. Underway(p, "clear", "didClear", Null)' = 0
      <4>1. Underway(p, "clear", "didClear", Null) \in {0, 1}
        BY <1>0 DEF Marked
      <4> QED BY <3>1, <3>2, <4>1
    <3>4. /\ \A k : Underway(p, "set", "didSet", k)' = Underway(p, "set", "didSet", k)
          /\ \A k : Underway(p, "remove", "didRemove", k)' = Underway(p, "remove", "didRemove", k)
          /\ \A k : Underway(p, "get", "didGet", k)' = Underway(p, "get", "didGet", k)
      BY <3>1
    <3>5. /\ Underway(p, "get", "didGet", Null)' = IF pendingGet'[p] \/ waiting'[p] THEN 1 ELSE 0
          /\ \A k \in Keys : pendingValues'[p][k] = Underway(p, "set", "didSet", k)' + Underway(p, "remove", "didRemove", k)'
      BY <1>0, <2>1, <3>1, <3>4 DEF Marked
    <3>6. ~pendingClear'[p]
      BY <2>1, <2>3
    <3> QED BY <1>0, <2>1, <3>1, <3>3, <3>5, <3>6 DEF Marked
  <2> QED BY <2>2, <2>3
<1>6. CASE DispatchStorageEvent(p)
  <2>1. /\ Deliver(p, "event") /\ seed' = seed /\ pendingValues' = pendingValues
        /\ pendingClear' = pendingClear /\ pendingGet' = pendingGet
    BY <1>6 DEF DispatchStorageEvent
  <2>2. loaded[p] => loaded'[p]
    BY <1>6 DEF DispatchStorageEvent, ApplyClear, ApplyItem, TypeOK
  <2> QED BY <2>1, <2>2, IdleMarked
<1>7. CASE ClearCache(p)
  BY <1>7, DroppedMarked DEF ClearCache
<1> QED BY <1>1, <1>2, <1>3, <1>4, <1>5, <1>6, <1>7 DEF MainThread

LEMMA NextMarked == TypeOK /\ AllProper /\ AllMarked /\ [Next]_vars => AllProper' /\ AllMarked'
<1> SUFFICES ASSUME TypeOK, AllProper, AllMarked, [Next]_vars, NEW q \in Procs PROVE Proper(q)' /\ Marked(q)'
  BY DEF AllProper, AllMarked
<1>1. CASE UNCHANGED vars
  <2>1. SameAt(q)
    BY <1>1 DEF vars, copyVars, SameAt, SameCopy
  <2> QED BY <2>1, SameMarked
<1>2. ASSUME NEW p \in Procs, Scripts(p) PROVE Proper(q)' /\ Marked(q)'
  <2>1. q # p => SameAt(q)
    BY <1>2, ScriptSame
  <2> QED BY <1>2, <2>1, SameMarked, ScriptMarked
<1>3. ASSUME NEW p \in Procs, Manager(p) PROVE Proper(q)' /\ Marked(q)'
  BY <1>3, ManagerMarked
<1>4. ASSUME NEW p \in Procs, MainThread(p) PROVE Proper(q)' /\ Marked(q)'
  <2>1. q # p => SameAt(q)
    BY <1>4, MainSame
  <2> QED BY <1>4, <2>1, SameMarked, MainMarked
<1>5. CASE DeleteAllEntries
  BY <1>5, DeleteMarked
<1> QED BY <1>1, <1>2, <1>3, <1>4, <1>5 DEF Next

LEMMA InitMarked == Init => AllProper /\ AllMarked
<1> SUFFICES ASSUME Init, NEW p \in Procs PROVE Proper(p) /\ Marked(p)
  BY DEF AllProper, AllMarked
<1>1. toManager[p] = <<>> /\ toProcess[p] = <<>> /\ seed[p] = 0
  BY DEF Init
<1>2. \A V : Count(<<>>, V) = 0
  <2>1. ASSUME NEW V PROVE Count(<<>>, V) = 0
    <3>1. <<>> \in Seq({}) /\ Len(<<>>) = 0
      BY EmptySeq
    <3>2. \A s \in Seq({}) : Count(s, V) \in Nat /\ Count(s, V) <= Len(s)
      BY CountType
    <3>3. Count(<<>>, V) \in Nat /\ Count(<<>>, V) <= 0
      BY <3>1, <3>2
    <3> QED BY <3>3
  <2> QED BY <2>1
<1>3. \A ro, no, k : Underway(p, ro, no, k) = 0
  BY <1>1, <1>2 DEF Underway
<1>4. Proper(p)
  BY <1>1, EmptySeq DEF Proper
<1> QED BY <1>3, <1>4 DEF Init, Marked

\* InFlight counts indices, Underway members of a set of messages.
LEMMA MarkersFollow == TypeOK /\ AllProper /\ AllMarked => MarkersMatchAcks
<1> SUFFICES ASSUME TypeOK, AllProper, AllMarked PROVE MarkersMatchAcks
  OBVIOUS
<1>1. ASSUME NEW p \in Procs, NEW ro, NEW no, NEW k PROVE InFlight(p, ro, no, k) = Underway(p, ro, no, k)
  <2>0. toManager[p] \in Seq(Request) /\ toProcess[p] \in Seq(Notice)
    BY DEF TypeOK
  <2>1. \A i \in DOMAIN toManager[p] : toManager[p][i] \in Request
    BY <2>0, ElementOfSeq, LenProperties
  <2>2. \A i \in DOMAIN toProcess[p] : toProcess[p][i] \in Notice
    BY <2>0, ElementOfSeq, LenProperties
  <2>3. DOMAIN toManager[p] = 1..Len(toManager[p]) /\ DOMAIN toProcess[p] = 1..Len(toProcess[p])
    BY <2>0, LenProperties
  <2> DEFINE A == {i \in DOMAIN toManager[p] : /\ toManager[p][i].op = ro /\ toManager[p][i].seed = seed[p]
                                              /\ toManager[p][i].key = k}
             B == {i \in DOMAIN toProcess[p] : /\ toProcess[p][i].op = no /\ toProcess[p][i].seed = seed[p]
                                              /\ toProcess[p][i].key = k}
             C == {i \in 1..Len(toManager[p]) : toManager[p][i] \in As(Request, ro, seed[p], k)}
             D == {i \in 1..Len(toProcess[p]) : toProcess[p][i] \in As(Notice, no, seed[p], k)}
  <2>4. A = C
    BY <2>1, <2>3 DEF As
  <2>5. B = D
    BY <2>2, <2>3 DEF As
  <2>6. Underway(p, ro, no, k) = Cardinality(C) + Cardinality(D)
    BY DEF Underway, Count, CountTo
  <2>7. InFlight(p, ro, no, k) = Cardinality(A) + Cardinality(B)
    BY DEF InFlight
  <2> HIDE DEF A, B, C, D
  <2> QED BY <2>4, <2>5, <2>6, <2>7
<1>2. ASSUME NEW p \in Procs
      PROVE  /\ \A k \in Keys : pendingValues[p][k] = InFlight(p, "set", "didSet", k)
                                                    + InFlight(p, "remove", "didRemove", k)
             /\ pendingClear[p] <=> InFlight(p, "clear", "didClear", Null) = 1
             /\ pendingGet[p] \/ waiting[p] <=> InFlight(p, "get", "didGet", Null) = 1
  <2>1. Marked(p)
    BY DEF AllMarked
  <2> QED BY <1>1, <2>1 DEF Marked
<1> QED BY <1>2 DEF MarkersMatchAcks

\* Every reachable state is well typed: in particular no message between StorageAreaMap
\* and StorageManager has a value where its key should be.
THEOREM StorageTypes == Spec => []TypeOK
<1>1. Init => TypeOK
  BY InitTypes
<1>2. TypeOK /\ [Next]_vars => TypeOK'
  BY NextTypes
<1> QED BY <1>1, <1>2, PTL DEF Spec

\* m_pendingValueChanges, m_hasPendingClear and m_hasPendingGetValues count exactly what
\* the current seed still waits for: the assertions of didGetValues, didSetItem,
\* didRemoveItem and didClear hold, and no marker is left behind.
THEOREM MarkersAreExact == Spec => []MarkersMatchAcks
<1> DEFINE I == TypeOK /\ AllProper /\ AllMarked
<1>1. Init => I
  BY InitTypes, InitMarked
<1>2. I /\ [Next]_vars => I'
  BY NextTypes, NextMarked
<1>3. I => MarkersMatchAcks
  BY MarkersFollow
<1> QED BY <1>1, <1>2, <1>3, PTL DEF Spec

-----------------------------------------------------------------------------
(* The last element of a sequence that is in a set V.                      *)

\* V's last element in s is at i, is m; V has none.
IsLast(s, V, i) == i \in 1..Len(s) /\ s[i] \in V /\ \A j \in 1..Len(s) : j > i => s[j] \notin V
EndsWith(s, V, m) == \E i \in 1..Len(s) : IsLast(s, V, i) /\ m = s[i]
None(s, V) == \A i \in 1..Len(s) : s[i] \notin V

LEMMA EndIsIn ==
  ASSUME NEW s, NEW V, NEW m, EndsWith(s, V, m)
  PROVE  ~None(s, V) /\ m \in V /\ \E i \in 1..Len(s) : m = s[i]
BY DEF EndsWith, IsLast, None

LEMMA LastAppended ==
  ASSUME NEW S, NEW s \in Seq(S), NEW x \in S, NEW V
  PROVE  /\ x \in V => ~None(Append(s, x), V) /\ \A m : EndsWith(Append(s, x), V, m) <=> m = x
         /\ x \notin V => /\ None(Append(s, x), V) <=> None(s, V)
                          /\ \A m : EndsWith(Append(s, x), V, m) <=> EndsWith(s, V, m)
<1> DEFINE t == Append(s, x)
<1>1. Len(t) = Len(s) + 1 /\ Len(s) \in Nat /\ t[Len(s) + 1] = x /\ \A i \in 1..Len(s) : t[i] = s[i]
  BY Appended
<1> HIDE DEF t
<1>2. \A i : i \in 1..Len(t) <=> i \in 1..Len(s) \/ i = Len(s) + 1
  BY <1>1
<1>3. CASE x \in V
  <2>1. \A i : IsLast(t, V, i) <=> i = Len(s) + 1
    <3>1. IsLast(t, V, Len(s) + 1)
      BY <1>1, <1>2, <1>3 DEF IsLast
    <3>2. ASSUME NEW i, IsLast(t, V, i) PROVE i = Len(s) + 1
      <4>1. i \in 1..Len(t) /\ ~(Len(s) + 1 > i)
        BY <1>1, <1>2, <1>3, <3>2 DEF IsLast
      <4> QED BY <1>1, <1>2, <4>1
    <3> QED BY <3>1, <3>2
  <2>2. ~None(t, V)
    BY <1>1, <1>2, <1>3 DEF None
  <2>3. \A m : EndsWith(t, V, m) <=> m = x
    BY <1>1, <1>2, <2>1 DEF EndsWith
  <2> QED BY <1>3, <2>2, <2>3 DEF t
<1>4. CASE x \notin V
  <2>1. \A i : IsLast(t, V, i) <=> IsLast(s, V, i)
    <3>1. ASSUME NEW i, IsLast(t, V, i) PROVE IsLast(s, V, i)
      BY <1>1, <1>2, <1>4, <3>1 DEF IsLast
    <3>2. ASSUME NEW i, IsLast(s, V, i) PROVE IsLast(t, V, i)
      BY <1>1, <1>2, <1>4, <3>2 DEF IsLast
    <3> QED BY <3>1, <3>2
  <2>2. None(t, V) <=> None(s, V)
    BY <1>1, <1>2, <1>4 DEF None
  <2>3. \A i : IsLast(s, V, i) => i \in 1..Len(s) /\ i \in 1..Len(t) /\ t[i] = s[i]
    BY <1>1, <1>2 DEF IsLast
  <2>4. \A m : EndsWith(t, V, m) <=> EndsWith(s, V, m)
    BY <2>1, <2>3 DEF EndsWith
  <2> QED BY <1>4, <2>2, <2>4 DEF t
<1> QED BY <1>3, <1>4

LEMMA LastTaken ==
  ASSUME NEW S, NEW s \in Seq(S), s # <<>>, NEW V
  PROVE  /\ None(s, V) <=> None(Tail(s), V) /\ Head(s) \notin V
         /\ ~None(Tail(s), V) => \A m : EndsWith(s, V, m) <=> EndsWith(Tail(s), V, m)
         /\ None(Tail(s), V) /\ Head(s) \in V => \A m : EndsWith(s, V, m) <=> m = Head(s)
<1> DEFINE t == Tail(s)
<1>1. /\ Len(t) = Len(s) - 1 /\ Len(s) \in Nat /\ Len(s) >= 1 /\ Len(t) \in Nat
      /\ \A i \in 1..Len(t) : t[i] = s[i + 1]
      /\ Head(s) = s[1]
  BY HeadTailProperties, LenProperties, EmptySeq
<1> HIDE DEF t
<1>2. \A i : i \in 1..Len(s) <=> i = 1 \/ (i - 1 \in 1..Len(t) /\ i \in 2..Len(s))
  BY <1>1
<1>3. \A i \in 1..Len(t) : i + 1 \in 1..Len(s) /\ (i + 1) - 1 = i
  BY <1>1
<1>4. \A i \in 2..Len(s) : i - 1 \in 1..Len(t) /\ t[i - 1] = s[i]
  BY <1>1
<1>5. None(s, V) <=> None(t, V) /\ Head(s) \notin V
  <2>1. None(s, V) => None(t, V) /\ Head(s) \notin V
    BY <1>1, <1>3 DEF None
  <2>2. None(t, V) /\ Head(s) \notin V => None(s, V)
    <3> SUFFICES ASSUME None(t, V), Head(s) \notin V, NEW i \in 1..Len(s) PROVE s[i] \notin V
      BY DEF None
    <3>1. i = 1 \/ i \in 2..Len(s)
      BY <1>1
    <3> QED BY <1>1, <1>4, <3>1 DEF None
  <2> QED BY <2>1, <2>2
<1>6. \A i \in 1..Len(t) : IsLast(s, V, i + 1) <=> IsLast(t, V, i)
  <2>1. ASSUME NEW i \in 1..Len(t), IsLast(s, V, i + 1) PROVE IsLast(t, V, i)
    <3>1. t[i] \in V
      BY <1>1, <2>1 DEF IsLast
    <3>2. ASSUME NEW j \in 1..Len(t), j > i PROVE t[j] \notin V
      <4>1. j + 1 \in 1..Len(s) /\ j + 1 > i + 1
        BY <1>1, <3>2
      <4> QED BY <1>1, <2>1, <4>1 DEF IsLast
    <3> QED BY <3>1, <3>2 DEF IsLast
  <2>2. ASSUME NEW i \in 1..Len(t), IsLast(t, V, i) PROVE IsLast(s, V, i + 1)
    <3>1. s[i + 1] \in V /\ i + 1 \in 1..Len(s)
      BY <1>1, <1>3, <2>2 DEF IsLast
    <3>2. ASSUME NEW j \in 1..Len(s), j > i + 1 PROVE s[j] \notin V
      <4>1. j \in 2..Len(s) /\ j - 1 > i
        BY <1>1, <3>2
      <4> QED BY <1>4, <2>2, <4>1 DEF IsLast
    <3> QED BY <3>1, <3>2 DEF IsLast
  <2> QED BY <2>1, <2>2
<1>7. ASSUME NEW m PROVE EndsWith(t, V, m) => EndsWith(s, V, m)
  <2> SUFFICES ASSUME NEW i \in 1..Len(t), IsLast(t, V, i), m = t[i] PROVE EndsWith(s, V, m)
    BY DEF EndsWith
  <2>1. IsLast(s, V, i + 1) /\ m = s[i + 1] /\ i + 1 \in 1..Len(s)
    BY <1>1, <1>3, <1>6
  <2> QED BY <2>1 DEF EndsWith
<1>8. ASSUME ~None(t, V), NEW m, EndsWith(s, V, m) PROVE EndsWith(t, V, m)
  <2>1. PICK i \in 1..Len(s) : IsLast(s, V, i) /\ m = s[i]
    BY <1>8 DEF EndsWith
  <2>2. PICK j \in 1..Len(t) : t[j] \in V
    BY <1>8 DEF None
  <2>3. s[j + 1] \in V /\ j + 1 \in 1..Len(s)
    BY <1>1, <1>3, <2>2
  <2>4. i # 1
    <3>1. j + 1 > 1
      BY <1>1
    <3> QED BY <2>1, <2>3, <3>1 DEF IsLast
  <2>5. i \in 2..Len(s) /\ i - 1 \in 1..Len(t) /\ (i - 1) + 1 = i
    BY <1>1, <2>4
  <2>6. IsLast(t, V, i - 1) /\ m = t[i - 1]
    BY <1>4, <1>6, <2>1, <2>5
  <2> QED BY <2>5, <2>6 DEF EndsWith
<1>9. ASSUME None(t, V), Head(s) \in V, NEW m PROVE EndsWith(s, V, m) <=> m = Head(s)
  <2>1. 1 \in 1..Len(s) /\ \A j \in 1..Len(s) : j > 1 => s[j] \notin V
    <3>1. ASSUME NEW j \in 1..Len(s), j > 1 PROVE s[j] \notin V
      <4>1. j \in 2..Len(s)
        BY <1>1, <3>1
      <4> QED BY <1>4, <1>9, <4>1 DEF None
    <3> QED BY <1>1, <3>1
  <2>2. IsLast(s, V, 1)
    BY <1>1, <1>9, <2>1 DEF IsLast
  <2>3. \A i : IsLast(s, V, i) => i = 1
    BY <1>1, <2>1 DEF IsLast
  <2> QED BY <1>1, <2>1, <2>2, <2>3 DEF EndsWith
<1> QED BY <1>5, <1>7, <1>8, <1>9 DEF t

\* The first one removed.
LEMMA FirstRemoved ==
  ASSUME NEW S, NEW s \in Seq(S), 1 \in DOMAIN s
  PROVE  s # <<>> /\ RemoveAt(s, 1) = Tail(s) /\ s[1] = Head(s) /\ Head(s) \in S
<1>0. 1 \in 1..Len(s) /\ Len(s) \in Nat
  BY LenProperties
<1>1. s # <<>>
  BY <1>0, EmptySeq
<1>2. /\ RemoveAt(s, 1) \in Seq(S) /\ Len(RemoveAt(s, 1)) = Len(s) - 1
      /\ \A j \in 1..(Len(s) - 1) : RemoveAt(s, 1)[j] = IF j < 1 THEN s[j] ELSE s[j + 1]
  BY <1>0, Removed
<1>3. /\ Tail(s) \in Seq(S) /\ Len(Tail(s)) = Len(s) - 1 /\ \A j \in 1..Len(Tail(s)) : Tail(s)[j] = s[j + 1]
      /\ s[1] = Head(s) /\ Head(s) \in S
  BY <1>1, HeadTailProperties
<1>4. \A j \in 1..(Len(s) - 1) : RemoveAt(s, 1)[j] = Tail(s)[j]
  <2>1. \A j \in 1..(Len(s) - 1) : ~(j < 1)
    BY <1>0
  <2> QED BY <1>2, <1>3, <2>1
<1>5. RemoveAt(s, 1) = Tail(s)
  BY <1>2, <1>3, <1>4, SeqEqual
<1> QED BY <1>1, <1>3, <1>5

-----------------------------------------------------------------------------
(* What a copy that is not hurt is worth, while changes are still under way.*)

\* The process's own changes of key k under way, and what it will be told about k:
\* changes of others, and acknowledgements for which it keeps its own items.
Own(s, k) == {m \in Request : m.op # "get" /\ m.seed = s /\ m.key \in {k, Null}}
Touching(s, k) ==
  {m \in Notice : /\ m.key \in {k, Null}
                  /\ IF m.op = "event" THEN ~m.flag ELSE m.op # "clearCache" /\ m.seed = s}
Dooming(s) == {m \in Notice : m.op = "clearCache" \/ (m.op = "didSet" /\ m.flag /\ m.seed = s)}

\* GetValues is sent and answered while the process waits.
Gets(p) ==
  /\ reply[p] # {} => waiting[p]
  /\ \A i \in 1..Len(toManager[p]) :
       toManager[p][i].op = "get" => waiting[p] /\ reply[p] = {} /\ toManager[p][i].seed = seed[p]

\* Seeds grow along the queue, and a clear is the first request with its seed.
Ranked(p) ==
  \A i, j \in 1..Len(toManager[p]) : i < j =>
    /\ toManager[p][i].seed <= toManager[p][j].seed
    /\ toManager[p][j].op = "clear" => toManager[p][i].seed < toManager[p][j].seed

\* The copy, or the reply that will become it, is of some use.
Useful(p) == p \notin hurt /\ (loaded[p] \/ reply[p] # {})

\* Requests from before a copy was started afresh are followed by its clear.
Fresh(p) ==
  Useful(p) => \A i \in 1..Len(toManager[p]) : toManager[p][i].seed < seed[p] =>
    \E j \in 1..Len(toManager[p]) : j > i /\ toManager[p][j].op = "clear" /\ toManager[p][j].seed = seed[p]

\* The copy shows its last own change.
OwnLast(p) ==
  p \notin hurt /\ loaded[p] => \A k \in Keys : \A m :
    EndsWith(toManager[p], Own(seed[p], k), m) => map[p][k] = m.value

\* Both the copy and a reply to come have v at k.
Shows(p, k, v) == (loaded[p] => map[p][k] = v) /\ \A values \in reply[p] : values[k] = v

\* Where no own change is under way, the last thing the process will be told about a
\* key makes it agree with the area: a change of another process brings the area's
\* value, and an acknowledgement or nothing leaves the value it has.
Agreeing(p) ==
  Useful(p) /\ None(toProcess[p], Dooming(seed[p])) =>
    \A k \in Keys : None(toManager[p], Own(seed[p], k)) =>
      /\ None(toProcess[p], Touching(seed[p], k)) => Shows(p, k, area[k])
      /\ \A m : EndsWith(toProcess[p], Touching(seed[p], k), m) =>
           IF m.op = "event" THEN area[k] = m.value ELSE Shows(p, k, area[k])

Settled(p) == Gets(p) /\ Ranked(p) /\ Fresh(p) /\ OwnLast(p) /\ Agreeing(p)
AllSettled == \A p \in Procs : Settled(p)

LEMMA CountNone ==
  ASSUME NEW S, NEW s \in Seq(S), NEW V
  PROVE  Count(s, V) = 0 <=> None(s, V)
BY CountType DEF None

\* The messages of the queues of p, op by op.
LEMMA Shapes ==
  ASSUME TypeOK, AllProper, NEW p \in Procs
  PROVE  /\ \A i \in 1..Len(toManager[p]) : LET m == toManager[p][i] IN
              /\ m \in Request /\ m.seed \in Nat /\ m.seed <= seed[p]
              /\ m.key \in Keys \union {Null}
              /\ m.op \in {"get", "clear"} <=> m.key = Null
              /\ m.op \in {"get", "clear", "set", "remove"}
              /\ m.op # "set" => m.value = Null
         /\ \A i \in 1..Len(toProcess[p]) : LET m == toProcess[p][i] IN
              /\ m \in Notice /\ m.seed \in Nat /\ m.seed <= seed[p]
              /\ m.key \in Keys \union {Null}
              /\ m.op \in {"didGet", "didClear"} => m.key = Null
              /\ m.op \in {"didSet", "didRemove"} => m.key # Null
              /\ m.key = Null => m.value = Null
              /\ m.op \in {"didGet", "didSet", "didRemove", "didClear", "event", "clearCache"}
<1>1. toManager[p] \in Seq(Requests(seed[p])) /\ toProcess[p] \in Seq(Notices(seed[p]))
  BY Keep
<1>2. /\ \A i \in 1..Len(toManager[p]) : toManager[p][i] \in Requests(seed[p])
      /\ \A i \in 1..Len(toProcess[p]) : toProcess[p][i] \in Notices(seed[p])
  BY <1>1, ElementOfSeq
<1>3. \A m \in Requests(seed[p]) :
        /\ m \in Request /\ m.seed \in Nat /\ m.seed <= seed[p] /\ m.key \in Keys \union {Null}
        /\ m.op \in {"get", "clear"} <=> m.key = Null
        /\ m.op \in {"get", "clear", "set", "remove"}
        /\ m.op # "set" => m.value = Null
  BY DEF Requests, Request
<1>4. \A m \in Notices(seed[p]) :
        /\ m \in Notice /\ m.seed \in Nat /\ m.seed <= seed[p] /\ m.key \in Keys \union {Null}
        /\ m.op \in {"didGet", "didClear"} => m.key = Null
        /\ m.op \in {"didSet", "didRemove"} => m.key # Null
        /\ m.key = Null => m.value = Null
        /\ m.op \in {"didGet", "didSet", "didRemove", "didClear", "event", "clearCache"}
  BY DEF Notices, Notice
<1> QED BY <1>2, <1>3, <1>4

\* What is under way, by the emptiness of the two queues.
LEMMA UnderwayNone ==
  ASSUME TypeOK, AllProper, NEW p \in Procs, NEW ro, NEW no, NEW k
  PROVE  Underway(p, ro, no, k) = 0 <=> /\ None(toManager[p], As(Request, ro, seed[p], k))
                                        /\ None(toProcess[p], As(Notice, no, seed[p], k))
<1>1. toManager[p] \in Seq(Requests(seed[p])) /\ toProcess[p] \in Seq(Notices(seed[p]))
  BY Keep
<1>2. /\ Count(toManager[p], As(Request, ro, seed[p], k)) = 0 <=> None(toManager[p], As(Request, ro, seed[p], k))
      /\ Count(toProcess[p], As(Notice, no, seed[p], k)) = 0 <=> None(toProcess[p], As(Notice, no, seed[p], k))
  BY <1>1, CountNone
<1>3. /\ Count(toManager[p], As(Request, ro, seed[p], k)) \in Nat
      /\ Count(toProcess[p], As(Notice, no, seed[p], k)) \in Nat
  BY UnderwayType
<1>4. \A x, y \in Nat : x + y = 0 <=> x = 0 /\ y = 0
  OBVIOUS
<1>5. Underway(p, ro, no, k) = 0 <=> /\ Count(toManager[p], As(Request, ro, seed[p], k)) = 0
                                     /\ Count(toProcess[p], As(Notice, no, seed[p], k)) = 0
  BY <1>3, <1>4 DEF Underway
<1> QED BY <1>2, <1>5

\* The markers of p, by what is in the queues.
LEMMA MarkedBySets ==
  ASSUME TypeOK, AllProper, AllMarked, NEW p \in Procs
  PROVE  LET Nothing(ro, no, k) == /\ None(toManager[p], As(Request, ro, seed[p], k))
                                   /\ None(toProcess[p], As(Notice, no, seed[p], k))
         IN /\ \A k \in Keys : pendingValues[p][k] \in Nat
            /\ \A k \in Keys : pendingValues[p][k] = 0
                                  <=> Nothing("set", "didSet", k) /\ Nothing("remove", "didRemove", k)
            /\ ~pendingClear[p] <=> Nothing("clear", "didClear", Null)
            /\ ~pendingGet[p] /\ ~waiting[p] <=> Nothing("get", "didGet", Null)
            /\ waiting[p] => ~loaded[p]
            /\ ~loaded[p] => ~pendingClear[p] /\ \A k \in Keys : pendingValues[p][k] = 0
<1>1. Marked(p)
  BY DEF AllMarked
<1>2. \A k \in Keys : pendingValues[p][k] \in Nat
  BY DEF TypeOK
<1>3. ASSUME NEW k \in Keys
      PROVE  pendingValues[p][k] = 0 <=> Underway(p, "set", "didSet", k) = 0 /\ Underway(p, "remove", "didRemove", k) = 0
  <2>1. PICK a \in Nat, b \in Nat : a = Underway(p, "set", "didSet", k) /\ b = Underway(p, "remove", "didRemove", k)
    BY Numbers
  <2>2. pendingValues[p][k] = a + b
    BY <1>1, <2>1 DEF Marked
  <2> QED BY <2>1, <2>2
<1>4. ~pendingClear[p] <=> Underway(p, "clear", "didClear", Null) = 0
  BY <1>1 DEF Marked
<1>5. ~pendingGet[p] /\ ~waiting[p] <=> Underway(p, "get", "didGet", Null) = 0
  BY <1>1 DEF Marked
<1>6. /\ \A k : Underway(p, "set", "didSet", k) = 0 <=> /\ None(toManager[p], As(Request, "set", seed[p], k))
                                                        /\ None(toProcess[p], As(Notice, "didSet", seed[p], k))
      /\ \A k : Underway(p, "remove", "didRemove", k) = 0 <=> /\ None(toManager[p], As(Request, "remove", seed[p], k))
                                                              /\ None(toProcess[p], As(Notice, "didRemove", seed[p], k))
      /\ Underway(p, "clear", "didClear", Null) = 0 <=> /\ None(toManager[p], As(Request, "clear", seed[p], Null))
                                                        /\ None(toProcess[p], As(Notice, "didClear", seed[p], Null))
      /\ Underway(p, "get", "didGet", Null) = 0 <=> /\ None(toManager[p], As(Request, "get", seed[p], Null))
                                                    /\ None(toProcess[p], As(Notice, "didGet", seed[p], Null))
  BY UnderwayNone
<1>7. /\ waiting[p] => ~loaded[p]
      /\ ~loaded[p] => ~pendingClear[p] /\ \A k \in Keys : pendingValues[p][k] = 0
  BY <1>1 DEF Marked
<1> QED BY <1>2, <1>3, <1>4, <1>5, <1>6, <1>7

\* Own changes under way are marked as pending.
LEMMA OwnMarked ==
  ASSUME TypeOK, AllProper, AllMarked, NEW p \in Procs, NEW k \in Keys, ~None(toManager[p], Own(seed[p], k))
  PROVE  (pendingValues[p][k] > 0 \/ pendingClear[p]) /\ loaded[p]
<1>1. PICK i \in 1..Len(toManager[p]) : toManager[p][i] \in Own(seed[p], k)
  BY DEF None
<1> DEFINE m == toManager[p][i]
<1>2. /\ m \in Request /\ m.seed = seed[p] /\ m.op # "get" /\ m.key \in {k, Null}
      /\ m.op \in {"get", "clear"} <=> m.key = Null
      /\ m.op \in {"get", "clear", "set", "remove"}
  BY <1>1, Shapes DEF Own
<1>3. \/ m \in As(Request, "set", seed[p], k) \/ m \in As(Request, "remove", seed[p], k)
      \/ m \in As(Request, "clear", seed[p], Null)
  BY <1>2, LocalStorageAssumption DEF As
<1>4. \/ ~None(toManager[p], As(Request, "set", seed[p], k)) \/ ~None(toManager[p], As(Request, "remove", seed[p], k))
      \/ ~None(toManager[p], As(Request, "clear", seed[p], Null))
  BY <1>3 DEF None
<1>5. pendingValues[p][k] # 0 \/ pendingClear[p]
  BY <1>4, MarkedBySets
<1>6. pendingValues[p][k] \in Nat
  BY DEF TypeOK
<1>7. loaded[p]
  BY <1>5, MarkedBySets
<1> QED BY <1>5, <1>6, <1>7

\* So are acknowledgements still to come.
LEMMA AckMarked ==
  ASSUME TypeOK, AllProper, AllMarked, NEW p \in Procs, NEW k \in Keys,
         NEW m \in Touching(seed[p], k), \E i \in 1..Len(toProcess[p]) : m = toProcess[p][i], m.op # "event"
  PROVE  pendingValues[p][k] > 0 \/ pendingClear[p] \/ pendingGet[p] \/ waiting[p]
<1>1. PICK i \in 1..Len(toProcess[p]) : m = toProcess[p][i]
  OBVIOUS
<1>2. /\ m \in Notice /\ m.seed = seed[p] /\ m.op # "clearCache" /\ m.key \in {k, Null}
      /\ m.op \in {"didGet", "didClear"} => m.key = Null
      /\ m.op \in {"didSet", "didRemove"} => m.key # Null
      /\ m.op \in {"didGet", "didSet", "didRemove", "didClear", "event", "clearCache"}
  BY <1>1, Shapes DEF Touching
<1>3. \/ m \in As(Notice, "didSet", seed[p], k) \/ m \in As(Notice, "didRemove", seed[p], k)
      \/ m \in As(Notice, "didClear", seed[p], Null) \/ m \in As(Notice, "didGet", seed[p], Null)
  BY <1>2, LocalStorageAssumption DEF As
<1>4. \/ ~None(toProcess[p], As(Notice, "didSet", seed[p], k)) \/ ~None(toProcess[p], As(Notice, "didRemove", seed[p], k))
      \/ ~None(toProcess[p], As(Notice, "didClear", seed[p], Null)) \/ ~None(toProcess[p], As(Notice, "didGet", seed[p], Null))
  BY <1>1, <1>3 DEF None
<1>5. pendingValues[p][k] # 0 \/ pendingClear[p] \/ pendingGet[p] \/ waiting[p]
  BY <1>4, MarkedBySets
<1>6. pendingValues[p][k] \in Nat
  BY DEF TypeOK
<1> QED BY <1>5, <1>6

\* Nothing under way, no marker.
LEMMA Unmarked ==
  ASSUME TypeOK, AllProper, AllMarked, NEW p \in Procs, NEW k \in Keys, ~waiting[p], Gets(p),
         None(toManager[p], Own(seed[p], k)),
         \A i \in 1..Len(toProcess[p]) : toProcess[p][i] \in Touching(seed[p], k) => toProcess[p][i].op = "event"
  PROVE  pendingValues[p][k] = 0 /\ ~pendingClear[p] /\ ~pendingGet[p]
<1>1. /\ As(Request, "set", seed[p], k) \subseteq Own(seed[p], k)
      /\ As(Request, "remove", seed[p], k) \subseteq Own(seed[p], k)
      /\ As(Request, "clear", seed[p], Null) \subseteq Own(seed[p], k)
  BY DEF As, Own
<1>2. /\ None(toManager[p], As(Request, "set", seed[p], k)) /\ None(toManager[p], As(Request, "remove", seed[p], k))
      /\ None(toManager[p], As(Request, "clear", seed[p], Null))
  BY <1>1 DEF None
<1>3. None(toManager[p], As(Request, "get", seed[p], Null))
  BY DEF None, As, Gets
<1>4. ASSUME NEW no \in {"didSet", "didRemove", "didClear", "didGet"}, NEW j \in {k, Null}
      PROVE  None(toProcess[p], As(Notice, no, seed[p], j))
  <2>1. \A m \in As(Notice, no, seed[p], j) : m \in Touching(seed[p], k) /\ m.op # "event"
    BY DEF As, Touching
  <2> QED BY <2>1 DEF None
<1>5. /\ None(toProcess[p], As(Notice, "didSet", seed[p], k)) /\ None(toProcess[p], As(Notice, "didRemove", seed[p], k))
      /\ None(toProcess[p], As(Notice, "didClear", seed[p], Null)) /\ None(toProcess[p], As(Notice, "didGet", seed[p], Null))
  BY <1>4
<1> QED BY <1>2, <1>3, <1>5, MarkedBySets

-----------------------------------------------------------------------------
(* Scripts.                                                                *)

\* The inductive invariant.
Invs == TypeOK /\ AllProper /\ AllMarked /\ AllSettled

LEMMA SameSettled ==
  ASSUME Invs, NEW q \in Procs, SameAt(q), area' = area
  PROVE  Settled(q)'
<1>1. Settled(q)
  BY DEF Invs, AllSettled
<1>2. Gets(q)' /\ Ranked(q)' /\ Fresh(q)' /\ OwnLast(q)'
  BY <1>1 DEF Settled, Gets, Ranked, Fresh, Useful, OwnLast, SameAt, SameCopy
<1>3. \A k, v : Shows(q, k, v)' <=> Shows(q, k, v)
  BY DEF Shows, SameAt, SameCopy
<1>4. Agreeing(q)'
  BY <1>1, <1>3 DEF Settled, Agreeing, Useful, SameAt, SameCopy
<1> QED BY <1>2, <1>4 DEF Settled

\* The queue to the manager with one more request.
LEMMA Sent ==
  ASSUME TypeOK, AllProper, NEW p \in Procs, NEW m \in Request, toManager'[p] = Append(toManager[p], m)
  PROVE  /\ Len(toManager'[p]) = Len(toManager[p]) + 1 /\ Len(toManager[p]) \in Nat
         /\ \A i : i \in 1..Len(toManager'[p]) <=> i \in 1..Len(toManager[p]) \/ i = Len(toManager[p]) + 1
         /\ \A i \in 1..Len(toManager[p]) : toManager'[p][i] = toManager[p][i]
         /\ toManager'[p][Len(toManager[p]) + 1] = m
         /\ \A V : /\ m \in V => /\ ~None(toManager'[p], V) 
                                 /\ \A x : EndsWith(toManager'[p], V, x) <=> x = m
                   /\ m \notin V => /\ None(toManager'[p], V) <=> None(toManager[p], V)
                                    /\ \A x : EndsWith(toManager'[p], V, x) <=> EndsWith(toManager[p], V, x)
<1>1. toManager[p] \in Seq(Request)
  BY DEF TypeOK
<1> DEFINE t == Append(toManager[p], m)
<1>2. /\ Len(t) = Len(toManager[p]) + 1 /\ Len(toManager[p]) \in Nat
      /\ \A i \in 1..Len(toManager[p]) : t[i] = toManager[p][i]
      /\ t[Len(toManager[p]) + 1] = m
  BY <1>1, Appended
<1>3. ASSUME NEW V
      PROVE  /\ m \in V => ~None(t, V) /\ \A x : EndsWith(t, V, x) <=> x = m
             /\ m \notin V => /\ None(t, V) <=> None(toManager[p], V)
                              /\ \A x : EndsWith(t, V, x) <=> EndsWith(toManager[p], V, x)
  BY <1>1, LastAppended
<1> HIDE DEF t
<1>4. \A i : i \in 1..Len(t) <=> i \in 1..Len(toManager[p]) \/ i = Len(toManager[p]) + 1
  BY <1>2
<1>5. toManager'[p] = t
  BY DEF t
<1> QED BY <1>2, <1>3, <1>4, <1>5

\* Without a marker there is no own change under way.
LEMMA UnloadedNone ==
  ASSUME TypeOK, AllProper, AllMarked, NEW p \in Procs, ~loaded[p], NEW k \in Keys
  PROVE  None(toManager[p], Own(seed[p], k))
BY OwnMarked

\* While the process does not wait, there is neither a GetValues nor a reply.
LEMMA NoGets ==
  ASSUME NEW p \in Procs, Gets(p), ~waiting[p]
  PROVE  reply[p] = {} /\ \A i \in 1..Len(toManager[p]) : toManager[p][i].op # "get"
BY DEF Gets

LEMMA RankedSent ==
  ASSUME TypeOK, AllProper, NEW p \in Procs, NEW m \in Request, toManager'[p] = Append(toManager[p], m),
         Ranked(p), m.seed >= seed[p], m.op = "clear" => m.seed > seed[p]
  PROVE  Ranked(p)'
<1>1. /\ Len(toManager'[p]) = Len(toManager[p]) + 1 /\ Len(toManager[p]) \in Nat
      /\ \A i : i \in 1..Len(toManager'[p]) <=> i \in 1..Len(toManager[p]) \/ i = Len(toManager[p]) + 1
      /\ \A i \in 1..Len(toManager[p]) : toManager'[p][i] = toManager[p][i]
      /\ toManager'[p][Len(toManager[p]) + 1] = m
  BY Sent
<1>2. \A i \in 1..Len(toManager[p]) : toManager[p][i].seed \in Nat /\ toManager[p][i].seed <= seed[p]
  BY Shapes
<1>3. m.seed \in Nat /\ seed[p] \in Nat
  BY DEF Request, TypeOK
<1> SUFFICES ASSUME NEW i \in 1..Len(toManager'[p]), NEW j \in 1..Len(toManager'[p]), i < j
             PROVE  /\ toManager'[p][i].seed <= toManager'[p][j].seed
                    /\ toManager'[p][j].op = "clear" => toManager'[p][i].seed < toManager'[p][j].seed
  BY DEF Ranked
<1>4. i \in 1..Len(toManager[p])
  BY <1>1
<1>5. CASE j \in 1..Len(toManager[p])
  BY <1>1, <1>4, <1>5 DEF Ranked
<1>6. CASE j = Len(toManager[p]) + 1
  <2>1. toManager'[p][j] = m /\ toManager'[p][i] = toManager[p][i]
    BY <1>1, <1>4, <1>6
  <2>2. toManager[p][i].seed <= m.seed /\ (m.op = "clear" => toManager[p][i].seed < m.seed)
    BY <1>2, <1>3, <1>4
  <2> QED BY <2>1, <2>2
<1> QED BY <1>1, <1>5, <1>6

LEMMA ScriptSettled ==
  ASSUME Invs, NEW p \in Procs, Scripts(p)
  PROVE  Settled(p)'
<1>0. /\ TypeOK /\ AllProper /\ AllMarked
      /\ Gets(p) /\ Ranked(p) /\ Fresh(p) /\ OwnLast(p) /\ Agreeing(p)
      /\ seed[p] \in Nat /\ Null \notin Keys
  BY LocalStorageAssumption DEF Invs, AllSettled, Settled, TypeOK
<1>1. CASE StartLoad(p)
  <2> DEFINE m == Msg("get", seed[p], Null, Null, FALSE)
  <2>1. m \in Request /\ m.op = "get" /\ m.seed = seed[p]
    BY <1>0, Messages DEF Msg
  <2>2. /\ toManager'[p] = Append(toManager[p], m) /\ seed'[p] = seed[p] /\ waiting'[p] /\ ~waiting[p]
        /\ reply'[p] = reply[p] /\ ~loaded'[p]
    BY <1>0, <1>1 DEF StartLoad, Send, copyVars, TypeOK
  <2> HIDE DEF m
  <2>3. reply[p] = {} /\ \A i \in 1..Len(toManager[p]) : toManager[p][i].op # "get"
    BY <1>0, <2>2, NoGets
  <2>4. /\ \A i : i \in 1..Len(toManager'[p]) <=> i \in 1..Len(toManager[p]) \/ i = Len(toManager[p]) + 1
        /\ \A i \in 1..Len(toManager[p]) : toManager'[p][i] = toManager[p][i]
        /\ toManager'[p][Len(toManager[p]) + 1] = m
    BY <1>0, <2>1, <2>2, Sent
  <2>5. Gets(p)'
    BY <2>1, <2>2, <2>3, <2>4 DEF Gets
  <2>6. Ranked(p)'
    BY <1>0, <2>1, <2>2, RankedSent
  <2>7. ~Useful(p)'
    BY <2>2, <2>3 DEF Useful
  <2> QED BY <2>2, <2>5, <2>6, <2>7 DEF Settled, Fresh, OwnLast, Agreeing
<1>2. CASE Clear(p)
  <2> DEFINE m == Msg("clear", seed[p] + 1, Null, Null, FALSE)
  <2>1. m \in Request /\ m.op = "clear" /\ m.seed = seed[p] + 1 /\ m.key = Null /\ m.value = Null
    <3>1. seed[p] + 1 \in Nat
      BY <1>0
    <3> QED BY <3>1, Messages DEF Msg
  <2>2. /\ toManager'[p] = Append(toManager[p], m) /\ seed'[p] = seed[p] + 1 /\ ~waiting'[p] /\ ~waiting[p]
        /\ reply'[p] = reply[p] /\ loaded'[p] /\ map'[p] = Empty
    BY <1>0, <1>2 DEF Clear, ResetValues, Send, TypeOK
  <2> HIDE DEF m
  <2>3. reply[p] = {} /\ \A i \in 1..Len(toManager[p]) : toManager[p][i].op # "get"
    BY <1>0, <2>2, NoGets
  <2>4. /\ Len(toManager[p]) \in Nat
        /\ \A i : i \in 1..Len(toManager'[p]) <=> i \in 1..Len(toManager[p]) \/ i = Len(toManager[p]) + 1
        /\ \A i \in 1..Len(toManager[p]) : toManager'[p][i] = toManager[p][i]
        /\ toManager'[p][Len(toManager[p]) + 1] = m
        /\ \A V : m \in V => ~None(toManager'[p], V) /\ \A x : EndsWith(toManager'[p], V, x) <=> x = m
    BY <1>0, <2>1, <2>2, Sent
  <2>5. Gets(p)'
    BY <2>1, <2>2, <2>3, <2>4 DEF Gets
  <2>6. Ranked(p)'
    BY <1>0, <2>1, <2>2, RankedSent
  <2>7. Fresh(p)'
    <3> SUFFICES ASSUME NEW i \in 1..Len(toManager'[p]), toManager'[p][i].seed < seed'[p]
                 PROVE  \E j \in 1..Len(toManager'[p]) : /\ j > i /\ toManager'[p][j].op = "clear"
                                                         /\ toManager'[p][j].seed = seed'[p]
      BY DEF Fresh
    <3>1. i # Len(toManager[p]) + 1
      BY <1>0, <2>1, <2>2, <2>4
    <3>2. Len(toManager[p]) + 1 > i /\ Len(toManager[p]) + 1 \in 1..Len(toManager'[p])
      BY <2>4, <3>1
    <3> QED BY <2>1, <2>2, <2>4, <3>2
  <2>8. ASSUME NEW k \in Keys PROVE m \in Own(seed'[p], k)
    BY <2>1, <2>2 DEF Own
  <2>9. OwnLast(p)'
    <3>1. \A k \in Keys : map'[p][k] = m.value
      BY <2>1, <2>2 DEF Empty
    <3> QED BY <2>4, <2>8, <3>1 DEF OwnLast
  <2>10. Agreeing(p)'
    BY <2>4, <2>8 DEF Agreeing
  <2> QED BY <2>5, <2>6, <2>7, <2>9, <2>10 DEF Settled
<1>3. ASSUME NEW k \in Keys, NEW v \in Values \union {Null}, ChangeItem(p, k, v) PROVE Settled(p)'
  <2> DEFINE op == IF v = Null THEN "remove" ELSE "set"
             m == Msg(op, seed[p], k, v, FALSE)
  <2>1. m \in Request /\ m.op # "get" /\ m.op # "clear" /\ m.seed = seed[p] /\ m.key = k /\ m.value = v
    BY <1>0, Messages DEF Msg
  <2>2. /\ toManager'[p] = Append(toManager[p], m) /\ seed'[p] = seed[p] /\ ~waiting'[p] /\ ~waiting[p]
        /\ reply'[p] = reply[p] /\ loaded'[p] /\ loaded[p] /\ toProcess'[p] = toProcess[p] /\ area' = area
        /\ (p \in hurt' <=> p \in hurt)
        /\ map'[p][k] = v /\ \A j \in Keys : j # k => map'[p][j] = map[p][j]
    BY <1>0, <1>3 DEF ChangeItem, Send, TypeOK, Items
  <2> HIDE DEF m, op
  <2>3. reply[p] = {} /\ \A i \in 1..Len(toManager[p]) : toManager[p][i].op # "get"
    BY <1>0, <2>2, NoGets
  <2>4. /\ Len(toManager[p]) \in Nat
        /\ \A i : i \in 1..Len(toManager'[p]) <=> i \in 1..Len(toManager[p]) \/ i = Len(toManager[p]) + 1
        /\ \A i \in 1..Len(toManager[p]) : toManager'[p][i] = toManager[p][i]
        /\ toManager'[p][Len(toManager[p]) + 1] = m
        /\ \A V : /\ m \in V => ~None(toManager'[p], V) /\ \A x : EndsWith(toManager'[p], V, x) <=> x = m
                  /\ m \notin V => /\ None(toManager'[p], V) <=> None(toManager[p], V)
                                   /\ \A x : EndsWith(toManager'[p], V, x) <=> EndsWith(toManager[p], V, x)
    BY <1>0, <2>1, <2>2, Sent
  <2>5. Gets(p)'
    BY <2>1, <2>2, <2>3, <2>4 DEF Gets
  <2>6. Ranked(p)'
    BY <1>0, <2>1, <2>2, RankedSent
  <2>7. Fresh(p)'
    <3> SUFFICES ASSUME Useful(p), NEW i \in 1..Len(toManager'[p]), toManager'[p][i].seed < seed[p]
                 PROVE  \E j \in 1..Len(toManager'[p]) : /\ j > i /\ toManager'[p][j].op = "clear"
                                                         /\ toManager'[p][j].seed = seed[p]
      BY <2>2 DEF Fresh, Useful
    <3>1. i \in 1..Len(toManager[p])
      BY <1>0, <2>1, <2>4
    <3>2. PICK j \in 1..Len(toManager[p]) : j > i /\ toManager[p][j].op = "clear" /\ toManager[p][j].seed = seed[p]
      BY <1>0, <2>4, <3>1 DEF Fresh
    <3> QED BY <2>4, <3>2
  <2>8. m \in Own(seed[p], k) /\ \A j \in Keys : j # k => m \notin Own(seed[p], j)
    BY <1>0, <2>1 DEF Own
  <2>9. OwnLast(p)'
    <3> SUFFICES ASSUME p \notin hurt, NEW j \in Keys, NEW x, EndsWith(toManager'[p], Own(seed[p], j), x)
                 PROVE  map'[p][j] = x.value
      BY <2>2 DEF OwnLast
    <3>1. CASE j = k
      BY <2>1, <2>2, <2>4, <2>8, <3>1
    <3>2. CASE j # k
      <4>1. EndsWith(toManager[p], Own(seed[p], j), x)
        BY <2>4, <2>8, <3>2
      <4> QED BY <1>0, <2>2, <3>2, <4>1 DEF OwnLast
    <3> QED BY <3>1, <3>2
  <2>10. Agreeing(p)'
    <3> SUFFICES ASSUME Useful(p), None(toProcess[p], Dooming(seed[p])), NEW j \in Keys,
                        None(toManager'[p], Own(seed[p], j))
                 PROVE  /\ None(toProcess[p], Touching(seed[p], j)) => Shows(p, j, area[j])'
                        /\ \A x : EndsWith(toProcess[p], Touching(seed[p], j), x) =>
                             IF x.op = "event" THEN area[j] = x.value ELSE Shows(p, j, area[j])'
      BY <2>2 DEF Agreeing, Useful
    <3>1. j # k /\ None(toManager[p], Own(seed[p], j))
      BY <2>4, <2>8
    <3>2. Shows(p, j, area[j]) => Shows(p, j, area[j])'
      BY <2>2, <3>1 DEF Shows
    <3> QED BY <1>0, <3>1, <3>2 DEF Agreeing
  <2> QED BY <2>5, <2>6, <2>7, <2>9, <2>10 DEF Settled
<1> QED BY <1>1, <1>2, <1>3 DEF Scripts

-----------------------------------------------------------------------------
(* The main thread.                                                        *)

\* The queue to the process with its first message gone.
LEMMA Taken ==
  ASSUME TypeOK, AllProper, NEW p \in Procs, toProcess[p] # <<>>, toProcess'[p] = Tail(toProcess[p])
  PROVE  LET h == Head(toProcess[p]) IN
         /\ h \in Notice /\ h.key \in Keys \union {Null} /\ (h.key = Null => h.value = Null)
         /\ 1 \in 1..Len(toProcess[p]) /\ h = toProcess[p][1]
         /\ \A V : /\ None(toProcess[p], V) <=> None(toProcess'[p], V) /\ h \notin V
                   /\ ~None(toProcess'[p], V) => \A m : EndsWith(toProcess[p], V, m) <=> EndsWith(toProcess'[p], V, m)
                   /\ None(toProcess'[p], V) /\ h \in V => \A m : EndsWith(toProcess[p], V, m) <=> m = h
<1> DEFINE t == Tail(toProcess[p])
           h == Head(toProcess[p])
<1>1. toProcess[p] \in Seq(Notices(seed[p]))
  BY Keep
<1>2. /\ 1 \in 1..Len(toProcess[p]) /\ h = toProcess[p][1] /\ h \in Notices(seed[p])
  BY <1>1, HeadTailProperties, LenProperties, EmptySeq
<1>3. h \in Notice /\ h.key \in Keys \union {Null} /\ (h.key = Null => h.value = Null)
  BY <1>2 DEF Notices, Notice
<1>4. ASSUME NEW V
      PROVE  /\ None(toProcess[p], V) <=> None(t, V) /\ h \notin V
             /\ ~None(t, V) => \A m : EndsWith(toProcess[p], V, m) <=> EndsWith(t, V, m)
             /\ None(t, V) /\ h \in V => \A m : EndsWith(toProcess[p], V, m) <=> m = h
  BY <1>1, LastTaken
<1> HIDE DEF t, h
<1>5. toProcess'[p] = t
  BY DEF t
<1> QED BY <1>2, <1>3, <1>4, <1>5 DEF h

LEMMA FinishSettled ==
  ASSUME Invs, NEW p \in Procs, FinishLoad(p)
  PROVE  Settled(p)'
<1>0. /\ TypeOK /\ AllProper /\ AllMarked
      /\ Gets(p) /\ Ranked(p) /\ Fresh(p) /\ OwnLast(p) /\ Agreeing(p)
  BY DEF Invs, AllSettled, Settled
<1>1. PICK values \in reply[p] : map' = [map EXCEPT ![p] = values]
  BY DEF FinishLoad
<1>2. /\ toManager' = toManager /\ toProcess' = toProcess /\ seed' = seed /\ area' = area /\ hurt' = hurt
      /\ loaded'[p] /\ map'[p] = values /\ ~waiting'[p] /\ waiting[p] /\ reply'[p] = {}
  BY <1>0, <1>1 DEF FinishLoad, TypeOK
<1>3. ~loaded[p] /\ \A k \in Keys : None(toManager[p], Own(seed[p], k))
  BY <1>0, <1>2, MarkedBySets, UnloadedNone
<1>4. Gets(p)'
  BY <1>0, <1>1, <1>2 DEF Gets
<1>5. Ranked(p)' /\ Fresh(p)'
  BY <1>0, <1>1, <1>2 DEF Ranked, Fresh, Useful
<1>6. OwnLast(p)'
  BY <1>2, <1>3, EndIsIn DEF OwnLast
<1>7. Agreeing(p)'
  <2> SUFFICES ASSUME p \notin hurt, None(toProcess[p], Dooming(seed[p])), NEW k \in Keys
               PROVE  /\ None(toProcess[p], Touching(seed[p], k)) => Shows(p, k, area[k])'
                      /\ \A m : EndsWith(toProcess[p], Touching(seed[p], k), m) =>
                           IF m.op = "event" THEN area[k] = m.value ELSE Shows(p, k, area[k])'
    BY <1>2 DEF Agreeing, Useful
  <2>1. Shows(p, k, area[k]) => Shows(p, k, area[k])'
    BY <1>1, <1>2 DEF Shows
  <2> QED BY <1>0, <1>1, <1>3, <2>1 DEF Agreeing, Useful
<1> QED BY <1>4, <1>5, <1>6, <1>7 DEF Settled

\* A copy given up.
LEMMA DropSettled ==
  ASSUME Invs, NEW p \in Procs, NEW op, Deliver(p, op), DropCopy(p)
  PROVE  Settled(p)'
<1>0. TypeOK /\ Gets(p) /\ Ranked(p)
  BY DEF Invs, AllSettled, Settled
<1>1. /\ toManager'[p] = toManager[p] /\ ~waiting[p] /\ ~waiting'[p] /\ reply'[p] = reply[p] /\ ~loaded'[p]
  BY <1>0 DEF Deliver, DropCopy, TypeOK
<1>2. reply[p] = {} /\ \A i \in 1..Len(toManager[p]) : toManager[p][i].op # "get"
  BY <1>0, <1>1, NoGets
<1>3. Gets(p)' /\ Ranked(p)'
  BY <1>0, <1>1, <1>2 DEF Gets, Ranked
<1>4. ~Useful(p)' /\ ~loaded'[p]
  BY <1>1, <1>2 DEF Useful
<1> QED BY <1>3, <1>4 DEF Settled, Fresh, OwnLast, Agreeing

\* An acknowledgement that leaves the items alone.
LEMMA AckSettled ==
  ASSUME Invs, NEW p \in Procs, NEW op, Deliver(p, op), op # "event", UNCHANGED <<loaded, map, seed, hurt>>,
         Head(toProcess[p]) \notin Dooming(seed[p])
  PROVE  Settled(p)'
<1>0. /\ TypeOK /\ AllProper
      /\ Gets(p) /\ Ranked(p) /\ Fresh(p) /\ OwnLast(p) /\ Agreeing(p)
  BY DEF Invs, AllSettled, Settled
<1> DEFINE h == Head(toProcess[p])
<1>1. /\ toManager' = toManager /\ area' = area /\ waiting' = waiting /\ reply' = reply /\ ~waiting[p]
      /\ toProcess[p] # <<>> /\ toProcess'[p] = Tail(toProcess[p]) /\ h.op = op
  BY <1>0 DEF Deliver, TypeOK
<1>2. \A V : /\ None(toProcess[p], V) <=> None(toProcess'[p], V) /\ h \notin V
             /\ ~None(toProcess'[p], V) => \A m : EndsWith(toProcess[p], V, m) <=> EndsWith(toProcess'[p], V, m)
             /\ None(toProcess'[p], V) /\ h \in V => \A m : EndsWith(toProcess[p], V, m) <=> m = h
  BY <1>0, <1>1, Taken
<1>3. Gets(p)' /\ Ranked(p)' /\ Fresh(p)' /\ OwnLast(p)'
  BY <1>0, <1>1 DEF Gets, Ranked, Fresh, OwnLast, Useful
<1>4. Agreeing(p)'
  <2> SUFFICES ASSUME Useful(p), None(toProcess'[p], Dooming(seed[p])), NEW k \in Keys,
                      None(toManager[p], Own(seed[p], k))
               PROVE  /\ None(toProcess'[p], Touching(seed[p], k)) => Shows(p, k, area[k])
                      /\ \A m : EndsWith(toProcess'[p], Touching(seed[p], k), m) =>
                           IF m.op = "event" THEN area[k] = m.value ELSE Shows(p, k, area[k])
    <3>1. \A k : Shows(p, k, area[k])' <=> Shows(p, k, area[k])
      BY <1>1 DEF Shows
    <3> QED BY <1>1, <3>1 DEF Agreeing, Useful
  <2> DEFINE V == Touching(seed[p], k)
  <2>1. None(toProcess[p], Dooming(seed[p]))
    BY <1>2
  <2>2. /\ None(toProcess[p], V) => Shows(p, k, area[k])
        /\ \A m : EndsWith(toProcess[p], V, m) =>
             IF m.op = "event" THEN area[k] = m.value ELSE Shows(p, k, area[k])
    BY <1>0, <2>1 DEF Agreeing
  <2> HIDE DEF V, h
  <2>3. None(toProcess'[p], V) => Shows(p, k, area[k])
    <3>1. CASE h \in V
      BY <1>1, <1>2, <2>2, <3>1
    <3>2. CASE h \notin V
      BY <1>2, <2>2, <3>2
    <3> QED BY <3>1, <3>2
  <2>4. ASSUME NEW m, EndsWith(toProcess'[p], V, m)
        PROVE  IF m.op = "event" THEN area[k] = m.value ELSE Shows(p, k, area[k])
    <3>1. ~None(toProcess'[p], V)
      BY <2>4, EndIsIn
    <3> QED BY <1>2, <2>2, <2>4, <3>1
  <2> QED BY <2>3, <2>4 DEF V
<1> QED BY <1>3, <1>4 DEF Settled

\* What dispatchStorageEvent does to a copy that no clear hurts: the markers protect it.
LEMMA EventApplied ==
  ASSUME TypeOK, NEW p \in Procs, DispatchStorageEvent(p), p \notin hurt', loaded'[p], NEW k \in Keys
  PROVE  LET e == Head(toProcess[p]) IN
         /\ loaded[p] /\ p \notin hurt
         /\ pendingValues[p][k] > 0 \/ pendingClear[p] \/ pendingGet[p] \/ e.flag \/ e.key \notin {k, Null}
              => map'[p][k] = map[p][k]
         /\ pendingValues[p][k] = 0 /\ ~pendingClear[p] /\ ~pendingGet[p] /\ ~e.flag =>
              /\ e.key = Null => map'[p][k] = Null
              /\ e.key = k => map'[p][k] = e.value
<1> DEFINE e == Head(toProcess[p])
<1>0. map \in [Procs -> Items] /\ loaded \in [Procs -> BOOLEAN] /\ pendingValues[p][k] \in Nat
      /\ map[p] \in [Keys -> Values \union {Null}] /\ Null \notin Keys
  BY LocalStorageAssumption DEF TypeOK, Items
<1>1. CASE e.flag \/ pendingClear[p] \/ pendingGet[p]
  BY <1>1 DEF DispatchStorageEvent
<1>2. CASE ~(e.flag \/ pendingClear[p] \/ pendingGet[p]) /\ e.key = Null
  <2>1. ApplyClear(p)
    BY <1>2 DEF DispatchStorageEvent
  <2>2. map'[p][k] = Null
    BY <1>0, <2>1 DEF ApplyClear
  <2>3. loaded[p] /\ p \notin hurt /\ (pendingValues[p][k] > 0 => map[p][k] = Null)
    BY <2>1 DEF ApplyClear
  <2> QED BY <1>0, <1>2, <2>2, <2>3
<1>3. CASE ~(e.flag \/ pendingClear[p] \/ pendingGet[p]) /\ e.key # Null
  <2>1. ApplyItem(p, e.key, e.value)
    BY <1>3 DEF DispatchStorageEvent
  <2>2. loaded' = loaded /\ hurt' = hurt
    BY <2>1 DEF ApplyItem
  <2>3. CASE e.key = k
    <3>1. pendingValues[p][k] = 0 => map'[p][k] = e.value
      BY <1>0, <2>1, <2>2, <2>3 DEF ApplyItem
    <3>2. pendingValues[p][k] > 0 => map'[p][k] = map[p][k]
      BY <1>0, <2>1, <2>2, <2>3 DEF ApplyItem
    <3> QED BY <1>0, <1>3, <2>2, <2>3, <3>1, <3>2
  <2>4. CASE e.key # k
    <3>1. map'[p][k] = map[p][k]
      BY <1>0, <2>1, <2>2, <2>4 DEF ApplyItem
    <3> QED BY <1>0, <1>3, <2>2, <2>4, <3>1
  <2> QED BY <2>3, <2>4
<1> QED BY <1>1, <1>2, <1>3

LEMMA EventSettled ==
  ASSUME Invs, NEW p \in Procs, DispatchStorageEvent(p)
  PROVE  Settled(p)'
<1>0. /\ TypeOK /\ AllProper /\ AllMarked
      /\ Gets(p) /\ Ranked(p) /\ Fresh(p) /\ OwnLast(p) /\ Agreeing(p)
  BY DEF Invs, AllSettled, Settled
<1> DEFINE e == Head(toProcess[p])
<1>1. /\ toManager' = toManager /\ area' = area /\ waiting' = waiting /\ reply' = reply /\ ~waiting[p]
      /\ toProcess[p] # <<>> /\ toProcess'[p] = Tail(toProcess[p]) /\ e.op = "event" /\ seed' = seed
  BY <1>0 DEF DispatchStorageEvent, Deliver, TypeOK
<1>2. /\ e \in Notice /\ e.key \in Keys \union {Null} /\ (e.key = Null => e.value = Null)
      /\ 1 \in 1..Len(toProcess[p]) /\ e = toProcess[p][1]
      /\ \A V : /\ None(toProcess[p], V) <=> None(toProcess'[p], V) /\ e \notin V
                /\ ~None(toProcess'[p], V) => \A m : EndsWith(toProcess[p], V, m) <=> EndsWith(toProcess'[p], V, m)
                /\ None(toProcess'[p], V) /\ e \in V => \A m : EndsWith(toProcess[p], V, m) <=> m = e
  BY <1>0, <1>1, Taken
<1>3. reply[p] = {}
  BY <1>0, <1>1, NoGets
<1>4. /\ loaded'[p] /\ p \notin hurt' =>
           /\ loaded[p] /\ p \notin hurt
           /\ \A k \in Keys :
                /\ pendingValues[p][k] > 0 \/ pendingClear[p] \/ pendingGet[p] \/ e.flag \/ e.key \notin {k, Null}
                     => map'[p][k] = map[p][k]
                /\ pendingValues[p][k] = 0 /\ ~pendingClear[p] /\ ~pendingGet[p] /\ ~e.flag =>
                     /\ e.key = Null => map'[p][k] = Null
                     /\ e.key = k => map'[p][k] = e.value
  <2>1. loaded'[p] /\ p \notin hurt' => loaded[p] /\ p \notin hurt
    BY <1>0 DEF DispatchStorageEvent, ApplyClear, ApplyItem, TypeOK
  <2> QED BY <1>0, <2>1, EventApplied
<1> HIDE DEF e
<1>5. Gets(p)' /\ Ranked(p)'
  BY <1>0, <1>1 DEF Gets, Ranked
<1>6. Useful(p)' => Useful(p) /\ loaded[p] /\ loaded'[p] /\ p \notin hurt' /\ p \notin hurt
  BY <1>1, <1>3, <1>4 DEF Useful
<1>7. Fresh(p)'
  BY <1>0, <1>1, <1>6 DEF Fresh
<1>8. OwnLast(p)'
  <2> SUFFICES ASSUME p \notin hurt', loaded'[p], NEW k \in Keys, NEW m, EndsWith(toManager[p], Own(seed[p], k), m)
               PROVE  map'[p][k] = m.value
    BY <1>1 DEF OwnLast
  <2>1. pendingValues[p][k] > 0 \/ pendingClear[p]
    BY <1>0, EndIsIn, OwnMarked
  <2> QED BY <1>0, <1>4, <2>1 DEF OwnLast
<1>9. Agreeing(p)'
  <2> SUFFICES ASSUME Useful(p), loaded[p], loaded'[p], p \notin hurt', None(toProcess'[p], Dooming(seed[p])),
                      NEW k \in Keys, None(toManager[p], Own(seed[p], k))
               PROVE  /\ None(toProcess'[p], Touching(seed[p], k)) => map'[p][k] = area[k]
                      /\ \A m : EndsWith(toProcess'[p], Touching(seed[p], k), m) =>
                           IF m.op = "event" THEN area[k] = m.value ELSE map'[p][k] = area[k]
    <3>1. loaded'[p] => \A k : Shows(p, k, area[k])' <=> map'[p][k] = area'[k]
      BY <1>1, <1>3 DEF Shows
    <3> QED BY <1>1, <1>6, <3>1 DEF Agreeing
  <2> DEFINE V == Touching(seed[p], k)
  <2>0. e \notin Dooming(seed[p])
    BY <1>1 DEF Dooming
  <2>1. None(toProcess[p], Dooming(seed[p]))
    BY <1>2, <2>0
  <2>2. /\ None(toProcess[p], V) => map[p][k] = area[k]
        /\ \A m : EndsWith(toProcess[p], V, m) =>
             IF m.op = "event" THEN area[k] = m.value ELSE map[p][k] = area[k]
    BY <1>0, <2>1 DEF Agreeing, Shows
  <2>3. e \in V <=> ~e.flag /\ e.key \in {k, Null}
    BY <1>1, <1>2 DEF Touching
  <2>4. ASSUME NEW m, EndsWith(toProcess'[p], V, m)
        PROVE  IF m.op = "event" THEN area[k] = m.value ELSE map'[p][k] = area[k]
    <3>1. EndsWith(toProcess[p], V, m)
      BY <1>2, <2>4, EndIsIn
    <3>2. CASE m.op = "event"
      BY <2>2, <3>1, <3>2
    <3>3. CASE m.op # "event"
      <4>1. m \in V /\ \E i \in 1..Len(toProcess[p]) : m = toProcess[p][i]
        BY <3>1, EndIsIn
      <4>2. pendingValues[p][k] > 0 \/ pendingClear[p] \/ pendingGet[p]
        BY <1>0, <1>1, <3>3, <4>1, AckMarked
      <4> QED BY <1>4, <2>2, <3>1, <3>3, <4>2
    <3> QED BY <3>2, <3>3
  <2>5. ASSUME None(toProcess'[p], V) PROVE map'[p][k] = area[k]
    <3>1. CASE e \notin V
      <4>1. map[p][k] = area[k]
        BY <1>2, <2>2, <2>5, <3>1
      <4> QED BY <1>4, <2>3, <3>1, <4>1
    <3>2. CASE e \in V
      <4>1. EndsWith(toProcess[p], V, e)
        BY <1>2, <2>5, <3>2
      <4>2. area[k] = e.value
        BY <1>1, <2>2, <4>1
      <4>3. \A i \in 1..Len(toProcess[p]) : toProcess[p][i] \in V => toProcess[p][i].op = "event"
        <5> SUFFICES ASSUME NEW i \in 1..Len(toProcess[p]), toProcess[p][i] \in V PROVE toProcess[p][i].op = "event"
          OBVIOUS
        <5>1. {toProcess[p][i]} \subseteq V
          OBVIOUS
        <5> DEFINE W == V \ {e}
        <5>2. None(toProcess'[p], W)
          BY <2>5 DEF None
        <5>3. None(toProcess[p], W)
          BY <1>2, <5>2
        <5>4. toProcess[p][i] = e
          BY <5>3 DEF None
        <5> QED BY <1>1, <5>4
      <4>4. pendingValues[p][k] = 0 /\ ~pendingClear[p] /\ ~pendingGet[p]
        BY <1>0, <1>1, <4>3, Unmarked
      <4>5. ~e.flag /\ (e.key = k \/ e.key = Null)
        BY <2>3, <3>2
      <4> QED BY <1>2, <1>4, <4>2, <4>4, <4>5
    <3> QED BY <3>1, <3>2
  <2> QED BY <2>4, <2>5
<1> QED BY <1>5, <1>7, <1>8, <1>9 DEF Settled

LEMMA MainSettled ==
  ASSUME Invs, NEW p \in Procs, MainThread(p)
  PROVE  Settled(p)'
<1> DEFINE h == Head(toProcess[p])
<1>1. CASE FinishLoad(p)
  BY <1>1, FinishSettled
<1>2. CASE DidGetValues(p)
  <2>1. Deliver(p, "didGet") /\ UNCHANGED <<loaded, map, seed, hurt>>
    BY <1>2 DEF DidGetValues
  <2>2. h \notin Dooming(seed[p])
    BY <2>1 DEF Deliver, Dooming
  <2> QED BY <2>1, <2>2, AckSettled
<1>3. CASE DidSetItem(p)
  <2>1. Deliver(p, "didSet")
    BY <1>3 DEF DidSetItem
  <2>2. CASE DropCopy(p)
    BY <2>1, <2>2, DropSettled
  <2>3. CASE UNCHANGED <<loaded, map, seed, hurt>> /\ ~(Current(p) /\ h.flag)
    <3>1. h \notin Dooming(seed[p])
      BY <2>1, <2>3 DEF Deliver, Dooming, Current
    <3> QED BY <2>1, <2>3, <3>1, AckSettled
  <2> QED BY <1>3, <2>2, <2>3 DEF DidSetItem, copyVars
<1>4. CASE DidRemoveItem(p)
  <2>1. Deliver(p, "didRemove") /\ UNCHANGED <<loaded, map, seed, hurt>>
    BY <1>4 DEF DidRemoveItem
  <2>2. h \notin Dooming(seed[p])
    BY <2>1 DEF Deliver, Dooming
  <2> QED BY <2>1, <2>2, AckSettled
<1>5. CASE DidClear(p)
  <2>1. Deliver(p, "didClear") /\ UNCHANGED <<loaded, map, seed, hurt>>
    BY <1>5 DEF DidClear
  <2>2. h \notin Dooming(seed[p])
    BY <2>1 DEF Deliver, Dooming
  <2> QED BY <2>1, <2>2, AckSettled
<1>6. CASE DispatchStorageEvent(p)
  BY <1>6, EventSettled
<1>7. CASE ClearCache(p)
  BY <1>7, DropSettled DEF ClearCache
<1> QED BY <1>1, <1>2, <1>3, <1>4, <1>5, <1>6, <1>7 DEF MainThread

-----------------------------------------------------------------------------
(* The manager: what its answers mean to the one that asked, and to the others.*)

\* Another process changed the area, and q is told, or nothing changed.
LEMMA HearSettled ==
  ASSUME Invs, NEW q \in Procs, SameCopy(q), waiting'[q] = waiting[q], reply'[q] = reply[q],
         toManager'[q] = toManager[q],
         NEW e \in Notice, e.op = "event", ~e.flag,
         \/ toProcess'[q] = toProcess[q] /\ area' = area
         \/ /\ toProcess'[q] = Append(toProcess[q], e)
            /\ \A k \in Keys : area'[k] = IF e.key \in {k, Null} THEN e.value ELSE area[k]
  PROVE  Settled(q)'
<1>1. CASE toProcess'[q] = toProcess[q] /\ area' = area
  <2>1. SameAt(q)
    BY <1>1 DEF SameAt
  <2> QED BY <1>1, <2>1, SameSettled
<1>2. CASE /\ toProcess'[q] = Append(toProcess[q], e)
           /\ \A k \in Keys : area'[k] = IF e.key \in {k, Null} THEN e.value ELSE area[k]
  <2>0. /\ TypeOK /\ AllProper
        /\ Gets(q) /\ Ranked(q) /\ Fresh(q) /\ OwnLast(q) /\ Agreeing(q)
    BY DEF Invs, AllSettled, Settled
  <2>1. toProcess[q] \in Seq(Notice)
    BY <2>0 DEF TypeOK
  <2>2. ASSUME NEW V
        PROVE  /\ e \in V => ~None(toProcess'[q], V) /\ \A m : EndsWith(toProcess'[q], V, m) <=> m = e
               /\ e \notin V => /\ None(toProcess'[q], V) <=> None(toProcess[q], V)
                                /\ \A m : EndsWith(toProcess'[q], V, m) <=> EndsWith(toProcess[q], V, m)
    <3> DEFINE t == Append(toProcess[q], e)
    <3>1. /\ e \in V => ~None(t, V) /\ \A m : EndsWith(t, V, m) <=> m = e
          /\ e \notin V => /\ None(t, V) <=> None(toProcess[q], V)
                           /\ \A m : EndsWith(t, V, m) <=> EndsWith(toProcess[q], V, m)
      BY <2>1, LastAppended
    <3>2. toProcess'[q] = t
      BY <1>2
    <3> HIDE DEF t
    <3> QED BY <3>1, <3>2
  <2>3. Gets(q)' /\ Ranked(q)' /\ Fresh(q)' /\ OwnLast(q)'
    BY <2>0 DEF Gets, Ranked, Fresh, OwnLast, Useful, SameCopy
  <2>4. Agreeing(q)'
    <3> SUFFICES ASSUME Useful(q), None(toProcess'[q], Dooming(seed[q])), NEW k \in Keys,
                        None(toManager[q], Own(seed[q], k))
                 PROVE  /\ None(toProcess'[q], Touching(seed[q], k)) => Shows(q, k, area'[k])
                        /\ \A m : EndsWith(toProcess'[q], Touching(seed[q], k), m) =>
                             IF m.op = "event" THEN area'[k] = m.value ELSE Shows(q, k, area'[k])
      <4>1. \A k : Shows(q, k, area[k])' <=> Shows(q, k, area'[k])
        BY DEF Shows, SameCopy
      <4> QED BY <4>1 DEF Agreeing, Useful, SameCopy
    <3> DEFINE V == Touching(seed[q], k)
    <3>1. e \notin Dooming(seed[q]) /\ (e \in V <=> e.key \in {k, Null})
      BY DEF Dooming, Touching
    <3>2. None(toProcess[q], Dooming(seed[q]))
      BY <2>2, <3>1
    <3>3. /\ None(toProcess[q], V) => Shows(q, k, area[k])
          /\ \A m : EndsWith(toProcess[q], V, m) =>
               IF m.op = "event" THEN area[k] = m.value ELSE Shows(q, k, area[k])
      BY <2>0, <3>2 DEF Agreeing
    <3> HIDE DEF V
    <3>4. CASE e \in V
      <4>1. area'[k] = e.value
        BY <1>2, <3>1, <3>4
      <4> QED BY <2>2, <3>4, <4>1 DEF V
    <3>5. CASE e \notin V
      <4>1. area'[k] = area[k]
        BY <1>2, <3>1, <3>5
      <4> QED BY <2>2, <3>3, <3>5, <4>1 DEF V
    <3> QED BY <3>4, <3>5
  <2> QED BY <2>3, <2>4 DEF Settled
<1> QED BY <1>1, <1>2

\* The manager is done with p's first request m, and acknowledges it.
LEMMA AnswerSettled ==
  ASSUME Invs, NEW p \in Procs, SameCopy(p), waiting'[p] = waiting[p], 1 \in DOMAIN toManager[p],
         toManager'[p] = RemoveAt(toManager[p], 1),
         NEW e \in Notice, e.op = "event", e.flag, NEW ack \in Notice,
         <<toManager[p][1].op, ack.op>> \in Pairs, ack.seed = toManager[p][1].seed, ack.key = toManager[p][1].key,
         toProcess'[p] = Append(toProcess[p], ack) \/ toProcess'[p] = Append(Append(toProcess[p], e), ack),
         IF toManager[p][1].op = "get" THEN reply'[p] = {area} /\ area' = area ELSE reply'[p] = reply[p],
         \A k \in Keys : toManager[p][1].key \notin {k, Null} => area'[k] = area[k],
         \A k \in Keys : toManager[p][1].op # "get" /\ toManager[p][1].key \in {k, Null} =>
                            (ack.op = "didSet" /\ ack.flag) \/ area'[k] = toManager[p][1].value
  PROVE  Settled(p)'
<1>0. /\ TypeOK /\ AllProper /\ AllMarked
      /\ Gets(p) /\ Ranked(p) /\ Fresh(p) /\ OwnLast(p) /\ Agreeing(p) /\ seed[p] \in Nat
  BY DEF Invs, AllSettled, Settled, TypeOK
<1> DEFINE m == toManager[p][1]
           s == toManager[p]
           t == Tail(toManager[p])
<1>1. s # <<>> /\ toManager'[p] = t /\ m = Head(s) /\ s \in Seq(Request) /\ 1 \in 1..Len(s)
  <2>1. s \in Seq(Request)
    BY <1>0 DEF TypeOK
  <2> QED BY <2>1, FirstRemoved, LenProperties
<1>2. /\ Len(s) \in Nat /\ Len(t) = Len(s) - 1 /\ \A i \in 1..Len(t) : t[i] = s[i + 1] /\ i + 1 \in 1..Len(s)
  BY <1>1, HeadTailProperties, LenProperties
<1>3. ASSUME NEW V
      PROVE  /\ None(s, V) <=> None(t, V) /\ m \notin V
             /\ ~None(t, V) => \A x : EndsWith(s, V, x) <=> EndsWith(t, V, x)
             /\ None(t, V) /\ m \in V => \A x : EndsWith(s, V, x) <=> x = m
  <2> HIDE DEF m, s
  <2>1. t = Tail(s)
    BY DEF s
  <2> HIDE DEF t
  <2> QED BY <1>1, <2>1, LastTaken
<1>4. /\ m \in Request /\ m.seed \in Nat /\ m.seed <= seed[p]
      /\ m.key \in Keys \union {Null}
      /\ m.op \in {"get", "clear"} <=> m.key = Null
      /\ m.op \in {"get", "clear", "set", "remove"}
  BY <1>0, <1>1, Shapes
<1>5. ack.op \notin {"event", "clearCache"} /\ ack.op \in {"didGet", "didSet", "didRemove", "didClear"}
  BY DEF Pairs
<1>6. seed'[p] = seed[p] /\ loaded'[p] = loaded[p] /\ map'[p] = map[p] /\ (p \in hurt' <=> p \in hurt)
  BY DEF SameCopy
<1>7. /\ waiting[p] => ~loaded[p]
      /\ m.op = "get" => waiting[p] /\ m.seed = seed[p] /\ reply[p] = {}
  BY <1>0, <1>1, MarkedBySets DEF Gets
<1>8. ASSUME m.op = "get", NEW i \in 1..Len(t) PROVE t[i].op # "get" /\ t[i].seed = seed[p]
  <2>1. t[i] = s[i + 1] /\ i + 1 \in 1..Len(s) /\ 1 < i + 1 /\ 1 \in 1..Len(s)
    BY <1>1, <1>2
  <2>2. t[i].seed = seed[p]
    <3>1. s[i + 1].seed \in Nat /\ s[i + 1].seed <= seed[p]
      BY <1>0, <2>1, Shapes
    <3>2. m.seed <= s[i + 1].seed
      BY <1>0, <2>1 DEF Ranked
    <3> QED BY <1>0, <1>7, <1>8, <2>1, <3>1, <3>2
  <2>3. t[i].op # "get"
    <3> SUFFICES ASSUME t[i].op = "get" PROVE FALSE
      OBVIOUS
    <3>0. t[i].op = "get"
      OBVIOUS
    <3> DEFINE V == As(Request, "get", seed[p], Null)
    <3>1. m \in V
      BY <1>4, <1>7, <1>8 DEF As
    <3>2. t[i] \in V
      <4>1. s[i + 1] \in Request /\ (s[i + 1].op \in {"get", "clear"} <=> s[i + 1].key = Null)
        BY <1>0, <2>1, Shapes
      <4>2. t[i] \in Request /\ t[i].key = Null
        BY <2>1, <3>0, <4>1
      <4> QED BY <2>2, <3>0, <4>2 DEF As
    <3> HIDE DEF V
    <3>3. Count(s, V) = Count(t, V) + 1
      <4> HIDE DEF m, s
      <4>1. t = Tail(s)
        BY DEF s
      <4> HIDE DEF t
      <4>2. Count(s, V) = Count(t, V) + (IF m \in V THEN 1 ELSE 0)
        BY <1>1, <4>1, CountTail
      <4> QED BY <3>1, <4>2
    <3>4. t \in Seq(Request)
      BY <1>1, HeadTailProperties
    <3>5. Count(t, V) \in Nat /\ Count(t, V) # 0
      BY <3>2, <3>4, CountType
    <3>6. Underway(p, "get", "didGet", Null) = 1
      BY <1>0, <1>7, <1>8 DEF AllMarked, Marked
    <3>7. /\ Underway(p, "get", "didGet", Null) = Count(s, V) + Count(toProcess[p], As(Notice, "didGet", seed[p], Null))
          /\ Count(toProcess[p], As(Notice, "didGet", seed[p], Null)) \in Nat
      BY <1>0, UnderwayType DEF Underway, V
    <3> QED BY <3>3, <3>5, <3>6, <3>7
  <2> QED BY <2>2, <2>3
<1>9. Gets(p)'
  <2>0. /\ reply[p] # {} => waiting[p]
        /\ \A i \in 1..Len(s) : s[i].op = "get" => waiting[p] /\ reply[p] = {} /\ s[i].seed = seed[p]
    BY <1>0 DEF Gets
  <2> SUFFICES /\ reply'[p] # {} => waiting[p]
               /\ \A i \in 1..Len(t) : t[i].op = "get" => waiting[p] /\ reply'[p] = {} /\ t[i].seed = seed[p]
    <3> HIDE DEF m, s, t
    <3> QED BY <1>1, <1>6 DEF Gets
  <2>1. CASE m.op = "get"
    BY <1>7, <1>8, <2>1
  <2>2. CASE m.op # "get"
    <3>1. reply'[p] = reply[p]
      BY <2>2
    <3>2. \A i \in 1..Len(t) : t[i] = s[i + 1] /\ i + 1 \in 1..Len(s)
      BY <1>2
    <3> HIDE DEF m, s, t
    <3> QED BY <2>0, <3>1, <3>2
  <2> QED BY <2>1, <2>2
<1>10. Ranked(p)'
  <2> SUFFICES ASSUME NEW i \in 1..Len(t), NEW j \in 1..Len(t), i < j
               PROVE  t[i].seed <= t[j].seed /\ (t[j].op = "clear" => t[i].seed < t[j].seed)
    BY <1>1 DEF Ranked
  <2>1. i + 1 \in 1..Len(s) /\ j + 1 \in 1..Len(s) /\ i + 1 < j + 1 /\ t[i] = s[i + 1] /\ t[j] = s[j + 1]
    BY <1>2
  <2> QED BY <1>0, <2>1 DEF Ranked
<1>11. ASSUME Useful(p), NEW i \in 1..Len(s), s[i].seed < seed[p]
       PROVE  \E j \in 1..Len(t) : j + 1 > i /\ t[j].op = "clear" /\ t[j].seed = seed[p]
  <2>1. PICK j \in 1..Len(s) : j > i /\ s[j].op = "clear" /\ s[j].seed = seed[p]
    BY <1>0, <1>11 DEF Fresh
  <2>2. j - 1 \in 1..Len(t) /\ (j - 1) + 1 = j
    BY <1>2, <2>1
  <2>3. t[j - 1] = s[j]
    BY <1>2, <2>2
  <2> QED BY <2>1, <2>2, <2>3
<1>12. Fresh(p)'
  <2> SUFFICES ASSUME p \notin hurt, loaded[p] \/ reply'[p] # {}, NEW i \in 1..Len(t), t[i].seed < seed[p]
               PROVE  \E j \in 1..Len(t) : j > i /\ t[j].op = "clear" /\ t[j].seed = seed[p]
    <3> HIDE DEF m, s, t
    <3>1. toManager'[p] = t /\ seed'[p] = seed[p] /\ (Useful(p)' => p \notin hurt /\ (loaded[p] \/ reply'[p] # {}))
      BY <1>1, <1>6 DEF Useful
    <3> QED BY <3>1 DEF Fresh
  <2>1. m.op # "get"
    <3>1. m.op = "get" => t[i].seed = seed[p]
      BY <1>8
    <3>2. t[i].seed < seed[p] /\ seed[p] \in Nat
      BY <1>0
    <3> HIDE DEF m, s, t
    <3> QED BY <3>1, <3>2
  <2>2. Useful(p)
    BY <2>1 DEF Useful
  <2>3. i + 1 \in 1..Len(s) /\ s[i + 1].seed < seed[p]
    BY <1>2
  <2>4. PICK j \in 1..Len(t) : j + 1 > i + 1 /\ t[j].op = "clear" /\ t[j].seed = seed[p]
    BY <1>11, <2>2, <2>3
  <2> QED BY <1>2, <2>4
<1>13. OwnLast(p)'
  <2> SUFFICES ASSUME p \notin hurt, loaded[p], NEW k \in Keys, NEW x, EndsWith(t, Own(seed[p], k), x)
               PROVE  map[p][k] = x.value
    BY <1>1, <1>6 DEF OwnLast
  <2>1. EndsWith(s, Own(seed[p], k), x)
    BY <1>3, EndIsIn
  <2> QED BY <1>0, <2>1 DEF OwnLast
<1>14. ASSUME NEW V
       PROVE  /\ ack \in V => ~None(toProcess'[p], V) /\ \A x : EndsWith(toProcess'[p], V, x) <=> x = ack
              /\ ack \notin V /\ e \notin V => /\ None(toProcess'[p], V) <=> None(toProcess[p], V)
                                               /\ \A x : EndsWith(toProcess'[p], V, x) <=> EndsWith(toProcess[p], V, x)
  <2> DEFINE u == Append(toProcess[p], e)
  <2>0. toProcess[p] \in Seq(Notice)
    BY <1>0 DEF TypeOK
  <2>1. /\ u \in Seq(Notice)
        /\ e \notin V => /\ None(u, V) <=> None(toProcess[p], V)
                         /\ \A x : EndsWith(u, V, x) <=> EndsWith(toProcess[p], V, x)
    BY <2>0, LastAppended, Appended
  <2> HIDE DEF u
  <2>2. /\ ack \in V => ~None(Append(u, ack), V) /\ \A x : EndsWith(Append(u, ack), V, x) <=> x = ack
        /\ ack \notin V => /\ None(Append(u, ack), V) <=> None(u, V)
                           /\ \A x : EndsWith(Append(u, ack), V, x) <=> EndsWith(u, V, x)
    BY <2>1, LastAppended
  <2>3. /\ ack \in V => ~None(Append(toProcess[p], ack), V) /\ \A x : EndsWith(Append(toProcess[p], ack), V, x) <=> x = ack
        /\ ack \notin V => /\ None(Append(toProcess[p], ack), V) <=> None(toProcess[p], V)
                           /\ \A x : EndsWith(Append(toProcess[p], ack), V, x) <=> EndsWith(toProcess[p], V, x)
    BY <2>0, LastAppended
  <2>4. toProcess'[p] = Append(toProcess[p], ack) \/ toProcess'[p] = Append(u, ack)
    BY DEF u
  <2> QED BY <2>1, <2>2, <2>3, <2>4
<1>15. Agreeing(p)'
  <2> SUFFICES ASSUME p \notin hurt, loaded[p] \/ reply'[p] # {}, None(toProcess'[p], Dooming(seed[p])),
                      NEW k \in Keys, None(t, Own(seed[p], k))
               PROVE  /\ None(toProcess'[p], Touching(seed[p], k)) => Shows(p, k, area[k])'
                      /\ \A x : EndsWith(toProcess'[p], Touching(seed[p], k), x) =>
                           IF x.op = "event" THEN area'[k] = x.value ELSE Shows(p, k, area[k])'
    BY <1>1, <1>6 DEF Agreeing, Useful
  <2> DEFINE V == Touching(seed[p], k)
  <2>1. e \notin V /\ e \notin Dooming(seed[p])
    BY DEF Touching, Dooming
  <2>2. ack \in V <=> ack.seed = seed[p] /\ ack.key \in {k, Null}
    BY <1>5 DEF Touching
  <2> HIDE DEF V
  <2>3. ASSUME ack \in V, Shows(p, k, area[k])'
        PROVE  /\ None(toProcess'[p], V) => Shows(p, k, area[k])'
               /\ \A x : EndsWith(toProcess'[p], V, x) =>
                    IF x.op = "event" THEN area'[k] = x.value ELSE Shows(p, k, area[k])'
    <3>1. \A x : EndsWith(toProcess'[p], V, x) => x = ack
      BY <1>14, <2>3
    <3> QED BY <1>5, <2>3, <3>1
  <2>4. CASE m.op = "get"
    <3>1. ack \in V
      BY <1>4, <1>7, <2>2, <2>4
    <3>2. Shows(p, k, area[k])'
      BY <1>6, <1>7, <2>4 DEF Shows
    <3> QED BY <2>3, <3>1, <3>2 DEF V
  <2>5. CASE m.op # "get"
    <3>0. reply'[p] = reply[p] /\ Useful(p)
      BY <2>5 DEF Useful
    <3>1. m.seed = seed[p]
      <4> SUFFICES ASSUME m.seed < seed[p] PROVE FALSE
        BY <1>0, <1>4
      <4>1. PICK j \in 1..Len(t) : t[j].op = "clear" /\ t[j].seed = seed[p]
        BY <1>1, <1>11, <3>0
      <4>2. t[j] \in Own(seed[p], k)
        BY <1>0, <1>2, <4>1, Shapes DEF Own
      <4> QED BY <4>2 DEF None
    <3>2. CASE m.key \in {k, Null}
      <4>1. m \in Own(seed[p], k)
        BY <1>4, <2>5, <3>1, <3>2 DEF Own
      <4>2. EndsWith(s, Own(seed[p], k), m)
        BY <1>3, <4>1
      <4>3. ~None(s, Own(seed[p], k))
        BY <1>3, <4>1
      <4>4. loaded[p]
        BY <1>0, <4>3, OwnMarked
      <4>5. map[p][k] = m.value
        BY <1>0, <4>2, <4>4 DEF OwnLast
      <4>6. ~(ack.op = "didSet" /\ ack.flag)
        <5> SUFFICES ASSUME ack.op = "didSet", ack.flag PROVE FALSE
          OBVIOUS
        <5>1. ack \in Dooming(seed[p])
          BY <3>1 DEF Dooming
        <5> QED BY <1>14, <5>1
      <4>7. area'[k] = m.value
        BY <2>5, <3>2, <4>6
      <4>8. reply[p] = {}
        BY <1>0, <1>7, <4>4 DEF Gets
      <4>9. Shows(p, k, area[k])'
        BY <1>6, <3>0, <4>5, <4>7, <4>8 DEF Shows
      <4>10. ack \in V
        BY <2>2, <3>1, <3>2
      <4> QED BY <2>3, <4>9, <4>10 DEF V
    <3>3. CASE m.key \notin {k, Null}
      <4>1. area'[k] = area[k]
        BY <3>3
      <4>2. ack \notin V /\ m \notin Own(seed[p], k)
        BY <2>2, <3>3 DEF Own
      <4>3. None(s, Own(seed[p], k))
        BY <1>3, <4>2
      <4>4. ack \notin Dooming(seed[p]) /\ None(toProcess[p], Dooming(seed[p]))
        BY <1>14, <2>1
      <4>5. /\ None(toProcess[p], V) => Shows(p, k, area[k])
            /\ \A x : EndsWith(toProcess[p], V, x) =>
                 IF x.op = "event" THEN area[k] = x.value ELSE Shows(p, k, area[k])
        BY <1>0, <3>0, <4>3, <4>4 DEF Agreeing, V
      <4>6. Shows(p, k, area[k])' <=> Shows(p, k, area[k])
        BY <1>6, <3>0, <4>1 DEF Shows
      <4> QED BY <1>14, <2>1, <4>1, <4>2, <4>5, <4>6 DEF V
    <3> QED BY <3>2, <3>3
  <2> QED BY <2>4, <2>5
<1> QED BY <1>9, <1>10, <1>12, <1>13, <1>15 DEF Settled

\* The manager handles p's first request and tells everybody: either the area stays, or
\* it changes as the event says.
LEMMA ToldSettled ==
  ASSUME Invs, NEW p \in Procs, 1 \in DOMAIN toManager[p],
         toManager' = [toManager EXCEPT ![p] = RemoveAt(@, 1)], UNCHANGED <<copyVars, waiting>>,
         NEW ack \in Notice,
         <<toManager[p][1].op, ack.op>> \in Pairs, ack.seed = toManager[p][1].seed, ack.key = toManager[p][1].key,
         IF toManager[p][1].op = "get" THEN reply' = [reply EXCEPT ![p] = {area}] /\ area' = area ELSE reply' = reply,
         NEW k \in Keys \union {Null}, k = toManager[p][1].key, NEW v \in Values \union {Null},
         \/ Tell(p, NoEvent, ack) /\ area' = area
         \/ Tell(p, OneEvent(k, v), ack) /\ \A j \in Keys : area'[j] = IF k \in {j, Null} THEN v ELSE area[j],
         \A j \in Keys : toManager[p][1].op # "get" /\ k \in {j, Null} =>
                            (ack.op = "didSet" /\ ack.flag) \/ area'[j] = toManager[p][1].value,
         NEW q \in Procs
  PROVE  Settled(q)'
<1>0. TypeOK
  BY DEF Invs
<1>1. SameCopy(q) /\ waiting'[q] = waiting[q]
  BY DEF SameCopy, copyVars
<1>2. toManager'[q] = IF q = p THEN RemoveAt(toManager[p], 1) ELSE toManager[q]
  BY <1>0 DEF TypeOK
<1> DEFINE e == Event(p, q, k, v)
<1>3. e \in Notice /\ e.op = "event" /\ e.key = k /\ e.value = v /\ (e.flag <=> p = q)
  <2>1. 0 \in Nat
    OBVIOUS
  <2> QED BY <2>1, Messages DEF Event, Msg
<1>4. IF q = p THEN toProcess'[q] = Append(toProcess[q], ack) \/ toProcess'[q] = Append(Append(toProcess[q], e), ack)
      ELSE \/ toProcess'[q] = toProcess[q] /\ area' = area
           \/ /\ toProcess'[q] = Append(toProcess[q], e)
              /\ \A j \in Keys : area'[j] = IF k \in {j, Null} THEN v ELSE area[j]
  <2>1. CASE Tell(p, NoEvent, ack) /\ area' = area
    <3>1. Noted(p, ack)
      BY <1>0, <2>1, ToldNothing
    <3> HIDE DEF e
    <3> QED BY <1>0, <2>1, <3>1 DEF Noted, TypeOK
  <2>2. CASE Tell(p, OneEvent(k, v), ack) /\ \A j \in Keys : area'[j] = IF k \in {j, Null} THEN v ELSE area[j]
    <3>1. Heard(p, k, v, ack)
      BY <1>0, <2>2, ToldOne
    <3>2. IF q = p THEN toProcess'[q] = Append(Append(toProcess[q], e), ack) ELSE toProcess'[q] = Append(toProcess[q], e)
      BY <3>1 DEF Heard
    <3> HIDE DEF e
    <3> QED BY <2>2, <3>2
  <2> QED BY <2>1, <2>2
<1> HIDE DEF e
<1>5. CASE q = p
  <2>1. /\ toProcess'[p] = Append(toProcess[p], ack) \/ toProcess'[p] = Append(Append(toProcess[p], e), ack)
        /\ e.flag /\ SameCopy(p) /\ waiting'[p] = waiting[p] /\ toManager'[p] = RemoveAt(toManager[p], 1)
    BY <1>1, <1>2, <1>3, <1>4, <1>5
  <2>2. IF toManager[p][1].op = "get" THEN reply'[p] = {area} /\ area' = area ELSE reply'[p] = reply[p]
    BY <1>0 DEF TypeOK
  <2>3. \A j \in Keys : toManager[p][1].key \notin {j, Null} => area'[j] = area[j]
    OBVIOUS
  <2>4. \A j \in Keys : toManager[p][1].op # "get" /\ toManager[p][1].key \in {j, Null} =>
                           (ack.op = "didSet" /\ ack.flag) \/ area'[j] = toManager[p][1].value
    OBVIOUS
  <2>5. Settled(p)'
    BY <1>3, <2>1, <2>2, <2>3, <2>4, AnswerSettled
  <2> QED BY <1>5, <2>5
<1>6. CASE q # p
  <2>1. toManager'[q] = toManager[q] /\ ~e.flag /\ e.op = "event" /\ reply'[q] = reply[q]
    BY <1>0, <1>2, <1>3, <1>6 DEF TypeOK
  <2>2. \/ toProcess'[q] = toProcess[q] /\ area' = area
        \/ /\ toProcess'[q] = Append(toProcess[q], e)
           /\ \A j \in Keys : area'[j] = IF e.key \in {j, Null} THEN e.value ELSE area[j]
    BY <1>3, <1>4, <1>6
  <2> QED BY <1>1, <1>3, <2>1, <2>2, HearSettled
<1> QED BY <1>5, <1>6

LEMMA ManagerSettled ==
  ASSUME QueueInOrder, Invs, NEW p \in Procs, Manager(p), NEW q \in Procs
  PROVE  Settled(q)'
<1>0. TypeOK /\ AllProper /\ area \in [Keys -> Values \union {Null}]
  BY DEF Invs, TypeOK, Items
<1>1. PICK i \in Runnable(p) : GetValues(p, i) \/ SetItem(p, i) \/ RemoveItem(p, i) \/ ClearArea(p, i)
  BY DEF Manager
<1>2. i = 1 /\ 1 \in DOMAIN toManager[p]
  BY DEF Runnable
<1> DEFINE m == toManager[p][1]
<1>3. /\ m \in Request /\ m.seed \in Nat
      /\ m.key \in Keys \union {Null} /\ m.value \in Values \union {Null}
      /\ m.op \in {"get", "clear"} => m.key = Null /\ m.value = Null
      /\ m.op \in {"set", "remove"} => m.key \in Keys
      /\ m.op = "remove" => m.value = Null
  BY <1>0, <1>2, RequestShape
<1>4. Null \notin Keys /\ Null \in Keys \union {Null} /\ Null \in Values \union {Null}
  BY LocalStorageAssumption
<1>5. CASE GetValues(p, 1)
  <2> DEFINE ack == Msg("didGet", m.seed, Null, Null, FALSE)
  <2>1. ack \in Notice
    BY <1>3, Messages
  <2>2. m.op = "get"
    BY <1>5 DEF GetValues, Receive
  <2>3. ack.seed = m.seed /\ ack.key = m.key /\ <<m.op, ack.op>> \in Pairs
    BY <1>3, <2>2 DEF Msg, Pairs
  <2>4. /\ Tell(p, NoEvent, ack) /\ area' = area /\ reply' = [reply EXCEPT ![p] = {area}]
        /\ toManager' = [toManager EXCEPT ![p] = RemoveAt(@, 1)] /\ UNCHANGED <<copyVars, waiting>>
    BY <1>5 DEF GetValues, Receive
  <2> HIDE DEF ack
  <2> QED BY <1>2, <1>3, <1>4, <2>1, <2>2, <2>3, <2>4, ToldSettled
<1>6. CASE SetItem(p, 1)
  <2> DEFINE over == OverQuota(area, m.key)
             ack == Msg("didSet", m.seed, m.key, Null, over)
  <2>1. over \in BOOLEAN /\ ack \in Notice
    BY <1>3, Messages DEF OverQuota
  <2>2. m.op = "set"
    BY <1>6 DEF SetItem, Receive
  <2>3. ack.seed = m.seed /\ ack.key = m.key /\ <<m.op, ack.op>> \in Pairs /\ ack.op = "didSet" /\ ack.flag = over
    BY <1>3, <2>2 DEF Msg, Pairs
  <2>4. /\ IF over THEN Tell(p, NoEvent, ack) /\ area' = area
           ELSE Tell(p, OneEvent(m.key, m.value), ack) /\ area' = [area EXCEPT ![m.key] = m.value]
        /\ reply' = reply
        /\ toManager' = [toManager EXCEPT ![p] = RemoveAt(@, 1)] /\ UNCHANGED <<copyVars, waiting>>
    BY <1>6 DEF SetItem, Receive
  <2> HIDE DEF ack, over, m
  <2>5. m.key \in Keys
    BY <1>3, <2>2
  <2>6. ~over => \A j \in Keys : area'[j] = IF m.key \in {j, Null} THEN m.value ELSE area[j]
    BY <1>0, <1>4, <2>4, <2>5
  <2>7. \/ Tell(p, NoEvent, ack) /\ area' = area
        \/ Tell(p, OneEvent(m.key, m.value), ack) /\ \A j \in Keys : area'[j] = IF m.key \in {j, Null} THEN m.value ELSE area[j]
    BY <2>1, <2>4, <2>6
  <2>8. \A j \in Keys : m.op # "get" /\ m.key \in {j, Null} => (ack.op = "didSet" /\ ack.flag) \/ area'[j] = m.value
    BY <2>1, <2>3, <2>6
  <2>9. m.op # "get" /\ m = toManager[p][1]
    BY <2>2 DEF m
  <2> QED BY <1>2, <1>3, <2>1, <2>3, <2>4, <2>7, <2>8, <2>9, ToldSettled DEF m
<1>7. CASE RemoveItem(p, 1)
  <2> DEFINE ack == Msg("didRemove", m.seed, m.key, Null, FALSE)
  <2>1. ack \in Notice
    BY <1>3, Messages
  <2>2. m.op = "remove"
    BY <1>7 DEF RemoveItem, Receive
  <2>3. ack.seed = m.seed /\ ack.key = m.key /\ <<m.op, ack.op>> \in Pairs
    BY <1>3, <2>2 DEF Msg, Pairs
  <2>4. /\ IF area[m.key] = Null THEN Tell(p, NoEvent, ack) ELSE Tell(p, OneEvent(m.key, Null), ack)
        /\ area' = [area EXCEPT ![m.key] = Null]
        /\ reply' = reply
        /\ toManager' = [toManager EXCEPT ![p] = RemoveAt(@, 1)] /\ UNCHANGED <<copyVars, waiting>>
    BY <1>7 DEF RemoveItem, Receive
  <2> HIDE DEF ack, m
  <2>5. m.key \in Keys /\ m.value = Null
    BY <1>3, <2>2
  <2>6. \A j \in Keys : area'[j] = IF m.key \in {j, Null} THEN Null ELSE area[j]
    BY <1>0, <1>4, <2>4, <2>5
  <2>7. \/ Tell(p, NoEvent, ack) /\ area' = area
        \/ Tell(p, OneEvent(m.key, Null), ack) /\ \A j \in Keys : area'[j] = IF m.key \in {j, Null} THEN Null ELSE area[j]
    BY <1>0, <2>4, <2>6
  <2>8. \A j \in Keys : m.op # "get" /\ m.key \in {j, Null} => (ack.op = "didSet" /\ ack.flag) \/ area'[j] = m.value
    BY <2>5, <2>6
  <2>9. m.op # "get" /\ m = toManager[p][1]
    BY <2>2 DEF m
  <2> QED BY <1>2, <1>3, <1>4, <2>1, <2>3, <2>4, <2>7, <2>8, <2>9, ToldSettled DEF m
<1>8. CASE ClearArea(p, 1)
  <2> DEFINE ack == Msg("didClear", m.seed, Null, Null, FALSE)
  <2>1. ack \in Notice
    BY <1>3, Messages
  <2>2. m.op = "clear"
    BY <1>8 DEF ClearArea, Receive
  <2>3. ack.seed = m.seed /\ ack.key = m.key /\ <<m.op, ack.op>> \in Pairs
    BY <1>3, <2>2 DEF Msg, Pairs
  <2>4. /\ IF area = Empty THEN Tell(p, NoEvent, ack) ELSE Tell(p, OneEvent(Null, Null), ack)
        /\ area' = Empty
        /\ reply' = reply
        /\ toManager' = [toManager EXCEPT ![p] = RemoveAt(@, 1)] /\ UNCHANGED <<copyVars, waiting>>
    BY <1>8 DEF ClearArea, Receive
  <2> HIDE DEF ack, m
  <2>5. m.key = Null /\ m.value = Null
    BY <1>3, <2>2
  <2>6. \A j \in Keys : area'[j] = IF m.key \in {j, Null} THEN Null ELSE area[j]
    BY <2>4, <2>5 DEF Empty
  <2>7. \/ Tell(p, NoEvent, ack) /\ area' = area
        \/ Tell(p, OneEvent(m.key, Null), ack) /\ \A j \in Keys : area'[j] = IF m.key \in {j, Null} THEN Null ELSE area[j]
    BY <2>4, <2>5, <2>6
  <2>8. \A j \in Keys : m.op # "get" /\ m.key \in {j, Null} => (ack.op = "didSet" /\ ack.flag) \/ area'[j] = m.value
    BY <2>5, <2>6
  <2>9. m.op # "get" /\ m = toManager[p][1]
    BY <2>2 DEF m
  <2> QED BY <1>2, <1>3, <1>4, <2>1, <2>3, <2>4, <2>7, <2>8, <2>9, ToldSettled DEF m
<1> QED BY <1>1, <1>2, <1>5, <1>6, <1>7, <1>8

\* A clearCache on its way dooms the copy, so nothing is asked of it.
LEMMA DeleteSettled ==
  ASSUME Invs, DeleteAllEntries, NEW q \in Procs
  PROVE  Settled(q)'
<1> DEFINE m == Msg("clearCache", 0, Null, Null, FALSE)
<1>0. /\ TypeOK
      /\ Gets(q) /\ Ranked(q) /\ Fresh(q) /\ OwnLast(q) /\ Agreeing(q)
  BY DEF Invs, AllSettled, Settled
<1>1. m \in Notice /\ m.op = "clearCache"
  <2>1. 0 \in Nat
    OBVIOUS
  <2> QED BY <2>1, Messages DEF Msg
<1>2. SameCopy(q) /\ waiting' = waiting /\ toManager' = toManager /\ reply' = reply
  BY DEF DeleteAllEntries, copyVars, SameCopy
<1>3. toProcess'[q] = Append(toProcess[q], m)
  BY DEF DeleteAllEntries
<1> HIDE DEF m
<1>4. Gets(q)' /\ Ranked(q)' /\ Fresh(q)' /\ OwnLast(q)'
  BY <1>0, <1>2 DEF Gets, Ranked, Fresh, Useful, OwnLast, SameCopy
<1>5. Agreeing(q)'
  <2> DEFINE V == Dooming(seed[q])
  <2>1. toProcess[q] \in Seq(Notice) /\ m \in V
    BY <1>0, <1>1 DEF TypeOK, Dooming
  <2> HIDE DEF V
  <2>2. ~None(Append(toProcess[q], m), V)
    BY <1>1, <2>1, LastAppended
  <2>3. ~None(toProcess'[q], Dooming(seed'[q]))
    BY <1>2, <1>3, <2>2 DEF V, SameCopy
  <2> QED BY <2>3 DEF Agreeing
<1> QED BY <1>4, <1>5 DEF Settled

LEMMA InitSettled == Init => AllSettled
<1> SUFFICES ASSUME Init, NEW p \in Procs PROVE Settled(p)
  BY DEF AllSettled
<1>1. toManager[p] = <<>> /\ reply[p] = {} /\ ~loaded[p]
  BY DEF Init
<1>2. \A i \in 1..Len(toManager[p]) : FALSE
  BY <1>1
<1> QED BY <1>1, <1>2 DEF Settled, Gets, Ranked, Fresh, OwnLast, Agreeing, Useful

LEMMA NextSettled ==
  ASSUME QueueInOrder, Invs, [Next]_vars
  PROVE  AllSettled'
<1> SUFFICES ASSUME NEW q \in Procs PROVE Settled(q)'
  BY DEF AllSettled
<1>1. CASE UNCHANGED vars
  <2>1. SameAt(q) /\ area' = area
    BY <1>1 DEF vars, copyVars, SameAt, SameCopy
  <2> QED BY <2>1, SameSettled
<1>2. CASE DeleteAllEntries
  BY <1>2, DeleteSettled
<1>3. ASSUME NEW p \in Procs, Manager(p) PROVE Settled(q)'
  BY <1>3, ManagerSettled
<1>4. ASSUME NEW p \in Procs, Scripts(p) PROVE Settled(q)'
  <2>0. TypeOK
    BY DEF Invs
  <2>1. CASE q = p
    BY <1>4, <2>1, ScriptSettled
  <2>2. CASE q # p
    <3>1. SameAt(q) /\ area' = area
      BY <1>4, <2>0, <2>2, ScriptSame
    <3> QED BY <3>1, SameSettled
  <2> QED BY <2>1, <2>2
<1>5. ASSUME NEW p \in Procs, MainThread(p) PROVE Settled(q)'
  <2>0. TypeOK
    BY DEF Invs
  <2>1. CASE q = p
    BY <1>5, <2>1, MainSettled
  <2>2. CASE q # p
    <3>1. SameAt(q) /\ area' = area
      BY <1>5, <2>0, <2>2, MainSame
    <3> QED BY <3>1, SameSettled
  <2> QED BY <2>1, <2>2
<1> QED BY <1>1, <1>2, <1>3, <1>4, <1>5 DEF Next

-----------------------------------------------------------------------------
(* What follows.                                                           *)

\* The last own change of a key, if no clear comes later, is what OwnLast speaks of.
LEMMA OwnChangesFollow == Invs => OwnChangeShows
<1> SUFFICES ASSUME Invs, NEW p \in Procs, p \notin hurt, loaded[p], NEW k \in Keys,
                    NEW i \in DOMAIN toManager[p], toManager[p][i].op \in {"set", "remove"},
                    toManager[p][i].key = k, toManager[p][i].seed = seed[p],
                    \A j \in DOMAIN toManager[p] :
                      /\ toManager[p][j].op \in {"set", "remove"}
                      /\ toManager[p][j].key = k /\ toManager[p][j].seed = seed[p]
                      => j <= i
             PROVE  map[p][k] = toManager[p][i].value
  BY DEF OwnChangeShows
<1>0. TypeOK /\ AllProper /\ Ranked(p) /\ OwnLast(p) /\ seed[p] \in Nat /\ Null \notin Keys
  BY LocalStorageAssumption DEF Invs, AllSettled, Settled, TypeOK
<1>1. DOMAIN toManager[p] = 1..Len(toManager[p]) /\ Len(toManager[p]) \in Nat
  BY <1>0, LenProperties DEF TypeOK
<1>2. \A j \in 1..Len(toManager[p]) :
        /\ toManager[p][j] \in Request
        /\ toManager[p][j].op \in {"get", "clear"} <=> toManager[p][j].key = Null
        /\ toManager[p][j].op \in {"get", "clear", "set", "remove"}
  BY <1>0, Shapes
<1>3. toManager[p][i] \in Own(seed[p], k)
  BY <1>1, <1>2 DEF Own
<1>4. ASSUME NEW j \in 1..Len(toManager[p]), j > i, toManager[p][j] \in Own(seed[p], k) PROVE FALSE
  <2>1. /\ toManager[p][j].op # "get" /\ toManager[p][j].seed = seed[p] /\ toManager[p][j].key \in {k, Null}
    BY <1>4 DEF Own
  <2>2. CASE toManager[p][j].key = k
    <3>1. toManager[p][j].op \in {"set", "remove"}
      BY <1>0, <1>2, <2>1, <2>2
    <3>2. j <= i
      BY <1>1, <2>1, <2>2, <3>1
    <3> QED BY <1>1, <1>4, <3>2
  <2>3. CASE toManager[p][j].key = Null
    <3>1. toManager[p][j].op = "clear"
      BY <1>2, <2>1, <2>3
    <3>2. toManager[p][i].seed < toManager[p][j].seed
      BY <1>0, <1>1, <1>4, <3>1 DEF Ranked
    <3> QED BY <1>0, <2>1, <3>2
  <2> QED BY <2>1, <2>2, <2>3
<1>5. EndsWith(toManager[p], Own(seed[p], k), toManager[p][i])
  BY <1>1, <1>3, <1>4 DEF EndsWith, IsLast
<1> QED BY <1>0, <1>5 DEF OwnLast

\* With empty queues nothing is left to be told, so Agreeing speaks of every key.
LEMMA AgreeFollow == Invs => QuietCopiesAgree
<1> SUFFICES ASSUME Invs, NEW p \in Procs, p \notin hurt, Quiet(p), loaded[p]
             PROVE  map[p] = area
  BY DEF QuietCopiesAgree
<1>0. TypeOK /\ Agreeing(p)
  BY DEF Invs, AllSettled, Settled
<1>1. toManager[p] = <<>> /\ toProcess[p] = <<>>
  BY DEF Quiet
<1>2. \A V : None(toManager[p], V) /\ None(toProcess[p], V)
  <2>1. \A i \in 1..Len(<<>>) : FALSE
    OBVIOUS
  <2> QED BY <1>1, <2>1 DEF None
<1>3. \A k \in Keys : map[p][k] = area[k]
  BY <1>0, <1>2 DEF Agreeing, Useful, Shows
<1>4. map[p] \in [Keys -> Values \union {Null}] /\ area \in [Keys -> Values \union {Null}]
  BY <1>0 DEF TypeOK, Items
<1> QED BY <1>3, <1>4

\* The inductive invariant, when the manager's work queue keeps the order.
LEMMA InvsHold ==
  ASSUME QueueInOrder
  PROVE  /\ Init => Invs
         /\ Invs /\ [Next]_vars => Invs'
<1>1. Init => Invs
  BY InitTypes, InitMarked, InitSettled DEF Invs
<1>2. Invs /\ [Next]_vars => Invs'
  BY NextTypes, NextMarked, NextSettled DEF Invs
<1> QED BY <1>1, <1>2

\* While the manager has not seen a process's last change of a key, its copy shows it:
\* dispatchStorageEvent applies no change of another process over it.
THEOREM OwnChangesShow ==
  ASSUME QueueInOrder
  PROVE  Spec => []OwnChangeShows
<1>1. Init => Invs
  BY InvsHold
<1>2. Invs /\ [Next]_vars => Invs'
  BY InvsHold
<1>3. Invs => OwnChangeShows
  BY OwnChangesFollow
<1> QED BY <1>1, <1>2, <1>3, PTL DEF Spec

\* Once everything has been delivered, a copy is the area: the skips of
\* shouldApplyChangeForKey and dispatchStorageEvent lose no change for good.
THEOREM CopiesAgree ==
  ASSUME QueueInOrder
  PROVE  Spec => []QuietCopiesAgree
<1>1. Init => Invs
  BY InvsHold
<1>2. Invs /\ [Next]_vars => Invs'
  BY InvsHold
<1>3. Invs => QuietCopiesAgree
  BY AgreeFollow
<1> QED BY <1>1, <1>2, <1>3, PTL DEF Spec

=============================================================================
