--------------------------- MODULE DFGWorklistProofs ---------------------------
(***************************************************************************)
(* The promises of the compiler's worklist for any number of compiler      *)
(* threads, virtual machines and plans: threads and collections keep apart *)
(* through m_rightToRun, a key has one plan at a time, a plan is in one    *)
(* place at a time, and a cancelled plan is not compiled on.               *)
(***************************************************************************)
EXTENDS DFGWorklist, SequenceTheorems, FiniteSetTheorems, WellFoundedInduction, TLAPS

Collector(v) == vm[v] \in {"suspend", "mark", "cancel", "resume"}

\* Who holds which lock: a thread that works its own, a virtual machine that collects
\* those it has suspended and not yet resumed, under m_suspensionLock.
Rights ==
  /\ right \in [Threads -> VMs \union {Nobody, Self}]
  /\ pc \in [Threads -> {"fetch", "asleep", "start", "check", "compile", "safepoint",
                         "compiled", "publish"}]
  /\ vm \in [VMs -> {"runs", "look", "enqueue", "wait", "asleep", "remove", "suspend", "mark",
                     "cancel", "resume", "gone"}]
  /\ next \in [VMs -> 0..NThreads]
  /\ collecting \in [VMs -> BOOLEAN]
  /\ \A t \in Threads : right[t] = Self <=> Running(t)
  /\ \A v \in VMs : Collector(v) => suspension = v
  /\ \A v \in VMs, t \in Threads :
       /\ vm[v] = "suspend" /\ t > next[v] => right[t] = v
       /\ vm[v] \in {"mark", "cancel"} => right[t] = v
       /\ vm[v] = "resume" /\ t <= next[v] => right[t] = v
  /\ \A v \in VMs : collecting[v] => vm[v] \in {"mark", "cancel"}

LEMMA InitRights == Init => Rights
  BY WorklistAssumption DEF Init, Rights, Running, Collector, Threads

\* A step of a compiler thread takes a free lock, or returns its own.
LEMMA ThreadRights ==
  ASSUME Rights, NEW t \in Threads, ThreadStep(t)
  PROVE  Rights'
<1>0. Self \notin VMs /\ Nobody # Self /\ Nobody \notin VMs
  BY WorklistAssumption
<1>1. CASE Fetch(t)
  <2>1. \/ pc' = [pc EXCEPT ![t] = "asleep"]
        \/ pc' = [pc EXCEPT ![t] = "start"]
    BY <1>1 DEF Fetch, Goto
  <2>2. pc[t] = "fetch" /\ UNCHANGED <<locks, vms>>
    BY <1>1 DEF Fetch
  <2> QED BY <1>0, <2>1, <2>2 DEF Rights, Running, Collector, locks, vms
<1>2. CASE Start(t)
  BY <1>0, <1>2 DEF Start, TakeRight, Goto, Rights, Running, Collector, vms
<1>3. CASE NotifyCompiling(t)
  BY <1>0, <1>3 DEF NotifyCompiling, GiveRight, Goto, Rights, Running, Collector, vms
<1>4. CASE BeginSafepoint(t)
  BY <1>0, <1>4 DEF BeginSafepoint, GiveRight, Goto, Rights, Running, Collector, vms
<1>5. CASE EndSafepoint(t)
  BY <1>0, <1>5 DEF EndSafepoint, TakeRight, Goto, Rights, Running, Collector, vms
<1>6. CASE EndCompile(t)
  BY <1>0, <1>6 DEF EndCompile, Goto, Rights, Running, Collector, locks, vms
<1>7. CASE NotifyCompiled(t)
  BY <1>0, <1>7 DEF NotifyCompiled, GiveRight, Goto, Rights, Running, Collector, vms
<1>8. CASE NotifyReady(t)
  <2>1. /\ pc[t] = "publish" /\ pc' = [pc EXCEPT ![t] = "fetch"]
        /\ UNCHANGED <<right, suspension, next, collecting>>
    BY <1>8 DEF NotifyReady, Goto, locks
  <2>2. vm' = vm \/ vm' = [v \in VMs |-> IF vm[v] = "asleep" THEN "wait" ELSE vm[v]]
    BY <1>8 DEF NotifyReady, WakeAll
  <2>3. /\ vm' \in [VMs -> {"runs", "look", "enqueue", "wait", "asleep", "remove", "suspend",
                            "mark", "cancel", "resume", "gone"}]
        /\ \A v \in VMs : vm'[v] = vm[v] \/ (vm[v] = "asleep" /\ vm'[v] = "wait")
    BY <2>2 DEF Rights
  <2>4. /\ pc' \in [Threads -> {"fetch", "asleep", "start", "check", "compile", "safepoint",
                                "compiled", "publish"}]
        /\ \A u \in Threads : (Running(u))' <=> Running(u)
    BY <2>1 DEF Rights, Running
  <2> QED BY <2>1, <2>3, <2>4 DEF Rights, Collector
<1> QED BY <1>1, <1>2, <1>3, <1>4, <1>5, <1>6, <1>7, <1>8 DEF ThreadStep

\* Compiling and waiting touch no lock; a collection takes m_suspensionLock, one lock
\* after the other, and returns them in that order.
LEMMA MachineRights ==
  ASSUME Rights, NEW v \in VMs,
         \/ \E k \in Keys : CompleteAllReady(v, k)
         \/ Compilation(v) \/ Wait(v) \/ Waiting(v)
         \/ BeginCollection(v) \/ Collection(v)
  PROVE  Rights'
<1>0. Self \notin VMs /\ Nobody # Self /\ Nobody \notin VMs /\ NThreads \in Nat \ {0}
  BY WorklistAssumption
<1>1. CASE \E k \in Keys : CompleteAllReady(v, k)
  BY <1>0, <1>1 DEF CompleteAllReady, Step, Rights, Running, Collector, locks, threads
<1>2. CASE Look(v)
  BY <1>0, <1>2 DEF Look, Step, Rights, Running, Collector, locks, threads
<1>3. CASE Enqueue(v)
  BY <1>0, <1>3 DEF Enqueue, Signal, Goto, Step, Rights, Running, Collector, locks
<1>4. CASE GiveUp(v)
  BY <1>0, <1>4 DEF GiveUp, Step, Rights, Running, Collector, locks, threads
<1>5. CASE Wait(v)
  BY <1>0, <1>5 DEF Wait, Step, Rights, Running, Collector, locks, threads
<1>6. CASE WaitLoop(v)
  BY <1>0, <1>6 DEF WaitLoop, Step, Rights, Running, Collector, locks, threads
<1>7. CASE RemoveReady(v)
  BY <1>0, <1>7 DEF RemoveReady, Step, Rights, Running, Collector, locks, threads
<1>8. CASE BeginCollection(v)
  BY <1>0, <1>8 DEF BeginCollection, Step, Rights, Running, Collector, threads, Threads
<1>9. CASE Suspend(v)
  BY <1>0, <1>9 DEF Suspend, Step, Rights, Running, Collector, threads, Threads
<1>10. CASE AllSuspended(v)
  BY <1>0, <1>10 DEF AllSuspended, Step, Rights, Running, Collector, locks, threads, Threads
<1>11. CASE RemoveDeadPlans(v)
  BY <1>0, <1>11 DEF RemoveDeadPlans, Step, Rights, Running, Collector, locks, threads
<1>12. CASE CancelSafepoints(v)
  BY <1>0, <1>12 DEF CancelSafepoints, Finish, Step, Rights, Running, Collector, locks, Threads
<1>13. CASE Resume(v)
  BY <1>0, <1>13 DEF Resume, Rights, Running, Collector, threads, Threads
<1>14. CASE AllResumed(v)
  BY <1>0, <1>14 DEF AllResumed, Step, Rights, Running, Collector, threads, Threads
<1> QED
  BY <1>1, <1>2, <1>3, <1>4, <1>5, <1>6, <1>7, <1>8, <1>9, <1>10, <1>11, <1>12, <1>13, <1>14
  DEF Compilation, Waiting, Collection

LEMMA NextRights == Rights /\ [Next]_vars => Rights'
<1>1. CASE UNCHANGED vars
  BY <1>1 DEF vars, locks, threads, vms, Rights, Running, Collector
<1> QED BY <1>1, ThreadRights, MachineRights DEF Next

\* No compiler thread works while a virtual machine marks and cancels (what runThread
\* asserts around compileInThread), for any number of threads and virtual machines.
THEOREM ThreadsApartFromCollector == Spec => []RunsApartFromCollector
<1>1. Rights => RunsApartFromCollector
  <2> SUFFICES ASSUME Rights, NEW t \in Threads, Running(t), NEW v \in VMs
               PROVE  right[t] = Self /\ ~collecting[v]
    BY DEF RunsApartFromCollector, Rights
  <2> QED BY WorklistAssumption DEF Rights
<1> QED BY <1>1, InitRights, NextRights, PTL DEF Spec

\* The keys a virtual machine wants are its own, and it forgets them when it compiles,
\* so that no other thread can add a plan for one of them.
Wanted ==
  /\ plans \in [Keys -> Plans \union {NoPlan}]
  /\ want \in [VMs -> SUBSET Keys]
  /\ \A v \in VMs : \A k \in want[v] : VMOf[k] = v
  /\ \A v \in VMs : vm[v] \in {"runs", "wait", "asleep", "remove", "gone"} => want[v] = {}
  /\ EnqueuedOnce

VMType == vm \in [VMs -> {"runs", "look", "enqueue", "wait", "asleep", "remove", "suspend",
                          "mark", "cancel", "resume", "gone"}]

LEMMA InitWanted == Init => Wanted
  BY DEF Init, Wanted, EnqueuedOnce

\* Plans that are completed or dead only leave m_plans.
LEMMA FewerPlans ==
  ASSUME Wanted, plans' \in [Keys -> Plans \union {NoPlan}],
         \A k \in Keys : plans'[k] \in {plans[k], NoPlan}
  PROVE  \A v \in VMs : \A k \in want[v] : vm[v] # "look" => plans'[k] = NoPlan
  BY DEF Wanted, EnqueuedOnce

LEMMA ThreadWanted ==
  ASSUME Wanted, VMType, NEW t \in Threads, ThreadStep(t)
  PROVE  Wanted'
<1>1. CASE NotifyReady(t)
  BY <1>1 DEF NotifyReady, WakeAll, Wanted, VMType, EnqueuedOnce
<1>2. CASE ~NotifyReady(t)
  <2>1. UNCHANGED <<plans, vm, want>>
    BY <1>2 DEF ThreadStep, Fetch, Start, NotifyCompiling, BeginSafepoint, EndSafepoint,
                EndCompile, NotifyCompiled, worklist, vms
  <2> QED BY <2>1 DEF Wanted, EnqueuedOnce
<1> QED BY <1>1, <1>2

LEMMA MachineWanted ==
  ASSUME Wanted, VMType, NEW v \in VMs,
         \/ \E k \in Keys : CompleteAllReady(v, k)
         \/ Compilation(v) \/ Wait(v) \/ Waiting(v)
         \/ BeginCollection(v) \/ Collection(v)
  PROVE  Wanted'
<1>0. \A k \in Keys : VMOf[k] \in VMs
  BY WorklistAssumption
<1>1. ASSUME NEW k \in Keys, CompleteAllReady(v, k) PROVE Wanted'
  <2>1. /\ plans' \in [Keys -> Plans \union {NoPlan}]
        /\ \A key \in Keys : plans'[key] \in {plans[key], NoPlan}
    BY <1>1 DEF CompleteAllReady, RemoveAllReady, Wanted
  <2>2. \/ UNCHANGED <<vm, want>>
        \/ /\ vm' = [vm EXCEPT ![v] = "look"]
           /\ want' = [want EXCEPT ![v] = {k}] /\ VMOf[k] = v
    BY <1>1 DEF CompleteAllReady, Step
  <2> QED BY <2>1, <2>2, FewerPlans DEF Wanted, VMType, EnqueuedOnce
<1>2. CASE Look(v)
  BY <1>2 DEF Look, Step, Wanted, VMType, EnqueuedOnce, worklist
<1>3. CASE Enqueue(v)
  <2>1. PICK p \in Plans : KeyOf[p] \in want[v] /\ plans' = [plans EXCEPT ![KeyOf[p]] = p]
    BY <1>3 DEF Enqueue
  <2>2. want' = [want EXCEPT ![v] = {}] /\ vm' = [vm EXCEPT ![v] = "runs"]
    BY <1>3 DEF Enqueue, Step
  <2>3. KeyOf[p] \in Keys /\ VMOf[KeyOf[p]] = v
    BY <2>1 DEF Wanted
  <2> QED BY <2>1, <2>2, <2>3 DEF Wanted, VMType, EnqueuedOnce
<1>4. CASE GiveUp(v)
  BY <1>4 DEF GiveUp, Step, Wanted, VMType, EnqueuedOnce, worklist
<1>5. CASE Wait(v) \/ WaitLoop(v)
  BY <1>5 DEF Wait, WaitLoop, Step, Wanted, VMType, EnqueuedOnce, worklist
<1>6. CASE RemoveReady(v)
  <2>1. /\ plans' \in [Keys -> Plans \union {NoPlan}]
        /\ \A key \in Keys : plans'[key] \in {plans[key], NoPlan}
    BY <1>6 DEF RemoveReady, RemoveAllReady, Wanted
  <2>2. /\ UNCHANGED want /\ want[v] = {}
        /\ vm' \in {[vm EXCEPT ![v] = "runs"], [vm EXCEPT ![v] = "gone"]}
    BY <1>6 DEF RemoveReady, Step, Wanted
  <2> QED BY <2>1, <2>2, FewerPlans DEF Wanted, VMType, EnqueuedOnce
<1>7. CASE BeginCollection(v) \/ AllSuspended(v) \/ CancelSafepoints(v) \/ AllResumed(v)
  BY <1>7 DEF BeginCollection, AllSuspended, CancelSafepoints, Finish, AllResumed, Step,
              Wanted, VMType, EnqueuedOnce, worklist
<1>8. CASE Suspend(v) \/ Resume(v)
  BY <1>8 DEF Suspend, Resume, Wanted, EnqueuedOnce, worklist
<1>9. CASE RemoveDeadPlans(v)
  <2>1. /\ plans' \in [Keys -> Plans \union {NoPlan}]
        /\ \A key \in Keys : plans'[key] \in {plans[key], NoPlan}
    BY <1>9 DEF RemoveDeadPlans, Wanted
  <2>2. vm[v] = "mark" /\ vm' = [vm EXCEPT ![v] = "cancel"] /\ UNCHANGED want
    BY <1>9 DEF RemoveDeadPlans, Step
  <2> QED BY <2>1, <2>2, FewerPlans DEF Wanted, VMType, EnqueuedOnce
<1> QED
  BY <1>1, <1>2, <1>3, <1>4, <1>5, <1>6, <1>7, <1>8, <1>9 DEF Compilation, Waiting, Collection

LEMMA NextWanted == Rights /\ Wanted /\ [Next]_vars => Wanted'
<1>1. Rights => VMType
  BY DEF Rights, VMType
<1>2. CASE UNCHANGED vars
  BY <1>2 DEF vars, worklist, vms, Wanted, EnqueuedOnce
<1> QED BY <1>1, <1>2, ThreadWanted, MachineWanted DEF Next

\* A key that is about to be compiled has no plan yet, whatever other threads and
\* collections did since it was looked up (the assertion of Worklist::enqueue).
THEOREM OnePlanPerKey == Spec => []EnqueuedOnce
<1>1. Wanted => EnqueuedOnce
  BY DEF Wanted
<1> QED BY <1>1, InitRights, NextRights, InitWanted, NextWanted, PTL DEF Spec

-----------------------------------------------------------------------------
(* Sequences without doubles.                                              *)

\* No element is twice in s; its elements.
OnceEach(s) == \A i, j \in 1..Len(s) : s[i] = s[j] => i = j
Members(s)  == {s[i] : i \in 1..Len(s)}

LEMMA ToSetMembers ==
  ASSUME NEW S, NEW s \in Seq(S)
  PROVE  ToSet(s) = Members(s) /\ Members(s) \subseteq S
<1>1. DOMAIN s = 1..Len(s) /\ \A i \in 1..Len(s) : s[i] \in S
  BY LenProperties, ElementOfSeq
<1> QED BY <1>1 DEF ToSet, Members

LEMMA AppendMembers ==
  ASSUME NEW S, NEW s \in Seq(S), NEW x \in S
  PROVE  /\ Append(s, x) \in Seq(S)
         /\ Members(Append(s, x)) = Members(s) \union {x}
         /\ OnceEach(s) /\ x \notin Members(s) => OnceEach(Append(s, x))
<1> DEFINE z == Append(s, x)
<1>1. Len(s) \in Nat /\ z \in Seq(S) /\ Len(z) = Len(s) + 1
  BY LenProperties, AppendProperties
<1>2. \A i \in 1..(Len(s) + 1) : z[i] = IF i = Len(s) + 1 THEN x ELSE s[i]
  BY <1>1, AppendProperties
<1> HIDE DEF z
<1>3. \A i \in 1..Len(s) : i \in 1..Len(z) /\ z[i] = s[i]
  BY <1>1, <1>2
<1>4. Len(z) \in 1..Len(z) /\ z[Len(z)] = x
  BY <1>1, <1>2
<1>5. \A i \in 1..Len(z) : i \in 1..Len(s) \/ i = Len(z)
  BY <1>1
<1>6. Members(z) = Members(s) \union {x}
  BY <1>3, <1>4, <1>5 DEF Members
<1>7. ASSUME OnceEach(s), x \notin Members(s) PROVE OnceEach(z)
  <2>1. \A i \in 1..Len(s) : s[i] # x
    BY <1>7 DEF Members
  <2> QED BY <1>3, <1>4, <1>5, <1>7, <2>1 DEF OnceEach
<1> QED BY <1>1, <1>6, <1>7 DEF z

LEMMA TailMembers ==
  ASSUME NEW S, NEW s \in Seq(S), s # <<>>, OnceEach(s)
  PROVE  /\ Tail(s) \in Seq(S) /\ OnceEach(Tail(s))
         /\ Head(s) \in Members(s)
         /\ Members(Tail(s)) = Members(s) \ {Head(s)}
<1> DEFINE z == Tail(s)
<1>1. Len(s) \in Nat /\ Len(s) # 0 /\ z \in Seq(S) /\ Len(z) = Len(s) - 1 /\ Head(s) = s[1]
  BY LenProperties, EmptySeq, HeadTailProperties
<1>2. \A i \in 1..Len(z) : z[i] = s[i + 1]
  BY HeadTailProperties
<1> HIDE DEF z
<1>3. \A i \in 1..Len(z) : i + 1 \in 1..Len(s) /\ i + 1 # 1
  BY <1>1
<1>4. \A i, j \in 1..Len(s) : s[i] = s[j] => i = j
  BY DEF OnceEach
<1>5. OnceEach(z)
  <2> SUFFICES ASSUME NEW i \in 1..Len(z), NEW j \in 1..Len(z), z[i] = z[j] PROVE i = j
    BY DEF OnceEach
  <2>1. i + 1 = j + 1
    BY <1>2, <1>3, <1>4
  <2> QED BY <1>1, <2>1
<1>6. 1 \in 1..Len(s)
  BY <1>1
<1>7. Members(z) \subseteq Members(s) \ {Head(s)}
  BY <1>1, <1>2, <1>3, <1>4, <1>6 DEF Members
<1>8. ASSUME NEW i \in 1..Len(s), i # 1 PROVE s[i] \in Members(z)
  <2>1. i - 1 \in 1..Len(z) /\ (i - 1) + 1 = i
    BY <1>1, <1>8
  <2>2. z[i - 1] = s[i]
    BY <1>2, <2>1
  <2> QED BY <2>1, <2>2 DEF Members
<1>9. Members(s) \ {Head(s)} \subseteq Members(z)
  BY <1>1, <1>8 DEF Members
<1>10. Head(s) \in Members(s)
  BY <1>1, <1>6 DEF Members
<1> QED BY <1>1, <1>5, <1>7, <1>9, <1>10 DEF z


-----------------------------------------------------------------------------
(* What FoldLeft computes, prefix by prefix.                               *)

\* A set of natural numbers has a least element.
LEMMA Least ==
  ASSUME NEW T, T \subseteq Nat, T # {}
  PROVE  \E x \in T : \A y \in T : x <= y
<1> DEFINE R == OpToRel(<, Nat)
<1>1. \A x, y \in Nat : <<y, x>> \in R <=> y < x
  BY DEF OpToRel
<1>2. IsWellFoundedOn(R, Nat)
  BY NatLessThanWellFounded, Zenon
<1> HIDE DEF R
<1>3. \E x \in T : \A y \in T : ~ (<<y, x>> \in R)
  BY <1>2, WFMin, Zenon
<1>4. PICK x \in T : \A y \in T : ~ (<<y, x>> \in R)
  BY <1>3
<1>5. ASSUME NEW y \in T PROVE x <= y
  <2>1. ~ (y < x)
    BY <1>1, <1>4
  <2>2. x \in Nat /\ y \in Nat
    OBVIOUS
  <2> QED BY <2>1, <2>2
<1> QED BY <1>5

\* A set of natural numbers that has 0 and, below n, with i also i + 1 has all up to n.
LEMMA CountUp ==
  ASSUME NEW N \in Nat, NEW T, 0 \in T,
         \A k \in 0..(N - 1) : k \in T => k + 1 \in T
  PROVE  \A k \in 0..N : k \in T
<1> SUFFICES ASSUME NEW m \in 0..N, m \notin T PROVE FALSE
  OBVIOUS
<1> DEFINE B == {k \in 0..N : k \notin T}
<1>1. PICK k \in B : \A j \in B : k <= j
  <2>1. B \in SUBSET Nat /\ B # {}
    OBVIOUS
  <2> HIDE DEF B
  <2> QED BY <2>1, Least
<1>2. k # 0 /\ k \in 0..N
  OBVIOUS
<1>3. k - 1 \notin B /\ k - 1 \in 0..(N - 1)
  BY <1>1, <1>2
<1>4. k - 1 \in T
  BY <1>3
<1>5. (k - 1) + 1 \in T
  BY <1>3, <1>4
<1> QED BY <1>2, <1>5

\* The largest of some numbers.
LEMMA MaxIsIn ==
  ASSUME NEW N \in Nat, NEW s \in SUBSET (1..N), s # {}
  PROVE  Max(s) \in s
<1> DEFINE T == {N - i : i \in s}
<1>1. T \subseteq Nat /\ T # {}
  <2>1. \A i \in s : N - i \in Nat
    OBVIOUS
  <2> QED BY <2>1
<1>2. PICK x \in T : \A y \in T : x <= y
  <2> HIDE DEF T
  <2> QED BY <1>1, Least
<1>3. PICK i \in s : x = N - i
  BY <1>2
<1>4. ASSUME NEW j \in s PROVE i >= j
  <2>1. N - j \in T
    OBVIOUS
  <2> QED BY <1>2, <1>3, <2>1
<1> QED BY <1>4 DEF Max

\* g is what FoldLeft computes, of every set of the N positions it goes through.
Folded(g, V, base, N, step) ==
  \A s \in SUBSET (1..N) :
    /\ g[s] = IF s = {} THEN base ELSE step[<<g[s \ {Max(s)}], Max(s)>>]
    /\ g[s] \in V

\* There is such a function, with values in V, if step keeps to V.
LEMMA Folding ==
  ASSUME NEW V, NEW base \in V, NEW N \in Nat, NEW step \in [V \X (1..N) -> V]
  PROVE  \E g : Folded(g, V, base, N, step)
<1> DEFINE Works(g, k) ==
             /\ g = [s \in SUBSET (1..k) |->
                       IF s = {} THEN base ELSE step[<<g[s \ {Max(s)}], Max(s)>>]]
             /\ \A s \in SUBSET (1..k) : g[s] \in V
           T == {k \in 0..N : \E g : Works(g, k)}
<1>1. 0 \in T
  <2>1. SUBSET (1..0) = {{}}
    OBVIOUS
  <2> DEFINE g == [s \in SUBSET (1..0) |-> base]
  <2>2. \A s \in SUBSET (1..0) : s = {} /\ g[s] = base
    BY <2>1
  <2>3. Works(g, 0)
    BY <2>2, Zenon
  <2> HIDE DEF Works
  <2>4. \E f : Works(f, 0)
    BY <2>3
  <2> QED BY <2>4
<1>2. ASSUME NEW k \in 0..(N - 1), k \in T
      PROVE  k + 1 \in T
  <2>1. PICK g : Works(g, k)
    BY <1>2
  <2> DEFINE h == [s \in SUBSET (1..(k + 1)) |->
                     IF k + 1 \in s THEN step[<<g[s \ {k + 1}], k + 1>>] ELSE g[s]]
  <2>2. ASSUME NEW s \in SUBSET (1..(k + 1))
        PROVE  /\ h[s] = IF s = {} THEN base ELSE step[<<h[s \ {Max(s)}], Max(s)>>]
               /\ h[s] \in V
    <3>0. \A i \in 1..(k + 1) : i # k + 1 => i \in 1..k
      OBVIOUS
    <3>1. CASE k + 1 \in s
      <4>1. \A y \in s : k + 1 >= y /\ (y >= k + 1 => y = k + 1)
        OBVIOUS
      <4>2. \A x \in s : (\A y \in s : x >= y) <=> x = k + 1
        BY <3>1, <4>1
      <4>3. Max(s) = k + 1
        BY <3>1, <4>2 DEF Max
      <4>4. s \ {k + 1} \in SUBSET (1..(k + 1)) /\ k + 1 \notin s \ {k + 1}
            /\ s \ {k + 1} \in SUBSET (1..k)
        BY <3>0
      <4>5. h[s \ {k + 1}] = g[s \ {k + 1}] /\ g[s \ {k + 1}] \in V
        BY <2>1, <4>4
      <4>6. k + 1 \in 1..N
        OBVIOUS
      <4> QED BY <3>1, <4>3, <4>5, <4>6
    <3>2. CASE k + 1 \notin s
      <4>1. s \in SUBSET (1..k) /\ \A y : s \ {y} \in SUBSET (1..(k + 1)) /\ k + 1 \notin s \ {y}
        BY <3>0, <3>2
      <4>2. h[s] = g[s] /\ \A y : h[s \ {y}] = g[s \ {y}]
        BY <3>2, <4>1
      <4>3. /\ g[s] = IF s = {} THEN base ELSE step[<<g[s \ {Max(s)}], Max(s)>>]
            /\ g[s] \in V
        BY <2>1, <4>1
      <4> QED BY <4>2, <4>3
    <3> QED BY <3>1, <3>2
  <2>3. Works(h, k + 1)
    <3> HIDE DEF h
    <3>1. h = [s \in SUBSET (1..(k + 1)) |-> h[s]]
      BY DEF h
    <3> QED BY <2>2, <3>1
  <2>4. k + 1 \in 0..N
    OBVIOUS
  <2> QED BY <2>3, <2>4
<1>3. \A k \in 0..N : k \in T
  <2> HIDE DEF T
  <2> QED BY <1>1, <1>2, CountUp
<1>4. PICK g : Works(g, N)
  <2>1. N \in 0..N
    OBVIOUS
  <2> QED BY <1>3, <2>1
<1> QED BY <1>4 DEF Folded

\* The prefixes of 1..N, as FoldLeft takes them apart.
LEMMA PrefixFacts ==
  ASSUME NEW N \in Nat
  PROVE  /\ 1..0 = {}
         /\ \A k \in 1..N : /\ 1..k \in SUBSET (1..N) /\ 1..k # {} /\ k - 1 \in 0..N /\ k \in 0..N
                            /\ Max(1..k) = k /\ (1..k) \ {Max(1..k)} = 1..(k - 1)
<1>1. ASSUME NEW k \in 1..N
      PROVE  /\ 1..k \in SUBSET (1..N) /\ 1..k # {} /\ k - 1 \in 0..N /\ k \in 0..N
             /\ Max(1..k) = k /\ (1..k) \ {Max(1..k)} = 1..(k - 1)
  <2>1. Max(1..k) = k
    BY DEF Max
  <2>2. (1..k) \ {k} = 1..(k - 1)
    OBVIOUS
  <2> QED BY <2>1, <2>2
<1> QED BY <1>1

-----------------------------------------------------------------------------
(* Taking plans out of m_readyPlans and m_queue.                           *)

\* The last element of a sequence moved to the place of another.
LEMMA Moved ==
  ASSUME NEW s \in Seq(Plans), NEW i \in 1..Len(s)
  PROVE  LET f == Front([s EXCEPT ![i] = Last(s)]) IN
         /\ f \in Seq(Plans) /\ Len(f) = Len(s) - 1
         /\ \A j \in 1..(Len(s) - 1) : f[j] = IF j = i THEN s[Len(s)] ELSE s[j]
<1> DEFINE m == Last(s)
           u == [s EXCEPT ![i] = m]
<1>1. Len(s) \in Nat /\ Len(s) # 0 /\ m \in Plans /\ m = s[Len(s)]
  BY LenProperties, ElementOfSeq DEF Last
<1> HIDE DEF m
<1>2. u \in Seq(Plans) /\ Len(u) = Len(s)
      /\ \A j \in 1..Len(s) : u[j] = IF j = i THEN m ELSE s[j]
  BY <1>1, ExceptSeq
<1>3. /\ SubSeq(u, 1, Len(s) - 1) \in Seq(Plans)
      /\ Len(SubSeq(u, 1, Len(s) - 1)) = Len(s) - 1
      /\ \A j \in 1..(Len(s) - 1) : SubSeq(u, 1, Len(s) - 1)[j] = u[j]
  <2> HIDE DEF u
  <2> QED BY <1>1, <1>2, SubSeqProperties
<1>4. Front(u) = SubSeq(u, 1, Len(s) - 1)
  BY <1>2 DEF Front
<1>5. /\ Front(u) \in Seq(Plans) /\ Len(Front(u)) = Len(s) - 1
      /\ \A j \in 1..(Len(s) - 1) : Front(u)[j] = IF j = i THEN s[Len(s)] ELSE s[j]
  <2> HIDE DEF u
  <2>1. \A j \in 1..(Len(s) - 1) : j \in 1..Len(s)
    BY <1>1
  <2>2. \A j \in 1..(Len(s) - 1) : u[j] = IF j = i THEN s[Len(s)] ELSE s[j]
    BY <1>1, <1>2, <2>1
  <2> QED BY <1>1, <1>3, <1>4, <2>2
<1> QED BY <1>5 DEF m

\* The states of the loop over m_readyPlans.
Swept == [list : Seq(Plans), at : Nat \ {0}]

LEMMA SweptType ==
  ASSUME NEW a \in Swept, NEW gone, NEW stay \in {0, 1}
  PROVE  SweepOne(a, gone, stay) \in Swept
<1>1. a.list \in Seq(Plans) /\ a.at \in Nat \ {0} /\ Len(a.list) \in Nat
  BY LenProperties DEF Swept
<1>2. CASE a.at > Len(a.list)
  BY <1>2 DEF SweepOne
<1>3. CASE a.at <= Len(a.list) /\ a.list[a.at] \in gone
  <2>1. a.at \in 1..Len(a.list)
    BY <1>1, <1>3
  <2>2. Front([a.list EXCEPT ![a.at] = Last(a.list)]) \in Seq(Plans)
    BY <1>1, <2>1, Moved
  <2> QED BY <1>1, <1>3, <2>2 DEF SweepOne, Swept
<1>4. CASE a.at <= Len(a.list) /\ a.list[a.at] \notin gone
  BY <1>1, <1>4 DEF SweepOne, Swept
<1> QED BY <1>1, <1>2, <1>3, <1>4

\* The loop has looked at k places, or is at the end.
Turned(a, N, k) == a.at > Len(a.list) \/ (a.at - 1) + (N - Len(a.list)) >= k

\* A turn of that loop: no plan is doubled, none is added and only plans of gone are lost;
\* if it looks again at the place it filled, none of them stays before that place.
LEMMA SweptOnce ==
  ASSUME NEW a \in Swept, NEW gone, NEW stay \in {0, 1}, OnceEach(a.list)
  PROVE  LET b == SweepOne(a, gone, stay) IN
         /\ OnceEach(b.list)
         /\ Members(b.list) \subseteq Members(a.list)
         /\ \A p \in Members(a.list) : p \in Members(b.list) \/ p \in gone
<1> DEFINE b == SweepOne(a, gone, stay)
<1>1. a.list \in Seq(Plans) /\ a.at \in Nat \ {0} /\ Len(a.list) \in Nat
  BY LenProperties DEF Swept
<1>2. CASE a.at > Len(a.list)
  BY <1>2 DEF SweepOne
<1>3. CASE a.at <= Len(a.list) /\ a.list[a.at] \notin gone
  BY <1>1, <1>3 DEF SweepOne, Swept
<1>4. CASE a.at <= Len(a.list) /\ a.list[a.at] \in gone
  <2> DEFINE f == Front([a.list EXCEPT ![a.at] = Last(a.list)])
  <2>1. a.at \in 1..Len(a.list)
    BY <1>1, <1>4
  <2>2. f \in Seq(Plans) /\ Len(f) = Len(a.list) - 1
    BY <1>1, <2>1, Moved
  <2>3. \A j \in 1..(Len(a.list) - 1) :
          f[j] = IF j = a.at THEN a.list[Len(a.list)] ELSE a.list[j]
    BY <1>1, <2>1, Moved
  <2>4. b.list = f
    BY <1>1, <1>4 DEF SweepOne
  <2> HIDE DEF f, b
  <2>5. \A i, j \in 1..Len(a.list) : a.list[i] = a.list[j] => i = j
    BY DEF OnceEach
  <2>6. OnceEach(f)
    BY <1>1, <2>1, <2>2, <2>3, <2>5 DEF OnceEach
  <2>7. Members(f) \subseteq Members(a.list)
    <3>1. ASSUME NEW j \in 1..(Len(a.list) - 1) PROVE f[j] \in Members(a.list)
      <4>1. j \in 1..Len(a.list) /\ Len(a.list) \in 1..Len(a.list)
        BY <1>1
      <4> QED BY <2>3, <4>1 DEF Members
    <3> QED BY <2>2, <3>1 DEF Members
  <2>8. ASSUME NEW i \in 1..Len(a.list) PROVE a.list[i] \in Members(f) \/ a.list[i] \in gone
    <3>1. CASE i = a.at
      BY <1>4, <3>1
    <3>2. CASE i # a.at /\ i # Len(a.list)
      <4>1. i \in 1..(Len(a.list) - 1) /\ f[i] = a.list[i]
        BY <1>1, <2>3, <3>2
      <4> QED BY <2>2, <4>1 DEF Members
    <3>3. CASE i # a.at /\ i = Len(a.list)
      <4>1. a.at \in 1..(Len(a.list) - 1) /\ f[a.at] = a.list[i]
        BY <1>1, <2>1, <2>3, <3>3
      <4>2. f[a.at] \in Members(f)
        BY <2>2, <4>1 DEF Members
      <4> QED BY <4>1, <4>2
    <3> QED BY <3>1, <3>2, <3>3
  <2>9. \A p \in Members(a.list) : p \in Members(f) \/ p \in gone
    BY <2>8 DEF Members
  <2> USE DEF b
  <2> QED BY <2>4, <2>6, <2>7, <2>9
<1> QED BY <1>1, <1>2, <1>3, <1>4

LEMMA SweptTurn ==
  ASSUME NEW a \in Swept, NEW gone, NEW N \in Nat, NEW k \in Nat, Turned(a, N, k),
         \A j \in 1..Len(a.list) : j < a.at => a.list[j] \notin gone
  PROVE  LET b == SweepOne(a, gone, 0) IN
         /\ Turned(b, N, k + 1)
         /\ \A j \in 1..Len(b.list) : j < b.at => b.list[j] \notin gone
<1> DEFINE b == SweepOne(a, gone, 0)
<1>1. a.list \in Seq(Plans) /\ a.at \in Nat \ {0} /\ Len(a.list) \in Nat
  BY LenProperties DEF Swept
<1>2. CASE a.at > Len(a.list)
  BY <1>2 DEF SweepOne, Turned
<1>3. CASE a.at <= Len(a.list) /\ a.list[a.at] \notin gone
  <2>1. b.list = a.list /\ b.at = a.at + 1
    BY <1>1, <1>3 DEF SweepOne, Swept
  <2> HIDE DEF b
  <2>2. Turned(b, N, k + 1)
    BY <1>1, <1>3, <2>1 DEF Turned
  <2>3. \A j \in 1..Len(b.list) : j < b.at => b.list[j] \notin gone
    <3> SUFFICES ASSUME NEW j \in 1..Len(a.list), j < a.at + 1 PROVE a.list[j] \notin gone
      BY <2>1
    <3> QED BY <1>1, <1>3
  <2> USE DEF b
  <2> QED BY <2>2, <2>3
<1>4. CASE a.at <= Len(a.list) /\ a.list[a.at] \in gone
  <2> DEFINE f == Front([a.list EXCEPT ![a.at] = Last(a.list)])
  <2>1. a.at \in 1..Len(a.list)
    BY <1>1, <1>4
  <2>2. f \in Seq(Plans) /\ Len(f) = Len(a.list) - 1
    BY <1>1, <2>1, Moved
  <2>3. \A j \in 1..(Len(a.list) - 1) :
          f[j] = IF j = a.at THEN a.list[Len(a.list)] ELSE a.list[j]
    BY <1>1, <2>1, Moved
  <2>4. b.list = f /\ b.at = a.at
    BY <1>1, <1>4 DEF SweepOne
  <2> HIDE DEF f, b
  <2>5. Turned(b, N, k + 1)
    BY <1>1, <1>4, <2>2, <2>4 DEF Turned
  <2>6. ASSUME NEW j \in 1..Len(b.list), j < b.at PROVE b.list[j] \notin gone
    <3>1. j \in 1..(Len(a.list) - 1) /\ j \in 1..Len(a.list) /\ j < a.at
      BY <1>1, <2>2, <2>4, <2>6
    <3> QED BY <1>1, <2>1, <2>3, <2>4, <3>1
  <2> USE DEF b
  <2> QED BY <2>5, <2>6
<1> QED BY <1>1, <1>2, <1>3, <1>4

\* What the loop does as a whole.
LEMMA SweepFacts ==
  ASSUME ready \in Seq(Plans), NEW gone, NEW stay \in {0, 1}, OnceEach(ready)
  PROVE  /\ Sweep(gone, stay) \in Seq(Plans) /\ OnceEach(Sweep(gone, stay))
         /\ Members(Sweep(gone, stay)) \subseteq Members(ready)
         /\ Members(ready) \ gone \subseteq Members(Sweep(gone, stay))
         /\ stay = 0 => Members(Sweep(gone, stay)) = Members(ready) \ gone
<1> DEFINE D == DOMAIN ready
           N == Len(ready)
           base == [list |-> ready, at |-> 1]
           step == [x \in Swept \X (1..N) |-> SweepOne(x[1], gone, stay)]
           iter[s \in SUBSET D] ==
             IF s = {} THEN base ELSE LET x == Max(s) IN SweepOne(iter[s \ {x}], gone, stay)
           Works(g) == g = [s \in SUBSET (1..N) |->
                              IF s = {} THEN base ELSE SweepOne(g[s \ {Max(s)}], gone, stay)]
<1>1. Sweep(gone, stay) = iter[D].list
  BY DEF Sweep, FoldLeft, MapThenFoldSet
<1>2. D = 1..N /\ N \in Nat
  BY LenProperties
<1>3. base \in Swept
  BY DEF Swept
<1>4. step \in [Swept \X (1..N) -> Swept]
  BY SweptType
<1>5. \A a \in Swept, k \in 1..N : step[<<a, k>>] = SweepOne(a, gone, stay)
  OBVIOUS
<1> HIDE DEF step, base, N
<1>6. PICK g : Folded(g, Swept, base, N, step)
  <2>1. N \in Nat
    BY <1>2
  <2> QED BY <1>3, <1>4, <2>1, Folding
<1>7. ASSUME NEW s \in SUBSET (1..N), s # {} PROVE Max(s) \in 1..N
  BY <1>2, <1>7, MaxIsIn
<1>8. \A s \in SUBSET (1..N) :
        g[s] = IF s = {} THEN base ELSE SweepOne(g[s \ {Max(s)}], gone, stay)
  BY <1>5, <1>6, <1>7 DEF Folded
<1> DEFINE h == [s \in SUBSET (1..N) |-> g[s]]
<1>9. Works(h)
  <2>1. \A s \in SUBSET (1..N) : h[s] = g[s] /\ \A x : h[s \ {x}] = g[s \ {x}]
    OBVIOUS
  <2> HIDE DEF h
  <2>2. h = [s \in SUBSET (1..N) |-> h[s]]
    BY DEF h
  <2> QED BY <1>8, <2>1, <2>2
<1>10. Works(iter)
  BY <1>2, <1>9
<1> HIDE DEF iter, Works
<1>11. \A s \in SUBSET (1..N) :
        iter[s] = IF s = {} THEN base ELSE SweepOne(iter[s \ {Max(s)}], gone, stay)
  BY <1>10 DEF Works
<1> DEFINE Good(a, k) ==
             /\ a \in Swept /\ OnceEach(a.list)
             /\ Members(a.list) \subseteq Members(ready)
             /\ Members(ready) \ gone \subseteq Members(a.list)
             /\ stay = 0 => /\ Turned(a, N, k)
                            /\ \A j \in 1..Len(a.list) : j < a.at => a.list[j] \notin gone
           T == {k \in 0..N : Good(iter[1..k], k)}
<1>12. 0 \in T
  <2>1. iter[1..0] = base
    BY <1>2, <1>11, PrefixFacts
  <2>2. base.list = ready /\ base.at = 1
    BY DEF base
  <2>3. Turned(base, N, 0)
    BY <1>2, <2>2 DEF Turned, N
  <2>4. Good(base, 0)
    BY <1>3, <2>2, <2>3
  <2> QED BY <1>2, <2>1, <2>4
<1>13. ASSUME NEW k \in 0..(N - 1), k \in T
       PROVE  k + 1 \in T
  <2> DEFINE a == iter[1..k]
             b == iter[1..(k + 1)]
  <2>1. k + 1 \in 1..N /\ k + 1 \in 0..N /\ (k + 1) - 1 = k /\ k \in Nat
    BY <1>2
  <2>2. b = SweepOne(a, gone, stay)
    <3>1. /\ 1..(k + 1) \in SUBSET (1..N) /\ 1..(k + 1) # {}
          /\ (1..(k + 1)) \ {Max(1..(k + 1))} = 1..((k + 1) - 1)
      BY <1>2, <2>1, PrefixFacts
    <3>2. iter[1..(k + 1)] = SweepOne(iter[1..((k + 1) - 1)], gone, stay)
      BY <1>11, <3>1
    <3> QED BY <2>1, <3>2
  <2>3. Good(a, k)
    BY <1>13
  <2> HIDE DEF a, b, T
  <2>4. b \in Swept
    BY <2>2, <2>3, SweptType
  <2>5. /\ OnceEach(b.list) /\ Members(b.list) \subseteq Members(a.list)
        /\ \A p \in Members(a.list) : p \in Members(b.list) \/ p \in gone
    BY <2>2, <2>3, SweptOnce
  <2>6. stay = 0 => /\ Turned(b, N, k + 1)
                    /\ \A j \in 1..Len(b.list) : j < b.at => b.list[j] \notin gone
    BY <1>2, <2>1, <2>2, <2>3, SweptTurn
  <2>7. Good(b, k + 1)
    BY <2>3, <2>4, <2>5, <2>6
  <2> USE DEF b, T
  <2> QED BY <2>1, <2>7
<1>14. N \in T
  <2> HIDE DEF T
  <2>1. N \in 0..N
    BY <1>2
  <2> QED BY <1>2, <1>12, <1>13, <2>1, CountUp
<1> DEFINE z == iter[D]
<1>15. Good(z, N)
  BY <1>2, <1>14
<1> HIDE DEF z, T
<1>16. Sweep(gone, stay) = z.list
  BY <1>1 DEF z
<1>17. z.list \in Seq(Plans)
  BY <1>15 DEF Swept
<1>18. ASSUME stay = 0, NEW p \in Members(z.list) PROVE p \notin gone
  <2>1. PICK j \in 1..Len(z.list) : p = z.list[j]
    BY DEF Members
  <2>2. Len(z.list) \in Nat /\ z.at \in Nat
    BY <1>15, LenProperties DEF Swept
  <2>3. j < z.at
    BY <1>2, <1>15, <1>18, <2>2 DEF Turned
  <2> QED BY <1>15, <1>18, <2>1, <2>3
<1> QED BY <1>15, <1>16, <1>17, <1>18

\* The new queue has what the old one has and gone has not.
LEMMA RequeueFacts ==
  ASSUME queue \in Seq(Plans), NEW gone, OnceEach(queue)
  PROVE  /\ Requeue(gone) \in Seq(Plans) /\ OnceEach(Requeue(gone))
         /\ Members(Requeue(gone)) = Members(queue) \ gone
<1> DEFINE D == DOMAIN queue
           N == Len(queue)
           V == Seq(Plans)
           One(q, p) == IF p \in gone THEN q ELSE Append(q, p)
           step == [x \in V \X (1..N) |-> One(x[1], queue[x[2]])]
           iter[s \in SUBSET D] ==
             IF s = {} THEN <<>> ELSE LET x == Max(s) IN One(iter[s \ {x}], queue[x])
           Works(g) == g = [s \in SUBSET (1..N) |->
                              IF s = {} THEN <<>> ELSE One(g[s \ {Max(s)}], queue[Max(s)])]
<1>1. Requeue(gone) = iter[D]
  BY DEF Requeue, FoldLeft, MapThenFoldSet
<1>2. D = 1..N /\ N \in Nat /\ \A i \in 1..N : queue[i] \in Plans
  BY LenProperties, ElementOfSeq
<1>3. <<>> \in V
  OBVIOUS
<1>4. \A q \in V, p \in Plans : One(q, p) \in V
  BY AppendProperties
<1>4a. step \in [V \X (1..N) -> V]
  BY <1>2, <1>4
<1>5. \A q \in V, k \in 1..N : step[<<q, k>>] = One(q, queue[k])
  OBVIOUS
<1> HIDE DEF step, N, V, One
<1>6. PICK g : Folded(g, V, <<>>, N, step)
  <2>1. N \in Nat
    BY <1>2
  <2> QED BY <1>3, <1>4a, <2>1, Folding
<1>7. ASSUME NEW s \in SUBSET (1..N), s # {} PROVE Max(s) \in 1..N
  BY <1>2, <1>7, MaxIsIn
<1>8. \A s \in SUBSET (1..N) :
        g[s] = IF s = {} THEN <<>> ELSE One(g[s \ {Max(s)}], queue[Max(s)])
  BY <1>5, <1>6, <1>7 DEF Folded
<1> DEFINE h == [s \in SUBSET (1..N) |-> g[s]]
<1>9. Works(h)
  <2>1. \A s \in SUBSET (1..N) : h[s] = g[s] /\ \A x : h[s \ {x}] = g[s \ {x}]
    OBVIOUS
  <2> HIDE DEF h
  <2>2. h = [s \in SUBSET (1..N) |-> h[s]]
    BY DEF h
  <2> QED BY <1>8, <2>1, <2>2
<1>10. Works(iter)
  BY <1>2, <1>9
<1> HIDE DEF iter, Works
<1>11. \A s \in SUBSET (1..N) :
        iter[s] = IF s = {} THEN <<>> ELSE One(iter[s \ {Max(s)}], queue[Max(s)])
  BY <1>10 DEF Works
<1> DEFINE Upto(k) == {queue[i] : i \in 1..k}
           Good(q, k) == q \in V /\ OnceEach(q) /\ Members(q) = Upto(k) \ gone
           T == {k \in 0..N : Good(iter[1..k], k)}
<1>12. 0 \in T
  <2>1. iter[1..0] = <<>>
    BY <1>2, <1>11, PrefixFacts
  <2>2. 1..Len(<<>>) = {} /\ 1..0 = {}
    BY EmptySeq
  <2>3. Good(<<>>, 0)
    BY <1>3, <2>2 DEF OnceEach, Members
  <2> QED BY <1>2, <2>1, <2>3
<1>13. ASSUME NEW k \in 0..(N - 1), k \in T
       PROVE  k + 1 \in T
  <2> DEFINE a == iter[1..k]
             b == iter[1..(k + 1)]
             p == queue[k + 1]
  <2>1. k + 1 \in 1..N /\ k + 1 \in 0..N /\ (k + 1) - 1 = k /\ k \in Nat
    BY <1>2
  <2>2. b = One(a, p)
    <3>1. /\ 1..(k + 1) \in SUBSET (1..N) /\ 1..(k + 1) # {} /\ Max(1..(k + 1)) = k + 1
          /\ (1..(k + 1)) \ {Max(1..(k + 1))} = 1..((k + 1) - 1)
      BY <1>2, <2>1, PrefixFacts
    <3>2. iter[1..(k + 1)] = One(iter[1..((k + 1) - 1)], queue[k + 1])
      BY <1>11, <3>1
    <3> QED BY <2>1, <3>2
  <2>3. Good(a, k)
    BY <1>13
  <2>4. Upto(k + 1) = Upto(k) \union {p}
    <3>1. 1..(k + 1) = (1..k) \union {k + 1}
      BY <2>1
    <3> QED BY <3>1
  <2>5. p \in Plans /\ p \notin Upto(k)
    <3>1. \A i \in 1..k : i \in 1..N /\ i # k + 1
      BY <1>2, <2>1
    <3> QED BY <1>2, <2>1, <3>1 DEF OnceEach, N
  <2> HIDE DEF a, b, p, T, Upto
  <2>6. Good(b, k + 1)
    <3>1. CASE p \in gone
      BY <2>2, <2>3, <2>4, <3>1 DEF One
    <3>2. CASE p \notin gone
      <4>1. b = Append(a, p) /\ a \in Seq(Plans) /\ p \notin Members(a)
        BY <2>2, <2>3, <2>5, <3>2 DEF One, V
      <4>2. /\ b \in Seq(Plans) /\ Members(b) = Members(a) \union {p}
            /\ OnceEach(b)
        BY <2>3, <2>5, <4>1, AppendMembers
      <4> QED BY <2>3, <2>4, <3>2, <4>2 DEF V
    <3> QED BY <3>1, <3>2
  <2> USE DEF b, T
  <2> QED BY <2>1, <2>6
<1>14. N \in T
  <2> HIDE DEF T
  <2>1. N \in 0..N
    BY <1>2
  <2> QED BY <1>2, <1>12, <1>13, <2>1, CountUp
<1>15. Good(iter[D], N)
  BY <1>2, <1>14
<1>16. Upto(N) = Members(queue)
  BY DEF Members, N
<1> QED BY <1>1, <1>15, <1>16 DEF V

-----------------------------------------------------------------------------
(* Types, with what Placed says of doubles.                                *)

LEMMA InitTypes == Init => TypeOK
  BY WorklistAssumption DEF Init, TypeOK, Threads

\* A thread that takes up or drops its plan.
LEMMA JobTypes ==
  ASSUME TypeOK, NEW t \in Threads, NEW label, NEW p,
         \/ label = "start" /\ p \in Plans
         \/ label = "fetch" /\ p = NoPlan
         \/ label \in {"check", "compile", "safepoint", "compiled", "publish"} /\ p = job[t]
            /\ p # NoPlan
         \/ label \in {"fetch", "asleep"} /\ p = job[t] /\ p = NoPlan,
         pc' = [pc EXCEPT ![t] = label], job' = [job EXCEPT ![t] = p]
  PROVE  /\ pc' \in [Threads -> {"fetch", "asleep", "start", "check", "compile", "safepoint",
                               "compiled", "publish"}]
         /\ job' \in [Threads -> Plans \union {NoPlan}]
         /\ \A u \in Threads : (pc'[u] \in {"fetch", "asleep"}) \equiv (job'[u] = NoPlan)
<1>1. NoPlan \notin Plans
  BY WorklistAssumption
<1>2. \A u \in Threads : pc[u] \in {"fetch", "asleep"} \equiv job[u] = NoPlan
  BY DEF TypeOK
<1>3. /\ pc \in [Threads -> {"fetch", "asleep", "start", "check", "compile", "safepoint",
                               "compiled", "publish"}]
      /\ job \in [Threads -> Plans \union {NoPlan}]
  BY DEF TypeOK
<1>4. \A u \in Threads : u # t => pc'[u] = pc[u] /\ job'[u] = job[u]
  BY <1>3
<1>5. pc'[t] = label /\ job'[t] = p
  BY <1>3
<1>6. (pc'[t] \in {"fetch", "asleep"}) \equiv (job'[t] = NoPlan)
  BY <1>1, <1>2, <1>5
<1> QED BY <1>2, <1>3, <1>4, <1>6

LEMMA ThreadTypes ==
  ASSUME TypeOK, NEW t \in Threads, ThreadStep(t)
  PROVE  TypeOK'
<1>1. CASE Fetch(t)
  <2>1. CASE queue = <<>>
    <3>1. pc' = [pc EXCEPT ![t] = "asleep"] /\ job' = job /\ job[t] = NoPlan
      BY <1>1, <2>1 DEF Fetch, Goto, TypeOK
    <3>2. job = [job EXCEPT ![t] = job[t]]
      BY DEF TypeOK
    <3>3. /\ pc' \in [Threads -> {"fetch", "asleep", "start", "check", "compile", "safepoint",
                                  "compiled", "publish"}]
          /\ job' \in [Threads -> Plans \union {NoPlan}]
          /\ \A u \in Threads : (pc'[u] \in {"fetch", "asleep"}) \equiv (job'[u] = NoPlan)
      BY <3>1, <3>2, JobTypes
    <3>4. UNCHANGED <<plans, queue, ready, stage, locks, safepoint, cancelled, vms>>
      BY <1>1, <2>1 DEF Fetch
    <3> QED BY <3>3, <3>4 DEF TypeOK, locks, vms
  <2>2. CASE queue # <<>>
    <3>1. queue' \in Seq(Plans) /\ Head(queue) \in Plans /\ Head(queue) # NoPlan
      <4>1. queue \in Seq(Plans) /\ queue' = Tail(queue)
        BY <1>1, <2>2 DEF Fetch, TypeOK
      <4>2. Tail(queue) \in Seq(Plans) /\ Head(queue) \in Plans
        BY <2>2, <4>1, HeadTailProperties
      <4> QED BY <4>1, <4>2, WorklistAssumption
    <3>2. pc' = [pc EXCEPT ![t] = "start"] /\ job' = [job EXCEPT ![t] = Head(queue)]
      BY <1>1, <2>2 DEF Fetch, Goto
    <3>3. /\ pc' \in [Threads -> {"fetch", "asleep", "start", "check", "compile", "safepoint",
                                  "compiled", "publish"}]
          /\ job' \in [Threads -> Plans \union {NoPlan}]
          /\ \A u \in Threads : (pc'[u] \in {"fetch", "asleep"}) \equiv (job'[u] = NoPlan)
      BY <3>1, <3>2, JobTypes
    <3> QED BY <1>1, <3>1, <3>3 DEF Fetch, TypeOK, locks, vms
  <2> QED BY <2>1, <2>2
<1>2. CASE Start(t)
  BY <1>2 DEF Start, TakeRight, Goto, TypeOK, worklist, vms
<1>3. CASE NotifyCompiling(t)
  <2>1. /\ right' \in [Threads -> VMs \union {Nobody, Self}]
        /\ stage' \in [Plans -> {"New", "Preparing", "Compiling", "Compiled", "Ready", "Cancelled"}]
    BY <1>3 DEF NotifyCompiling, GiveRight, TypeOK
  <2>2. /\ pc' \in [Threads -> {"fetch", "asleep", "start", "check", "compile", "safepoint",
                               "compiled", "publish"}]
        /\ job' \in [Threads -> Plans \union {NoPlan}]
        /\ \A u \in Threads : (pc'[u] \in {"fetch", "asleep"}) \equiv (job'[u] = NoPlan)
    <3>1. pc[t] = "check" /\ job[t] # NoPlan
      BY <1>3 DEF NotifyCompiling, TypeOK
    <3>2. \/ pc' = [pc EXCEPT ![t] = "fetch"] /\ job' = [job EXCEPT ![t] = NoPlan]
          \/ pc' = [pc EXCEPT ![t] = "compile"] /\ job' = job
      BY <1>3 DEF NotifyCompiling, GiveRight, Goto, Drop
    <3>3. job = [job EXCEPT ![t] = job[t]]
      BY DEF TypeOK
    <3> QED BY <3>1, <3>2, <3>3, JobTypes
  <2> QED BY <1>3, <2>1, <2>2 DEF NotifyCompiling, TypeOK, vms
<1>4. CASE BeginSafepoint(t)
  BY <1>4 DEF BeginSafepoint, GiveRight, Goto, TypeOK, worklist, vms
<1>5. CASE EndSafepoint(t)
  BY <1>5 DEF EndSafepoint, TakeRight, Goto, TypeOK, worklist, vms
<1>6. CASE EndCompile(t)
  BY <1>6 DEF EndCompile, Goto, TypeOK, worklist, locks, vms
<1>7. CASE NotifyCompiled(t)
  <2>1. /\ cancelled' \in [Threads -> BOOLEAN]
        /\ right' \in [Threads -> VMs \union {Nobody, Self}]
        /\ stage' \in [Plans -> {"New", "Preparing", "Compiling", "Compiled", "Ready", "Cancelled"}]
    BY <1>7 DEF NotifyCompiled, GiveRight, TypeOK
  <2>2. /\ pc' \in [Threads -> {"fetch", "asleep", "start", "check", "compile", "safepoint",
                               "compiled", "publish"}]
        /\ job' \in [Threads -> Plans \union {NoPlan}]
        /\ \A u \in Threads : (pc'[u] \in {"fetch", "asleep"}) \equiv (job'[u] = NoPlan)
    <3>1. pc[t] = "compiled" /\ job[t] # NoPlan
      BY <1>7 DEF NotifyCompiled, TypeOK
    <3>2. \/ pc' = [pc EXCEPT ![t] = "fetch"] /\ job' = [job EXCEPT ![t] = NoPlan]
          \/ pc' = [pc EXCEPT ![t] = "publish"] /\ job' = job
      BY <1>7 DEF NotifyCompiled, GiveRight, Goto, Drop
    <3>3. job = [job EXCEPT ![t] = job[t]]
      BY DEF TypeOK
    <3> QED BY <3>1, <3>2, <3>3, JobTypes
  <2> QED BY <1>7, <2>1, <2>2 DEF NotifyCompiled, TypeOK, vms
<1>8. CASE NotifyReady(t)
  <2>1. job[t] \in Plans
    BY <1>8 DEF NotifyReady, TypeOK
  <2>2. ready' \in Seq(Plans)
    <3>1. ready' \in {ready, Append(ready, job[t])}
      BY <1>8 DEF NotifyReady
    <3>2. Append(ready, job[t]) \in Seq(Plans)
      BY <2>1, AppendProperties DEF TypeOK
    <3> QED BY <3>1, <3>2 DEF TypeOK
  <2>3. pc' = [pc EXCEPT ![t] = "fetch"] /\ job' = [job EXCEPT ![t] = NoPlan]
    BY <1>8 DEF NotifyReady, Goto, Drop
  <2>4. /\ pc' \in [Threads -> {"fetch", "asleep", "start", "check", "compile", "safepoint",
                               "compiled", "publish"}]
        /\ job' \in [Threads -> Plans \union {NoPlan}]
        /\ \A u \in Threads : (pc'[u] \in {"fetch", "asleep"}) \equiv (job'[u] = NoPlan)
    BY <2>3, JobTypes
  <2>5. /\ vm' \in [VMs -> {"runs", "look", "enqueue", "wait", "asleep", "remove", "suspend",
                            "mark", "cancel", "resume", "gone"}]
        /\ stage' \in [Plans -> {"New", "Preparing", "Compiling", "Compiled", "Ready", "Cancelled"}]
    <3>1. [stage EXCEPT ![job[t]] = "Ready"] \in
            [Plans -> {"New", "Preparing", "Compiling", "Compiled", "Ready", "Cancelled"}]
      BY DEF TypeOK
    <3>2. stage' \in {stage, [stage EXCEPT ![job[t]] = "Ready"]}
          /\ (vm' = vm \/ vm' = [v \in VMs |-> IF vm[v] = "asleep" THEN "wait" ELSE vm[v]])
      BY <1>8 DEF NotifyReady, WakeAll
    <3>3. [v \in VMs |-> IF vm[v] = "asleep" THEN "wait" ELSE vm[v]] \in
            [VMs -> {"runs", "look", "enqueue", "wait", "asleep", "remove", "suspend",
                     "mark", "cancel", "resume", "gone"}]
      BY DEF TypeOK
    <3> QED BY <3>1, <3>2, <3>3 DEF TypeOK
  <2> QED BY <1>8, <2>2, <2>4, <2>5 DEF NotifyReady, TypeOK, locks
<1> QED BY <1>1, <1>2, <1>3, <1>4, <1>5, <1>6, <1>7, <1>8 DEF ThreadStep

LEMMA MachineTypes ==
  ASSUME TypeOK, OnceEach(queue), OnceEach(ready), NEW v \in VMs,
         \/ \E k \in Keys : CompleteAllReady(v, k)
         \/ Compilation(v) \/ Wait(v) \/ Waiting(v)
         \/ BeginCollection(v) \/ Collection(v)
  PROVE  TypeOK'
<1>0. NThreads \in Nat \ {0} /\ MaxCollections \in Nat
      /\ KeyOf \in [Plans -> Keys] /\ NoPlan \notin Plans
  BY WorklistAssumption
<1>a. ASSUME RemoveAllReady(v)
      PROVE  ready' \in Seq(Plans) /\ plans' \in [Keys -> Plans \union {NoPlan}]
  <2>1. ready' \in Seq(Plans)
    BY <1>a, SweepFacts DEF RemoveAllReady, TypeOK
  <2> QED BY <1>a, <2>1 DEF RemoveAllReady, TypeOK
<1>1. ASSUME NEW k \in Keys, CompleteAllReady(v, k) PROVE TypeOK'
  <2>1. ready' \in Seq(Plans) /\ plans' \in [Keys -> Plans \union {NoPlan}]
    BY <1>1, <1>a DEF CompleteAllReady
  <2>2. vm' \in {vm, [vm EXCEPT ![v] = "look"]} /\ want' \in {want, [want EXCEPT ![v] = {k}]}
        /\ UNCHANGED <<queue, stage, locks, threads, next, collecting, collections>>
    BY <1>1 DEF CompleteAllReady, Step
  <2>3. /\ vm' \in [VMs -> {"runs", "look", "enqueue", "wait", "asleep", "remove", "suspend",
                            "mark", "cancel", "resume", "gone"}]
        /\ want' \in [VMs -> SUBSET Keys]
    <3>1. [vm EXCEPT ![v] = "look"] \in
            [VMs -> {"runs", "look", "enqueue", "wait", "asleep", "remove", "suspend",
                     "mark", "cancel", "resume", "gone"}]
      BY DEF TypeOK
    <3>2. [want EXCEPT ![v] = {k}] \in [VMs -> SUBSET Keys]
      BY DEF TypeOK
    <3>3. vm' = vm \/ vm' = [vm EXCEPT ![v] = "look"]
      BY <2>2
    <3>4. want' = want \/ want' = [want EXCEPT ![v] = {k}]
      BY <2>2
    <3> QED BY <3>1, <3>2, <3>3, <3>4 DEF TypeOK
  <2> QED BY <2>1, <2>2, <2>3 DEF TypeOK, locks, threads
<1>2. CASE Look(v)
  BY <1>2 DEF Look, Step, TypeOK, worklist, locks, threads
<1>3. CASE Enqueue(v)
  <2>1. PICK p \in Plans : /\ stage' = [stage EXCEPT ![p] = "Preparing"]
                           /\ plans' = [plans EXCEPT ![KeyOf[p]] = p]
                           /\ queue' = Append(queue, p)
    BY <1>3 DEF Enqueue
  <2>2. queue' \in Seq(Plans)
    BY <2>1, AppendProperties DEF TypeOK
  <2>3. /\ plans' \in [Keys -> Plans \union {NoPlan}]
        /\ stage' \in [Plans -> {"New", "Preparing", "Compiling", "Compiled", "Ready", "Cancelled"}]
    BY <1>0, <2>1 DEF TypeOK
  <2>4. /\ vm' \in [VMs -> {"runs", "look", "enqueue", "wait", "asleep", "remove", "suspend",
                            "mark", "cancel", "resume", "gone"}]
        /\ want' \in [VMs -> SUBSET Keys]
    BY <1>3 DEF Enqueue, Step, TypeOK
  <2>5. /\ pc' \in [Threads -> {"fetch", "asleep", "start", "check", "compile", "safepoint",
                                "compiled", "publish"}]
        /\ \A t \in Threads : (job[t] = NoPlan) \equiv (pc'[t] \in {"fetch", "asleep"})
    BY <1>3 DEF Enqueue, Signal, Goto, TypeOK
  <2> QED BY <1>3, <2>2, <2>3, <2>4, <2>5 DEF Enqueue, TypeOK, locks
<1>4. CASE GiveUp(v)
  BY <1>4 DEF GiveUp, Step, TypeOK, worklist, locks, threads
<1>5. CASE Wait(v)
  BY <1>5 DEF Wait, Step, TypeOK, worklist, locks, threads
<1>6. CASE WaitLoop(v)
  BY <1>6 DEF WaitLoop, Step, TypeOK, worklist, locks, threads
<1>7. CASE RemoveReady(v)
  <2>1. ready' \in Seq(Plans) /\ plans' \in [Keys -> Plans \union {NoPlan}]
    BY <1>7, <1>a DEF RemoveReady
  <2>2. \E label \in {"runs", "gone"} : vm' = [vm EXCEPT ![v] = label]
    BY <1>7 DEF RemoveReady, Step
  <2>3. vm' \in [VMs -> {"runs", "look", "enqueue", "wait", "asleep", "remove", "suspend",
                         "mark", "cancel", "resume", "gone"}]
    BY <2>2 DEF TypeOK
  <2>4. want' \in [VMs -> SUBSET Keys]
    BY <1>7 DEF RemoveReady, TypeOK
  <2> QED BY <1>7, <2>1, <2>3, <2>4 DEF RemoveReady, TypeOK, locks, threads
<1>8. CASE BeginCollection(v)
  <2>1. next' \in [VMs -> 0..NThreads] /\ collections' \in 0..MaxCollections
    BY <1>0, <1>8 DEF BeginCollection, TypeOK
  <2> QED BY <1>8, <2>1 DEF BeginCollection, Step, TypeOK, worklist, threads
<1>9. CASE Suspend(v)
  <2>1. right' \in [Threads -> VMs \union {Nobody, Self}]
    BY <1>9 DEF Suspend, TypeOK
  <2>2. next' \in [VMs -> 0..NThreads]
    BY <1>0, <1>9 DEF Suspend, TypeOK
  <2> QED BY <1>9, <2>1, <2>2 DEF Suspend, TypeOK, worklist, threads
<1>10. CASE AllSuspended(v)
  BY <1>10 DEF AllSuspended, Step, TypeOK, worklist, locks, threads
<1>11. CASE RemoveDeadPlans(v)
  <2>1. PICK dead \in SUBSET Known(v) :
          LET stage2 == [p \in Plans |-> IF p \in dead THEN "Cancelled" ELSE stage[p]]
              gone   == {p \in Plans : stage2[p] = "Cancelled"}
          IN  /\ stage' = stage2
              /\ plans' = [k \in Keys |-> IF plans[k] \in dead THEN NoPlan ELSE plans[k]]
              /\ IF dead = {} THEN UNCHANGED <<queue, ready>>
                 ELSE /\ queue' = Requeue(gone)
                      /\ ready' = Sweep(gone, 1)
    BY <1>11 DEF RemoveDeadPlans
  <2>2. queue' \in Seq(Plans) /\ ready' \in Seq(Plans)
    BY <2>1, RequeueFacts, SweepFacts DEF TypeOK
  <2>3. stage' \in [Plans -> {"New", "Preparing", "Compiling", "Compiled", "Ready", "Cancelled"}]
        /\ plans' \in [Keys -> Plans \union {NoPlan}]
    BY <2>1 DEF TypeOK
  <2> QED BY <1>11, <2>2, <2>3 DEF RemoveDeadPlans, Step, TypeOK, locks, threads
<1>12. CASE CancelSafepoints(v)
  <2>1. next' \in [VMs -> 0..NThreads]
    BY <1>0, <1>12 DEF CancelSafepoints, Finish, TypeOK
  <2>2. cancelled' \in [Threads -> BOOLEAN]
    BY <1>12 DEF CancelSafepoints
  <2>3. collecting' \in [VMs -> BOOLEAN]
    BY <1>12 DEF CancelSafepoints, Finish, TypeOK
  <2> QED BY <1>12, <2>1, <2>2, <2>3 DEF CancelSafepoints, Finish, Step, TypeOK, worklist, locks
<1>13. CASE Resume(v)
  <2>1. right' \in [Threads -> VMs \union {Nobody, Self}]
    BY <1>13 DEF Resume, TypeOK
  <2>2. next' \in [VMs -> 0..NThreads]
    BY <1>0, <1>13 DEF Resume, TypeOK
  <2> QED BY <1>13, <2>1, <2>2 DEF Resume, TypeOK, worklist, threads
<1>14. CASE AllResumed(v)
  BY <1>14 DEF AllResumed, Step, TypeOK, worklist, threads
<1> QED
  BY <1>1, <1>2, <1>3, <1>4, <1>5, <1>6, <1>7, <1>8, <1>9, <1>10, <1>11, <1>12, <1>13, <1>14
  DEF Compilation, Waiting, Collection

-----------------------------------------------------------------------------
(* The place of every plan.                                                *)

\* Where plans are.  Nothing is queued, held or listed twice; the stage of a plan tells
\* its place; what m_plans knows is alive, or ready and listed.
Data ==
  /\ plans \in [Keys -> Plans \union {NoPlan}]
  /\ stage \in [Plans -> {"New", "Preparing", "Compiling", "Compiled", "Ready", "Cancelled"}]
  /\ pc \in [Threads -> {"fetch", "asleep", "start", "check", "compile", "safepoint",
                         "compiled", "publish"}]
  /\ job \in [Threads -> Plans \union {NoPlan}]
  /\ \A t \in Threads : (job[t] = NoPlan) \equiv (pc[t] \in {"fetch", "asleep"})
  /\ queue \in Seq(Plans) /\ ready \in Seq(Plans)

Singly ==
  /\ OnceEach(queue) /\ OnceEach(ready)
  /\ \A t, u \in Threads : job[t] # NoPlan /\ job[t] = job[u] => t = u

Queued == \A p \in Members(queue) : stage[p] = "Preparing" /\ \A t \in Threads : job[t] # p

Listed == \A p \in Members(ready) :
            stage[p] \in {"Ready", "Cancelled"} /\ \A t \in Threads : job[t] # p

AtWork ==
  \A t \in Threads :
    /\ pc[t] \in {"start", "check"} => stage[job[t]] \in {"Preparing", "Cancelled"}
    /\ pc[t] \in {"compile", "safepoint", "compiled"} =>
         stage[job[t]] \in {"Compiling", "Cancelled"}
    /\ pc[t] = "publish" => stage[job[t]] \in {"Compiled", "Cancelled"}

Named == \A k \in Keys : plans[k] # NoPlan =>
           KeyOf[plans[k]] = k /\ stage[plans[k]] \notin {"New", "Cancelled"}

Alive ==
  \A p \in Plans : stage[p] \in {"Preparing", "Compiling", "Compiled"} =>
    /\ plans[KeyOf[p]] = p
    /\ p \in Members(queue) \/ \E t \in Threads : job[t] = p

Finished == \A p \in Plans : stage[p] = "Ready" =>
              (plans[KeyOf[p]] = p <=> p \in Members(ready))

Placed == Singly /\ Queued /\ Listed /\ AtWork /\ Named /\ Alive /\ Finished

LEMMA InitPlaced == Init => Placed
<1>1. Len(<<>>) = 0 /\ 1..0 = {}
  BY EmptySeq
<1> QED BY <1>1, WorklistAssumption DEF Init, Placed, Singly, Queued, Listed, AtWork, Named,
           Alive, Finished, OnceEach, Members

LEMMA DataOfTypes == TypeOK => Data
  BY DEF TypeOK, Data

\* Steps that change the place of no plan: pc goes on within a stage.
LEMMA SamePlaces ==
  ASSUME Data, Placed, UNCHANGED <<plans, queue, ready, stage, job>>,
         \A t \in Threads :
           \/ pc'[t] = pc[t]
           \/ pc[t] \in {"start", "check"} /\ pc'[t] \in {"start", "check"}
           \/ /\ pc[t] \in {"compile", "safepoint", "compiled"}
              /\ pc'[t] \in {"compile", "safepoint", "compiled"}
           \/ pc'[t] \in {"fetch", "asleep"}
  PROVE  Placed'
<1>1. Singly' /\ Queued' /\ Listed' /\ Named' /\ Alive' /\ Finished'
  BY DEF Placed, Singly, Queued, Listed, Named, Alive, Finished
<1>2. AtWork'
  BY DEF Placed, AtWork
<1> QED BY <1>1, <1>2 DEF Placed

LEMMA ThreadPlaced ==
  ASSUME Data, Placed, NEW t \in Threads, ThreadStep(t)
  PROVE  Placed'
<1>0. NoPlan \notin Plans /\ KeyOf \in [Plans -> Keys]
  BY WorklistAssumption
<1>1. CASE Fetch(t)
  <2>0. pc[t] = "fetch" /\ job[t] = NoPlan /\ UNCHANGED <<plans, ready, stage>>
    BY <1>1 DEF Fetch, Data
  <2>1. CASE queue = <<>>
    <3>1. UNCHANGED <<plans, queue, ready, stage, job>> /\ pc' = [pc EXCEPT ![t] = "asleep"]
      BY <1>1, <2>1 DEF Fetch, Goto
    <3> QED BY <3>1, SamePlaces DEF Data
  <2>2. CASE queue # <<>>
    <3> DEFINE p == Head(queue)
    <3>1. /\ p \in Members(queue) /\ queue' \in Seq(Plans) /\ OnceEach(queue')
          /\ Members(queue') = Members(queue) \ {p}
      <4>1. queue \in Seq(Plans) /\ OnceEach(queue) /\ queue' = Tail(queue)
        BY <1>1, <2>2 DEF Fetch, Data, Placed, Singly
      <4> QED BY <2>2, <4>1, TailMembers
    <3>2. pc' = [pc EXCEPT ![t] = "start"] /\ job' = [job EXCEPT ![t] = p]
      BY <1>1, <2>2 DEF Fetch, Goto
    <3>3. p \in Plans
      BY <3>1, ToSetMembers DEF Data
    <3> HIDE DEF p
    <3>4. /\ pc'[t] = "start" /\ job'[t] = p
          /\ \A u \in Threads : u # t => pc'[u] = pc[u] /\ job'[u] = job[u]
      BY <3>2 DEF Data
    <3>5. stage[p] = "Preparing" /\ \A u \in Threads : job[u] # p
      BY <3>1 DEF Placed, Queued
    <3>6. Singly' /\ Queued' /\ Listed'
      BY <1>0, <2>0, <3>1, <3>3, <3>4, <3>5 DEF Placed, Singly, Queued, Listed
    <3>7. AtWork' /\ Named' /\ Finished'
      BY <1>0, <2>0, <3>4, <3>5 DEF Placed, AtWork, Named, Finished
    <3>8. Alive'
      BY <1>0, <2>0, <3>1, <3>4, <3>5 DEF Placed, Alive
    <3> QED BY <3>6, <3>7, <3>8 DEF Placed
  <2> QED BY <2>1, <2>2
<1>2. CASE Start(t)
  <2>1. /\ UNCHANGED <<plans, queue, ready, stage, job>> /\ pc[t] = "start"
        /\ pc' = [pc EXCEPT ![t] = "check"]
    BY <1>2 DEF Start, TakeRight, Goto, worklist
  <2> QED BY <2>1, SamePlaces DEF Data
<1>3. CASE BeginSafepoint(t)
  <2>1. /\ UNCHANGED <<plans, queue, ready, stage, job>> /\ pc[t] = "compile"
        /\ pc' = [pc EXCEPT ![t] = "safepoint"]
    BY <1>3 DEF BeginSafepoint, GiveRight, Goto, worklist
  <2> QED BY <2>1, SamePlaces DEF Data
<1>4. CASE EndSafepoint(t)
  <2>1. /\ UNCHANGED <<plans, queue, ready, stage, job>> /\ pc[t] = "safepoint"
        /\ pc' \in {[pc EXCEPT ![t] = "compile"], [pc EXCEPT ![t] = "compiled"]}
    BY <1>4 DEF EndSafepoint, TakeRight, Goto, worklist
  <2> QED BY <2>1, SamePlaces DEF Data
<1>5. CASE EndCompile(t)
  <2>1. /\ UNCHANGED <<plans, queue, ready, stage, job>> /\ pc[t] = "compile"
        /\ pc' = [pc EXCEPT ![t] = "compiled"]
    BY <1>5 DEF EndCompile, Goto, worklist
  <2> QED BY <2>1, SamePlaces DEF Data
<1>6. CASE NotifyCompiling(t) \/ NotifyCompiled(t) \/ NotifyReady(t)
  <2> DEFINE p == job[t]
  <2>0. /\ p \in Plans /\ pc[t] \in {"check", "compiled", "publish"}
        /\ \A u \in Threads : job[u] = p => u = t
    BY <1>6 DEF NotifyCompiling, NotifyCompiled, NotifyReady, Data, Placed, Singly
  <2>1. p \notin Members(queue) /\ p \notin Members(ready)
    BY DEF Placed, Queued, Listed
  <2>2. CASE stage[p] = "Cancelled"
    <3>1. /\ UNCHANGED <<plans, queue, ready, stage>>
          /\ pc' = [pc EXCEPT ![t] = "fetch"] /\ job' = [job EXCEPT ![t] = NoPlan]
      BY <1>6, <2>2 DEF NotifyCompiling, NotifyCompiled, NotifyReady, GiveRight, Goto, Drop
    <3>2. /\ pc'[t] = "fetch" /\ job'[t] = NoPlan
          /\ \A u \in Threads : u # t => pc'[u] = pc[u] /\ job'[u] = job[u]
      BY <3>1 DEF Data
    <3> HIDE DEF p
    <3>3. Singly' /\ Queued' /\ Listed'
      BY <1>0, <3>1, <3>2, ToSetMembers DEF Data, Placed, Singly, Queued, Listed
    <3>4. AtWork' /\ Named' /\ Finished'
      BY <3>1, <3>2 DEF Placed, AtWork, Named, Finished
    <3>5. Alive'
      BY <2>0, <2>2, <3>1, <3>2 DEF Placed, Alive, p
    <3> QED BY <3>3, <3>4, <3>5 DEF Placed
  <2>3. CASE stage[p] # "Cancelled" /\ ~NotifyReady(t)
    <3>1. PICK s \in {"Compiling", "Compiled"} :
            /\ UNCHANGED <<plans, queue, ready, job>>
            /\ stage' = [stage EXCEPT ![p] = s]
            /\ pc' = [pc EXCEPT ![t] = IF s = "Compiling" THEN "compile" ELSE "publish"]
      BY <1>6, <2>3 DEF NotifyCompiling, NotifyCompiled, GiveRight, Goto
    <3>2. /\ stage'[p] = s /\ \A q \in Plans : q # p => stage'[q] = stage[q]
          /\ pc'[t] = IF s = "Compiling" THEN "compile" ELSE "publish"
          /\ \A u \in Threads : u # t => pc'[u] = pc[u]
      BY <2>0, <3>1 DEF Data
    <3>3. stage[p] \in {"Preparing", "Compiling", "Compiled"}
      BY <2>0, <2>3 DEF Placed, AtWork
    <3>4. /\ Members(queue) \subseteq Plans /\ Members(ready) \subseteq Plans
          /\ \A u \in Threads : job[u] \in Plans \union {NoPlan}
          /\ \A k \in Keys : plans[k] \in Plans \union {NoPlan}
          /\ \A u \in Threads : job[u] = NoPlan => pc[u] \in {"fetch", "asleep"}
      BY ToSetMembers DEF Data
    <3> HIDE DEF p
    <3>5. Singly' /\ Queued' /\ Listed'
      BY <2>1, <3>1, <3>2, <3>4 DEF Placed, Singly, Queued, Listed
    <3>6. AtWork'
      BY <2>0, <3>1, <3>2, <3>4 DEF Placed, AtWork, p
    <3>7. Named' /\ Alive' /\ Finished'
      BY <2>0, <3>1, <3>2, <3>3, <3>4 DEF Placed, Named, Alive, Finished
    <3> QED BY <3>5, <3>6, <3>7 DEF Placed
  <2>4. CASE stage[p] # "Cancelled" /\ NotifyReady(t)
    <3>1. /\ UNCHANGED <<plans, queue>> /\ ready' = Append(ready, p)
          /\ stage' = [stage EXCEPT ![p] = "Ready"] /\ pc[t] = "publish"
          /\ pc' = [pc EXCEPT ![t] = "fetch"] /\ job' = [job EXCEPT ![t] = NoPlan]
      BY <2>4 DEF NotifyReady, Goto, Drop
    <3>2. /\ stage'[p] = "Ready" /\ \A q \in Plans : q # p => stage'[q] = stage[q]
          /\ pc'[t] = "fetch" /\ job'[t] = NoPlan
          /\ \A u \in Threads : u # t => pc'[u] = pc[u] /\ job'[u] = job[u]
      BY <2>0, <3>1 DEF Data
    <3>3. OnceEach(ready') /\ Members(ready') = Members(ready) \union {p}
      BY <2>0, <2>1, <3>1, AppendMembers DEF Data, Placed, Singly
    <3>4. /\ Members(queue) \subseteq Plans /\ Members(ready) \subseteq Plans
          /\ \A u \in Threads : job[u] \in Plans \union {NoPlan}
          /\ \A k \in Keys : plans[k] \in Plans \union {NoPlan}
          /\ \A u \in Threads : job[u] = NoPlan => pc[u] \in {"fetch", "asleep"}
      BY ToSetMembers DEF Data
    <3>5. stage[p] = "Compiled"
      BY <2>4, <3>1 DEF Placed, AtWork
    <3>6. plans[KeyOf[p]] = p
      BY <2>0, <3>5 DEF Placed, Alive
    <3> HIDE DEF p
    <3>7. Singly'
      BY <1>0, <3>1, <3>2, <3>3 DEF Placed, Singly
    <3>7a. Queued' /\ Listed'
      BY <1>0, <2>0, <2>1, <3>1, <3>2, <3>3, <3>4 DEF Placed, Queued, Listed
    <3>8. AtWork'
      BY <2>0, <3>1, <3>2, <3>4 DEF Placed, AtWork
    <3>9. Named' /\ Finished'
      BY <2>0, <3>1, <3>2, <3>3, <3>4, <3>6 DEF Placed, Named, Finished
    <3>10. Alive'
      BY <2>0, <3>1, <3>2, <3>4 DEF Placed, Alive, p
    <3> QED BY <3>7, <3>7a, <3>8, <3>9, <3>10 DEF Placed
  <2> QED BY <2>2, <2>3, <2>4
<1> QED BY <1>1, <1>2, <1>3, <1>4, <1>5, <1>6 DEF ThreadStep

\* The plans of m_readyPlans that are completed go out of m_plans with them.
LEMMA RemoveAllPlaced ==
  ASSUME Data, Placed, NEW v, RemoveAllReady(v), UNCHANGED <<queue, stage, pc, job>>
  PROVE  Placed'
<1> DEFINE mine == {p \in ToSet(ready) : Complete(p, v)}
<1>0. NoPlan \notin Plans /\ KeyOf \in [Plans -> Keys]
  BY WorklistAssumption
<1>1. /\ Members(queue) \subseteq Plans /\ Members(ready) \subseteq Plans
      /\ ToSet(ready) = Members(ready)
      /\ \A k \in Keys : plans[k] \in Plans \union {NoPlan}
  BY ToSetMembers DEF Data
<1>2. OnceEach(ready') /\ Members(ready') = Members(ready) \ mine
  <2>1. OnceEach(ready) /\ ready \in Seq(Plans) /\ ready' = Sweep(mine, 0)
    BY DEF Data, Placed, Singly, RemoveAllReady
  <2> HIDE DEF mine
  <2> QED BY <2>1, SweepFacts
<1>3. plans' = [k \in Keys |-> IF k \in {KeyOf[p] : p \in mine} THEN NoPlan ELSE plans[k]]
  BY DEF RemoveAllReady
<1>4. \A p \in mine : p \in Members(ready) /\ p \in Plans /\ stage[p] = "Ready"
                      /\ plans[KeyOf[p]] = p
  BY <1>1 DEF Complete, Placed, Finished
<1> HIDE DEF mine
<1>5. \A k \in Keys : \/ plans'[k] = plans[k] /\ \A p \in mine : KeyOf[p] # k
                      \/ plans'[k] = NoPlan /\ \E p \in mine : KeyOf[p] = k
  BY <1>3
<1>6. Singly' /\ Queued' /\ Listed' /\ AtWork'
  BY <1>2 DEF Placed, Singly, Queued, Listed, AtWork
<1>7. Named'
  BY <1>5 DEF Placed, Named
<1>8. Alive'
  <2> SUFFICES ASSUME NEW p \in Plans, stage[p] \in {"Preparing", "Compiling", "Compiled"}
               PROVE  plans'[KeyOf[p]] = p
    BY DEF Placed, Alive
  <2>1. plans[KeyOf[p]] = p /\ KeyOf[p] \in Keys
    BY <1>0 DEF Placed, Alive
  <2>2. \A q \in mine : KeyOf[q] # KeyOf[p]
    BY <1>4, <2>1
  <2> QED BY <1>5, <2>1, <2>2
<1>9. Finished'
  <2> SUFFICES ASSUME NEW p \in Plans, stage[p] = "Ready"
               PROVE  plans'[KeyOf[p]] = p <=> p \in Members(ready')
    BY DEF Finished
  <2>1. KeyOf[p] \in Keys /\ (plans[KeyOf[p]] = p <=> p \in Members(ready))
    BY <1>0 DEF Placed, Finished
  <2>2. CASE p \in mine
    <3>1. plans'[KeyOf[p]] = NoPlan
      BY <1>5, <2>1, <2>2
    <3> QED BY <1>0, <1>2, <2>2, <3>1
  <2>3. CASE p \notin mine /\ \E q \in mine : KeyOf[q] = KeyOf[p]
    <3>1. plans'[KeyOf[p]] = NoPlan
      BY <1>5, <2>1, <2>3
    <3>2. plans[KeyOf[p]] # p
      BY <1>4, <2>3
    <3> QED BY <1>0, <1>2, <2>1, <3>1, <3>2
  <2>4. CASE p \notin mine /\ \A q \in mine : KeyOf[q] # KeyOf[p]
    BY <1>2, <1>5, <2>1, <2>4
  <2> QED BY <2>2, <2>3, <2>4
<1> QED BY <1>6, <1>7, <1>8, <1>9 DEF Placed

\* A plan that is enqueued takes the place of no other (EnqueuedOnce).
LEMMA EnqueuePlaced ==
  ASSUME Data, Placed, Wanted, NEW v \in VMs, Enqueue(v)
  PROVE  Placed'
<1>0. NoPlan \notin Plans /\ KeyOf \in [Plans -> Keys]
  BY WorklistAssumption
<1>1. PICK p \in Plans : /\ stage[p] = "New" /\ KeyOf[p] \in want[v]
                         /\ stage' = [stage EXCEPT ![p] = "Preparing"]
                         /\ plans' = [plans EXCEPT ![KeyOf[p]] = p]
                         /\ queue' = Append(queue, p)
  BY DEF Enqueue
<1>2. UNCHANGED <<ready, job>>
  BY DEF Enqueue
<1>3. plans[KeyOf[p]] = NoPlan
  BY <1>1 DEF Wanted, EnqueuedOnce, Enqueue
<1>4. /\ stage'[p] = "Preparing" /\ \A q \in Plans : q # p => stage'[q] = stage[q]
      /\ plans'[KeyOf[p]] = p /\ \A k \in Keys : k # KeyOf[p] => plans'[k] = plans[k]
  BY <1>0, <1>1 DEF Data
<1>5. /\ Members(queue) \subseteq Plans /\ Members(ready) \subseteq Plans
      /\ \A u \in Threads : job[u] \in Plans \union {NoPlan}
      /\ \A k \in Keys : plans[k] \in Plans \union {NoPlan}
  BY ToSetMembers DEF Data
<1>6. p \notin Members(queue) /\ p \notin Members(ready)
  BY <1>1 DEF Placed, Queued, Listed
<1>7. \A u \in Threads : job[u] # p
  <2> SUFFICES ASSUME NEW u \in Threads, job[u] = p PROVE FALSE
    OBVIOUS
  <2>1. pc[u] \notin {"fetch", "asleep"}
    BY <1>0 DEF Data
  <2>2. pc[u] \in {"start", "check", "compile", "safepoint", "compiled", "publish"}
    BY <2>1 DEF Data
  <2> QED BY <1>1, <2>2 DEF Placed, AtWork
<1>8. OnceEach(queue') /\ Members(queue') = Members(queue) \union {p}
  BY <1>1, <1>6, AppendMembers DEF Data, Placed, Singly
<1>9. \A u \in Threads : pc'[u] = pc[u] \/ pc'[u] = "fetch"
  BY DEF Enqueue, Signal, Goto, Data
<1>10. Singly'
  BY <1>2, <1>8 DEF Placed, Singly
<1>11. Queued' /\ Listed'
  BY <1>2, <1>4, <1>5, <1>6, <1>7, <1>8 DEF Placed, Queued, Listed
<1>12. AtWork'
  <2> SUFFICES ASSUME NEW u \in Threads, pc'[u] # "fetch"
      PROVE  /\ pc[u] \in {"start", "check"} => stage'[job[u]] \in {"Preparing", "Cancelled"}
             /\ pc[u] \in {"compile", "safepoint", "compiled"} =>
                  stage'[job[u]] \in {"Compiling", "Cancelled"}
             /\ pc[u] = "publish" => stage'[job[u]] \in {"Compiled", "Cancelled"}
    BY <1>2, <1>9 DEF AtWork
  <2>1. pc[u] \in {"start", "check", "compile", "safepoint", "compiled", "publish"} =>
          stage'[job[u]] = stage[job[u]]
    BY <1>0, <1>4, <1>5, <1>7 DEF Data
  <2> QED BY <2>1 DEF Placed, AtWork
<1>13. Named'
  BY <1>0, <1>1, <1>4, <1>5, <1>3 DEF Placed, Named
<1>14. Alive'
  BY <1>0, <1>1, <1>2, <1>3, <1>4, <1>8 DEF Placed, Alive
<1>15. Finished'
  BY <1>0, <1>2, <1>3, <1>4, <1>6 DEF Placed, Finished
<1> QED BY <1>10, <1>11, <1>12, <1>13, <1>14, <1>15 DEF Placed

\* Plans that die go out of m_plans, m_queue and m_readyPlans together.
LEMMA DeadPlaced ==
  ASSUME Data, Placed, NEW v \in VMs, RemoveDeadPlans(v)
  PROVE  Placed'
<1>0. NoPlan \notin Plans /\ KeyOf \in [Plans -> Keys]
  BY WorklistAssumption
<1>1. PICK dead \in SUBSET Known(v) :
        LET stage2 == [p \in Plans |-> IF p \in dead THEN "Cancelled" ELSE stage[p]]
            gone   == {p \in Plans : stage2[p] = "Cancelled"}
        IN  /\ stage' = stage2
            /\ plans' = [k \in Keys |-> IF plans[k] \in dead THEN NoPlan ELSE plans[k]]
            /\ IF dead = {} THEN UNCHANGED <<queue, ready>>
               ELSE /\ queue' = Requeue(gone)
                    /\ ready' = Sweep(gone, 1)
  BY DEF RemoveDeadPlans
<1> DEFINE gone == {p \in Plans : stage'[p] = "Cancelled"}
<1>2. /\ \A p \in Plans : stage'[p] = IF p \in dead THEN "Cancelled" ELSE stage[p]
      /\ \A k \in Keys : plans'[k] = IF plans[k] \in dead THEN NoPlan ELSE plans[k]
      /\ UNCHANGED <<pc, job>>
  BY <1>1 DEF RemoveDeadPlans, threads
<1>3. \/ UNCHANGED <<queue, ready>> /\ dead = {}
      \/ queue' = Requeue(gone) /\ ready' = Sweep(gone, 1)
  BY <1>1
<1>4. \A p \in Plans : p \in gone <=> (p \in dead \/ stage[p] = "Cancelled")
  BY <1>2
<1>5. \A p \in dead : p \in Plans /\ KeyOf[p] \in Keys /\ plans[KeyOf[p]] = p
  BY <1>0, <1>1 DEF Known, Placed, Named, Data
<1>6. /\ Members(queue) \subseteq Plans /\ Members(ready) \subseteq Plans
      /\ \A u \in Threads : job[u] \in Plans \union {NoPlan}
      /\ \A k \in Keys : plans[k] \in Plans \union {NoPlan}
  BY ToSetMembers DEF Data
<1> HIDE DEF gone
<1>7. /\ OnceEach(queue') /\ Members(queue') \subseteq Members(queue)
      /\ \A p \in Members(queue) : p \in Members(queue') <=> p \notin dead
  <2>1. CASE UNCHANGED <<queue, ready>> /\ dead = {}
    BY <2>1 DEF Placed, Singly
  <2>2. CASE queue' = Requeue(gone)
    <3>1. OnceEach(queue') /\ Members(queue') = Members(queue) \ gone
      BY <2>2, RequeueFacts DEF Data, Placed, Singly
    <3>2. \A p \in Members(queue) : p \in Plans /\ stage[p] # "Cancelled"
      BY <1>6 DEF Placed, Queued
    <3> QED BY <1>4, <3>1, <3>2
  <2> QED BY <1>3, <2>1, <2>2
<1>8. /\ OnceEach(ready') /\ Members(ready') \subseteq Members(ready)
      /\ \A p \in Members(ready) : p \in Members(ready') \/ p \in dead \/ stage[p] = "Cancelled"
  <2>1. CASE UNCHANGED <<queue, ready>> /\ dead = {}
    BY <2>1 DEF Placed, Singly
  <2>2. CASE ready' = Sweep(gone, 1)
    <3>1. /\ OnceEach(ready') /\ Members(ready') \subseteq Members(ready)
          /\ Members(ready) \ gone \subseteq Members(ready')
      BY <2>2, SweepFacts DEF Data, Placed, Singly
    <3> QED BY <1>4, <1>6, <3>1
  <2> QED BY <1>3, <2>1, <2>2
<1>9. Singly'
  BY <1>2, <1>7, <1>8 DEF Placed, Singly
<1>10. Queued' /\ Listed'
  <2>1. Queued'
    BY <1>2, <1>6, <1>7 DEF Placed, Queued
  <2>2. Listed'
    BY <1>2, <1>6, <1>8 DEF Placed, Listed
  <2> QED BY <2>1, <2>2
<1>11. AtWork'
  <2> SUFFICES ASSUME NEW u \in Threads
      PROVE  /\ pc[u] \in {"start", "check"} => stage'[job[u]] \in {"Preparing", "Cancelled"}
             /\ pc[u] \in {"compile", "safepoint", "compiled"} =>
                  stage'[job[u]] \in {"Compiling", "Cancelled"}
             /\ pc[u] = "publish" => stage'[job[u]] \in {"Compiled", "Cancelled"}
    BY <1>2 DEF AtWork
  <2>1. pc[u] \in {"start", "check", "compile", "safepoint", "compiled", "publish"} =>
          job[u] \in Plans /\ stage'[job[u]] \in {stage[job[u]], "Cancelled"}
    BY <1>0, <1>2, <1>6 DEF Data
  <2> QED BY <2>1 DEF Placed, AtWork
<1>12. Named'
  BY <1>0, <1>2, <1>6 DEF Placed, Named
<1>13. Alive'
  BY <1>0, <1>2, <1>5, <1>7 DEF Placed, Alive
<1>14. Finished'
  BY <1>0, <1>2, <1>5, <1>8 DEF Placed, Finished
<1> QED BY <1>9, <1>10, <1>11, <1>12, <1>13, <1>14 DEF Placed

LEMMA MachinePlaced ==
  ASSUME Data, Placed, Wanted, NEW v \in VMs,
         \/ \E k \in Keys : CompleteAllReady(v, k)
         \/ Compilation(v) \/ Wait(v) \/ Waiting(v)
         \/ BeginCollection(v) \/ Collection(v)
  PROVE  Placed'
<1>1. ASSUME NEW k \in Keys, CompleteAllReady(v, k) PROVE Placed'
  <2>1. RemoveAllReady(v) /\ UNCHANGED <<queue, stage, pc, job>>
    BY <1>1 DEF CompleteAllReady, threads
  <2> QED BY <2>1, RemoveAllPlaced
<1>2. CASE RemoveReady(v)
  <2>1. RemoveAllReady(v) /\ UNCHANGED <<queue, stage, pc, job>>
    BY <1>2 DEF RemoveReady, threads
  <2> QED BY <2>1, RemoveAllPlaced
<1>3. CASE Enqueue(v)
  BY <1>3, EnqueuePlaced
<1>4. CASE RemoveDeadPlans(v)
  BY <1>4, DeadPlaced
<1>5. CASE \/ Look(v) \/ GiveUp(v) \/ Wait(v) \/ WaitLoop(v) \/ BeginCollection(v)
           \/ Suspend(v) \/ AllSuspended(v) \/ CancelSafepoints(v) \/ Resume(v) \/ AllResumed(v)
  <2>1. UNCHANGED <<plans, queue, ready, stage, job>> /\ UNCHANGED pc
    BY <1>5 DEF Look, GiveUp, Wait, WaitLoop, BeginCollection, Suspend, AllSuspended,
                CancelSafepoints, Resume, AllResumed, worklist, threads
  <2> QED BY <2>1, SamePlaces
<1> QED BY <1>1, <1>2, <1>3, <1>4, <1>5 DEF Compilation, Waiting, Collection

-----------------------------------------------------------------------------
(* Plans that die under a thread.                                          *)

\* What a collection did to the plan of a thread and to its safepoint: a plan dies only at
\* a safepoint or before it is started, and its thread goes on after it was told.
Told ==
  \A t \in Threads :
    /\ safepoint[t] <=> pc[t] = "safepoint"
    /\ cancelled[t] => pc[t] \in {"safepoint", "compiled"} /\ stage[job[t]] = "Cancelled"
    /\ pc[t] = "compile" => stage[job[t]] = "Compiling"
    /\ pc[t] = "compiled" /\ stage[job[t]] = "Cancelled" => cancelled[t]
    /\ pc[t] = "safepoint" /\ stage[job[t]] = "Cancelled" /\ ~cancelled[t] =>
         vm[VMOfPlan(job[t])] = "cancel"

Flags == safepoint \in [Threads -> BOOLEAN] /\ cancelled \in [Threads -> BOOLEAN]

LEMMA InitTold == Init => Told
  BY DEF Init, Told

\* A thread tells itself of its own plan only; nobody else holds that plan.
LEMMA ThreadTold ==
  ASSUME Data, Flags, Placed, Rights, Told, NEW t \in Threads, ThreadStep(t)
  PROVE  Told'
<1>0. /\ NoPlan \notin Plans /\ KeyOf \in [Plans -> Keys] /\ VMOf \in [Keys -> VMs]
      /\ Nobody \notin VMs
  BY WorklistAssumption
<1>1. \A u \in Threads : u # t => job'[u] = job[u] /\ pc'[u] = pc[u]
  BY DEF ThreadStep, Fetch, Start, NotifyCompiling, BeginSafepoint, EndSafepoint, EndCompile,
         NotifyCompiled, NotifyReady, TakeRight, GiveRight, Goto, Drop, Data
<1>2. \A u \in Threads : u # t => safepoint'[u] = safepoint[u] /\ cancelled'[u] = cancelled[u]
  BY DEF ThreadStep, Fetch, Start, NotifyCompiling, BeginSafepoint, EndSafepoint, EndCompile,
         NotifyCompiled, NotifyReady, Flags
<1>3. \A u \in Threads : u # t /\ job[u] # NoPlan => stage'[job[u]] = stage[job[u]]
  <2> SUFFICES ASSUME NEW u \in Threads, u # t, job[u] # NoPlan
               PROVE  stage'[job[u]] = stage[job[u]]
    OBVIOUS
  <2>1. job[u] # job[t] /\ job[u] \in Plans
    BY DEF Placed, Singly, Data
  <2>2. stage' = stage \/ \E s : stage' = [stage EXCEPT ![job[t]] = s]
    BY DEF ThreadStep, Fetch, Start, NotifyCompiling, BeginSafepoint, EndSafepoint, EndCompile,
           NotifyCompiled, NotifyReady, worklist
  <2> QED BY <2>1, <2>2 DEF Data
<1>4. \A v \in VMs : vm'[v] = "cancel" <=> vm[v] = "cancel"
  BY DEF ThreadStep, Fetch, Start, NotifyCompiling, BeginSafepoint, EndSafepoint, EndCompile,
         NotifyCompiled, NotifyReady, WakeAll, vms, Rights
<1>5. ASSUME NEW u \in Threads, u # t
      PROVE  /\ safepoint'[u] <=> pc'[u] = "safepoint"
             /\ cancelled'[u] => pc'[u] \in {"safepoint", "compiled"}
                                 /\ stage'[job'[u]] = "Cancelled"
             /\ pc'[u] = "compile" => stage'[job'[u]] = "Compiling"
             /\ pc'[u] = "compiled" /\ stage'[job'[u]] = "Cancelled" => cancelled'[u]
             /\ pc'[u] = "safepoint" /\ stage'[job'[u]] = "Cancelled" /\ ~cancelled'[u] =>
                  vm'[VMOfPlan(job'[u])] = "cancel"
  <2>1. CASE job[u] = NoPlan
    <3>1. pc[u] \in {"fetch", "asleep"}
      BY <2>1 DEF Data
    <3> QED BY <1>1, <1>2, <1>5, <3>1 DEF Told
  <2>2. CASE job[u] # NoPlan
    <3>1. VMOfPlan(job[u]) \in VMs
      BY <1>0, <2>2 DEF VMOfPlan, Data
    <3>2. stage'[job'[u]] = stage[job[u]] /\ job'[u] = job[u] /\ pc'[u] = pc[u]
          /\ safepoint'[u] = safepoint[u] /\ cancelled'[u] = cancelled[u]
      BY <1>1, <1>2, <1>3, <1>5, <2>2
    <3> QED BY <1>4, <3>1, <3>2 DEF Told
  <2> QED BY <2>1, <2>2
<1>6. /\ safepoint'[t] <=> pc'[t] = "safepoint"
      /\ cancelled'[t] => pc'[t] \in {"safepoint", "compiled"} /\ stage'[job'[t]] = "Cancelled"
      /\ pc'[t] = "compile" => stage'[job'[t]] = "Compiling"
      /\ pc'[t] = "compiled" /\ stage'[job'[t]] = "Cancelled" => cancelled'[t]
      /\ pc'[t] = "safepoint" /\ stage'[job'[t]] = "Cancelled" /\ ~cancelled'[t] =>
           vm'[VMOfPlan(job'[t])] = "cancel"
  <2>0. /\ safepoint[t] <=> pc[t] = "safepoint"
        /\ cancelled[t] => pc[t] \in {"safepoint", "compiled"} /\ stage[job[t]] = "Cancelled"
        /\ pc[t] = "compile" => stage[job[t]] = "Compiling"
        /\ pc[t] = "compiled" /\ stage[job[t]] = "Cancelled" => cancelled[t]
        /\ pc[t] = "safepoint" /\ stage[job[t]] = "Cancelled" /\ ~cancelled[t] =>
             vm[VMOfPlan(job[t])] = "cancel"
    BY DEF Told
  <2>1. CASE Fetch(t)
    <3>1. pc'[t] \in {"asleep", "start"} /\ pc[t] = "fetch" /\ UNCHANGED <<safepoint, cancelled>>
      BY <2>1 DEF Fetch, Goto, Data
    <3> QED BY <2>0, <3>1
  <2>2. CASE Start(t)
    <3>1. pc'[t] = "check" /\ pc[t] = "start" /\ UNCHANGED <<safepoint, cancelled>>
      BY <2>2 DEF Start, TakeRight, Goto, Data
    <3> QED BY <2>0, <3>1
  <2>3. CASE NotifyCompiling(t)
    <3>1. pc[t] = "check" /\ job[t] \in Plans /\ UNCHANGED <<safepoint, cancelled>>
      BY <2>3 DEF NotifyCompiling, Data
    <3>2. \/ pc'[t] = "fetch"
          \/ pc'[t] = "compile" /\ job' = job /\ stage'[job[t]] = "Compiling"
      BY <2>3, <3>1 DEF NotifyCompiling, GiveRight, Goto, Data
    <3> QED BY <2>0, <3>1, <3>2
  <2>4. CASE BeginSafepoint(t)
    <3>1. /\ pc[t] = "compile" /\ pc'[t] = "safepoint" /\ safepoint'[t] = TRUE
          /\ UNCHANGED <<cancelled, stage, job>>
      BY <2>4 DEF BeginSafepoint, GiveRight, Goto, Data, Flags, worklist
    <3> QED BY <2>0, <3>1
  <2>5. CASE EndSafepoint(t)
    <3>1. /\ pc[t] = "safepoint" /\ pc'[t] = IF cancelled[t] THEN "compiled" ELSE "compile"
          /\ safepoint'[t] = FALSE /\ UNCHANGED <<cancelled, stage, job>>
          /\ right[t] = Nobody
      BY <2>5 DEF EndSafepoint, TakeRight, Goto, Data, Flags, worklist
    <3>2. job[t] \in Plans /\ VMOfPlan(job[t]) \in VMs
      BY <1>0, <3>1 DEF VMOfPlan, Data
    <3>3. vm[VMOfPlan(job[t])] # "cancel"
      BY <1>0, <3>1, <3>2 DEF Rights
    <3>4. stage[job[t]] \in {"Compiling", "Cancelled"}
      BY <3>1 DEF Placed, AtWork
    <3> QED BY <2>0, <3>1, <3>3, <3>4
  <2>6. CASE EndCompile(t)
    <3>1. /\ pc[t] = "compile" /\ pc'[t] = "compiled"
          /\ UNCHANGED <<safepoint, cancelled, stage, job>>
      BY <2>6 DEF EndCompile, Goto, Data, worklist
    <3> QED BY <2>0, <3>1
  <2>7. CASE NotifyCompiled(t)
    <3>1. /\ pc[t] = "compiled" /\ pc'[t] \in {"fetch", "publish"} /\ cancelled'[t] = FALSE
          /\ UNCHANGED safepoint
      BY <2>7 DEF NotifyCompiled, GiveRight, Goto, Data, Flags
    <3> QED BY <2>0, <3>1
  <2>8. CASE NotifyReady(t)
    <3>1. pc[t] = "publish" /\ pc'[t] = "fetch" /\ UNCHANGED <<safepoint, cancelled>>
      BY <2>8 DEF NotifyReady, Goto, Data
    <3> QED BY <2>0, <3>1
  <2> QED BY <2>1, <2>2, <2>3, <2>4, <2>5, <2>6, <2>7, <2>8 DEF ThreadStep
<1> QED BY <1>5, <1>6 DEF Told

\* Only removeDeadPlans and the telling of the safepoints matter to the threads.
LEMMA MachineTold ==
  ASSUME Data, Flags, Placed, Rights, Told, NEW v \in VMs,
         \/ \E k \in Keys : CompleteAllReady(v, k)
         \/ Compilation(v) \/ Wait(v) \/ Waiting(v)
         \/ BeginCollection(v) \/ Collection(v)
  PROVE  Told'
<1>0. /\ NoPlan \notin Plans /\ KeyOf \in [Plans -> Keys] /\ VMOf \in [Keys -> VMs]
      /\ Self \notin VMs
  BY WorklistAssumption
<1>j. \A t \in Threads : pc[t] \notin {"fetch", "asleep"} =>
        job[t] \in Plans /\ VMOfPlan(job[t]) \in VMs
  BY <1>0 DEF VMOfPlan, Data
<1>1. CASE RemoveDeadPlans(v)
  <2>1. PICK dead \in SUBSET Known(v) :
          stage' = [p \in Plans |-> IF p \in dead THEN "Cancelled" ELSE stage[p]]
    BY <1>1 DEF RemoveDeadPlans
  <2>2. /\ UNCHANGED <<safepoint, cancelled, pc, job>>
        /\ vm[v] = "mark" /\ vm' = [vm EXCEPT ![v] = "cancel"]
    BY <1>1 DEF RemoveDeadPlans, threads, Step
  <2>3. \A t \in Threads : right[t] = v
    BY <2>2 DEF Rights
  <2>4. \A t \in Threads : pc[t] \notin {"check", "compile", "compiled"}
    BY <1>0, <2>3 DEF Rights, Running
  <2>5. \A p \in dead : VMOfPlan(p) = v
    BY <2>1 DEF Known, Placed, Named, VMOfPlan
  <2>6. \A t \in Threads : pc[t] \notin {"fetch", "asleep"} =>
          stage'[job[t]] = IF job[t] \in dead THEN "Cancelled" ELSE stage[job[t]]
    BY <1>j, <2>1
  <2>7. vm'[v] = "cancel" /\ \A w \in VMs : vm[w] = "cancel" => vm'[w] = "cancel"
    BY <2>2 DEF Rights
  <2> SUFFICES ASSUME NEW t \in Threads
      PROVE  /\ safepoint[t] <=> pc[t] = "safepoint"
             /\ cancelled[t] => pc[t] \in {"safepoint", "compiled"}
                                /\ stage'[job[t]] = "Cancelled"
             /\ pc[t] = "compile" => stage'[job[t]] = "Compiling"
             /\ pc[t] = "compiled" /\ stage'[job[t]] = "Cancelled" => cancelled[t]
             /\ pc[t] = "safepoint" /\ stage'[job[t]] = "Cancelled" /\ ~cancelled[t] =>
                  vm'[VMOfPlan(job[t])] = "cancel"
    BY <2>2 DEF Told
  <2>8. pc[t] \notin {"compile", "compiled"}
    BY <2>4
  <2>9. CASE pc[t] \in {"fetch", "asleep"}
    BY <2>9 DEF Told
  <2>10. CASE pc[t] \notin {"fetch", "asleep"}
    <3>1. job[t] \in Plans /\ VMOfPlan(job[t]) \in VMs
      BY <1>j, <2>10
    <3>2. stage'[job[t]] = IF job[t] \in dead THEN "Cancelled" ELSE stage[job[t]]
      BY <2>6, <2>10
    <3> QED BY <2>5, <2>7, <2>8, <3>1, <3>2 DEF Told
  <2> QED BY <2>9, <2>10
<1>2. CASE CancelSafepoints(v)
  <2>1. /\ UNCHANGED <<stage, safepoint, pc, job>>
        /\ cancelled' = [t \in Threads |-> cancelled[t] \/ AtDeadSafepoint(t, v)]
        /\ vm' = [vm EXCEPT ![v] = "resume"]
    BY <1>2 DEF CancelSafepoints, Finish, Step, worklist
  <2>2. \A w \in VMs : w # v => vm'[w] = vm[w]
    BY <2>1 DEF Rights
  <2> SUFFICES ASSUME NEW t \in Threads
      PROVE  /\ safepoint[t] <=> pc[t] = "safepoint"
             /\ cancelled'[t] => pc[t] \in {"safepoint", "compiled"}
                                /\ stage[job[t]] = "Cancelled"
             /\ pc[t] = "compile" => stage[job[t]] = "Compiling"
             /\ pc[t] = "compiled" /\ stage[job[t]] = "Cancelled" => cancelled'[t]
             /\ pc[t] = "safepoint" /\ stage[job[t]] = "Cancelled" /\ ~cancelled'[t] =>
                  vm'[VMOfPlan(job[t])] = "cancel"
    BY <2>1 DEF Told
  <2>3. cancelled'[t] <=> (cancelled[t] \/ AtDeadSafepoint(t, v))
    BY <2>1
  <2>4. /\ safepoint[t] <=> pc[t] = "safepoint"
        /\ cancelled[t] => pc[t] \in {"safepoint", "compiled"} /\ stage[job[t]] = "Cancelled"
        /\ pc[t] = "compile" => stage[job[t]] = "Compiling"
        /\ pc[t] = "compiled" /\ stage[job[t]] = "Cancelled" => cancelled[t]
        /\ pc[t] = "safepoint" /\ stage[job[t]] = "Cancelled" /\ ~cancelled[t] =>
             vm[VMOfPlan(job[t])] = "cancel"
    BY DEF Told
  <2>5. pc[t] = "safepoint" => VMOfPlan(job[t]) \in VMs
    BY <1>j
  <2> QED BY <2>2, <2>3, <2>4, <2>5 DEF AtDeadSafepoint
<1>3. CASE ~RemoveDeadPlans(v) /\ ~CancelSafepoints(v)
  <2>1. UNCHANGED <<safepoint, cancelled, job>>
    BY <1>3 DEF CompleteAllReady, Compilation, Look, Enqueue, GiveUp, Wait, Waiting, WaitLoop,
                RemoveReady, BeginCollection, Collection, Suspend, AllSuspended, Resume,
                AllResumed, threads
  <2>2. \A t \in Threads : pc'[t] = pc[t] \/ {pc[t], pc'[t]} \subseteq {"fetch", "asleep"}
    BY <1>3 DEF CompleteAllReady, Compilation, Look, Enqueue, GiveUp, Wait, Waiting, WaitLoop,
                RemoveReady, BeginCollection, Collection, Suspend, AllSuspended, Resume,
                AllResumed, threads, Signal, Goto, Data
  <2>3. \A w \in VMs : vm[w] = "cancel" => vm'[w] = "cancel"
    BY <1>3 DEF CompleteAllReady, Compilation, Look, Enqueue, GiveUp, Wait, Waiting, WaitLoop,
                RemoveReady, BeginCollection, Collection, Suspend, AllSuspended, Resume,
                AllResumed, threads, Step, Rights
  <2>4. \A t \in Threads : job[t] \in Plans => stage'[job[t]] = stage[job[t]]
    <3>1. CASE Enqueue(v)
      <4>1. PICK p \in Plans : stage[p] = "New" /\ stage' = [stage EXCEPT ![p] = "Preparing"]
        BY <3>1 DEF Enqueue
      <4>2. \A t \in Threads : job[t] \in Plans => stage[job[t]] # "New"
        BY <1>0 DEF Data, Placed, AtWork
      <4> QED BY <4>1, <4>2 DEF Data
    <3>2. CASE ~Enqueue(v)
      <4>1. UNCHANGED stage
        BY <1>3, <3>2 DEF CompleteAllReady, Compilation, Look, GiveUp, Wait, Waiting, WaitLoop,
                RemoveReady, BeginCollection, Collection, Suspend, AllSuspended, Resume,
                AllResumed, worklist
      <4> QED BY <4>1
    <3> QED BY <3>1, <3>2
  <2> SUFFICES ASSUME NEW t \in Threads
      PROVE  /\ safepoint[t] <=> pc'[t] = "safepoint"
             /\ cancelled[t] => pc'[t] \in {"safepoint", "compiled"}
                                /\ stage'[job[t]] = "Cancelled"
             /\ pc'[t] = "compile" => stage'[job[t]] = "Compiling"
             /\ pc'[t] = "compiled" /\ stage'[job[t]] = "Cancelled" => cancelled[t]
             /\ pc'[t] = "safepoint" /\ stage'[job[t]] = "Cancelled" /\ ~cancelled[t] =>
                  vm'[VMOfPlan(job[t])] = "cancel"
    BY <2>1 DEF Told
  <2>5. CASE pc[t] \in {"fetch", "asleep"}
    BY <2>2, <2>5 DEF Told
  <2>6. CASE pc[t] \notin {"fetch", "asleep"}
    <3>1. job[t] \in Plans /\ VMOfPlan(job[t]) \in VMs
      BY <1>j, <2>6
    <3>2. pc'[t] = pc[t] /\ stage'[job[t]] = stage[job[t]]
      BY <2>2, <2>4, <2>6, <3>1
    <3> QED BY <2>3, <3>1, <3>2 DEF Told
  <2> QED BY <2>5, <2>6
<1> QED BY <1>1, <1>2, <1>3

-----------------------------------------------------------------------------
(* All of it together.                                                     *)

LEMMA NextPlaced ==
  ASSUME TypeOK, Placed, Rights, Wanted, Told, [Next]_vars
  PROVE  TypeOK' /\ Placed' /\ Told'
<1>1. Data /\ Flags /\ OnceEach(queue) /\ OnceEach(ready)
  BY DataOfTypes DEF TypeOK, Flags, Placed, Singly
<1>2. CASE UNCHANGED vars
  BY <1>2 DEF vars, worklist, locks, threads, vms, TypeOK, Placed, Singly, Queued, Listed, AtWork,
              Named, Alive, Finished, Told
<1>3. ASSUME NEW t \in Threads, ThreadStep(t) PROVE TypeOK' /\ Placed' /\ Told'
  BY <1>1, <1>3, ThreadTypes, ThreadPlaced, ThreadTold
<1>4. ASSUME NEW v \in VMs,
             \/ \E k \in Keys : CompleteAllReady(v, k)
             \/ Compilation(v) \/ Wait(v) \/ Waiting(v)
             \/ BeginCollection(v) \/ Collection(v)
      PROVE  TypeOK' /\ Placed' /\ Told'
  BY <1>1, <1>4, MachineTypes, MachinePlaced, MachineTold
<1> QED BY <1>2, <1>3, <1>4 DEF Next

\* What is in a place at most once is counted once there.
LEMMA OneOrNone ==
  ASSUME NEW S, \A x, y \in S : x = y
  PROVE  Cardinality(S) = IF S = {} THEN 0 ELSE 1
<1>1. CASE S = {}
  BY <1>1, FS_EmptySet
<1>2. CASE S # {}
  <2>1. PICK x \in S : TRUE
    BY <1>2
  <2>2. S = {x}
    BY <2>1
  <2> QED BY <1>2, <2>2, FS_Singleton
<1> QED BY <1>1, <1>2

LEMMA PlacedOnce == Data /\ Placed => PlanInOnePlace
<1> SUFFICES ASSUME Data, Placed, NEW p \in Plans
    PROVE LET queued == {i \in DOMAIN queue : queue[i] = p}
              held   == {t \in Threads : job[t] = p}
              listed == {i \in DOMAIN ready : ready[i] = p}
              known  == plans[KeyOf[p]] = p
              live   == stage[p] \in {"Preparing", "Compiling", "Compiled"}
          IN  /\ known \equiv (live \/ (stage[p] = "Ready" /\ listed # {}))
              /\ known => Cardinality(queued) + Cardinality(held) + Cardinality(listed) = 1
              /\ queued # {} => stage[p] = "Preparing"
              /\ stage[p] = "Cancelled" => Cardinality(held) + Cardinality(listed) <= 1
  BY DEF PlanInOnePlace
<1> DEFINE queued == {i \in DOMAIN queue : queue[i] = p}
           held   == {t \in Threads : job[t] = p}
           listed == {i \in DOMAIN ready : ready[i] = p}
           known  == plans[KeyOf[p]] = p
           live   == stage[p] \in {"Preparing", "Compiling", "Compiled"}
<1>0. NoPlan \notin Plans /\ KeyOf[p] \in Keys
  BY WorklistAssumption
<1>1. DOMAIN queue = 1..Len(queue) /\ DOMAIN ready = 1..Len(ready)
  BY LenProperties DEF Data
<1>2. (queued # {} <=> p \in Members(queue)) /\ (listed # {} <=> p \in Members(ready))
  BY <1>1 DEF Members
<1>3. /\ \A x, y \in queued : x = y
      /\ \A x, y \in listed : x = y
      /\ \A x, y \in held : x = y
  BY <1>0, <1>1 DEF Placed, Singly, OnceEach
<1>4. p \in Members(queue) => stage[p] = "Preparing" /\ held = {}
  BY DEF Placed, Queued
<1>5. p \in Members(ready) => stage[p] \in {"Ready", "Cancelled"} /\ held = {}
  BY DEF Placed, Listed
<1>6. live => known /\ (p \in Members(queue) \/ held # {})
  BY DEF Placed, Alive
<1>7. stage[p] = "Ready" => (known <=> p \in Members(ready))
  BY DEF Placed, Finished
<1>8. known => stage[p] \in {"Preparing", "Compiling", "Compiled", "Ready"}
  BY <1>0 DEF Placed, Named, Data
<1>9. held # {} => stage[p] \in {"Preparing", "Compiling", "Compiled", "Cancelled"}
  <2> SUFFICES ASSUME NEW t \in Threads, job[t] = p
               PROVE  stage[p] \in {"Preparing", "Compiling", "Compiled", "Cancelled"}
    OBVIOUS
  <2>1. pc[t] \in {"start", "check", "compile", "safepoint", "compiled", "publish"}
    BY <1>0 DEF Data
  <2> QED BY <2>1 DEF Placed, AtWork
<1> HIDE DEF queued, held, listed, known, live
<1>10. /\ Cardinality(queued) = IF queued = {} THEN 0 ELSE 1
       /\ Cardinality(held) = IF held = {} THEN 0 ELSE 1
       /\ Cardinality(listed) = IF listed = {} THEN 0 ELSE 1
  BY <1>3, OneOrNone
<1>11. known \equiv (live \/ (stage[p] = "Ready" /\ listed # {}))
  BY <1>2, <1>6, <1>7, <1>8 DEF live
<1>12. ASSUME known PROVE Cardinality(queued) + Cardinality(held) + Cardinality(listed) = 1
  <2>1. CASE stage[p] = "Ready"
    <3>1. queued = {} /\ held = {} /\ listed # {}
      BY <1>2, <1>4, <1>7, <1>9, <1>12, <2>1
    <3>2. Cardinality(queued) = 0 /\ Cardinality(held) = 0 /\ Cardinality(listed) = 1
      BY <1>10, <3>1
    <3> QED BY <3>2
  <2>2. CASE live
    <3>1. listed = {} /\ (queued = {} <=> held # {})
      BY <1>2, <1>4, <1>5, <1>6, <2>2 DEF live
    <3>2. /\ Cardinality(listed) = 0
          /\ \/ Cardinality(queued) = 0 /\ Cardinality(held) = 1
             \/ Cardinality(queued) = 1 /\ Cardinality(held) = 0
      BY <1>10, <3>1
    <3> QED BY <3>2
  <2> QED BY <1>8, <1>12, <2>1, <2>2 DEF live
<1>13. queued # {} => stage[p] = "Preparing"
  BY <1>2, <1>4
<1>14. Cardinality(held) + Cardinality(listed) <= 1
  <2>1. listed # {} => held = {}
    BY <1>2, <1>5
  <2>2. \/ Cardinality(held) = 0 /\ Cardinality(listed) \in {0, 1}
        \/ Cardinality(held) \in {0, 1} /\ Cardinality(listed) = 0
    BY <1>10, <2>1
  <2> QED BY <2>2
<1>15. /\ known \equiv (live \/ (stage[p] = "Ready" /\ listed # {}))
       /\ known => Cardinality(queued) + Cardinality(held) + Cardinality(listed) = 1
       /\ queued # {} => stage[p] = "Preparing"
       /\ stage[p] = "Cancelled" => Cardinality(held) + Cardinality(listed) <= 1
  BY <1>11, <1>12, <1>13, <1>14
<1> QED BY <1>15 DEF queued, held, listed, known, live

LEMMA ToldPath == Told => CancelPath
<1> SUFFICES ASSUME Told, NEW t \in Threads
    PROVE  /\ pc[t] = "compile" => stage[job[t]] = "Compiling"
           /\ pc[t] = "compiled" => (cancelled[t] \equiv stage[job[t]] = "Cancelled")
  BY DEF CancelPath
<1> QED BY DEF Told

Steady == TypeOK /\ Rights /\ Wanted /\ Placed /\ Told

LEMMA SteadyAlways == Spec => []Steady
<1>1. Init => Steady
  BY InitTypes, InitRights, InitWanted, InitPlaced, InitTold DEF Steady
<1>2. Steady /\ [Next]_vars => Steady'
  <2> SUFFICES ASSUME Steady, [Next]_vars PROVE Steady'
    OBVIOUS
  <2>1. Rights'
    BY NextRights DEF Steady
  <2>2. Wanted'
    BY NextWanted DEF Steady
  <2>3. TypeOK' /\ Placed' /\ Told'
    BY NextPlaced DEF Steady
  <2> QED BY <2>1, <2>2, <2>3 DEF Steady
<1> QED BY <1>1, <1>2, PTL DEF Spec

\* The sequences, stages and locks keep their types: a compiler thread has a plan exactly
\* while it works on one (m_plan of runThread), and the loops over m_queue and
\* m_readyPlans leave sequences of plans.
THEOREM WorklistTypes == Spec => []TypeOK
<1>1. Steady => TypeOK
  BY DEF Steady
<1> QED BY <1>1, SteadyAlways, PTL

\* A plan that m_plans knows is queued, held by one thread or ready, and in one of these
\* places only, whatever collections take out of the three containers (removeDeadPlans,
\* removeAllReadyPlansForVM) while threads take plans up and publish them.
THEOREM PlansStayInOnePlace == Spec => []PlanInOnePlace
<1>1. Steady => PlanInOnePlace
  BY DataOfTypes, PlacedOnce DEF Steady
<1> QED BY <1>1, SteadyAlways, PTL

\* compileInThread leaves by the cancel path exactly if a collection cancelled its plan
\* (the assertion there): no plan dies between a safepoint and the end of the compilation
\* without its thread being told, and none is told that does not die.
THEOREM CancelsAgree == Spec => []CancelPath
<1>1. Steady => CancelPath
  BY ToldPath DEF Steady
<1> QED BY <1>1, SteadyAlways, PTL
=============================================================================
