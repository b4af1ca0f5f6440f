------------------------- MODULE DBThreadPoolProofs -------------------------
(***************************************************************************)
(* Proofs about DBThreadPool, for any number of workers, keys and tasks:   *)
(* types; a worker that leaves WorkerLoop leaves nothing behind unless it  *)
(* was asked to stop without a connection; and for every key the pool      *)
(* implements Serializer.                                                  *)
(***************************************************************************)
EXTENDS DBThreadPool, FiniteSetTheorems, SequenceTheorems, TLAPS

\* Where a worker has a task, where it has a session, and what lets it leave: nobody
\* pushes to a worker that was asked to stop, so a queue found empty stays empty.
WorkerInv(w) ==
  /\ pc[w] \in {"wait", "check"} => task[w] = NoTask
  /\ pc[w] \in {"connect", "retry"} => session[w] = "none"
  /\ pc[w] \in {"ping", "connect", "retry", "run"} => task[w] # NoTask
  /\ pc[w] = "exit" => stop[w]
  /\ stop[w] => destructor # "no"
  /\ pc[w] = "exit" /\ session[w] # "none" => queue[w] = <<>> /\ task[w] = NoTask

IInv == TypeOK /\ \A w \in Workers : WorkerInv(w)

USE DBThreadPoolAssumption

-----------------------------------------------------------------------------
\* A queue without its head, and with one task more, is a queue of tasks.
LEMMA QueueType ==
  ASSUME NEW q \in Seq(Task)
  PROVE  /\ q # <<>> => Head(q) \in Task /\ Tail(q) \in Seq(Task)
         /\ \A t \in Task : Append(q, t) \in Seq(Task)
OBVIOUS

LEMMA InitIInv == Init => IInv
  BY DEF Init, IInv, TypeOK, WorkerInv, WorkerPc

-----------------------------------------------------------------------------
\* Types.

\* Keys and their worker, and a task made for the one who pushes.
LEMMA PushedTask ==
  ASSUME TypeOK, NEW k \in Keys \cup {NoKey}, pushed[k] < MaxTasks
  PROVE  <<k, pushed[k] + 1>> \in Task /\ pushed[k] + 1 \in 0..MaxTasks
  BY DEF TypeOK, Task

LEMMA EnqueueType ==
  ASSUME TypeOK, NEW w \in Workers, NEW t \in Task, Enqueue(w, t)
  PROVE  queue' \in [Workers -> Seq(Task)]
<1>1. Append(queue[w], t) \in Seq(Task)
  BY QueueType DEF TypeOK
<1> QED
  BY <1>1 DEF Enqueue, TypeOK

LEMMA NextWorkerType ==
  ASSUME NEW n \in 0..(NumWorkers - 1)
  PROVE  (n + 1) % NumWorkers \in 0..(NumWorkers - 1)
OBVIOUS

LEMMA PushType ==
  ASSUME TypeOK, PushAny \/ \E k \in Keys : PushKeyed(k)
  PROVE  TypeOK'
<1>1. ASSUME NEW k \in Keys, PushKeyed(k)
      PROVE  TypeOK'
  <2>1. <<k, pushed[k] + 1>> \in Task /\ pushed[k] + 1 \in 0..MaxTasks /\ WorkerOf[k] \in Workers
    BY <1>1, PushedTask DEF PushKeyed
  <2>2. queue' \in [Workers -> Seq(Task)]
    BY <1>1, <2>1, EnqueueType DEF PushKeyed
  <2> QED
    BY <1>1, <2>1, <2>2 DEF PushKeyed, TypeOK
<1>2. CASE PushAny
  <2>1. /\ <<NoKey, pushed[NoKey] + 1>> \in Task /\ pushed[NoKey] + 1 \in 0..MaxTasks
        /\ WorkerAt[nextWorker] \in Workers
    BY <1>2, PushedTask DEF PushAny, TypeOK
  <2>2. queue' \in [Workers -> Seq(Task)]
    BY <1>2, <2>1, EnqueueType DEF PushAny
  <2>3. nextWorker' \in 0..(NumWorkers - 1)
    BY <1>2, NextWorkerType DEF PushAny, TypeOK
  <2> QED
    BY <1>2, <2>1, <2>2, <2>3 DEF PushAny, TypeOK
<1> QED
  BY <1>1, <1>2

LEMMA WorkerStepType ==
  ASSUME TypeOK, NEW w \in Workers, WorkerInv(w), WorkerStep(w)
  PROVE  TypeOK'
<1>1. CASE TakeTask(w)
  <2>1. Head(queue[w]) \in Task /\ Tail(queue[w]) \in Seq(Task)
    BY <1>1, QueueType DEF TakeTask, TypeOK
  <2> QED
    BY <1>1, <2>1 DEF TakeTask, Goto, TypeOK, WorkerPc
<1>2. CASE LeaveLoop(w)
  BY <1>2 DEF LeaveLoop, Goto, TypeOK, WorkerPc
<1>3. CASE CheckIdle(w)
  BY <1>3 DEF CheckIdle, Goto, TypeOK, WorkerPc
<1>4. CASE Connect(w)
  BY <1>4 DEF Connect, Goto, TypeOK, WorkerPc
<1>5. CASE Retry(w)
  BY <1>5 DEF Retry, Goto, TypeOK, WorkerPc
<1>6. CASE RunTask(w)
  <2>1. task[w] \in Task
    BY <1>6 DEF RunTask, WorkerInv, TypeOK
  <2>2. Append(ran, task[w]) \in Seq(Task)
    BY <2>1, QueueType DEF TypeOK
  <2> QED
    BY <1>6, <2>1, <2>2 DEF RunTask, Goto, TypeOK, WorkerPc
<1>7. CASE CheckSession(w)
  BY <1>7 DEF CheckSession, Goto, TypeOK, WorkerPc
<1> QED
  BY <1>1, <1>2, <1>3, <1>4, <1>5, <1>6, <1>7 DEF WorkerStep

LEMMA StepType ==
  ASSUME IInv, [Next]_vars
  PROVE  TypeOK'
<1>1. TypeOK /\ \A w \in Workers : WorkerInv(w)
  BY DEF IInv
<1>2. ASSUME NEW w \in Workers, AskToStop(w)
      PROVE  TypeOK'
  BY <1>1, <1>2 DEF AskToStop, TypeOK
<1>3. CASE Joined
  BY <1>1, <1>3 DEF Joined, TypeOK
<1>4. CASE ServerFails
  BY <1>1, <1>4 DEF ServerFails, Kill, TypeOK
<1>5. CASE ServerReturns
  BY <1>1, <1>5 DEF ServerReturns, TypeOK
<1>6. CASE UNCHANGED vars
  BY <1>1, <1>6 DEF vars, TypeOK
<1> QED
  BY <1>1, <1>2, <1>3, <1>4, <1>5, <1>6, PushType, WorkerStepType DEF Next, Destructor

-----------------------------------------------------------------------------
\* What WorkerInv says of one worker, after a step of anybody.

\* Nobody pushes once a worker was asked to stop.
LEMMA PushKeepsWorkers ==
  ASSUME TypeOK, NEW w \in Workers, WorkerInv(w), PushAny \/ \E k \in Keys : PushKeyed(k)
  PROVE  WorkerInv(w)'
<1>1. destructor = "no" /\ UNCHANGED <<stop, pc, task, session, destructor>>
  BY DEF PushAny, PushKeyed
<1>2. pc[w] # "exit"
  BY <1>1 DEF WorkerInv
<1> QED
  BY <1>1, <1>2 DEF WorkerInv

LEMMA WorkerKeepsItself ==
  ASSUME TypeOK, NEW w \in Workers, WorkerInv(w), WorkerStep(w)
  PROVE  WorkerInv(w)'
<1>1. CASE TakeTask(w)
  BY <1>1 DEF TakeTask, Goto, TypeOK, WorkerInv
<1>2. CASE LeaveLoop(w)
  BY <1>2 DEF LeaveLoop, Goto, TypeOK, WorkerInv
<1>3. CASE CheckIdle(w)
  BY <1>3 DEF CheckIdle, Goto, TypeOK, WorkerInv
<1>4. CASE Connect(w)
  BY <1>4 DEF Connect, Goto, TypeOK, WorkerInv
<1>5. CASE Retry(w)
  BY <1>5 DEF Retry, Goto, TypeOK, WorkerInv
<1>6. CASE RunTask(w)
  BY <1>6 DEF RunTask, Goto, TypeOK, WorkerInv
<1>7. CASE CheckSession(w)
  BY <1>7 DEF CheckSession, Goto, TypeOK, WorkerInv
<1> QED
  BY <1>1, <1>2, <1>3, <1>4, <1>5, <1>6, <1>7 DEF WorkerStep

LEMMA WorkerKeepsOthers ==
  ASSUME TypeOK, NEW w \in Workers, NEW u \in Workers, u # w, WorkerInv(w), WorkerStep(u)
  PROVE  WorkerInv(w)'
<1>1. /\ pc'[w] = pc[w] /\ task'[w] = task[w] /\ session'[w] = session[w]
      /\ queue'[w] = queue[w] /\ stop'[w] = stop[w] /\ destructor' = destructor
  BY DEF WorkerStep, TakeTask, LeaveLoop, CheckIdle, Connect, Retry, RunTask, CheckSession,
         Goto, TypeOK
<1> QED
  BY <1>1 DEF WorkerInv

LEMMA StepIInv == IInv /\ [Next]_vars => IInv'
<1> SUFFICES ASSUME IInv, [Next]_vars
             PROVE  IInv'
  OBVIOUS
<1>1. TypeOK /\ \A w \in Workers : WorkerInv(w)
  BY DEF IInv
<1>2. TypeOK'
  BY StepType
<1>3. ASSUME NEW w \in Workers
      PROVE  WorkerInv(w)'
  <2>1. ASSUME NEW u \in Workers, AskToStop(u)
        PROVE  WorkerInv(w)'
    BY <1>1, <2>1 DEF AskToStop, TypeOK, WorkerInv
  <2>2. CASE Joined
    BY <1>1, <2>2 DEF Joined, TypeOK, WorkerInv
  <2>3. CASE ServerFails
    <3>1. session'[w] = "none" <=> session[w] = "none"
      BY <1>1, <2>3 DEF ServerFails, Kill, TypeOK
    <3> QED
      BY <1>1, <2>3, <3>1 DEF ServerFails, WorkerInv
  <2>4. CASE ServerReturns
    BY <1>1, <2>4 DEF ServerReturns, WorkerInv
  <2>5. CASE UNCHANGED vars
    BY <1>1, <2>5 DEF vars, WorkerInv
  <2> QED
    BY <1>1, <2>1, <2>2, <2>3, <2>4, <2>5, PushKeepsWorkers, WorkerKeepsItself,
       WorkerKeepsOthers DEF Next, Destructor
<1> QED
  BY <1>2, <1>3 DEF IInv

\* Every variable keeps its type, for any number of workers, keys and tasks.
THEOREM TypeCorrect == Spec => []TypeOK
<1>1. IInv => TypeOK
  BY DEF IInv
<1> QED
  BY <1>1, InitIInv, StepIInv, PTL DEF Spec, Safety

\* A worker leaves WorkerLoop with its queue empty and no task in its hand, or it was
\* asked to stop while it had no connection (DBThreadPool.cpp, WorkerLoop).
THEOREM NothingIsLeft == Spec => []LeavesNothing
<1>1. IInv => LeavesNothing
  BY DEF IInv, LeavesNothing, WorkerInv
<1> QED
  BY <1>1, InitIInv, StepIInv, PTL DEF Spec, Safety

-----------------------------------------------------------------------------
\* The tasks of one key in a queue (OfKey).

\* Where they stand, and how many of them stand before place i.
At(q, k) == {i \in DOMAIN q : KeyOf(q[i]) = k}
Before(S, i) == {j \in S : j < i}
Rank(S, i) == Cardinality(Before(S, i))

\* Different places have different ranks, and every rank below the number of places is
\* one of theirs.
LEMMA RankLess ==
  ASSUME NEW n \in Nat, NEW S \in SUBSET (1..n)
  PROVE  /\ IsFiniteSet(S) /\ Cardinality(S) \in Nat
         /\ \A i \in Nat : IsFiniteSet(Before(S, i)) /\ Rank(S, i) \in 0..Cardinality(S)
         /\ \A i \in S : Rank(S, i) \in 0..(Cardinality(S) - 1)
         /\ \A i, j \in S : i < j => Rank(S, i) < Rank(S, j)
<1>0. \A i \in S : i \in Int
  OBVIOUS
<1>1. IsFiniteSet(S) /\ Cardinality(S) \in Nat
  <2>1. IsFiniteSet(1..n)
    BY FS_Interval
  <2> QED
    BY <2>1, FS_Subset, FS_CardinalityType
<1>2. ASSUME NEW i \in Nat
      PROVE  IsFiniteSet(Before(S, i)) /\ Rank(S, i) \in 0..Cardinality(S)
  <2>1. Before(S, i) \in SUBSET S
    BY DEF Before
  <2> QED
    BY <1>1, <2>1, FS_Subset, FS_CardinalityType DEF Rank
<1>3. ASSUME NEW i \in S
      PROVE  Rank(S, i) \in 0..(Cardinality(S) - 1)
  <2>1. Before(S, i) \in SUBSET S /\ i \notin Before(S, i)
    BY DEF Before
  <2>2. Rank(S, i) # Cardinality(S)
    BY <1>1, <2>1, FS_Subset DEF Rank
  <2> QED
    BY <1>1, <1>2, <2>2
<1>4. ASSUME NEW i \in S, NEW j \in S, i < j
      PROVE  Rank(S, i) < Rank(S, j)
  <2>0. i \in Int /\ j \in Int /\ \A x \in S : x \in Int /\ (x < i => x < j)
    BY <1>0, <1>4
  <2>1. /\ Before(S, i) \in SUBSET Before(S, j)
        /\ i \in Before(S, j)
        /\ i \notin Before(S, i)
    <3>1. \A x \in Before(S, i) : x \in Before(S, j)
      BY <2>0 DEF Before
    <3>2. ~(i < i)
      BY <2>0
    <3> QED
      BY <1>4, <3>1, <3>2 DEF Before
  <2>2. IsFiniteSet(Before(S, j)) /\ Rank(S, i) \in Nat /\ Rank(S, j) \in Nat
    BY <1>1, <1>2
  <2>3. Rank(S, i) <= Rank(S, j) /\ Rank(S, i) # Rank(S, j)
    BY <2>1, <2>2, FS_Subset DEF Rank
  <2> QED
    BY <2>2, <2>3
<1> QED
  BY <1>1, <1>2, <1>3, <1>4

LEMMA RankOnto ==
  ASSUME NEW n \in Nat, NEW S \in SUBSET (1..n), NEW r \in 0..(Cardinality(S) - 1)
  PROVE  \E i \in S : Rank(S, i) = r /\ \A j \in S : Rank(S, j) = r => j = i
<1> DEFINE T == 0..(Cardinality(S) - 1)
           f == [i \in S |-> Rank(S, i)]
<1>1. IsFiniteSet(S) /\ Cardinality(S) \in Nat
  BY RankLess
<1>2. \A i, j \in S : i # j => Rank(S, i) # Rank(S, j)
  <2>1. \A i, j \in S : i < j \/ j < i \/ i = j
    OBVIOUS
  <2>2. \A i \in S : Rank(S, i) \in Int
    BY RankLess
  <2>3. \A i, j \in S : i < j => Rank(S, i) < Rank(S, j)
    BY RankLess
  <2> QED
    BY <2>1, <2>2, <2>3
<1>3. f \in Injection(S, T)
  BY <1>2, RankLess DEF Injection, IsInjective
<1>4. IsFiniteSet(T) /\ Cardinality(T) = Cardinality(S)
  BY <1>1, FS_Interval
<1>5. f \in Surjection(S, T)
  BY <1>3, <1>4, FS_Injection
<1>6. PICK i \in S : f[i] = r
  BY <1>5 DEF Surjection
<1> QED
  BY <1>2, <1>6

LEMMA SeqOfFunction ==
  ASSUME NEW T, NEW n \in Nat, NEW f \in [1..n -> T]
  PROVE  f \in Seq(T) /\ Len(f) = n
OBVIOUS

\* What OfKey returns: as many as there are, and the n-th is the one with rank n - 1.
LEMMA OfKeyIs ==
  ASSUME NEW T, NEW q \in Seq(T), NEW k
  PROVE  /\ OfKey(q, k) \in Seq(T)
         /\ Len(OfKey(q, k)) = Cardinality(At(q, k))
         /\ \A i \in At(q, k) : /\ Rank(At(q, k), i) + 1 \in 1..Len(OfKey(q, k))
                                /\ OfKey(q, k)[Rank(At(q, k), i) + 1] = q[i]
<1> DEFINE S == At(q, k)
           c == Cardinality(S)
<1>1. Len(q) \in Nat /\ S \in SUBSET (1..Len(q)) /\ \A i \in S : q[i] \in T
  BY DEF At
<1>2. c \in Nat /\ \A i \in S : Rank(S, i) \in 0..(c - 1)
  BY <1>1, RankLess
<1>3. OfKey(q, k) = [n \in 1..c |-> q[CHOOSE i \in S : Rank(S, i) = n - 1]]
  BY DEF OfKey, At, Rank, Before
<1>4. ASSUME NEW i \in S
      PROVE  (CHOOSE j \in S : Rank(S, j) = Rank(S, i)) = i
  BY <1>1, <1>2, RankOnto
<1>5. ASSUME NEW n \in 1..c
      PROVE  q[CHOOSE i \in S : Rank(S, i) = n - 1] \in T
  <2>1. n - 1 \in 0..(c - 1)
    BY <1>2
  <2>2. \E i \in S : Rank(S, i) = n - 1
    BY SMTT(20), <1>1, <2>1, RankOnto
  <2> QED
    BY <1>1, <2>2
<1>6. OfKey(q, k) \in Seq(T) /\ Len(OfKey(q, k)) = c
  <2>1. OfKey(q, k) \in [1..c -> T]
    BY <1>3, <1>5
  <2> HIDE DEF c
  <2> QED
    BY <1>2, <2>1, SeqOfFunction
<1>7. ASSUME NEW i \in S
      PROVE  Rank(S, i) + 1 \in 1..c /\ OfKey(q, k)[Rank(S, i) + 1] = q[i]
  <2>1. Rank(S, i) + 1 \in 1..c /\ Rank(S, i) + 1 - 1 = Rank(S, i)
    BY <1>2
  <2> DEFINE nth(n) == CHOOSE j \in S : Rank(S, j) = n - 1
  <2>2. nth(Rank(S, i) + 1) = i
    BY SMTT(20), <1>4, <2>1
  <2>3. OfKey(q, k) = [n \in 1..c |-> q[nth(n)]]
    BY <1>3
  <2> HIDE DEF nth, c, S
  <2>4. OfKey(q, k)[Rank(S, i) + 1] = q[nth(Rank(S, i) + 1)]
    BY <2>1, <2>3
  <2> QED
    BY <2>1, <2>2, <2>4
<1> QED
  BY <1>6, <1>7

\* It is the only sequence of which this is true.
LEMMA OfKeyUnique ==
  ASSUME NEW T, NEW q \in Seq(T), NEW k, NEW s \in Seq(T), Len(s) = Cardinality(At(q, k)),
         \A i \in At(q, k) : s[Rank(At(q, k), i) + 1] = q[i]
  PROVE  OfKey(q, k) = s
<1> DEFINE S == At(q, k)
           o == OfKey(q, k)
<1>1. Len(q) \in Nat /\ S \in SUBSET (1..Len(q))
  BY DEF At
<1>2. o \in Seq(T) /\ Len(o) = Len(s) /\ \A i \in S : o[Rank(S, i) + 1] = q[i]
  BY OfKeyIs
<1>3. ASSUME NEW n \in 1..Len(s)
      PROVE  o[n] = s[n]
  <2>1. Len(s) \in Nat /\ n - 1 \in 0..(Cardinality(S) - 1)
    OBVIOUS
  <2>2. PICK i \in S : Rank(S, i) = n - 1
    BY <1>1, <2>1, RankOnto
  <2>3. Rank(S, i) + 1 = n
    BY <2>1, <2>2
  <2> QED
    BY <1>2, <2>3
<1> HIDE DEF o, S
<1>4. o = s
  BY <1>2, <1>3, SeqEqual
<1> QED
  BY <1>4 DEF o

\* A queue with one task more.
LEMMA OfKeyAppend ==
  ASSUME NEW T, NEW q \in Seq(T), NEW k, NEW t \in T
  PROVE  OfKey(Append(q, t), k) = IF KeyOf(t) = k THEN Append(OfKey(q, k), t) ELSE OfKey(q, k)
<1> DEFINE a == Append(q, t)
           m == Len(q) + 1
           S == At(q, k)
           A == At(a, k)
           o == OfKey(q, k)
<1>1. /\ Len(q) \in Nat /\ DOMAIN q = 1..Len(q) /\ m \in Nat
      /\ a \in Seq(T) /\ Len(a) = m /\ DOMAIN a = 1..m
      /\ a[m] = t /\ \A i \in 1..Len(q) : a[i] = q[i]
  OBVIOUS
<1>2. S \in SUBSET (1..Len(q)) /\ m \notin S
  BY <1>1 DEF At
<1>3. A = IF KeyOf(t) = k THEN S \cup {m} ELSE S
  <2>1. \A i \in 1..m : i = m \/ i \in 1..Len(q)
    BY <1>1
  <2>2. 1..Len(q) \subseteq 1..m /\ m \in 1..m
    BY <1>1
  <2> HIDE DEF a, m
  <2> QED
    BY <1>1, <1>2, <2>1, <2>2 DEF At
<1>4. \A i \in S : a[i] = q[i] /\ i < m /\ Before(A, i) = Before(S, i)
  <2>1. \A i \in S : i \in Int /\ i < m /\ ~(m < i)
    BY <1>1, <1>2
  <2> HIDE DEF a, m, A, S
  <2> QED
    BY <1>1, <1>2, <1>3, <2>1 DEF Before
<1>5. /\ o \in Seq(T) /\ Len(o) = Cardinality(S)
      /\ \A i \in S : Rank(S, i) + 1 \in 1..Len(o) /\ o[Rank(S, i) + 1] = q[i]
  BY OfKeyIs
<1>6. IsFiniteSet(S) /\ Cardinality(S) \in Nat
  BY <1>1, <1>2, RankLess
<1>7. CASE KeyOf(t) # k
  <2> HIDE DEF a, A, S, o, m
  <2>1. A = S
    BY <1>3, <1>7
  <2>2. \A i \in A : o[Rank(A, i) + 1] = a[i]
    BY <1>4, <1>5, <2>1
  <2>3. a \in Seq(T) /\ o \in Seq(T) /\ Len(o) = Cardinality(A)
    BY <1>1, <1>5, <2>1
  <2>4. OfKey(a, k) = o
    <3> USE DEF A
    <3> QED
      BY ONLY <2>2, <2>3, OfKeyUnique
  <2> QED
    BY <1>7, <2>4 DEF a, o
<1>8. CASE KeyOf(t) = k
  <2> DEFINE s == Append(o, t)
  <2>1. s \in Seq(T) /\ Len(s) = Len(o) + 1 /\ s[Len(o) + 1] = t /\ \A n \in 1..Len(o) : s[n] = o[n]
    BY <1>5
  <2> HIDE DEF a, A, S, o, m, s
  <2>2. A = S \cup {m}
    BY <1>3, <1>8
  <2>3. Cardinality(A) = Cardinality(S) + 1
    BY <1>2, <1>6, <2>2, FS_AddElement
  <2>4. Before(A, m) = S
    <3>1. m \in Int /\ ~(m < m)
      BY <1>1
    <3> QED
      BY <1>4, <2>2, <3>1 DEF Before
  <2>5. ASSUME NEW i \in A
        PROVE  s[Rank(A, i) + 1] = a[i]
    <3>1. CASE i = m
      BY <1>1, <1>5, <2>1, <2>4, <3>1 DEF Rank
    <3>2. CASE i \in S
      <4>1. Rank(A, i) = Rank(S, i)
        BY <1>4, <3>2 DEF Rank
      <4> QED
        BY <1>4, <1>5, <2>1, <3>2, <4>1
    <3> QED
      BY <2>2, <3>1, <3>2
  <2>6. a \in Seq(T) /\ s \in Seq(T) /\ Len(s) = Cardinality(A)
    BY <1>1, <1>5, <2>1, <2>3
  <2>7. OfKey(a, k) = s
    <3> USE DEF A
    <3> QED
      BY ONLY <2>5, <2>6, OfKeyUnique
  <2> QED
    BY <1>8, <2>7 DEF a, o, s
<1> QED
  BY <1>7, <1>8

\* Moving places by one keeps their number.
LEMMA Shifted ==
  ASSUME NEW n \in Nat, NEW X \in SUBSET (1..n)
  PROVE  LET Y == {j + 1 : j \in X}
         IN  /\ IsFiniteSet(Y) /\ Cardinality(Y) = Cardinality(X) /\ 1 \notin Y
<1> DEFINE Y == {j + 1 : j \in X}
           f == [j \in X |-> j + 1]
<1>1. IsFiniteSet(X)
  BY RankLess
<1>2. f \in Bijection(X, Y)
  BY DEF Bijection, Injection, Surjection, IsInjective
<1>3. 1 \notin Y
  OBVIOUS
<1>4. ExistsBijection(X, Y)
  BY <1>2 DEF ExistsBijection
<1> QED
  BY <1>1, <1>3, <1>4, FS_Bijection

\* A queue without its head: its places move by one.
HeadIs(q, k) == IF KeyOf(Head(q)) = k THEN 1 ELSE 0

LEMMA TailPlaces ==
  ASSUME NEW T, NEW q \in Seq(T), q # <<>>, NEW k
  PROVE  /\ Cardinality(At(q, k)) = Cardinality(At(Tail(q), k)) + HeadIs(q, k)
         /\ \A i \in At(Tail(q), k) :
              /\ i + 1 \in At(q, k)
              /\ Rank(At(q, k), i + 1) = Rank(At(Tail(q), k), i) + HeadIs(q, k)
              /\ Tail(q)[i] = q[i + 1]
         /\ HeadIs(q, k) = 1 => 1 \in At(q, k) /\ Rank(At(q, k), 1) = 0
<1> DEFINE S == At(q, k)
           r == Tail(q)
           R == At(r, k)
           Up(X) == {j + 1 : j \in X}
<1>1. /\ Len(q) \in Nat \ {0} /\ DOMAIN q = 1..Len(q) /\ Head(q) = q[1]
      /\ r \in Seq(T) /\ Len(r) = Len(q) - 1 /\ DOMAIN r = 1..(Len(q) - 1)
      /\ \A i \in 1..(Len(q) - 1) : r[i] = q[i + 1]
  OBVIOUS
<1>2. R \in SUBSET (1..(Len(q) - 1)) /\ Len(q) - 1 \in Nat
  BY <1>1 DEF At
<1>3. S = IF KeyOf(Head(q)) = k THEN Up(R) \cup {1} ELSE Up(R)
  <2>1. \A i \in 1..Len(q) : i = 1 \/ (i - 1 \in 1..(Len(q) - 1) /\ i = (i - 1) + 1)
    BY <1>1
  <2>2. \A i \in 1..(Len(q) - 1) : i + 1 \in 1..Len(q) /\ i + 1 # 1
    BY <1>1
  <2>3. 1 \in 1..Len(q)
    BY <1>1
  <2>4. \A i \in Up(R) : i \in S
    BY <1>1, <1>2, <2>2 DEF At
  <2>5. \A i \in S : i # 1 => i - 1 \in R /\ i = (i - 1) + 1
    BY <1>1, <2>1 DEF At
  <2>6. 1 \in S <=> KeyOf(Head(q)) = k
    BY <1>1, <2>3 DEF At
  <2>7. 1 \notin Up(R)
    BY <1>2
  <2> HIDE DEF S, R, r
  <2> QED
    BY <2>4, <2>5, <2>6, <2>7
<1>4. ASSUME NEW i \in R
      PROVE  Before(S, i + 1) = IF KeyOf(Head(q)) = k THEN Up(Before(R, i)) \cup {1}
                                                      ELSE Up(Before(R, i))
  <2>1. i \in Nat \ {0} /\ \A j \in R : j \in Int /\ (j + 1 < i + 1 <=> j < i)
    BY <1>1, <1>2
  <2>2. 1 < i + 1
    BY <2>1
  <2> HIDE DEF S, R, r
  <2> QED
    BY <1>3, <2>1, <2>2 DEF Before
<1>5. ASSUME NEW X \in SUBSET R
      PROVE  /\ IsFiniteSet(Up(X)) /\ Cardinality(X) \in Nat
             /\ Cardinality(Up(X)) = Cardinality(X)
             /\ Cardinality(Up(X) \cup {1}) = Cardinality(X) + 1
  <2> HIDE DEF R
  <2>1. X \in SUBSET (1..(Len(q) - 1))
    BY <1>2
  <2>2. IsFiniteSet(Up(X)) /\ Cardinality(Up(X)) = Cardinality(X) /\ 1 \notin Up(X)
    BY <1>2, <2>1, Shifted
  <2>3. Cardinality(X) \in Nat
    BY <1>2, <2>1, RankLess
  <2> HIDE DEF Up
  <2> QED
    BY <2>2, <2>3, FS_AddElement
<1>6. Cardinality(S) = Cardinality(R) + HeadIs(q, k)
  <2>1. /\ Cardinality(R) \in Nat
        /\ Cardinality(Up(R)) = Cardinality(R)
        /\ Cardinality(Up(R) \cup {1}) = Cardinality(R) + 1
    <3> HIDE DEF S, R, r, Up
    <3>1. R \in SUBSET R
      OBVIOUS
    <3> QED
      BY <1>5, <3>1
  <2> HIDE DEF S, R, r, Up
  <2> QED
    BY <1>3, <2>1 DEF HeadIs
<1>7. ASSUME NEW i \in R
      PROVE  /\ i + 1 \in S /\ r[i] = q[i + 1]
             /\ Rank(S, i + 1) = Rank(R, i) + HeadIs(q, k)
  <2>1. Before(R, i) \in SUBSET R
    BY DEF Before
  <2>2. i + 1 \in S
    <3> HIDE DEF S, R, r
    <3> QED
      BY <1>3
  <2>3. r[i] = q[i + 1]
    <3> HIDE DEF S, R, r
    <3> QED
      BY <1>1, <1>2
  <2> HIDE DEF S, R, r, Up
  <2>4. /\ Cardinality(Before(R, i)) \in Nat
        /\ Cardinality(Up(Before(R, i))) = Cardinality(Before(R, i))
        /\ Cardinality(Up(Before(R, i)) \cup {1}) = Cardinality(Before(R, i)) + 1
    BY <1>5, <2>1
  <2>5. Before(S, i + 1) = IF KeyOf(Head(q)) = k THEN Up(Before(R, i)) \cup {1}
                                                ELSE Up(Before(R, i))
    BY <1>4
  <2> QED
    BY <2>2, <2>3, <2>4, <2>5 DEF Rank, HeadIs
<1>8. HeadIs(q, k) = 1 => 1 \in S /\ Rank(S, 1) = 0
  <2>1. \A j \in S : ~(j < 1)
    BY <1>1 DEF At
  <2>2. Before(S, 1) = {}
    <3> HIDE DEF S
    <3> QED
      BY <2>1 DEF Before
  <2>3. HeadIs(q, k) = 1 => KeyOf(Head(q)) = k
    BY DEF HeadIs
  <2> HIDE DEF S, R, r
  <2> QED
    BY <1>3, <2>2, <2>3, FS_EmptySet DEF Rank
<1> QED
  BY <1>6, <1>7, <1>8

LEMMA OfKeyTail ==
  ASSUME NEW T, NEW q \in Seq(T), q # <<>>, NEW k
  PROVE  IF KeyOf(Head(q)) = k
         THEN /\ OfKey(q, k) # <<>>
              /\ Head(OfKey(q, k)) = Head(q)
              /\ Tail(OfKey(q, k)) = OfKey(Tail(q), k)
         ELSE OfKey(Tail(q), k) = OfKey(q, k)
<1> DEFINE S == At(q, k)
           r == Tail(q)
           R == At(r, k)
           o == OfKey(q, k)
<1>1. /\ r \in Seq(T) /\ Head(q) = q[1]
      /\ o \in Seq(T) /\ Len(o) = Cardinality(S)
      /\ \A i \in S : Rank(S, i) + 1 \in 1..Len(o) /\ o[Rank(S, i) + 1] = q[i]
  BY OfKeyIs
<1>2. /\ Cardinality(R) \in Nat
      /\ \A i \in R : Rank(R, i) \in 0..(Cardinality(R) - 1)
  <2>1. Len(r) \in Nat /\ R \in SUBSET (1..Len(r))
    BY <1>1 DEF At
  <2> HIDE DEF R, r
  <2> QED
    BY <2>1, RankLess
<1>3. CASE KeyOf(Head(q)) # k
  <2>1. /\ Cardinality(S) = Cardinality(R) + 0
        /\ \A i \in R : i + 1 \in S /\ Rank(S, i + 1) = Rank(R, i) + 0 /\ r[i] = q[i + 1]
    <3>1. HeadIs(q, k) = 0
      BY <1>3 DEF HeadIs
    <3> QED
      BY <3>1, TailPlaces
  <2> HIDE DEF S, R, r, o
  <2>2. r \in Seq(T) /\ o \in Seq(T) /\ Len(o) = Cardinality(R)
    BY <1>1, <1>2, <2>1
  <2>3. ASSUME NEW i \in R
        PROVE  o[Rank(R, i) + 1] = r[i]
    <3>1. i + 1 \in S /\ Rank(S, i + 1) = Rank(R, i) /\ r[i] = q[i + 1]
      BY <1>2, <2>1
    <3> QED
      BY <1>1, <3>1
  <2>4. OfKey(r, k) = o
    <3> USE DEF R
    <3> QED
      BY ONLY <2>2, <2>3, OfKeyUnique
  <2> QED
    BY <1>3, <2>4 DEF r, o
<1>4. CASE KeyOf(Head(q)) = k
  <2> DEFINE s == Tail(o)
  <2>1. /\ Cardinality(S) = Cardinality(R) + 1
        /\ \A i \in R : i + 1 \in S /\ Rank(S, i + 1) = Rank(R, i) + 1 /\ r[i] = q[i + 1]
        /\ 1 \in S /\ Rank(S, 1) = 0
    <3>1. HeadIs(q, k) = 1
      BY <1>4 DEF HeadIs
    <3> QED
      BY <3>1, TailPlaces
  <2>2. Len(o) = Cardinality(R) + 1 /\ o[1] = Head(q)
    <3> HIDE DEF S, R, r, o
    <3>1. o[0 + 1] = q[1]
      BY <1>1, <2>1
    <3> QED
      BY <1>1, <2>1, <3>1
  <2>3. /\ o # <<>> /\ Head(o) = Head(q)
        /\ s \in Seq(T) /\ Len(s) = Cardinality(R)
        /\ \A n \in 1..Cardinality(R) : s[n] = o[n + 1]
    <3> HIDE DEF S, R, r, o
    <3> QED
      BY <1>1, <1>2, <2>2
  <2> HIDE DEF S, R, r, o, s
  <2>4. ASSUME NEW i \in R
        PROVE  s[Rank(R, i) + 1] = r[i]
    <3>1. i + 1 \in S /\ Rank(S, i + 1) = Rank(R, i) + 1 /\ r[i] = q[i + 1]
      BY <2>1
    <3>2. Rank(R, i) + 1 \in 1..Cardinality(R)
      BY <1>2
    <3>3. s[Rank(R, i) + 1] = o[Rank(S, i + 1) + 1]
      BY <2>3, <3>1, <3>2
    <3> QED
      BY <1>1, <3>1, <3>3
  <2>5. r \in Seq(T) /\ s \in Seq(T) /\ Len(s) = Cardinality(R)
    BY <1>1, <2>3
  <2>6. OfKey(r, k) = s
    <3> USE DEF R
    <3> QED
      BY ONLY <2>4, <2>5, OfKeyUnique
  <2> QED
    BY <1>4, <2>3, <2>6 DEF r, o, s
<1> QED
  BY <1>3, <1>4

LEMMA OfKeyEmpty ==
  ASSUME NEW k
  PROVE  OfKey(<<>>, k) = <<>>
<1>1. At(<<>>, k) = {}
  BY DEF At
<1>2. <<>> \in Seq({}) /\ Len(<<>>) = Cardinality(At(<<>>, k))
  <2>1. <<>> \in Seq({}) /\ Len(<<>>) = 0
    BY EmptySeq
  <2>2. Cardinality({}) = 0
    BY FS_EmptySet
  <2> QED
    BY <1>1, <2>1, <2>2
<1>3. \A i \in At(<<>>, k) : <<>>[Rank(At(<<>>, k), i) + 1] = <<>>[i]
  BY <1>1
<1> QED
  BY ONLY <1>2, <1>3, OfKeyUnique

-----------------------------------------------------------------------------
\* The pool implements a Serializer per key.

\* Where the worker of a key and its queue stay as they are, the key sees nothing.
LEMMA NothingSeen ==
  ASSUME NEW k \in Keys, UNCHANGED <<queue, task>>
  PROVE  UNCHANGED PerKey(k)!vars
BY DEF PerKey!vars, Waiting, Taken

LEMMA PushSeen ==
  ASSUME TypeOK, NEW w \in Workers, NEW t \in Task, Enqueue(w, t), UNCHANGED task,
         NEW k \in Keys
  PROVE  [PerKey(k)!Next]_(PerKey(k)!vars)
<1>1. Taken(k)' = Taken(k)
  BY DEF Taken
<1>2. CASE w # WorkerOf[k]
  <2>1. queue'[WorkerOf[k]] = queue[WorkerOf[k]]
    BY <1>2 DEF Enqueue, TypeOK
  <2> QED
    BY <1>1, <2>1 DEF PerKey!vars, Waiting
<1>3. CASE w = WorkerOf[k]
  <2>1. /\ queue[w] \in Seq(Task)
        /\ queue'[WorkerOf[k]] = Append(queue[WorkerOf[k]], t)
    BY <1>3 DEF Enqueue, TypeOK
  <2>2. CASE KeyOf(t) = k
    <3>1. Waiting(k)' = Append(Waiting(k), t)
      BY <1>3, <2>1, <2>2, OfKeyAppend DEF Waiting
    <3>2. t \in {k} \X (1..MaxTasks)
      BY <2>2 DEF Task, KeyOf
    <3>3. PerKey(k)!Submit(t)
      BY <1>1, <3>1 DEF PerKey!Submit
    <3> QED
      BY <3>2, <3>3 DEF PerKey!Next
  <2>3. CASE KeyOf(t) # k
    <3>1. Waiting(k)' = Waiting(k)
      BY <1>3, <2>1, <2>3, OfKeyAppend DEF Waiting
    <3> QED
      BY <1>1, <3>1 DEF PerKey!vars
  <2> QED
    BY <2>2, <2>3
<1> QED
  BY <1>2, <1>3

LEMMA TakeSeen ==
  ASSUME TypeOK, NEW w \in Workers, WorkerInv(w), TakeTask(w), NEW k \in Keys
  PROVE  [PerKey(k)!Next]_(PerKey(k)!vars)
<1> DEFINE q == queue[w]
<1>1. /\ q \in Seq(Task) /\ q # <<>> /\ Head(q) \in Task /\ Head(q) # NoTask
      /\ task[w] = NoTask
      /\ queue' = [queue EXCEPT ![w] = Tail(q)] /\ task' = [task EXCEPT ![w] = Head(q)]
  BY QueueType DEF TakeTask, TypeOK, WorkerInv
<1>2. CASE w # WorkerOf[k]
  BY <1>1, <1>2 DEF TypeOK, PerKey!vars, Waiting, Taken
<1>3. CASE w = WorkerOf[k]
  <2>1. queue'[WorkerOf[k]] = Tail(q) /\ task'[WorkerOf[k]] = Head(q) /\ queue[WorkerOf[k]] = q
    BY <1>1, <1>3 DEF TypeOK
  <2>2. Taken(k) = NoTask
    BY <1>1, <1>3 DEF Taken
  <2> HIDE DEF q
  <2>3. CASE KeyOf(Head(q)) = k
    <3>1. Taken(k)' = Head(q)
      BY <1>1, <2>1, <2>3 DEF Taken
    <3>2. Waiting(k) # <<>> /\ Head(Waiting(k)) = Head(q) /\ Waiting(k)' = Tail(Waiting(k))
      BY <1>1, <2>1, <2>3, OfKeyTail DEF Waiting
    <3>3. PerKey(k)!Start
      BY <2>2, <3>1, <3>2 DEF PerKey!Start
    <3> QED
      BY <3>3 DEF PerKey!Next
  <2>4. CASE KeyOf(Head(q)) # k
    <3>1. Taken(k)' = NoTask
      BY <1>1, <2>1, <2>4 DEF Taken
    <3>2. Waiting(k)' = Waiting(k)
      BY <1>1, <2>1, <2>4, OfKeyTail DEF Waiting
    <3> QED
      BY <2>2, <3>1, <3>2 DEF PerKey!vars
  <2> QED
    BY <2>3, <2>4
<1> QED
  BY <1>2, <1>3

LEMMA RunSeen ==
  ASSUME TypeOK, NEW w \in Workers, WorkerInv(w), RunTask(w), NEW k \in Keys
  PROVE  [PerKey(k)!Next]_(PerKey(k)!vars)
<1>1. Waiting(k)' = Waiting(k) /\ task' = [task EXCEPT ![w] = NoTask] /\ task[w] # NoTask
  BY DEF RunTask, WorkerInv, Waiting
<1>2. CASE w = WorkerOf[k] /\ KeyOf(task[w]) = k
  <2>1. Taken(k) # NoTask /\ Taken(k)' = NoTask
    BY <1>1, <1>2 DEF TypeOK, Taken
  <2>2. PerKey(k)!Finish
    BY <1>1, <2>1 DEF PerKey!Finish
  <2> QED
    BY <2>2 DEF PerKey!Next
<1>3. CASE w # WorkerOf[k] \/ KeyOf(task[w]) # k
  <2>1. Taken(k)' = Taken(k)
    BY <1>1, <1>3 DEF TypeOK, Taken
  <2> QED
    BY <1>1, <2>1 DEF PerKey!vars
<1> QED
  BY <1>2, <1>3

LEMMA StepSeen ==
  ASSUME IInv, [Next]_vars, NEW k \in Keys
  PROVE  [PerKey(k)!Next]_(PerKey(k)!vars)
<1>1. TypeOK /\ \A w \in Workers : WorkerInv(w)
  BY DEF IInv
<1>2. ASSUME NEW j \in Keys, PushKeyed(j)
      PROVE  [PerKey(k)!Next]_(PerKey(k)!vars)
  <2>1. <<j, pushed[j] + 1>> \in Task /\ WorkerOf[j] \in Workers
    BY <1>1, <1>2, PushedTask DEF PushKeyed
  <2> QED
    BY <1>1, <1>2, <2>1, PushSeen DEF PushKeyed
<1>3. CASE PushAny
  <2>1. <<NoKey, pushed[NoKey] + 1>> \in Task /\ WorkerAt[nextWorker] \in Workers
    BY <1>1, <1>3, PushedTask DEF PushAny, TypeOK
  <2> QED
    BY <1>1, <1>3, <2>1, PushSeen DEF PushAny
<1>4. ASSUME NEW w \in Workers, WorkerStep(w)
      PROVE  [PerKey(k)!Next]_(PerKey(k)!vars)
  <2>1. ASSUME LeaveLoop(w) \/ CheckIdle(w) \/ Connect(w) \/ Retry(w) \/ CheckSession(w)
        PROVE  UNCHANGED <<queue, task>>
    BY <2>1 DEF LeaveLoop, CheckIdle, Connect, Retry, CheckSession
  <2> QED
    BY <1>1, <1>4, <2>1, NothingSeen, TakeSeen, RunSeen DEF WorkerStep
<1>5. CASE Destructor \/ ServerFails \/ ServerReturns \/ UNCHANGED vars
  <2>1. UNCHANGED <<queue, task>>
    BY <1>5 DEF Destructor, AskToStop, Joined, ServerFails, ServerReturns, vars
  <2> QED
    BY <2>1, NothingSeen
<1> QED
  BY <1>2, <1>3, <1>4, <1>5 DEF Next

\* Tasks of one key (the playerID, DBThreadPool.h:12) are called one at a time, each once,
\* in the order of their pushes, whatever the server, the sessions and the destructor do:
\* seen through one key the pool implements Serializer.
THEOREM KeysStayInOrder == Spec => KeyedInOrder
<1>1. Init => \A k \in Keys : PerKey(k)!Init
  <2> SUFFICES ASSUME Init, NEW k \in Keys
               PROVE  PerKey(k)!Init
    OBVIOUS
  <2>1. queue[WorkerOf[k]] = <<>> /\ task[WorkerOf[k]] = NoTask
    BY DEF Init
  <2> QED
    BY <2>1, OfKeyEmpty DEF PerKey!Init, Waiting, Taken
<1>2. IInv /\ [Next]_vars => [\A k \in Keys : [PerKey(k)!Next]_(PerKey(k)!vars)]_vars
  BY StepSeen
<1> QED
  BY <1>1, <1>2, InitIInv, StepIInv, PTL DEF Spec, Safety, KeyedInOrder
=============================================================================
