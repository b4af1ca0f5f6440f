-------------------------- MODULE JobSystemProofs --------------------------
(***************************************************************************)
(* Proofs about the job system, for any number of threads, posters and     *)
(* jobs.  WorkerPool: pending_ is exact, no wakeup is lost, and every step *)
(* is a step of the abstract Executor or changes nothing it can see.       *)
(* JobQueue, taken by instance at the end of the module: type correctness, *)
(* mutual exclusion, no stranded job, and that every step is a step of the *)
(* abstract Serializer or changes nothing it can see.                      *)
(***************************************************************************)
EXTENDS WorkerPool, FiniteSetTheorems, SequenceTheorems, TLAPS

CONSTANTS Runners, Callers, MaxCalls, Nobody, NoneRuns
VARIABLES jobs, isExecuting, lockOwner, doing, executionList, calling, called, execTasks

Q == INSTANCE JobQueue WITH Workers <- Runners, Posters <- Callers, MaxPosts <- MaxCalls,
                            NoThread <- Nobody, NoJob <- NoneRuns,
                            pc <- doing, posterPc <- calling, posted <- called

-----------------------------------------------------------------------------
(***************************************************************************)
(* The inductive invariant.                                                *)
(***************************************************************************)

\* Workers between the increment and the decrement of sleepers_, those that
\* are between taking a closure and the decrement of pending_, and those that
\* could look at the deques.
SleepPc == {"pending", "running", "block", "wait", "wake", "up"}
Sleepers == {w \in Workers : pc[w] \in SleepPc}
Takers == {w \in Workers : pc[w] = "got"}
Awake == {w \in Workers : Free(w)}

\* Posters that have not counted their closure yet, and those inside Post.
Pushing == {p \in Posters : posterPc[p] = "pushed"}
Posting == {p \in Posters : posterPc[p] # "idle"}

\* The sets that are counted are finite, and sleepers_ is the number of sleepers.
Counted == /\ IsFiniteSet(Places)
           /\ IsFiniteSet(Posting)
           /\ sleepers = Cardinality(Sleepers)

\* Types of all variables but sleepers_, which the count above bounds.
Types ==
  /\ deque \in [Workers -> Seq(Job)]
  /\ pending \in Int
  /\ isRunning \in BOOLEAN
  /\ mutexOwner \in Workers \cup {NoThread}
  /\ waiters = {w \in Workers : pc[w] = "wait"}
  /\ pc \in [Workers -> WorkerPc]
  /\ offset \in [Workers -> Workers]
  /\ job \in [Workers -> Job \cup {NoJob}]
  /\ posterPc \in [Posters -> {"idle", "pushed", "counted", "notify"}]
  /\ posted \in [Posters -> 0..MaxPosts]
  /\ stopPc \in {"idle", "flagged", "unlocked", "joining", "done"}

\* sleepMutex_ is held from the lock to the wait, and from the wait to its end.
MutexHeld == \A w \in Workers :
               pc[w] \in {"pending", "running", "block", "up"} <=> mutexOwner = w

\* A worker that has seen pending_ at zero goes to sleep only on closures whose
\* posters have not passed sleepMutex_ yet.
SleepsOnPosts == \A w \in Workers :
                   pc[w] \in {"running", "block"} => QueuedCount <= Cardinality(Posting)

\* While somebody sleeps, every queued closure has a worker that is awake or a
\* poster that may still wake one.
NobodyForgotten == waiters # {} => QueuedCount <= Cardinality(Awake) + Cardinality(Posting)

\* A worker holds a closure exactly between taking and finishing it.
HoldsJob == \A w \in Workers : job[w] # NoJob <=> pc[w] \in {"got", "run"}

\* A closure that is queued was posted, and is in one place only.
QueuedOnce ==
  /\ \A w \in Workers : \A i \in DOMAIN deque[w] : deque[w][i] \in Submitted
  /\ \A w, u \in Workers : \A i \in DOMAIN deque[w], k \in DOMAIN deque[u] :
       deque[w][i] = deque[u][k] => w = u /\ i = k

\* The inductive invariant.
IInv == /\ Types /\ Counted /\ MutexHeld
        /\ PendingIsExact /\ SleepsOnPosts /\ NobodyForgotten
        /\ HoldsJob /\ QueuedOnce

-----------------------------------------------------------------------------
(***************************************************************************)
(* How a step changes the sets that are counted.                           *)
(***************************************************************************)

\* 1 or 0, for counting.
One(b) == IF b THEN 1 ELSE 0

\* A set that loses or gains at most x.
LEMMA CountedIn ==
  ASSUME NEW S, IsFiniteSet(S), NEW x, NEW T, NEW b \in BOOLEAN,
         T = IF b THEN S \cup {x} ELSE S \ {x}
  PROVE  /\ IsFiniteSet(T)
         /\ Cardinality(T) \in Nat /\ Cardinality(S) \in Nat
         /\ Cardinality(T) = Cardinality(S) + One(b) - One(x \in S)
<1>1. Cardinality(S) \in Nat
  BY FS_CardinalityType
<1>2. /\ IsFiniteSet(S \cup {x})
      /\ x \notin S => Cardinality(S \cup {x}) = Cardinality(S) + 1
  BY FS_AddElement
<1>3. /\ IsFiniteSet(S \ {x})
      /\ x \in S => Cardinality(S \ {x}) = Cardinality(S) - 1
  BY FS_RemoveElement
<1>4. (x \in S => S \cup {x} = S) /\ (x \notin S => S \ {x} = S)
  OBVIOUS
<1>5. IsFiniteSet(T) /\ Cardinality(T) \in Nat
  BY <1>2, <1>3, FS_CardinalityType
<1>6. CASE b /\ x \in S
  <2>1. T = S
    BY <1>6, <1>4
  <2>2. One(b) = 1 /\ One(x \in S) = 1
    BY <1>6 DEF One
  <2>3. QED
    BY ONLY <1>1, <1>5, <2>1, <2>2
<1>7. CASE b /\ x \notin S
  <2>1. Cardinality(T) = Cardinality(S) + 1
    BY <1>7, <1>2
  <2>2. One(b) = 1 /\ One(x \in S) = 0
    BY <1>7 DEF One
  <2>3. QED
    BY ONLY <1>1, <1>5, <2>1, <2>2
<1>8. CASE ~b /\ x \in S
  <2>1. Cardinality(T) = Cardinality(S) - 1
    BY <1>8, <1>3
  <2>2. One(b) = 0 /\ One(x \in S) = 1
    BY <1>8 DEF One
  <2>3. QED
    BY ONLY <1>1, <1>5, <2>1, <2>2
<1>9. CASE ~b /\ x \notin S
  <2>1. T = S
    BY <1>9, <1>4
  <2>2. One(b) = 0 /\ One(x \in S) = 0
    BY <1>9 DEF One
  <2>3. QED
    BY ONLY <1>1, <1>5, <2>1, <2>2
<1>10. QED
  BY <1>6, <1>7, <1>8, <1>9

USE WorkerPoolAssumption

\* The workers are finitely many.
LEMMA WorkersFinite ==
  ASSUME NEW S \in SUBSET Workers
  PROVE  IsFiniteSet(S) /\ Cardinality(S) \in Nat
<1>1. IsFiniteSet(Workers)
  BY FS_Interval DEF Workers
<1>2. QED
  BY <1>1, FS_Subset, FS_CardinalityType

\* One worker goes from one program point to another.
LEMMA WorkerMoves ==
  ASSUME Types, NEW w \in Workers, NEW to \in WorkerPc,
         pc' = [pc EXCEPT ![w] = to], waiters' = {u \in Workers : pc'[u] = "wait"}
  PROVE  LET Asleep(x) == One(x \in SleepPc)
             Taking(x) == One(x = "got")
             Up(x) == One(x \notin {"wait", "got", "run"})
         IN  /\ Cardinality(Sleepers)' = Cardinality(Sleepers) + Asleep(to) - Asleep(pc[w])
             /\ Cardinality(Takers)' = Cardinality(Takers) + Taking(to) - Taking(pc[w])
             /\ Cardinality(Awake)' = Cardinality(Awake) + Up(to) - Up(pc[w])
<1>1. pc \in [Workers -> WorkerPc] /\ waiters = {u \in Workers : pc[u] = "wait"}
  BY DEF Types
<1>2. \A u \in Workers : pc'[u] = IF u = w THEN to ELSE pc[u]
  BY <1>1
<1>3. Sleepers' = IF to \in SleepPc THEN Sleepers \cup {w} ELSE Sleepers \ {w}
  BY <1>1, <1>2 DEF Sleepers
<1>4. Takers' = IF to = "got" THEN Takers \cup {w} ELSE Takers \ {w}
  BY <1>1, <1>2 DEF Takers
<1>5. Awake = {u \in Workers : pc[u] \notin {"wait", "got", "run"}}
  BY <1>1 DEF Awake, Free
<1>6. Awake' = {u \in Workers : pc'[u] \notin {"wait", "got", "run"}}
  BY DEF Awake, Free
<1>7. Awake' = IF to \notin {"wait", "got", "run"} THEN Awake \cup {w} ELSE Awake \ {w}
  BY <1>1, <1>2, <1>5, <1>6
<1>8. IsFiniteSet(Sleepers) /\ IsFiniteSet(Takers) /\ IsFiniteSet(Awake)
  BY WorkersFinite DEF Sleepers, Takers, Awake
<1>9. /\ w \in Sleepers <=> pc[w] \in SleepPc
      /\ w \in Takers <=> pc[w] = "got"
      /\ w \in Awake <=> pc[w] \notin {"wait", "got", "run"}
  BY <1>5 DEF Sleepers, Takers
<1>10. Cardinality(Sleepers)' = Cardinality(Sleepers)
         + One(to \in SleepPc) - One(w \in Sleepers)
  <2>1. (to \in SleepPc) \in BOOLEAN
    OBVIOUS
  <2>2. QED
    BY ONLY <1>3, <1>8, <2>1, CountedIn
<1>11. Cardinality(Takers)' = Cardinality(Takers) + One(to = "got") - One(w \in Takers)
  BY <1>4, <1>8, CountedIn
<1>12. Cardinality(Awake)' = Cardinality(Awake)
         + One(to \notin {"wait", "got", "run"}) - One(w \in Awake)
  BY <1>7, <1>8, CountedIn
<1>13. QED
  BY <1>9, <1>10, <1>11, <1>12 DEF One

\* The workers stay where they are.
LEMMA WorkersStay ==
  ASSUME Types, pc' = pc, waiters' = waiters
  PROVE  Sleepers' = Sleepers /\ Takers' = Takers /\ Awake' = Awake
BY DEF Sleepers, Takers, Awake, Free

\* One poster goes from one point of Post to another.
LEMMA PosterMoves ==
  ASSUME Types, Counted, NEW p \in Posters,
         NEW to \in {"idle", "pushed", "counted", "notify"},
         posterPc' = [posterPc EXCEPT ![p] = to]
  PROVE  /\ IsFiniteSet(Posting')
         /\ Cardinality(Posting)' = Cardinality(Posting) + One(to # "idle") - One(posterPc[p] # "idle")
         /\ Cardinality(Pushing)' = Cardinality(Pushing) + One(to = "pushed") - One(posterPc[p] = "pushed")
<1>1. posterPc \in [Posters -> {"idle", "pushed", "counted", "notify"}]
  BY DEF Types
<1>2. \A q \in Posters : posterPc'[q] = IF q = p THEN to ELSE posterPc[q]
  BY <1>1
<1>3. Posting' = IF to # "idle" THEN Posting \cup {p} ELSE Posting \ {p}
  BY <1>2 DEF Posting
<1>4. Pushing' = IF to = "pushed" THEN Pushing \cup {p} ELSE Pushing \ {p}
  BY <1>2 DEF Pushing
<1>5. IsFiniteSet(Posting) /\ IsFiniteSet(Pushing)
  <2>1. IsFiniteSet(Posting) /\ Pushing \subseteq Posting
    BY DEF Counted, Pushing, Posting
  <2>2. QED
    BY <2>1, FS_Subset
<1>6. (p \in Posting <=> posterPc[p] # "idle") /\ (p \in Pushing <=> posterPc[p] = "pushed")
  BY DEF Posting, Pushing
<1>7. /\ IsFiniteSet(Posting')
      /\ Cardinality(Posting)' = Cardinality(Posting) + One(to # "idle") - One(p \in Posting)
  BY <1>3, <1>5, CountedIn
<1>8. Cardinality(Pushing)' = Cardinality(Pushing) + One(to = "pushed") - One(p \in Pushing)
  BY <1>4, <1>5, CountedIn
<1>9. QED
  BY <1>6, <1>7, <1>8 DEF One

\* The places of the deques.
LEMMA InPlaces ==
  ASSUME NEW u, NEW i
  PROVE  /\ <<u, i>> \in Places <=> u \in Workers /\ i \in DOMAIN deque[u]
         /\ (<<u, i>> \in Places)' <=> u \in Workers /\ i \in DOMAIN deque'[u]
BY DEF Places

\* A deque of length n becomes one of length m: the places up to n are replaced
\* by those up to m.
LEMMA PlacesChange ==
  ASSUME Types, NEW w \in Workers, NEW q \in Seq(Job),
         deque' = [deque EXCEPT ![w] = q]
  PROVE  /\ Len(q) = Len(deque[w]) + 1 => Places' = Places \cup {<<w, Len(q)>>}
         /\ Len(q) + 1 = Len(deque[w]) => Places' = Places \ {<<w, Len(deque[w])>>}
<1>1. deque \in [Workers -> Seq(Job)]
  BY DEF Types
<1>2. \A u \in Workers : deque'[u] = IF u = w THEN q ELSE deque[u]
  BY <1>1
<1>3. /\ DOMAIN q = 1..Len(q) /\ Len(q) \in Nat
      /\ DOMAIN deque[w] = 1..Len(deque[w]) /\ Len(deque[w]) \in Nat
  BY <1>1
<1>4. Places = UNION {{u} \X DOMAIN deque[u] : u \in Workers}
  BY DEF Places
<1>5. Places' = UNION {{u} \X DOMAIN deque'[u] : u \in Workers}
  BY DEF Places
<1>6. \A x : x \in Places <=> \E u \in Workers : \E i \in DOMAIN deque[u] : x = <<u, i>>
  BY <1>4
<1>7. \A x : x \in Places' <=> \E u \in Workers : \E i \in DOMAIN deque'[u] : x = <<u, i>>
  BY <1>5
<1>8. ASSUME Len(q) = Len(deque[w]) + 1 PROVE Places' = Places \cup {<<w, Len(q)>>}
  <2>1. DOMAIN q = DOMAIN deque[w] \cup {Len(q)}
    BY <1>3, <1>8
  <2>2. ASSUME NEW x \in Places' PROVE x \in Places \cup {<<w, Len(q)>>}
    <3>1. PICK u \in Workers : \E i \in DOMAIN deque'[u] : x = <<u, i>>
      BY <1>7
    <3>2. PICK i \in DOMAIN deque'[u] : x = <<u, i>>
      BY <3>1
    <3>3. CASE u = w
      BY <1>2, <1>6, <2>1, <3>2, <3>3
    <3>4. CASE u # w
      BY <1>2, <1>6, <3>2, <3>4
    <3>5. QED
      BY <3>3, <3>4
  <2>3. ASSUME NEW x \in Places PROVE x \in Places'
    <3>1. PICK u \in Workers : \E i \in DOMAIN deque[u] : x = <<u, i>>
      BY <1>6
    <3>2. PICK i \in DOMAIN deque[u] : x = <<u, i>>
      BY <3>1
    <3>3. i \in DOMAIN deque'[u]
      <4>1. CASE u = w
        BY <1>2, <2>1, <3>2, <4>1
      <4>2. CASE u # w
        BY <1>2, <3>2, <4>2
      <4>3. QED
        BY <4>1, <4>2
    <3>4. QED
      BY <1>7, <3>2, <3>3
  <2>4. <<w, Len(q)>> \in Places'
    BY <1>2, <1>7, <2>1
  <2>5. QED
    BY <2>2, <2>3, <2>4
<1>9. ASSUME Len(q) + 1 = Len(deque[w]) PROVE Places' = Places \ {<<w, Len(deque[w])>>}
  <2>1. DOMAIN q = DOMAIN deque[w] \ {Len(deque[w])}
    BY <1>3, <1>9
  <2>2. QED
    BY <1>2, <1>6, <1>7, <2>1
<1>10. QED
  BY <1>8, <1>9

\* One closure more, or one less.
LEMMA QueuedCountChange ==
  ASSUME Types, Counted, NEW w \in Workers, NEW q \in Seq(Job),
         deque' = [deque EXCEPT ![w] = q]
  PROVE  /\ QueuedCount \in Nat
         /\ Len(q) = Len(deque[w]) + 1 =>
              IsFiniteSet(Places') /\ QueuedCount' = QueuedCount + 1
         /\ Len(q) + 1 = Len(deque[w]) =>
              IsFiniteSet(Places') /\ QueuedCount' = QueuedCount - 1
<1>1. deque[w] \in Seq(Job)
  BY DEF Types
<1>2. Len(q) \in Nat /\ Len(deque[w]) \in Nat /\ DOMAIN deque[w] = 1..Len(deque[w])
  BY <1>1
<1>3. IsFiniteSet(Places) /\ Cardinality(Places) \in Nat
  BY FS_CardinalityType DEF Counted
<1>4. QueuedCount = Cardinality(Places) /\ QueuedCount' = Cardinality(Places')
  BY DEF QueuedCount
<1>5. ASSUME Len(q) = Len(deque[w]) + 1
      PROVE  IsFiniteSet(Places') /\ QueuedCount' = QueuedCount + 1
  <2>1. Places' = Places \cup {<<w, Len(q)>>}
    BY <1>5, PlacesChange
  <2>2. Len(q) \notin DOMAIN deque[w]
    BY <1>2, <1>5
  <2>3. <<w, Len(q)>> \notin Places
    BY <2>2, InPlaces
  <2>4. QED
    BY <1>3, <1>4, <2>1, <2>3, FS_AddElement
<1>6. ASSUME Len(q) + 1 = Len(deque[w])
      PROVE  IsFiniteSet(Places') /\ QueuedCount' = QueuedCount - 1
  <2>1. Places' = Places \ {<<w, Len(deque[w])>>}
    BY <1>6, PlacesChange
  <2>2. Len(deque[w]) \in DOMAIN deque[w]
    BY <1>2, <1>6
  <2>3. <<w, Len(deque[w])>> \in Places
    BY <2>2, InPlaces
  <2>4. QED
    BY <1>3, <1>4, <2>1, <2>3, FS_RemoveElement
<1>7. QED
  BY <1>3, <1>4, <1>5, <1>6

\* Pop takes the last closure and Steal the first; the others keep their order.
LEMMA Taken ==
  ASSUME NEW w \in Workers, NEW q \in Seq(Job), q # <<>>
  PROVE  /\ LeftInDeque(w, q) \in Seq(Job)
         /\ Len(LeftInDeque(w, q)) + 1 = Len(q)
         /\ Len(q) \in Nat \ {0}
         /\ IF offset[w] = 0
              THEN /\ FromDeque(w, q) = q[Len(q)]
                   /\ \A i \in 1..(Len(q) - 1) : LeftInDeque(w, q)[i] = q[i]
              ELSE /\ FromDeque(w, q) = q[1]
                   /\ \A i \in 1..(Len(q) - 1) : LeftInDeque(w, q)[i] = q[i + 1]
<1>1. Len(q) \in Nat \ {0} /\ DOMAIN q = 1..Len(q)
  BY EmptySeq
<1>2. CASE offset[w] = 0
  <2>1. LeftInDeque(w, q) = SubSeq(q, 1, Len(q) - 1) /\ FromDeque(w, q) = q[Len(q)]
    BY <1>2 DEF LeftInDeque, FromDeque
  <2>2. /\ SubSeq(q, 1, Len(q) - 1) \in Seq(Job)
        /\ Len(SubSeq(q, 1, Len(q) - 1)) = Len(q) - 1
        /\ \A i \in 1..(Len(q) - 1) : SubSeq(q, 1, Len(q) - 1)[i] = q[i]
    BY <1>1
  <2>3. QED
    BY <1>1, <1>2, <2>1, <2>2
<1>3. CASE offset[w] # 0
  <2>1. LeftInDeque(w, q) = Tail(q) /\ FromDeque(w, q) = Head(q)
    BY <1>3 DEF LeftInDeque, FromDeque
  <2>2. /\ Tail(q) \in Seq(Job)
        /\ Len(Tail(q)) = Len(q) - 1
        /\ \A i \in 1..Len(Tail(q)) : Tail(q)[i] = q[i + 1]
        /\ Head(q) = q[1]
    BY HeadTailProperties
  <2>3. QED
    BY <1>1, <1>3, <2>1, <2>2
<1>4. QED
  BY <1>2, <1>3

-----------------------------------------------------------------------------
(***************************************************************************)
(* Every step preserves the invariant.                                     *)
(***************************************************************************)

\* The next deque of a scan is one of the deques.
LEMMA VictimIsWorker ==
  ASSUME Types, NEW w \in Workers
  PROVE  Victim(w) \in Workers
<1>1. offset[w] \in 0..(NumThreads - 1) /\ w \in 0..(NumThreads - 1)
  BY DEF Types, Workers
<1>2. \A n \in Nat : n % NumThreads \in 0..(NumThreads - 1)
  OBVIOUS
<1>3. QED
  BY <1>1, <1>2 DEF Victim, Workers

\* Types, the mutex and the closures in the hands of the workers.
LEMMA LocalStep ==
  ASSUME Types, MutexHeld, HoldsJob, [Next]_vars
  PROVE  Types' /\ MutexHeld' /\ HoldsJob'
<1> USE DEF Types, MutexHeld, HoldsJob, WorkerPc
<1>1. ASSUME NEW p \in Posters, Push(p) PROVE Types' /\ MutexHeld' /\ HoldsJob'
  <2>1. PICK v \in Workers : deque' = [deque EXCEPT ![v] = Append(@, <<p, posted[p] + 1>>)]
    BY <1>1 DEF Push
  <2>2. <<p, posted[p] + 1>> \in Job
    BY <1>1 DEF Push, Job
  <2>3. Append(deque[v], <<p, posted[p] + 1>>) \in Seq(Job)
    BY <2>2
  <2>4. deque' \in [Workers -> Seq(Job)]
    BY <2>1, <2>3
  <2>5. QED
    BY <1>1, <2>4 DEF Push
<1>2. ASSUME NEW p \in Posters, Count(p) PROVE Types' /\ MutexHeld' /\ HoldsJob'
  BY <1>2 DEF Count
<1>3. ASSUME NEW p \in Posters, LookForSleepers(p) PROVE Types' /\ MutexHeld' /\ HoldsJob'
  BY <1>3 DEF LookForSleepers
<1>4. ASSUME NEW p \in Posters, NotifyOne(p) PROVE Types' /\ MutexHeld' /\ HoldsJob'
  <2>1. CASE waiters' = waiters /\ pc' = pc
    BY <1>4, <2>1 DEF NotifyOne
  <2>2. ASSUME NEW w \in waiters, waiters' = waiters \ {w}, pc' = [pc EXCEPT ![w] = "wake"]
        PROVE Types' /\ MutexHeld' /\ HoldsJob'
    BY <1>4, <2>2 DEF NotifyOne
  <2>3. QED
    BY <1>4, <2>1, <2>2 DEF NotifyOne
<1>5. ASSUME NEW w \in Workers, Loop(w) PROVE Types' /\ MutexHeld' /\ HoldsJob'
  <2>1. offset' \in [Workers -> Workers]
    <3>1. 0 \in Workers
      BY DEF Workers
    <3>2. QED
      BY <1>5, <3>1 DEF Loop
  <2>2. QED
    BY <1>5, <2>1 DEF Loop, Goto
<1>6. ASSUME NEW w \in Workers, TryGetJob(w) PROVE Types' /\ MutexHeld' /\ HoldsJob'
  <2>1. CASE deque[Victim(w)] = <<>>
    <3>1. CASE offset[w] + 1 < NumThreads /\ offset' = [offset EXCEPT ![w] = @ + 1] /\ pc' = pc
      <4>1. offset[w] \in Nat /\ NumThreads \in Nat
        <5>1. offset[w] \in Workers /\ NumThreads \in Nat
          OBVIOUS
        <5>2. QED
          BY ONLY <5>1 DEF Workers
      <4>2. offset[w] + 1 \in Workers
        BY ONLY <3>1, <4>1 DEF Workers
      <4>3. offset' \in [Workers -> Workers]
        BY <3>1, <4>2
      <4>4. QED
        BY <1>6, <2>1, <3>1, <4>3 DEF TryGetJob
    <3>2. CASE offset' = offset /\ Goto(w, "idle")
      BY <1>6, <2>1, <3>2 DEF TryGetJob, Goto
    <3>3. QED
      BY <1>6, <2>1, <3>1, <3>2 DEF TryGetJob
  <2>2. CASE deque[Victim(w)] # <<>>
    <3>1. Victim(w) \in Workers
      BY VictimIsWorker
    <3> DEFINE q == deque[Victim(w)]
    <3>2. q \in Seq(Job) /\ q # <<>>
      BY <2>2, <3>1
    <3>3. LeftInDeque(w, q) \in Seq(Job) /\ FromDeque(w, q) \in Job
      <4> HIDE DEF q
      <4>1. DOMAIN q = 1..Len(q) /\ Len(q) \in Nat \ {0}
        BY <3>2, EmptySeq
      <4>2. q[1] \in Job /\ q[Len(q)] \in Job
        BY <3>2, <4>1
      <4>3. QED
        BY <3>2, <4>2, Taken
    <3>4. deque' = [deque EXCEPT ![Victim(w)] = LeftInDeque(w, q)] /\ job' = [job EXCEPT ![w] = FromDeque(w, q)]
      BY <1>6, <2>2 DEF TryGetJob
    <3> HIDE DEF q
    <3>5. deque' \in [Workers -> Seq(Job)] /\ job' \in [Workers -> Job \cup {NoJob}]
      BY <3>1, <3>3, <3>4
    <3>6. job'[w] # NoJob /\ \A u \in Workers : u # w => job'[u] = job[u]
      BY <3>3, <3>4
    <3>7. pc[w] = "scan" /\ pc' = [pc EXCEPT ![w] = "got"] /\ mutexOwner' = mutexOwner
      BY <1>6, <2>2 DEF TryGetJob, Goto
    <3>8. Types'
      BY <1>6, <2>2, <3>5, <3>7 DEF TryGetJob
    <3>9. MutexHeld' /\ HoldsJob'
      BY <3>6, <3>7
    <3>10. QED
      BY <3>8, <3>9
  <2>3. QED
    BY <2>1, <2>2
<1>7. ASSUME NEW w \in Workers, Uncount(w) PROVE Types' /\ MutexHeld' /\ HoldsJob'
  BY <1>7 DEF Uncount, Goto
<1>8. ASSUME NEW w \in Workers, RunJob(w) PROVE Types' /\ MutexHeld' /\ HoldsJob'
  BY <1>8 DEF RunJob, Goto
<1>9. ASSUME NEW w \in Workers, SpinOrSleep(w) PROVE Types' /\ MutexHeld' /\ HoldsJob'
  <2>1. CASE Goto(w, "loop")
    BY <1>9, <2>1 DEF SpinOrSleep, Goto
  <2>2. CASE Goto(w, "lock")
    BY <1>9, <2>2 DEF SpinOrSleep, Goto
  <2>3. QED
    BY <1>9, <2>1, <2>2 DEF SpinOrSleep
<1>10. ASSUME NEW w \in Workers, LockToSleep(w) PROVE Types' /\ MutexHeld' /\ HoldsJob'
  BY <1>10 DEF LockToSleep, Goto
<1>11. ASSUME NEW w \in Workers, CheckPending(w) PROVE Types' /\ MutexHeld' /\ HoldsJob'
  BY <1>11 DEF CheckPending, Goto
<1>12. ASSUME NEW w \in Workers, CheckRunning(w) PROVE Types' /\ MutexHeld' /\ HoldsJob'
  BY <1>12 DEF CheckRunning, Goto
<1>13. ASSUME NEW w \in Workers, Block(w) PROVE Types' /\ MutexHeld' /\ HoldsJob'
  BY <1>13 DEF Block, Goto
<1>14. ASSUME NEW w \in Workers, Relock(w) PROVE Types' /\ MutexHeld' /\ HoldsJob'
  BY <1>14 DEF Relock, Goto
<1>15. ASSUME NEW w \in Workers, GetUp(w) PROVE Types' /\ MutexHeld' /\ HoldsJob'
  BY <1>15 DEF GetUp, Goto
<1>16. ASSUME NEW w \in Workers, WakeForNothing(w) PROVE Types' /\ MutexHeld' /\ HoldsJob'
  BY <1>16 DEF WakeForNothing, Goto
<1>17. CASE BeginStop
  BY <1>17 DEF BeginStop
<1>18. CASE PassMutex
  BY <1>18 DEF PassMutex
<1>19. CASE NotifyAll
  BY <1>19 DEF NotifyAll
<1>20. CASE Joined
  BY <1>20 DEF Joined
<1>21. CASE UNCHANGED vars
  BY <1>21 DEF vars
<1>22. QED
  BY <1>1, <1>2, <1>3, <1>4, <1>5, <1>6, <1>7, <1>8, <1>9, <1>10,
     <1>11, <1>12, <1>13, <1>14, <1>15, <1>16, <1>17, <1>18, <1>19, <1>20, <1>21
  DEF Next, PosterStep, WorkerStep, StopStep

\* The counts are natural numbers.
LEMMA Numbers ==
  ASSUME Types, Counted
  PROVE  /\ QueuedCount \in Nat /\ pending \in Int
         /\ Cardinality(Sleepers) \in Nat /\ Cardinality(Takers) \in Nat
         /\ Cardinality(Awake) \in Nat
         /\ Cardinality(Pushing) \in Nat /\ Cardinality(Posting) \in Nat
         /\ Cardinality(Pushing) <= Cardinality(Posting)
<1>1. QueuedCount \in Nat /\ Cardinality(Posting) \in Nat
  BY FS_CardinalityType DEF Counted, QueuedCount
<1>2. /\ Cardinality(Sleepers) \in Nat /\ Cardinality(Takers) \in Nat
      /\ Cardinality(Awake) \in Nat
  BY WorkersFinite DEF Sleepers, Takers, Awake
<1>3. Pushing \subseteq Posting /\ IsFiniteSet(Posting)
  BY DEF Pushing, Posting, Counted
<1>4. Cardinality(Pushing) <= Cardinality(Posting) /\ IsFiniteSet(Pushing)
  BY <1>3, FS_Subset
<1>5. QED
  BY <1>1, <1>2, <1>4, FS_CardinalityType DEF Types

\* pending_, as the count it keeps up with.
LEMMA PendingIs ==
  PendingIsExact <=> pending = QueuedCount + Cardinality(Takers) - Cardinality(Pushing)
BY DEF PendingIsExact, Takers, Pushing

LEMMA PendingIsNext ==
  PendingIsExact' <=>
    pending' = QueuedCount' + Cardinality(Takers)' - Cardinality(Pushing)'
BY DEF PendingIsExact, Takers, Pushing

\* A step of one worker that leaves the deques and the posters alone, and counts
\* itself among the sleepers and in pending_ as its place says.
LEMMA WorkerCounts ==
  ASSUME Types, Counted, PendingIsExact, NEW w \in Workers, NEW to \in WorkerPc,
         pc' = [pc EXCEPT ![w] = to], waiters' = {u \in Workers : pc'[u] = "wait"},
         deque' = deque, posterPc' = posterPc,
         sleepers' = sleepers + One(to \in SleepPc) - One(pc[w] \in SleepPc),
         pending' = pending + One(to = "got") - One(pc[w] = "got")
  PROVE  /\ Counted' /\ PendingIsExact'
         /\ QueuedCount' = QueuedCount /\ Posting' = Posting
         /\ Cardinality(Awake)' = Cardinality(Awake) + One(to \notin {"wait", "got", "run"})
                                                    - One(pc[w] \notin {"wait", "got", "run"})
<1>1. Places' = Places /\ Posting' = Posting /\ Pushing' = Pushing
  BY DEF Places, Posting, Pushing
<1>2. QueuedCount' = QueuedCount
  BY <1>1 DEF QueuedCount
<1>3. /\ Cardinality(Sleepers)' = Cardinality(Sleepers) + One(to \in SleepPc) - One(pc[w] \in SleepPc)
      /\ Cardinality(Takers)' = Cardinality(Takers) + One(to = "got") - One(pc[w] = "got")
      /\ Cardinality(Awake)' = Cardinality(Awake) + One(to \notin {"wait", "got", "run"})
                                                 - One(pc[w] \notin {"wait", "got", "run"})
  BY WorkerMoves
<1>4. Counted'
  BY <1>1, <1>3 DEF Counted
<1>5. PendingIsExact'
  <2>1. pending = QueuedCount + Cardinality(Takers) - Cardinality(Pushing)
    BY PendingIs
  <2>2. Cardinality(Pushing)' = Cardinality(Pushing)
    BY <1>1
  <2>3. One(to = "got") \in Int /\ One(pc[w] = "got") \in Int
    BY DEF One
  <2>4. pending' = QueuedCount' + Cardinality(Takers)' - Cardinality(Pushing)'
    BY <1>2, <1>3, <2>1, <2>2, <2>3, Numbers
  <2>5. QED
    BY <2>4, PendingIsNext
<1>6. QED
  BY <1>1, <1>2, <1>3, <1>4, <1>5

\* A worker that was not seen to fall asleep, and takes nothing, forgets nobody.
LEMMA StaysAwake ==
  ASSUME Types, Counted, SleepsOnPosts, NobodyForgotten, NEW w \in Workers, NEW to \in WorkerPc,
         pc' = [pc EXCEPT ![w] = to], waiters' = {u \in Workers : pc'[u] = "wait"},
         QueuedCount' = QueuedCount, Posting' = Posting,
         Cardinality(Awake)' = Cardinality(Awake) + One(to \notin {"wait", "got", "run"})
                                                  - One(pc[w] \notin {"wait", "got", "run"}),
         to \notin {"wait", "got"}, to = "run" => pc[w] = "got",
         to \in {"running", "block"} => QueuedCount <= Cardinality(Posting)
  PROVE  SleepsOnPosts' /\ NobodyForgotten'
<1>1. \A u \in Workers : pc'[u] = IF u = w THEN to ELSE pc[u]
  BY DEF Types
<1>2. SleepsOnPosts'
  BY <1>1 DEF SleepsOnPosts
<1>3. waiters' \subseteq waiters
  BY <1>1 DEF Types
<1>4. Cardinality(Awake)' >= Cardinality(Awake) /\ Cardinality(Awake)' \in Int
  <2>1. CASE to = "run"
    <3>1. One(to \notin {"wait", "got", "run"}) = 0 /\ One(pc[w] \notin {"wait", "got", "run"}) = 0
      BY <2>1 DEF One
    <3>2. QED
      BY <3>1, Numbers
  <2>2. CASE to # "run"
    <3>1. /\ One(to \notin {"wait", "got", "run"}) = 1
          /\ One(pc[w] \notin {"wait", "got", "run"}) \in {0, 1}
      BY <2>2 DEF One
    <3>2. QED
      BY <3>1, Numbers
  <2>3. QED
    BY <2>1, <2>2
<1>5. NobodyForgotten'
  <2>1. ASSUME waiters' # {}
        PROVE  QueuedCount <= Cardinality(Awake)' + Cardinality(Posting)
    <3>1. QueuedCount <= Cardinality(Awake) + Cardinality(Posting)
      BY <1>3, <2>1 DEF NobodyForgotten
    <3>2. QED
      BY <1>4, <3>1, Numbers
  <2>2. QED
    BY <2>1 DEF NobodyForgotten
<1>6. QED
  BY <1>2, <1>5

\* The same, for a worker that does not block.
LEMMA WorkerStays ==
  ASSUME Types, Types', Counted, PendingIsExact, SleepsOnPosts, NobodyForgotten,
         NEW w \in Workers, NEW to \in WorkerPc, pc' = [pc EXCEPT ![w] = to],
         deque' = deque, posterPc' = posterPc,
         sleepers' = sleepers + One(to \in SleepPc) - One(pc[w] \in SleepPc),
         pending' = pending + One(to = "got") - One(pc[w] = "got"),
         to \notin {"wait", "got"}, to = "run" => pc[w] = "got",
         to \in {"running", "block"} => QueuedCount <= Cardinality(Posting)
  PROVE  Counted' /\ PendingIsExact' /\ SleepsOnPosts' /\ NobodyForgotten'
<1>1. waiters' = {u \in Workers : pc'[u] = "wait"}
  BY DEF Types
<1>2. QED
  BY <1>1, WorkerCounts, StaysAwake

\* A step that moves neither a worker, a poster nor a closure.
LEMMA NothingCounts ==
  ASSUME Types, Counted, PendingIsExact, SleepsOnPosts, NobodyForgotten,
         deque' = deque, posterPc' = posterPc, pc' = pc, waiters' = waiters,
         sleepers' = sleepers, pending' = pending
  PROVE  Counted' /\ PendingIsExact' /\ SleepsOnPosts' /\ NobodyForgotten'
<1>1. Sleepers' = Sleepers /\ Takers' = Takers /\ Awake' = Awake
  BY WorkersStay
<1>2. Places' = Places /\ Posting' = Posting /\ Pushing' = Pushing
  BY DEF Places, Posting, Pushing
<1>3. Counted'
  BY <1>1, <1>2 DEF Counted
<1>4. PendingIsExact'
  BY <1>1, <1>2, PendingIs, PendingIsNext DEF QueuedCount
<1>5. SleepsOnPosts' /\ NobodyForgotten'
  BY <1>1, <1>2 DEF SleepsOnPosts, NobodyForgotten, QueuedCount
<1>6. QED
  BY <1>3, <1>4, <1>5

\* The counts, and with them that nobody is forgotten.
LEMMA CountStep ==
  ASSUME Types, Types', MutexHeld, Counted, PendingIsExact, SleepsOnPosts, NobodyForgotten, [Next]_vars
  PROVE  Counted' /\ PendingIsExact' /\ SleepsOnPosts' /\ NobodyForgotten'
<1>n. waiters' = {u \in Workers : pc'[u] = "wait"} /\ pc \in [Workers -> WorkerPc]
  BY DEF Types
<1>w. sleepers \in Nat /\ pending \in Int
  BY Numbers DEF Counted
<1>1. ASSUME NEW p \in Posters, Push(p) PROVE Counted' /\ PendingIsExact' /\ SleepsOnPosts' /\ NobodyForgotten'
  <2>1. /\ posterPc[p] = "idle" /\ posterPc' = [posterPc EXCEPT ![p] = "pushed"]
        /\ pc' = pc /\ waiters' = waiters /\ sleepers' = sleepers /\ pending' = pending
    BY <1>1 DEF Push
  <2>2. IsFiniteSet(Places') /\ QueuedCount' = QueuedCount + 1
    <3>1. PICK v \in Workers : deque' = [deque EXCEPT ![v] = Append(@, <<p, posted[p] + 1>>)]
      BY <1>1 DEF Push
    <3>2. <<p, posted[p] + 1>> \in Job /\ deque[v] \in Seq(Job)
      BY <1>1 DEF Push, Job, Types
    <3>3. /\ Append(deque[v], <<p, posted[p] + 1>>) \in Seq(Job)
          /\ Len(Append(deque[v], <<p, posted[p] + 1>>)) = Len(deque[v]) + 1
      BY <3>2
    <3>4. QED
      BY <3>1, <3>3, QueuedCountChange
  <2>3. /\ IsFiniteSet(Posting')
        /\ Cardinality(Posting)' = Cardinality(Posting) + 1
        /\ Cardinality(Pushing)' = Cardinality(Pushing) + 1
    <3>1. /\ IsFiniteSet(Posting')
          /\ Cardinality(Posting)' = Cardinality(Posting) + One("pushed" # "idle") - One(posterPc[p] # "idle")
          /\ Cardinality(Pushing)' = Cardinality(Pushing) + One("pushed" = "pushed") - One(posterPc[p] = "pushed")
      BY <2>1, PosterMoves
    <3>2. QED
      BY <2>1, <3>1, Numbers DEF One
  <2>4. Sleepers' = Sleepers /\ Takers' = Takers /\ Awake' = Awake
    BY <2>1, WorkersStay
  <2>5. Counted'
    BY <2>1, <2>2, <2>3, <2>4 DEF Counted
  <2>6. PendingIsExact'
    BY <2>1, <2>2, <2>3, <2>4, Numbers, PendingIs, PendingIsNext
  <2>7. SleepsOnPosts' /\ NobodyForgotten'
    BY <2>1, <2>2, <2>3, <2>4, Numbers DEF SleepsOnPosts, NobodyForgotten
  <2>8. QED
    BY <2>5, <2>6, <2>7
<1>2. ASSUME NEW p \in Posters, Count(p) PROVE Counted' /\ PendingIsExact' /\ SleepsOnPosts' /\ NobodyForgotten'
  <2>1. /\ posterPc[p] = "pushed" /\ posterPc' = [posterPc EXCEPT ![p] = "counted"]
        /\ deque' = deque /\ pc' = pc /\ waiters' = waiters /\ sleepers' = sleepers
        /\ pending' = pending + 1
    BY <1>2 DEF Count
  <2>2. /\ IsFiniteSet(Posting')
        /\ Cardinality(Posting)' = Cardinality(Posting)
        /\ Cardinality(Pushing)' = Cardinality(Pushing) - 1
    <3>1. /\ IsFiniteSet(Posting')
          /\ Cardinality(Posting)' = Cardinality(Posting) + One("counted" # "idle") - One(posterPc[p] # "idle")
          /\ Cardinality(Pushing)' = Cardinality(Pushing) + One("counted" = "pushed") - One(posterPc[p] = "pushed")
      BY <2>1, PosterMoves
    <3>2. QED
      BY <2>1, <3>1, Numbers DEF One
  <2>3. Sleepers' = Sleepers /\ Takers' = Takers /\ Awake' = Awake
    BY <2>1, WorkersStay
  <2>4. Places' = Places /\ QueuedCount' = QueuedCount
    BY <2>1 DEF Places, QueuedCount
  <2>5. Counted'
    BY <2>1, <2>2, <2>3, <2>4 DEF Counted
  <2>6. PendingIsExact'
    BY <2>1, <2>2, <2>3, <2>4, Numbers, PendingIs, PendingIsNext
  <2>7. SleepsOnPosts' /\ NobodyForgotten'
    BY <2>1, <2>2, <2>3, <2>4 DEF SleepsOnPosts, NobodyForgotten
  <2>8. QED
    BY <2>5, <2>6, <2>7
<1>3. ASSUME NEW p \in Posters, LookForSleepers(p) PROVE Counted' /\ PendingIsExact' /\ SleepsOnPosts' /\ NobodyForgotten'
  <2>1. /\ posterPc[p] = "counted"
        /\ deque' = deque /\ pc' = pc /\ waiters' = waiters /\ sleepers' = sleepers
        /\ pending' = pending
    BY <1>3 DEF LookForSleepers
  <2>2. Sleepers' = Sleepers /\ Takers' = Takers /\ Awake' = Awake
    BY <2>1, WorkersStay
  <2>3. Places' = Places /\ QueuedCount' = QueuedCount
    BY <2>1 DEF Places, QueuedCount
  <2>4. CASE sleepers > 0
    <3>1. posterPc' = [posterPc EXCEPT ![p] = "notify"]
      BY <1>3, <2>4 DEF LookForSleepers
    <3>2. /\ IsFiniteSet(Posting')
          /\ Cardinality(Posting)' = Cardinality(Posting)
          /\ Cardinality(Pushing)' = Cardinality(Pushing)
      <4>1. /\ IsFiniteSet(Posting')
            /\ Cardinality(Posting)' = Cardinality(Posting) + One("notify" # "idle") - One(posterPc[p] # "idle")
            /\ Cardinality(Pushing)' = Cardinality(Pushing) + One("notify" = "pushed") - One(posterPc[p] = "pushed")
        BY <2>1, <3>1, PosterMoves
      <4>2. QED
        BY <2>1, <4>1, Numbers DEF One
    <3>3. Counted'
      BY <2>1, <2>2, <2>3, <3>2 DEF Counted
    <3>4. PendingIsExact'
      BY <2>1, <2>2, <2>3, <3>2, PendingIs, PendingIsNext
    <3>5. SleepsOnPosts' /\ NobodyForgotten'
      BY <2>1, <2>2, <2>3, <3>2 DEF SleepsOnPosts, NobodyForgotten
    <3>6. QED
      BY <3>3, <3>4, <3>5
  <2>5. CASE ~(sleepers > 0)
    <3>1. posterPc' = [posterPc EXCEPT ![p] = "idle"]
      BY <1>3, <2>5 DEF LookForSleepers
    <3>2. /\ IsFiniteSet(Posting')
          /\ Cardinality(Pushing)' = Cardinality(Pushing)
      <4>1. /\ IsFiniteSet(Posting')
            /\ Cardinality(Posting)' = Cardinality(Posting) + One("idle" # "idle") - One(posterPc[p] # "idle")
            /\ Cardinality(Pushing)' = Cardinality(Pushing) + One("idle" = "pushed") - One(posterPc[p] = "pushed")
        BY <2>1, <3>1, PosterMoves
      <4>2. QED
        BY <2>1, <4>1, Numbers DEF One
    <3>3. Sleepers = {}
      <4>1. IsFiniteSet(Sleepers) /\ Cardinality(Sleepers) = 0
        BY <2>5, Numbers, WorkersFinite DEF Counted, Sleepers
      <4>2. QED
        BY <4>1, FS_EmptySet
    <3>4. waiters' = {} /\ \A u \in Workers : pc'[u] \notin {"running", "block"}
      BY <1>n, <2>1, <3>3 DEF Sleepers, SleepPc, Types
    <3>5. Counted'
      BY <2>1, <2>2, <2>3, <3>2 DEF Counted
    <3>6. PendingIsExact'
      BY <2>1, <2>2, <2>3, <3>2, PendingIs, PendingIsNext
    <3>7. SleepsOnPosts' /\ NobodyForgotten'
      BY <3>4 DEF SleepsOnPosts, NobodyForgotten
    <3>8. QED
      BY <3>5, <3>6, <3>7
  <2>6. QED
    BY <2>4, <2>5
<1>4. ASSUME NEW p \in Posters, NotifyOne(p) PROVE Counted' /\ PendingIsExact' /\ SleepsOnPosts' /\ NobodyForgotten'
  <2>1. /\ posterPc[p] = "notify" /\ posterPc' = [posterPc EXCEPT ![p] = "idle"]
        /\ deque' = deque /\ sleepers' = sleepers /\ pending' = pending
        /\ mutexOwner = NoThread
    BY <1>4 DEF NotifyOne
  <2>2. /\ IsFiniteSet(Posting')
        /\ Cardinality(Posting)' = Cardinality(Posting) - 1
        /\ Cardinality(Pushing)' = Cardinality(Pushing)
    <3>1. /\ IsFiniteSet(Posting')
          /\ Cardinality(Posting)' = Cardinality(Posting) + One("idle" # "idle") - One(posterPc[p] # "idle")
          /\ Cardinality(Pushing)' = Cardinality(Pushing) + One("idle" = "pushed") - One(posterPc[p] = "pushed")
      BY <2>1, PosterMoves
    <3>2. QED
      BY <2>1, <3>1, Numbers DEF One
  <2>3. Places' = Places /\ QueuedCount' = QueuedCount
    BY <2>1 DEF Places, QueuedCount
  <2>4. \A u \in Workers : pc[u] \notin {"running", "block"}
    BY <2>1 DEF MutexHeld
  <2>5. CASE waiters = {} /\ waiters' = waiters /\ pc' = pc
    <3>1. Sleepers' = Sleepers /\ Takers' = Takers
      BY <2>5, WorkersStay
    <3>2. Counted'
      BY <2>1, <2>2, <2>3, <3>1 DEF Counted
    <3>3. PendingIsExact'
      BY <2>1, <2>2, <2>3, <3>1, PendingIs, PendingIsNext
    <3>4. SleepsOnPosts' /\ NobodyForgotten'
      BY <2>4, <2>5 DEF SleepsOnPosts, NobodyForgotten
    <3>5. QED
      BY <3>2, <3>3, <3>4
  <2>6. ASSUME NEW w \in waiters, pc' = [pc EXCEPT ![w] = "wake"]
        PROVE  Counted' /\ PendingIsExact' /\ SleepsOnPosts' /\ NobodyForgotten'
    <3>1. w \in Workers /\ pc[w] = "wait"
      BY <2>6 DEF Types
    <3>2. /\ Cardinality(Sleepers)' = Cardinality(Sleepers) + One("wake" \in SleepPc) - One(pc[w] \in SleepPc)
          /\ Cardinality(Takers)' = Cardinality(Takers) + One("wake" = "got") - One(pc[w] = "got")
          /\ Cardinality(Awake)' = Cardinality(Awake) + One("wake" \notin {"wait", "got", "run"})
                                                     - One(pc[w] \notin {"wait", "got", "run"})
      BY <1>n, <2>6, <3>1, WorkerMoves DEF WorkerPc
    <3>3. /\ Cardinality(Sleepers)' = Cardinality(Sleepers)
          /\ Cardinality(Takers)' = Cardinality(Takers)
          /\ Cardinality(Awake)' = Cardinality(Awake) + 1
      BY <3>1, <3>2, Numbers DEF One, SleepPc
    <3>4. Counted'
      BY <2>1, <2>2, <2>3, <3>3 DEF Counted
    <3>5. PendingIsExact'
      BY <2>1, <2>2, <2>3, <3>3, PendingIs, PendingIsNext
    <3>6. SleepsOnPosts'
      BY <1>n, <2>4, <2>6 DEF SleepsOnPosts, Types
    <3>7. QueuedCount <= Cardinality(Awake) + Cardinality(Posting)
      BY <2>6 DEF NobodyForgotten
    <3>8. NobodyForgotten'
      BY <2>2, <2>3, <3>3, <3>7, Numbers DEF NobodyForgotten
    <3>9. QED
      BY <3>4, <3>5, <3>6, <3>8
  <2>7. QED
    BY <1>4, <2>5, <2>6 DEF NotifyOne
<1>5. ASSUME NEW w \in Workers, Loop(w) PROVE Counted' /\ PendingIsExact' /\ SleepsOnPosts' /\ NobodyForgotten'
  <2>1. CASE isRunning
    <3>1. /\ pc[w] = "loop" /\ pc' = [pc EXCEPT ![w] = "scan"]
          /\ deque' = deque /\ posterPc' = posterPc
      BY <1>5, <2>1 DEF Loop, Goto
    <3>2. /\ sleepers' = sleepers + One("scan" \in SleepPc) - One(pc[w] \in SleepPc)
          /\ pending' = pending + One("scan" = "got") - One(pc[w] = "got")
      BY <1>5, <3>1, <1>w DEF Loop, One, SleepPc
    <3>3. QED
      BY <3>1, <3>2, WorkerStays DEF WorkerPc
  <2>2. CASE ~isRunning
    <3>1. /\ pc[w] = "loop" /\ pc' = [pc EXCEPT ![w] = "exit"]
          /\ deque' = deque /\ posterPc' = posterPc
      BY <1>5, <2>2 DEF Loop, Goto
    <3>2. /\ sleepers' = sleepers + One("exit" \in SleepPc) - One(pc[w] \in SleepPc)
          /\ pending' = pending + One("exit" = "got") - One(pc[w] = "got")
      BY <1>5, <3>1, <1>w DEF Loop, One, SleepPc
    <3>3. QED
      BY <3>1, <3>2, WorkerStays DEF WorkerPc
  <2>3. QED
    BY <1>5, <2>1, <2>2 DEF Loop
<1>6. ASSUME NEW w \in Workers, TryGetJob(w) PROVE Counted' /\ PendingIsExact' /\ SleepsOnPosts' /\ NobodyForgotten'
  <2>1. pc[w] = "scan" /\ posterPc' = posterPc /\ pending' = pending
        /\ sleepers' = sleepers /\ waiters' = waiters
    BY <1>6 DEF TryGetJob
  <2>2. CASE deque[Victim(w)] = <<>> /\ offset[w] + 1 < NumThreads
    BY <1>6, <2>1, <2>2, NothingCounts DEF TryGetJob
  <2>3. CASE deque[Victim(w)] = <<>> /\ offset[w] + 1 = NumThreads
    <3>1. deque' = deque /\ pc' = [pc EXCEPT ![w] = "idle"]
      BY <1>6, <2>3 DEF TryGetJob, Goto
    <3>2. /\ sleepers' = sleepers + One("idle" \in SleepPc) - One(pc[w] \in SleepPc)
          /\ pending' = pending + One("idle" = "got") - One(pc[w] = "got")
      BY <2>1, <1>w DEF One, SleepPc
    <3>3. QED
      BY <2>1, <3>1, <3>2, WorkerStays DEF WorkerPc
  <2>4. CASE deque[Victim(w)] # <<>>
    <3>1. /\ pc' = [pc EXCEPT ![w] = "got"]
          /\ deque' = [deque EXCEPT ![Victim(w)] = LeftInDeque(w, deque[Victim(w)])]
      BY <1>6, <2>4 DEF TryGetJob, Goto
    <3>2. Victim(w) \in Workers /\ deque[Victim(w)] \in Seq(Job)
      BY VictimIsWorker DEF Types
    <3>3. /\ LeftInDeque(w, deque[Victim(w)]) \in Seq(Job)
          /\ Len(LeftInDeque(w, deque[Victim(w)])) + 1 = Len(deque[Victim(w)])
      BY <2>4, <3>2, Taken
    <3>4. IsFiniteSet(Places') /\ QueuedCount' = QueuedCount - 1
      BY <3>1, <3>2, <3>3, QueuedCountChange
    <3>5. Posting' = Posting /\ Pushing' = Pushing
      BY <2>1 DEF Posting, Pushing
    <3>6. /\ Cardinality(Sleepers)' = Cardinality(Sleepers) + One("got" \in SleepPc) - One(pc[w] \in SleepPc)
          /\ Cardinality(Takers)' = Cardinality(Takers) + One("got" = "got") - One(pc[w] = "got")
          /\ Cardinality(Awake)' = Cardinality(Awake) + One("got" \notin {"wait", "got", "run"})
                                                     - One(pc[w] \notin {"wait", "got", "run"})
      BY <1>n, <2>1, <3>1, WorkerMoves DEF WorkerPc
    <3>7. /\ Cardinality(Sleepers)' = Cardinality(Sleepers)
          /\ Cardinality(Takers)' = Cardinality(Takers) + 1
          /\ Cardinality(Awake)' = Cardinality(Awake) - 1
      BY <2>1, <3>6, Numbers DEF One, SleepPc
    <3>8. Counted'
      BY <2>1, <3>4, <3>5, <3>7 DEF Counted
    <3>9. PendingIsExact'
      BY <2>1, <3>4, <3>5, <3>7, Numbers, PendingIs, PendingIsNext
    <3>10. SleepsOnPosts'
      <4>1. \A u \in Workers : pc'[u] \in {"running", "block"} => pc[u] \in {"running", "block"}
        BY <1>n, <3>1 DEF Types
      <4>2. QED
        BY <3>4, <3>5, <4>1, Numbers DEF SleepsOnPosts
    <3>11. NobodyForgotten'
      BY <2>1, <3>4, <3>5, <3>7, Numbers DEF NobodyForgotten
    <3>12. QED
      BY <3>8, <3>9, <3>10, <3>11
  <2>5. QED
    BY <1>6, <2>2, <2>3, <2>4 DEF TryGetJob
<1>7. ASSUME NEW w \in Workers, Uncount(w) PROVE Counted' /\ PendingIsExact' /\ SleepsOnPosts' /\ NobodyForgotten'
  <2>1. /\ pc[w] = "got" /\ pc' = [pc EXCEPT ![w] = "run"]
        /\ deque' = deque /\ posterPc' = posterPc
    BY <1>7 DEF Uncount, Goto
  <2>2. /\ sleepers' = sleepers + One("run" \in SleepPc) - One(pc[w] \in SleepPc)
        /\ pending' = pending + One("run" = "got") - One(pc[w] = "got")
    BY <1>7, <2>1, <1>w DEF Uncount, One, SleepPc
  <2>3. QED
    BY <2>1, <2>2, WorkerStays DEF WorkerPc
<1>8. ASSUME NEW w \in Workers, RunJob(w) PROVE Counted' /\ PendingIsExact' /\ SleepsOnPosts' /\ NobodyForgotten'
  <2>1. /\ pc[w] = "run" /\ pc' = [pc EXCEPT ![w] = "loop"]
        /\ deque' = deque /\ posterPc' = posterPc
    BY <1>8 DEF RunJob, Goto
  <2>2. /\ sleepers' = sleepers + One("loop" \in SleepPc) - One(pc[w] \in SleepPc)
        /\ pending' = pending + One("loop" = "got") - One(pc[w] = "got")
    BY <1>8, <2>1, <1>w DEF RunJob, One, SleepPc
  <2>3. QED
    BY <2>1, <2>2, WorkerStays DEF WorkerPc
<1>9. ASSUME NEW w \in Workers, SpinOrSleep(w) PROVE Counted' /\ PendingIsExact' /\ SleepsOnPosts' /\ NobodyForgotten'
  <2>1. CASE Goto(w, "loop")
    <3>1. /\ pc[w] = "idle" /\ pc' = [pc EXCEPT ![w] = "loop"]
          /\ deque' = deque /\ posterPc' = posterPc
      BY <1>9, <2>1 DEF SpinOrSleep, Goto
    <3>2. /\ sleepers' = sleepers + One("loop" \in SleepPc) - One(pc[w] \in SleepPc)
          /\ pending' = pending + One("loop" = "got") - One(pc[w] = "got")
      BY <1>9, <3>1, <1>w DEF SpinOrSleep, One, SleepPc
    <3>3. QED
      BY <3>1, <3>2, WorkerStays DEF WorkerPc
  <2>2. CASE Goto(w, "lock")
    <3>1. /\ pc[w] = "idle" /\ pc' = [pc EXCEPT ![w] = "lock"]
          /\ deque' = deque /\ posterPc' = posterPc
      BY <1>9, <2>2 DEF SpinOrSleep, Goto
    <3>2. /\ sleepers' = sleepers + One("lock" \in SleepPc) - One(pc[w] \in SleepPc)
          /\ pending' = pending + One("lock" = "got") - One(pc[w] = "got")
      BY <1>9, <3>1, <1>w DEF SpinOrSleep, One, SleepPc
    <3>3. QED
      BY <3>1, <3>2, WorkerStays DEF WorkerPc
  <2>3. QED
    BY <1>9, <2>1, <2>2 DEF SpinOrSleep
<1>10. ASSUME NEW w \in Workers, LockToSleep(w) PROVE Counted' /\ PendingIsExact' /\ SleepsOnPosts' /\ NobodyForgotten'
  <2>1. /\ pc[w] = "lock" /\ pc' = [pc EXCEPT ![w] = "pending"]
        /\ deque' = deque /\ posterPc' = posterPc
    BY <1>10 DEF LockToSleep, Goto
  <2>2. /\ sleepers' = sleepers + One("pending" \in SleepPc) - One(pc[w] \in SleepPc)
        /\ pending' = pending + One("pending" = "got") - One(pc[w] = "got")
    BY <1>10, <2>1, <1>w DEF LockToSleep, One, SleepPc
  <2>3. QED
    BY <2>1, <2>2, WorkerStays DEF WorkerPc
<1>11. ASSUME NEW w \in Workers, CheckPending(w) PROVE Counted' /\ PendingIsExact' /\ SleepsOnPosts' /\ NobodyForgotten'
  <2>1. CASE pending > 0
    <3>1. /\ pc[w] = "pending" /\ pc' = [pc EXCEPT ![w] = "up"]
          /\ deque' = deque /\ posterPc' = posterPc
      BY <1>11, <2>1 DEF CheckPending, Goto
    <3>2. /\ sleepers' = sleepers + One("up" \in SleepPc) - One(pc[w] \in SleepPc)
          /\ pending' = pending + One("up" = "got") - One(pc[w] = "got")
      BY <1>11, <3>1, <1>w DEF CheckPending, One, SleepPc
    <3>3. QED
      BY <3>1, <3>2, WorkerStays DEF WorkerPc
  <2>2. CASE ~(pending > 0)
    <3>1. /\ pc[w] = "pending" /\ pc' = [pc EXCEPT ![w] = "running"]
          /\ deque' = deque /\ posterPc' = posterPc
      BY <1>11, <2>2 DEF CheckPending, Goto
    <3>2. /\ sleepers' = sleepers + One("running" \in SleepPc) - One(pc[w] \in SleepPc)
          /\ pending' = pending + One("running" = "got") - One(pc[w] = "got")
      BY <1>11, <3>1, <1>w DEF CheckPending, One, SleepPc
    <3>3. QueuedCount <= Cardinality(Posting)
      BY <2>2, Numbers, PendingIs
    <3>4. QED
      BY <3>1, <3>2, <3>3, WorkerStays DEF WorkerPc
  <2>3. QED
    BY <1>11, <2>1, <2>2 DEF CheckPending
<1>12. ASSUME NEW w \in Workers, CheckRunning(w) PROVE Counted' /\ PendingIsExact' /\ SleepsOnPosts' /\ NobodyForgotten'
  <2>1. CASE isRunning
    <3>1. /\ pc[w] = "running" /\ pc' = [pc EXCEPT ![w] = "block"]
          /\ deque' = deque /\ posterPc' = posterPc
      BY <1>12, <2>1 DEF CheckRunning, Goto
    <3>2. /\ sleepers' = sleepers + One("block" \in SleepPc) - One(pc[w] \in SleepPc)
          /\ pending' = pending + One("block" = "got") - One(pc[w] = "got")
      BY <1>12, <3>1, <1>w DEF CheckRunning, One, SleepPc
    <3>3. QueuedCount <= Cardinality(Posting)
      BY <3>1 DEF SleepsOnPosts
    <3>4. QED
      BY <3>1, <3>2, <3>3, WorkerStays DEF WorkerPc
  <2>2. CASE ~isRunning
    <3>1. /\ pc[w] = "running" /\ pc' = [pc EXCEPT ![w] = "up"]
          /\ deque' = deque /\ posterPc' = posterPc
      BY <1>12, <2>2 DEF CheckRunning, Goto
    <3>2. /\ sleepers' = sleepers + One("up" \in SleepPc) - One(pc[w] \in SleepPc)
          /\ pending' = pending + One("up" = "got") - One(pc[w] = "got")
      BY <1>12, <3>1, <1>w DEF CheckRunning, One, SleepPc
    <3>3. QED
      BY <3>1, <3>2, WorkerStays DEF WorkerPc
  <2>3. QED
    BY <1>12, <2>1, <2>2 DEF CheckRunning
<1>13. ASSUME NEW w \in Workers, Block(w) PROVE Counted' /\ PendingIsExact' /\ SleepsOnPosts' /\ NobodyForgotten'
  <2>1. /\ pc[w] = "block" /\ pc' = [pc EXCEPT ![w] = "wait"]
        /\ deque' = deque /\ posterPc' = posterPc
    BY <1>13 DEF Block, Goto
  <2>2. /\ sleepers' = sleepers + One("wait" \in SleepPc) - One(pc[w] \in SleepPc)
        /\ pending' = pending + One("wait" = "got") - One(pc[w] = "got")
    BY <1>13, <2>1, <1>w DEF Block, One, SleepPc
  <2>3. /\ Counted' /\ PendingIsExact'
        /\ QueuedCount' = QueuedCount /\ Posting' = Posting
        /\ Cardinality(Awake)' = Cardinality(Awake) + One("wait" \notin {"wait", "got", "run"})
                                                   - One(pc[w] \notin {"wait", "got", "run"})
    BY <1>n, <2>1, <2>2, WorkerCounts DEF WorkerPc
  <2>4. QueuedCount <= Cardinality(Posting)
    BY <2>1 DEF SleepsOnPosts
  <2>5. Cardinality(Awake)' \in Nat
    BY WorkersFinite DEF Awake
  <2>6. NobodyForgotten'
    BY <2>3, <2>4, <2>5, Numbers DEF NobodyForgotten
  <2>7. SleepsOnPosts'
    BY <2>1, <2>3, <2>4 DEF SleepsOnPosts
  <2>8. QED
    BY <2>3, <2>6, <2>7
<1>14. ASSUME NEW w \in Workers, Relock(w) PROVE Counted' /\ PendingIsExact' /\ SleepsOnPosts' /\ NobodyForgotten'
  <2>1. /\ pc[w] = "wake" /\ pc' = [pc EXCEPT ![w] = "pending"]
        /\ deque' = deque /\ posterPc' = posterPc
    BY <1>14 DEF Relock, Goto
  <2>2. /\ sleepers' = sleepers + One("pending" \in SleepPc) - One(pc[w] \in SleepPc)
        /\ pending' = pending + One("pending" = "got") - One(pc[w] = "got")
    BY <1>14, <2>1, <1>w DEF Relock, One, SleepPc
  <2>3. QED
    BY <2>1, <2>2, WorkerStays DEF WorkerPc
<1>15. ASSUME NEW w \in Workers, GetUp(w) PROVE Counted' /\ PendingIsExact' /\ SleepsOnPosts' /\ NobodyForgotten'
  <2>1. /\ pc[w] = "up" /\ pc' = [pc EXCEPT ![w] = "loop"]
        /\ deque' = deque /\ posterPc' = posterPc
    BY <1>15 DEF GetUp, Goto
  <2>2. /\ sleepers' = sleepers + One("loop" \in SleepPc) - One(pc[w] \in SleepPc)
        /\ pending' = pending + One("loop" = "got") - One(pc[w] = "got")
    BY <1>15, <2>1, <1>w DEF GetUp, One, SleepPc
  <2>3. QED
    BY <2>1, <2>2, WorkerStays DEF WorkerPc
<1>16. ASSUME NEW w \in Workers, WakeForNothing(w) PROVE Counted' /\ PendingIsExact' /\ SleepsOnPosts' /\ NobodyForgotten'
  <2>1. /\ pc[w] = "wait" /\ pc' = [pc EXCEPT ![w] = "wake"]
        /\ deque' = deque /\ posterPc' = posterPc
    BY <1>16 DEF WakeForNothing, Goto, Types
  <2>2. /\ sleepers' = sleepers + One("wake" \in SleepPc) - One(pc[w] \in SleepPc)
        /\ pending' = pending + One("wake" = "got") - One(pc[w] = "got")
    BY <1>16, <2>1, <1>w DEF WakeForNothing, One, SleepPc
  <2>3. QED
    BY <2>1, <2>2, WorkerStays DEF WorkerPc
<1>17. CASE BeginStop
  BY <1>17, NothingCounts DEF BeginStop
<1>18. CASE PassMutex
  BY <1>18, NothingCounts DEF PassMutex
<1>19. CASE NotifyAll
  <2>1. /\ deque' = deque /\ posterPc' = posterPc /\ sleepers' = sleepers /\ pending' = pending
        /\ waiters' = {}
        /\ \A u \in Workers : pc'[u] = IF pc[u] = "wait" THEN "wake" ELSE pc[u]
    BY <1>n, <1>19 DEF NotifyAll, Types
  <2>2. Sleepers' = Sleepers /\ Takers' = Takers
    BY <2>1 DEF Sleepers, Takers, SleepPc
  <2>3. Places' = Places /\ Posting' = Posting /\ Pushing' = Pushing
    BY <2>1 DEF Places, Posting, Pushing
  <2>4. Counted'
    BY <2>1, <2>2, <2>3 DEF Counted
  <2>5. PendingIsExact'
    BY <2>1, <2>2, <2>3, PendingIs, PendingIsNext DEF QueuedCount
  <2>6. SleepsOnPosts' /\ NobodyForgotten'
    BY <2>1, <2>3 DEF SleepsOnPosts, NobodyForgotten, QueuedCount
  <2>7. QED
    BY <2>4, <2>5, <2>6
<1>20. CASE Joined
  BY <1>20, NothingCounts DEF Joined
<1>21. CASE UNCHANGED vars
  BY <1>21, NothingCounts DEF vars
<1>22. QED
  BY <1>1, <1>2, <1>3, <1>4, <1>5, <1>6, <1>7, <1>8, <1>9, <1>10,
     <1>11, <1>12, <1>13, <1>14, <1>15, <1>16, <1>17, <1>18, <1>19, <1>20, <1>21
  DEF Next, PosterStep, WorkerStep, StopStep

-----------------------------------------------------------------------------
(***************************************************************************)
(* Every closure is in one place.                                          *)
(***************************************************************************)

\* The closures of a deque are in the set of the queued ones, which has no others.
LEMMA InQueued ==
  ASSUME Types
  PROVE  /\ \A u \in Workers : \A i \in DOMAIN deque[u] : deque[u][i] \in Queued
         /\ \A j \in Queued : \E u \in Workers : \E i \in DOMAIN deque[u] : deque[u][i] = j
<1>1. \A u \in Workers : \A i \in DOMAIN deque[u] : deque[u][i] \in Job
  BY DEF Types
<1>2. QED
  BY <1>1 DEF Queued

\* The deques and the posts as they were.
LEMMA DequesKept ==
  ASSUME QueuedOnce, deque' = deque, posted' = posted
  PROVE  QueuedOnce' /\ Queued' = Queued /\ Submitted' = Submitted
<1>1. Queued' = Queued /\ Submitted' = Submitted
  BY DEF Queued, Submitted
<1>2. QED
  BY <1>1 DEF QueuedOnce

\* Post queues a closure that was not queued before.
LEMMA PushedOnce ==
  ASSUME Types, Types', QueuedOnce, NEW p \in Posters, NEW v \in Workers,
         posted[p] < MaxPosts, posted' = [posted EXCEPT ![p] = @ + 1],
         deque' = [deque EXCEPT ![v] = Append(deque[v], <<p, posted[p] + 1>>)]
  PROVE  /\ QueuedOnce'
         /\ <<p, posted[p] + 1>> \in Job \ Submitted
         /\ Submitted' = Submitted \cup {<<p, posted[p] + 1>>}
         /\ Queued' = Queued \cup {<<p, posted[p] + 1>>}
<1> DEFINE e == <<p, posted[p] + 1>>
           q == deque[v]
<1>1. posted \in [Posters -> 0..MaxPosts] /\ posted[p] \in Nat /\ MaxPosts \in Nat
  BY DEF Types
<1>2. e \in Job /\ e \notin Submitted
  BY <1>1 DEF Job, Submitted
<1>3. Submitted' = Submitted \cup {e}
  <2>1. \A j \in Job : j = <<j[1], j[2]>> /\ j[1] \in Posters /\ j[2] \in 1..MaxPosts
    BY DEF Job
  <2>2. \A r \in Posters : posted'[r] = IF r = p THEN posted[r] + 1 ELSE posted[r]
    BY <1>1
  <2>3. \A j \in Job : j[2] <= posted'[j[1]] <=> (j[2] <= posted[j[1]] \/ j = e)
    <3> SUFFICES ASSUME NEW j \in Job
                 PROVE  j[2] <= posted'[j[1]] <=> (j[2] <= posted[j[1]] \/ j = e)
      OBVIOUS
    <3>1. CASE j[1] = p
      <4>1. posted'[j[1]] = posted[p] + 1 /\ posted[j[1]] = posted[p]
        BY <2>2, <3>1
      <4>2. j[2] \in Nat /\ (j = e <=> j[2] = posted[p] + 1)
        BY <2>1, <3>1
      <4>3. QED
        BY ONLY <1>1, <4>1, <4>2
    <3>2. CASE j[1] # p
      BY <2>1, <2>2, <3>2
    <3>3. QED
      BY <3>1, <3>2
  <2>4. QED
    BY <1>2, <2>3 DEF Submitted
<1>4. /\ deque \in [Workers -> Seq(Job)] /\ q \in Seq(Job) /\ deque[v] = q
      /\ \A u \in Workers : deque'[u] = IF u = v THEN Append(q, e) ELSE deque[u]
  BY DEF Types
<1>5. /\ Len(q) \in Nat /\ DOMAIN q = 1..Len(q)
      /\ DOMAIN Append(q, e) = 1..(Len(q) + 1)
      /\ \A i \in 1..Len(q) : Append(q, e)[i] = q[i]
      /\ Append(q, e)[Len(q) + 1] = e
  BY <1>2, <1>4
<1> HIDE DEF e, q
<1>6. \A u \in Workers : \A i \in DOMAIN deque'[u] :
        IF u = v /\ i = Len(q) + 1
          THEN deque'[u][i] = e
          ELSE i \in DOMAIN deque[u] /\ deque'[u][i] = deque[u][i]
  <2> SUFFICES ASSUME NEW u \in Workers, NEW i \in DOMAIN deque'[u]
               PROVE  IF u = v /\ i = Len(q) + 1
                        THEN deque'[u][i] = e
                        ELSE i \in DOMAIN deque[u] /\ deque'[u][i] = deque[u][i]
    OBVIOUS
  <2>1. CASE u = v
    <3>1. deque'[u] = Append(q, e) /\ deque[u] = q
      BY <1>4, <2>1
    <3>2. i \in 1..(Len(q) + 1)
      BY <1>5, <3>1
    <3>3. i = Len(q) + 1 \/ i \in 1..Len(q)
      BY <1>5, <3>2
    <3>4. i \in 1..Len(q) => i # Len(q) + 1
      BY <1>5
    <3>5. QED
      BY ONLY <1>5, <2>1, <3>1, <3>3, <3>4
  <2>2. CASE u # v
    BY <1>4, <2>2
  <2>3. QED
    BY <2>1, <2>2
<1>7. \A u \in Workers : \A i \in DOMAIN deque[u] : i \in DOMAIN deque'[u] /\ deque'[u][i] = deque[u][i]
  <2> SUFFICES ASSUME NEW u \in Workers, NEW i \in DOMAIN deque[u]
               PROVE  i \in DOMAIN deque'[u] /\ deque'[u][i] = deque[u][i]
    OBVIOUS
  <2>1. CASE u = v
    BY <1>4, <1>5, <2>1
  <2>2. CASE u # v
    BY <1>4, <2>2
  <2>3. QED
    BY <2>1, <2>2
<1>8. Len(q) + 1 \in DOMAIN deque'[v] /\ deque'[v][Len(q) + 1] = e
  <2>1. deque'[v] = Append(q, e)
    BY <1>4
  <2>2. Len(q) + 1 \in 1..(Len(q) + 1)
    BY <1>5
  <2>3. QED
    BY ONLY <1>5, <2>1, <2>2
<1>9. /\ \A u \in Workers : \A i \in DOMAIN deque[u] : deque[u][i] \in Submitted
      /\ \A w, u \in Workers : \A i \in DOMAIN deque[w], k \in DOMAIN deque[u] :
           deque[w][i] = deque[u][k] => w = u /\ i = k
  BY DEF QueuedOnce
<1>10. \A u \in Workers : \A i \in DOMAIN deque'[u] : deque'[u][i] \in Submitted'
  BY <1>3, <1>6, <1>9
<1>11. \A w, u \in Workers : \A i \in DOMAIN deque'[w], k \in DOMAIN deque'[u] :
         deque'[w][i] = deque'[u][k] => w = u /\ i = k
  <2> SUFFICES ASSUME NEW w \in Workers, NEW u \in Workers,
                      NEW i \in DOMAIN deque'[w], NEW k \in DOMAIN deque'[u],
                      deque'[w][i] = deque'[u][k]
               PROVE  w = u /\ i = k
    OBVIOUS
  <2>1. e \notin Submitted
    BY <1>2
  <2>2. CASE w = v /\ i = Len(q) + 1
    <3>1. deque'[w][i] = e
      BY <1>6, <2>2
    <3>2. ~(u = v /\ k = Len(q) + 1) => deque'[u][k] \in Submitted
      BY <1>6, <1>9
    <3>3. QED
      BY <2>1, <2>2, <3>1, <3>2
  <2>3. CASE u = v /\ k = Len(q) + 1
    <3>1. deque'[u][k] = e
      BY <1>6, <2>3
    <3>2. ~(w = v /\ i = Len(q) + 1) => deque'[w][i] \in Submitted
      BY <1>6, <1>9
    <3>3. QED
      BY <2>1, <2>3, <3>1, <3>2
  <2>4. CASE ~(w = v /\ i = Len(q) + 1) /\ ~(u = v /\ k = Len(q) + 1)
    <3>1. i \in DOMAIN deque[w] /\ deque'[w][i] = deque[w][i]
      BY <1>6, <2>4
    <3>2. k \in DOMAIN deque[u] /\ deque'[u][k] = deque[u][k]
      BY <1>6, <2>4
    <3>3. QED
      BY <1>9, <3>1, <3>2
  <2>5. QED
    BY <2>2, <2>3, <2>4
<1>12. QueuedOnce'
  BY <1>10, <1>11 DEF QueuedOnce
<1>13. Queued' = Queued \cup {e}
  <2>1. Queued = {j \in Job : \E u \in Workers : \E i \in DOMAIN deque[u] : deque[u][i] = j}
    BY DEF Queued
  <2>2. Queued' = {j \in Job : \E u \in Workers : \E i \in DOMAIN deque'[u] : deque'[u][i] = j}
    BY DEF Queued
  <2>3. Queued \subseteq Queued'
    BY <1>7, <2>1, <2>2
  <2>4. e \in Queued'
    BY <1>2, <1>8, <2>2
  <2>5. ASSUME NEW j \in Queued' PROVE j \in Queued \/ j = e
    <3>1. PICK u \in Workers : \E i \in DOMAIN deque'[u] : deque'[u][i] = j
      BY <2>2
    <3>2. PICK i \in DOMAIN deque'[u] : deque'[u][i] = j
      BY <3>1
    <3>3. j \in Job
      BY <2>2
    <3>4. CASE u = v /\ i = Len(q) + 1
      BY <1>6, <3>2, <3>4
    <3>5. CASE ~(u = v /\ i = Len(q) + 1)
      <4>1. i \in DOMAIN deque[u] /\ deque[u][i] = j
        BY <1>6, <3>2, <3>5
      <4>2. QED
        BY <2>1, <3>3, <4>1
    <3>6. QED
      BY <3>4, <3>5
  <2>6. QED
    BY <2>3, <2>4, <2>5
<1>14. QED
  BY <1>2, <1>3, <1>12, <1>13 DEF e

\* Pop and Steal take a closure out of the only place it is in.
LEMMA TakenOnce ==
  ASSUME Types, QueuedOnce, NEW w \in Workers, NEW v \in Workers,
         deque[v] # <<>>, posted' = posted,
         deque' = [deque EXCEPT ![v] = LeftInDeque(w, deque[v])]
  PROVE  /\ QueuedOnce'
         /\ FromDeque(w, deque[v]) \in Queued
         /\ Queued' = Queued \ {FromDeque(w, deque[v])}
<1> DEFINE q == deque[v]
           r == LeftInDeque(w, q)
           e == FromDeque(w, q)
           at == IF offset[w] = 0 THEN Len(q) ELSE 1
           from(i) == IF offset[w] = 0 THEN i ELSE i + 1
<1>1. deque \in [Workers -> Seq(Job)] /\ q \in Seq(Job)
  BY DEF Types
<1>2. /\ r \in Seq(Job) /\ Len(r) + 1 = Len(q) /\ Len(q) \in Nat \ {0}
      /\ IF offset[w] = 0
           THEN e = q[Len(q)] /\ \A i \in 1..(Len(q) - 1) : r[i] = q[i]
           ELSE e = q[1] /\ \A i \in 1..(Len(q) - 1) : r[i] = q[i + 1]
  BY <1>1, Taken
<1>3. \A u \in Workers : deque'[u] = IF u = v THEN r ELSE deque[u]
  BY <1>1
<1> HIDE DEF r, e
<1>4. DOMAIN q = 1..Len(q) /\ DOMAIN r = 1..(Len(q) - 1)
  <2>1. DOMAIN r = 1..Len(r) /\ Len(r) \in Nat
    BY <1>2
  <2>2. QED
    BY <1>1, <1>2, <2>1
<1>5. at \in DOMAIN q /\ q[at] = e
  BY <1>2, <1>4
<1>6. \A i \in DOMAIN r : from(i) \in DOMAIN q /\ from(i) # at /\ r[i] = q[from(i)]
  BY <1>2, <1>4
<1>7. \A i, k \in DOMAIN r : from(i) = from(k) => i = k
  BY <1>4
<1>8. \A m \in DOMAIN q : m # at => \E i \in DOMAIN r : from(i) = m
  <2> SUFFICES ASSUME NEW m \in DOMAIN q, m # at PROVE \E i \in DOMAIN r : from(i) = m
    OBVIOUS
  <2>1. CASE offset[w] = 0
    BY <1>2, <1>4, <2>1
  <2>2. CASE offset[w] # 0
    <3>1. m - 1 \in DOMAIN r /\ from(m - 1) = m
      BY <1>2, <1>4, <2>2
    <3>2. QED
      BY <3>1
  <2>3. QED
    BY <2>1, <2>2
<1> HIDE DEF at, from
<1>9. /\ \A u \in Workers : \A i \in DOMAIN deque[u] : deque[u][i] \in Submitted
      /\ \A x, u \in Workers : \A i \in DOMAIN deque[x], k \in DOMAIN deque[u] :
           deque[x][i] = deque[u][k] => x = u /\ i = k
  BY DEF QueuedOnce
<1>10. Submitted' = Submitted
  BY DEF Submitted
<1>11. \A u \in Workers : \A i \in DOMAIN deque'[u] : deque'[u][i] \in Submitted'
  <2> SUFFICES ASSUME NEW u \in Workers, NEW i \in DOMAIN deque'[u]
               PROVE  deque'[u][i] \in Submitted
    BY <1>10
  <2>1. CASE u = v
    BY <1>3, <1>6, <1>9, <2>1
  <2>2. CASE u # v
    BY <1>3, <1>9, <2>2
  <2>3. QED
    BY <2>1, <2>2
<1>12. ASSUME NEW x \in Workers, NEW u \in Workers,
              NEW i \in DOMAIN deque'[x], NEW k \in DOMAIN deque'[u],
              deque'[x][i] = deque'[u][k]
       PROVE  x = u /\ i = k
  <2>1. CASE x = v /\ u = v
    <3>1. r[i] = q[from(i)] /\ r[k] = q[from(k)] /\ r[i] = r[k]
      BY <1>3, <1>6, <1>12, <2>1
    <3>2. from(i) = from(k)
      BY <1>3, <1>6, <1>9, <2>1, <3>1
    <3>3. QED
      BY <1>3, <1>7, <2>1, <3>2
  <2>2. CASE x = v /\ u # v
    <3>1. r[i] = q[from(i)] /\ from(i) \in DOMAIN q /\ r[i] = deque[u][k] /\ k \in DOMAIN deque[u]
      BY <1>3, <1>6, <1>12, <2>2
    <3>2. from(i) \in DOMAIN deque[v] /\ deque[v][from(i)] = deque[u][k]
      BY <3>1
    <3>3. v = u
      BY ONLY <1>9, <3>1, <3>2, u \in Workers, v \in Workers
    <3>4. QED
      BY <2>2, <3>3
  <2>3. CASE x # v /\ u = v
    <3>1. r[k] = q[from(k)] /\ from(k) \in DOMAIN q /\ r[k] = deque[x][i] /\ i \in DOMAIN deque[x]
      BY <1>3, <1>6, <1>12, <2>3
    <3>2. from(k) \in DOMAIN deque[v] /\ deque[x][i] = deque[v][from(k)]
      BY <3>1
    <3>3. x = v
      BY ONLY <1>9, <3>1, <3>2, x \in Workers, v \in Workers
    <3>4. QED
      BY <2>3, <3>3
  <2>4. CASE x # v /\ u # v
    BY <1>3, <1>9, <1>12, <2>4
  <2>5. QED
    BY <2>1, <2>2, <2>3, <2>4
<1>13. QueuedOnce'
  BY <1>11, <1>12 DEF QueuedOnce
<1>14. e \in Queued
  BY <1>5, InQueued
<1>15. Queued' = Queued \ {e}
  <2>1. Queued' = {j \in Job : \E u \in Workers : \E i \in DOMAIN deque'[u] : deque'[u][i] = j}
    BY DEF Queued
  <2>2. ASSUME NEW j \in Queued' PROVE j \in Queued /\ j # e
    <3>1. PICK u \in Workers : \E i \in DOMAIN deque'[u] : deque'[u][i] = j
      BY <2>1
    <3>2. PICK i \in DOMAIN deque'[u] : deque'[u][i] = j
      BY <3>1
    <3>3. CASE u = v
      <4>1. from(i) \in DOMAIN q /\ from(i) # at /\ q[from(i)] = j
        BY <1>3, <1>6, <3>2, <3>3
      <4>2. QED
        BY <1>5, <1>9, <4>1, InQueued
    <3>4. CASE u # v
      <4>1. i \in DOMAIN deque[u] /\ deque[u][i] = j
        BY <1>3, <3>2, <3>4
      <4>2. QED
        BY <1>5, <1>9, <3>4, <4>1, InQueued
    <3>5. QED
      BY <3>3, <3>4
  <2>3. ASSUME NEW j \in Queued, j # e PROVE j \in Queued'
    <3>1. PICK u \in Workers : \E i \in DOMAIN deque[u] : deque[u][i] = j
      BY InQueued
    <3>2. PICK i \in DOMAIN deque[u] : deque[u][i] = j
      BY <3>1
    <3>3. j \in Job
      BY DEF Queued
    <3>4. CASE u = v
      <4>1. i # at
        BY <1>5, <2>3, <3>2, <3>4
      <4>2. PICK m \in DOMAIN r : from(m) = i
        BY <1>8, <3>4, <4>1
      <4>3. m \in DOMAIN deque'[v] /\ deque'[v][m] = j
        BY <1>3, <1>6, <3>2, <3>4, <4>2
      <4>4. QED
        BY <2>1, <3>3, <4>3
    <3>5. CASE u # v
      BY <1>3, <2>1, <3>2, <3>3, <3>5
    <3>6. QED
      BY <3>4, <3>5
  <2>4. QED
    BY <2>2, <2>3
<1>16. QED
  BY <1>13, <1>14, <1>15 DEF e

\* Every step keeps each closure in one place.
LEMMA OnceStep ==
  ASSUME Types, Types', QueuedOnce, [Next]_vars
  PROVE  QueuedOnce'
<1>1. ASSUME NEW p \in Posters, Push(p) PROVE QueuedOnce'
  <2>1. PICK v \in Workers : deque' = [deque EXCEPT ![v] = Append(deque[v], <<p, posted[p] + 1>>)]
    BY <1>1 DEF Push
  <2>2. QED
    BY <1>1, <2>1, PushedOnce DEF Push
<1>2. ASSUME NEW p \in Posters, Count(p) PROVE QueuedOnce'
  BY <1>2, DequesKept DEF Count
<1>3. ASSUME NEW p \in Posters, LookForSleepers(p) PROVE QueuedOnce'
  BY <1>3, DequesKept DEF LookForSleepers
<1>4. ASSUME NEW p \in Posters, NotifyOne(p) PROVE QueuedOnce'
  BY <1>4, DequesKept DEF NotifyOne
<1>5. ASSUME NEW w \in Workers, Loop(w) PROVE QueuedOnce'
  BY <1>5, DequesKept DEF Loop
<1>6. ASSUME NEW w \in Workers, TryGetJob(w) PROVE QueuedOnce'
  <2>1. CASE deque[Victim(w)] = <<>>
    BY <1>6, <2>1, DequesKept DEF TryGetJob
  <2>2. CASE deque[Victim(w)] # <<>>
    <3>1. deque' = [deque EXCEPT ![Victim(w)] = LeftInDeque(w, deque[Victim(w)])]
      BY <1>6, <2>2 DEF TryGetJob
    <3>2. posted' = posted /\ Victim(w) \in Workers
      BY <1>6, VictimIsWorker DEF TryGetJob
    <3>3. QED
      BY <2>2, <3>1, <3>2, TakenOnce
  <2>3. QED
    BY <2>1, <2>2
<1>7. ASSUME NEW w \in Workers, Uncount(w) PROVE QueuedOnce'
  BY <1>7, DequesKept DEF Uncount
<1>8. ASSUME NEW w \in Workers, RunJob(w) PROVE QueuedOnce'
  BY <1>8, DequesKept DEF RunJob
<1>9. ASSUME NEW w \in Workers, SpinOrSleep(w) PROVE QueuedOnce'
  BY <1>9, DequesKept DEF SpinOrSleep
<1>10. ASSUME NEW w \in Workers, LockToSleep(w) PROVE QueuedOnce'
  BY <1>10, DequesKept DEF LockToSleep
<1>11. ASSUME NEW w \in Workers, CheckPending(w) PROVE QueuedOnce'
  BY <1>11, DequesKept DEF CheckPending
<1>12. ASSUME NEW w \in Workers, CheckRunning(w) PROVE QueuedOnce'
  BY <1>12, DequesKept DEF CheckRunning
<1>13. ASSUME NEW w \in Workers, Block(w) PROVE QueuedOnce'
  BY <1>13, DequesKept DEF Block
<1>14. ASSUME NEW w \in Workers, Relock(w) PROVE QueuedOnce'
  BY <1>14, DequesKept DEF Relock
<1>15. ASSUME NEW w \in Workers, GetUp(w) PROVE QueuedOnce'
  BY <1>15, DequesKept DEF GetUp
<1>16. ASSUME NEW w \in Workers, WakeForNothing(w) PROVE QueuedOnce'
  BY <1>16, DequesKept DEF WakeForNothing
<1>17. CASE BeginStop
  BY <1>17, DequesKept DEF BeginStop
<1>18. CASE PassMutex
  BY <1>18, DequesKept DEF PassMutex
<1>19. CASE NotifyAll
  BY <1>19, DequesKept DEF NotifyAll
<1>20. CASE Joined
  BY <1>20, DequesKept DEF Joined
<1>21. CASE UNCHANGED vars
  BY <1>21, DequesKept DEF vars
<1>22. QED
  BY <1>1, <1>2, <1>3, <1>4, <1>5, <1>6, <1>7, <1>8, <1>9, <1>10,
     <1>11, <1>12, <1>13, <1>14, <1>15, <1>16, <1>17, <1>18, <1>19, <1>20, <1>21
  DEF Next, PosterStep, WorkerStep, StopStep

\* The inductive invariant holds in every reachable state.
THEOREM Invariance == Safety => []IInv
<1>1. Init => IInv
  <2> SUFFICES ASSUME Init PROVE IInv
    OBVIOUS
  <2>1. \A w \in Workers : deque[w] = <<>> /\ pc[w] = "loop"
    BY DEF Init
  <2>2. Types
    <3>1. deque \in [Workers -> Seq(Job)]
      BY DEF Init
    <3>2. 0 \in Workers
      BY DEF Workers
    <3>3. QED
      BY <3>1, <3>2 DEF Init, Types, WorkerPc
  <2>3. Places = {} /\ Posting = {} /\ Pushing = {} /\ Sleepers = {} /\ Takers = {}
    BY <2>1 DEF Places, Posting, Pushing, Sleepers, SleepPc, Takers, Init
  <2>4. IsFiniteSet({}) /\ Cardinality({}) = 0
    BY FS_EmptySet
  <2>5. Counted
    BY <2>3, <2>4 DEF Counted, Init
  <2>6. PendingIsExact
    BY <2>3, <2>4, PendingIs DEF QueuedCount, Init
  <2>7. MutexHeld /\ SleepsOnPosts /\ NobodyForgotten
    BY <2>1 DEF Init, MutexHeld, SleepsOnPosts, NobodyForgotten
  <2>8. HoldsJob /\ QueuedOnce
    BY <2>1 DEF Init, HoldsJob, QueuedOnce
  <2>9. QED
    BY <2>2, <2>5, <2>6, <2>7, <2>8 DEF IInv
<1>2. IInv /\ [Next]_vars => IInv'
  BY LocalStep, CountStep, OnceStep DEF IInv
<1>3. QED
  BY <1>1, <1>2, PTL DEF Safety

\* The variables of the pool always have their types; sleepers_ never falls below zero.
THEOREM TypeCorrect == Spec => []TypeOK
<1>1. IInv => TypeOK
  <2> SUFFICES ASSUME IInv PROVE TypeOK
    OBVIOUS
  <2>1. Types /\ Counted
    BY DEF IInv
  <2>2. sleepers \in Nat
    BY <2>1, Numbers DEF Counted
  <2>3. QED
    BY <2>1, <2>2 DEF Types, TypeOK
<1>2. QED
  BY <1>1, Invariance, PTL DEF Spec

\* pending_ is the number of queued closures, up to the posts and the takes that
\* are under way.
THEOREM PendingExact == Spec => []PendingIsExact
BY Invariance, PTL DEF Spec, IInv

\* A worker never sleeps on a closure for which no other worker is awake, once
\* every Post has returned.
THEOREM WakeupNotLost == Spec => []NoLostWakeup
<1>1. IInv => NoLostWakeup
  <2> SUFFICES ASSUME IInv, waiters # {}, \A p \in Posters : posterPc[p] = "idle"
               PROVE  QueuedCount <= Cardinality(Awake)
    BY DEF NoLostWakeup, Awake
  <2>1. QueuedCount <= Cardinality(Awake) + Cardinality(Posting)
    BY DEF IInv, NobodyForgotten
  <2>2. Posting = {}
    BY DEF Posting
  <2>3. Cardinality(Posting) = 0
    BY <2>2, FS_EmptySet
  <2>4. QED
    BY <2>1, <2>3, Numbers DEF IInv
<1>2. QED
  BY <1>1, Invariance, PTL DEF Spec

-----------------------------------------------------------------------------
(***************************************************************************)
(* Implementation of Executor.                                             *)
(***************************************************************************)

\* A step that queues, takes and finishes nothing is invisible to the executor.
LEMMA NothingSeen ==
  ASSUME QueuedOnce, deque' = deque, posted' = posted, job' = job, isRunning' = isRunning
  PROVE  UNCHANGED Abstract!vars
<1>1. Queued' = Queued /\ Submitted' = Submitted
  BY DequesKept
<1>2. QED
  BY <1>1 DEF Abstract!vars

\* Every step of the pool is a step of the executor, or is invisible to it.
LEMMA StepSimulation ==
  ASSUME IInv, IInv', [Next]_vars
  PROVE  [Abstract!Next]_(Abstract!vars)
<1> Types /\ Types' /\ HoldsJob /\ QueuedOnce
  BY DEF IInv
<1>1. ASSUME NEW p \in Posters, Push(p) PROVE [Abstract!Next]_(Abstract!vars)
  <2>1. PICK v \in Workers : deque' = [deque EXCEPT ![v] = Append(deque[v], <<p, posted[p] + 1>>)]
    BY <1>1 DEF Push
  <2>2. /\ <<p, posted[p] + 1>> \in Job \ Submitted
        /\ Submitted' = Submitted \cup {<<p, posted[p] + 1>>}
        /\ Queued' = Queued \cup {<<p, posted[p] + 1>>}
    BY <1>1, <2>1, PushedOnce DEF Push
  <2>3. job' = job /\ isRunning' = isRunning
    BY <1>1 DEF Push
  <2>4. Abstract!Submit(<<p, posted[p] + 1>>)
    BY <2>2, <2>3 DEF Abstract!Submit
  <2>5. QED
    BY <2>2, <2>4 DEF Abstract!Next
<1>2. ASSUME NEW p \in Posters, Count(p) PROVE [Abstract!Next]_(Abstract!vars)
  BY <1>2, NothingSeen DEF Count
<1>3. ASSUME NEW p \in Posters, LookForSleepers(p) PROVE [Abstract!Next]_(Abstract!vars)
  BY <1>3, NothingSeen DEF LookForSleepers
<1>4. ASSUME NEW p \in Posters, NotifyOne(p) PROVE [Abstract!Next]_(Abstract!vars)
  BY <1>4, NothingSeen DEF NotifyOne
<1>5. ASSUME NEW w \in Workers, Loop(w) PROVE [Abstract!Next]_(Abstract!vars)
  BY <1>5, NothingSeen DEF Loop
<1>6. ASSUME NEW w \in Workers, TryGetJob(w) PROVE [Abstract!Next]_(Abstract!vars)
  <2>1. CASE deque[Victim(w)] = <<>>
    BY <1>6, <2>1, NothingSeen DEF TryGetJob
  <2>2. CASE deque[Victim(w)] # <<>>
    <3> DEFINE j == FromDeque(w, deque[Victim(w)])
    <3>1. /\ deque' = [deque EXCEPT ![Victim(w)] = LeftInDeque(w, deque[Victim(w)])]
          /\ job' = [job EXCEPT ![w] = j]
          /\ posted' = posted /\ isRunning' = isRunning /\ pc[w] = "scan"
      BY <1>6, <2>2 DEF TryGetJob
    <3>2. j \in Queued /\ Queued' = Queued \ {j}
      BY <2>2, <3>1, VictimIsWorker, TakenOnce
    <3>3. job[w] = NoJob
      BY <3>1 DEF HoldsJob
    <3>4. Submitted' = Submitted
      BY <3>1 DEF Submitted
    <3> HIDE DEF j
    <3>5. Abstract!Take(w)
      BY <3>1, <3>2, <3>3, <3>4 DEF Abstract!Take
    <3>6. QED
      BY <3>5 DEF Abstract!Next
  <2>3. QED
    BY <2>1, <2>2
<1>7. ASSUME NEW w \in Workers, Uncount(w) PROVE [Abstract!Next]_(Abstract!vars)
  BY <1>7, NothingSeen DEF Uncount
<1>8. ASSUME NEW w \in Workers, RunJob(w) PROVE [Abstract!Next]_(Abstract!vars)
  <2>1. /\ job[w] # NoJob /\ job' = [job EXCEPT ![w] = NoJob]
        /\ deque' = deque /\ posted' = posted /\ isRunning' = isRunning
    BY <1>8 DEF RunJob, HoldsJob
  <2>2. Queued' = Queued /\ Submitted' = Submitted
    BY <2>1, DequesKept
  <2>3. Abstract!Done(w)
    BY <2>1, <2>2 DEF Abstract!Done
  <2>4. QED
    BY <2>3 DEF Abstract!Next
<1>9. ASSUME NEW w \in Workers, SpinOrSleep(w) PROVE [Abstract!Next]_(Abstract!vars)
  BY <1>9, NothingSeen DEF SpinOrSleep
<1>10. ASSUME NEW w \in Workers, LockToSleep(w) PROVE [Abstract!Next]_(Abstract!vars)
  BY <1>10, NothingSeen DEF LockToSleep
<1>11. ASSUME NEW w \in Workers, CheckPending(w) PROVE [Abstract!Next]_(Abstract!vars)
  BY <1>11, NothingSeen DEF CheckPending
<1>12. ASSUME NEW w \in Workers, CheckRunning(w) PROVE [Abstract!Next]_(Abstract!vars)
  BY <1>12, NothingSeen DEF CheckRunning
<1>13. ASSUME NEW w \in Workers, Block(w) PROVE [Abstract!Next]_(Abstract!vars)
  BY <1>13, NothingSeen DEF Block
<1>14. ASSUME NEW w \in Workers, Relock(w) PROVE [Abstract!Next]_(Abstract!vars)
  BY <1>14, NothingSeen DEF Relock
<1>15. ASSUME NEW w \in Workers, GetUp(w) PROVE [Abstract!Next]_(Abstract!vars)
  BY <1>15, NothingSeen DEF GetUp
<1>16. ASSUME NEW w \in Workers, WakeForNothing(w) PROVE [Abstract!Next]_(Abstract!vars)
  BY <1>16, NothingSeen DEF WakeForNothing
<1>17. CASE BeginStop
  <2>1. /\ ~isRunning' = TRUE /\ job' = job
        /\ deque' = deque /\ posted' = posted
    BY <1>17 DEF BeginStop
  <2>2. Queued' = Queued /\ Submitted' = Submitted
    BY <2>1, DequesKept
  <2>3. Abstract!Stop
    BY <2>1, <2>2 DEF Abstract!Stop
  <2>4. QED
    BY <2>3 DEF Abstract!Next
<1>18. CASE PassMutex
  BY <1>18, NothingSeen DEF PassMutex
<1>19. CASE NotifyAll
  BY <1>19, NothingSeen DEF NotifyAll
<1>20. CASE Joined
  BY <1>20, NothingSeen DEF Joined
<1>21. CASE UNCHANGED vars
  BY <1>21, NothingSeen DEF vars
<1>22. QED
  BY <1>1, <1>2, <1>3, <1>4, <1>5, <1>6, <1>7, <1>8, <1>9, <1>10,
     <1>11, <1>12, <1>13, <1>14, <1>15, <1>16, <1>17, <1>18, <1>19, <1>20, <1>21
  DEF Next, PosterStep, WorkerStep, StopStep

\* Every posted closure is taken at most once, by one worker, whatever Pop and Steal
\* meet on a deque (the safety part of ImplementsExecutor).
THEOREM ExecutorImplemented == Spec => Abstract!Safety
<1>1. Init => Abstract!Init
  <2> SUFFICES ASSUME Init PROVE Abstract!Init
    OBVIOUS
  <2>1. Queued = {}
    BY DEF Init, Queued
  <2>2. Submitted = {}
    BY DEF Init, Submitted, Job
  <2>3. QED
    BY <2>1, <2>2 DEF Init, Abstract!Init
<1>2. IInv /\ IInv' /\ [Next]_vars => [Abstract!Next]_(Abstract!vars)
  BY StepSimulation
<1>3. QED
  BY <1>1, <1>2, Invariance, PTL DEF Spec, Safety, Abstract!Safety

-----------------------------------------------------------------------------
(***************************************************************************)
(* JobQueue: the names of its own constants and variables that WorkerPool  *)
(* has too are Runners, Callers, MaxCalls, Nobody, NoneRuns, doing,        *)
(* calling and called.  Its theorems assume what it assumes of constants.  *)
(***************************************************************************)

HIDE WorkerPoolAssumption
USE DEF Q!JobQueueConstants

\* The flag is set exactly while some worker is past the exchange.
FlagHeld == isExecuting <=> \E w \in Runners : Q!Inside(w)

\* lock_ is held across steps only by the worker that found the queue empty,
\* and nothing is pushed meanwhile.
LockHeld == \A w \in Runners :
              /\ lockOwner = w <=> doing[w] = "clear"
              /\ doing[w] = "clear" => jobs = <<>>

\* Only a worker with a batch has a non-empty list, and a job in progress is
\* still at the head of it.
BatchHeld == \A w \in Runners :
               /\ doing[w] = "job" => executionList[w] # <<>>
               /\ ~Q!Batch(w) => executionList[w] = <<>>

\* The inductive invariant.
QueueIInv == /\ Q!TypeOK
             /\ FlagHeld
             /\ Q!MutualExclusion
             /\ LockHeld
             /\ BatchHeld
             /\ Q!NoStrandedJob

\* A step of the posters, of one worker, or no change.
LEMMA QueueCases ==
  ASSUME Q!JobQueueConstants, [Q!Next]_(Q!vars)
  PROVE  \/ \E p \in Callers : Q!Push(p) \/ Q!PostExecute(p)
         \/ \E w \in Runners : Q!WorkerStep(w)
         \/ UNCHANGED Q!vars
BY DEF Q!Next, Q!Quiescent

\* Types, the lock and the batches are preserved by every step.
LEMMA QueueLocalStep ==
  ASSUME Q!JobQueueConstants, Q!TypeOK, LockHeld, BatchHeld, [Q!Next]_(Q!vars)
  PROVE  Q!TypeOK' /\ LockHeld' /\ BatchHeld'
<1> USE DEF Q!TypeOK, Q!WorkerPc, Q!Job, LockHeld, BatchHeld, Q!Batch
<1>1. ASSUME NEW p \in Callers, Q!Push(p) PROVE Q!TypeOK' /\ LockHeld' /\ BatchHeld'
  BY <1>1 DEF Q!Push
<1>2. ASSUME NEW p \in Callers, Q!PostExecute(p) PROVE Q!TypeOK' /\ LockHeld' /\ BatchHeld'
  BY <1>2 DEF Q!PostExecute
<1>3. ASSUME NEW w \in Runners, Q!TakeTask(w) PROVE Q!TypeOK' /\ LockHeld' /\ BatchHeld'
  BY <1>3 DEF Q!TakeTask
<1>4. ASSUME NEW w \in Runners, Q!Exchange(w) PROVE Q!TypeOK' /\ LockHeld' /\ BatchHeld'
  BY <1>4 DEF Q!Exchange
<1>5. ASSUME NEW w \in Runners, Q!SwapJobs(w) PROVE Q!TypeOK' /\ LockHeld' /\ BatchHeld'
  BY <1>5 DEF Q!SwapJobs
<1>6. ASSUME NEW w \in Runners, Q!FoundEmpty(w) PROVE Q!TypeOK' /\ LockHeld' /\ BatchHeld'
  BY <1>6 DEF Q!FoundEmpty
<1>7. ASSUME NEW w \in Runners, Q!ClearFlag(w) PROVE Q!TypeOK' /\ LockHeld' /\ BatchHeld'
  BY <1>7 DEF Q!ClearFlag
<1>8. ASSUME NEW w \in Runners, Q!StartJob(w) PROVE Q!TypeOK' /\ LockHeld' /\ BatchHeld'
  BY <1>8 DEF Q!StartJob
<1>9. ASSUME NEW w \in Runners, Q!FinishJob(w) PROVE Q!TypeOK' /\ LockHeld' /\ BatchHeld'
  <2>1. executionList[w] \in Seq(Callers \X (1..MaxCalls)) /\ executionList[w] # <<>>
    BY <1>9 DEF Q!FinishJob
  <2>2. Tail(executionList[w]) \in Seq(Callers \X (1..MaxCalls))
    BY <2>1
  <2>3. Q!TypeOK'
    BY <1>9, <2>2 DEF Q!FinishJob
  <2>4. LockHeld' /\ BatchHeld'
    BY <1>9, <2>2 DEF Q!FinishJob
  <2>5. QED
    BY <2>3, <2>4
<1>10. ASSUME NEW w \in Runners, Q!LoopBack(w) PROVE Q!TypeOK' /\ LockHeld' /\ BatchHeld'
  BY <1>10 DEF Q!LoopBack
<1>11. CASE UNCHANGED Q!vars
  BY <1>11 DEF Q!vars
<1>12. QED
  BY QueueCases, <1>1, <1>2, <1>3, <1>4, <1>5, <1>6, <1>7, <1>8, <1>9, <1>10, <1>11
  DEF Q!WorkerStep

\* At most one worker is inside, and the flag tells whether one is.
LEMMA ExclusionStep ==
  ASSUME Q!JobQueueConstants, Q!TypeOK, FlagHeld, Q!MutualExclusion, [Q!Next]_(Q!vars)
  PROVE  FlagHeld' /\ Q!MutualExclusion'
<1> USE DEF Q!TypeOK, Q!WorkerPc, FlagHeld, Q!MutualExclusion, Q!Inside
<1>1. ASSUME NEW p \in Callers, Q!Push(p) \/ Q!PostExecute(p)
      PROVE FlagHeld' /\ Q!MutualExclusion'
  BY <1>1 DEF Q!Push, Q!PostExecute
<1>2. ASSUME NEW w \in Runners, Q!TakeTask(w) PROVE FlagHeld' /\ Q!MutualExclusion'
  BY <1>2 DEF Q!TakeTask
<1>3. ASSUME NEW w \in Runners, Q!Exchange(w) PROVE FlagHeld' /\ Q!MutualExclusion'
  BY <1>3 DEF Q!Exchange
<1>4. ASSUME NEW w \in Runners, Q!SwapJobs(w) PROVE FlagHeld' /\ Q!MutualExclusion'
  BY <1>4 DEF Q!SwapJobs
<1>5. ASSUME NEW w \in Runners, Q!FoundEmpty(w) PROVE FlagHeld' /\ Q!MutualExclusion'
  BY <1>5 DEF Q!FoundEmpty
<1>6. ASSUME NEW w \in Runners, Q!ClearFlag(w) PROVE FlagHeld' /\ Q!MutualExclusion'
  BY <1>6 DEF Q!ClearFlag
<1>7. ASSUME NEW w \in Runners, Q!StartJob(w) PROVE FlagHeld' /\ Q!MutualExclusion'
  BY <1>7 DEF Q!StartJob
<1>8. ASSUME NEW w \in Runners, Q!FinishJob(w) PROVE FlagHeld' /\ Q!MutualExclusion'
  BY <1>8 DEF Q!FinishJob
<1>9. ASSUME NEW w \in Runners, Q!LoopBack(w) PROVE FlagHeld' /\ Q!MutualExclusion'
  BY <1>9 DEF Q!LoopBack
<1>10. CASE UNCHANGED Q!vars
  BY <1>10 DEF Q!vars
<1>11. QED
  BY QueueCases, <1>1, <1>2, <1>3, <1>4, <1>5, <1>6, <1>7, <1>8, <1>9, <1>10
  DEF Q!WorkerStep

\* The thread that will look at the queue: a poster creates one, and none of
\* the ways in which a worker gives up leaves the queue without another.
LEMMA StrandedStep ==
  ASSUME Q!JobQueueConstants, Q!TypeOK, FlagHeld, LockHeld, Q!NoStrandedJob, [Q!Next]_(Q!vars)
  PROVE  Q!NoStrandedJob'
<1> USE DEF Q!TypeOK, Q!WorkerPc, FlagHeld, LockHeld, Q!NoStrandedJob, Q!WillLook, Q!Inside
<1>1. ASSUME NEW p \in Callers, Q!Push(p) PROVE Q!NoStrandedJob'
  BY <1>1 DEF Q!Push
<1>2. ASSUME NEW p \in Callers, Q!PostExecute(p) PROVE Q!NoStrandedJob'
  BY <1>2 DEF Q!PostExecute
<1>3. ASSUME NEW w \in Runners, Q!TakeTask(w) PROVE Q!NoStrandedJob'
  BY <1>3 DEF Q!TakeTask
<1>4. ASSUME NEW w \in Runners, Q!Exchange(w) PROVE Q!NoStrandedJob'
  BY <1>4 DEF Q!Exchange
<1>5. ASSUME NEW w \in Runners, Q!SwapJobs(w) PROVE Q!NoStrandedJob'
  BY <1>5 DEF Q!SwapJobs
<1>6. ASSUME NEW w \in Runners, Q!FoundEmpty(w) PROVE Q!NoStrandedJob'
  BY <1>6 DEF Q!FoundEmpty
<1>7. ASSUME NEW w \in Runners, Q!ClearFlag(w) PROVE Q!NoStrandedJob'
  BY <1>7 DEF Q!ClearFlag
<1>8. ASSUME NEW w \in Runners, Q!StartJob(w) PROVE Q!NoStrandedJob'
  BY <1>8 DEF Q!StartJob
<1>9. ASSUME NEW w \in Runners, Q!FinishJob(w) PROVE Q!NoStrandedJob'
  BY <1>9 DEF Q!FinishJob
<1>10. ASSUME NEW w \in Runners, Q!LoopBack(w) PROVE Q!NoStrandedJob'
  BY <1>10 DEF Q!LoopBack
<1>11. CASE UNCHANGED Q!vars
  BY <1>11 DEF Q!vars
<1>12. QED
  BY QueueCases, <1>1, <1>2, <1>3, <1>4, <1>5, <1>6, <1>7, <1>8, <1>9, <1>10, <1>11
  DEF Q!WorkerStep

\* The inductive invariant holds in every reachable state.
THEOREM QueueInvariance ==
  ASSUME Q!JobQueueConstants PROVE Q!Spec => []QueueIInv
<1>1. Q!Init => QueueIInv
  <2> SUFFICES ASSUME Q!Init PROVE QueueIInv
    OBVIOUS
  <2>1. Q!TypeOK
    <3>1. <<>> \in Seq(Q!Job)
      OBVIOUS
    <3>2. executionList \in [Runners -> Seq(Q!Job)]
      BY <3>1 DEF Q!Init
    <3>3. jobs \in Seq(Q!Job) /\ called \in [Callers -> 0..MaxCalls]
      BY <3>1 DEF Q!Init
    <3>4. QED
      BY <3>2, <3>3 DEF Q!Init, Q!TypeOK, Q!WorkerPc
  <2>2. FlagHeld /\ Q!MutualExclusion
    BY DEF Q!Init, FlagHeld, Q!MutualExclusion, Q!Inside
  <2>3. LockHeld /\ BatchHeld /\ Q!NoStrandedJob
    BY DEF Q!Init, LockHeld, BatchHeld, Q!NoStrandedJob
  <2>4. QED
    BY <2>1, <2>2, <2>3 DEF QueueIInv
<1>2. QueueIInv /\ [Q!Next]_(Q!vars) => QueueIInv'
  BY QueueLocalStep, ExclusionStep, StrandedStep DEF QueueIInv
<1>3. QED
  BY <1>1, <1>2, PTL DEF Q!Spec

\* The variables of the queue always have their types.
THEOREM QueueTypeCorrect ==
  ASSUME Q!JobQueueConstants PROVE Q!Spec => []Q!TypeOK
BY QueueInvariance, PTL DEF QueueIInv

\* Execute never runs in two threads at once: a Zone's state needs no lock.
THEOREM ExecuteIsExclusive ==
  ASSUME Q!JobQueueConstants PROVE Q!Spec => []Q!MutualExclusion
BY QueueInvariance, PTL DEF QueueIInv

\* The early return of Execute never leaves a queued job that nobody is going
\* to look at.
THEOREM NothingStranded ==
  ASSUME Q!JobQueueConstants PROVE Q!Spec => []Q!NoStrandedJob
BY QueueInvariance, PTL DEF QueueIInv

-----------------------------------------------------------------------------
(***************************************************************************)
(* Implementation of Serializer.                                           *)
(***************************************************************************)

\* Appending to the second of two sequences appends to their concatenation.
LEMMA AppendToConcat ==
  ASSUME NEW S, NEW s \in Seq(S), NEW t \in Seq(S), NEW e \in S
  PROVE  s \o Append(t, e) = Append(s \o t, e)
<1>1. <<e>> \in Seq(S)
  OBVIOUS
<1>2. s \o t \in Seq(S)
  BY ConcatProperties
<1>3. QED
  BY <1>1, <1>2, AppendIsConcat, ConcatAssociative

\* The head and the tail of a concatenation come from its first part.
LEMMA HeadTailOfConcat ==
  ASSUME NEW S, NEW s \in Seq(S), NEW t \in Seq(S), s # <<>>
  PROVE  /\ s \o t # <<>>
         /\ Head(s \o t) = Head(s)
         /\ Tail(s \o t) = Tail(s) \o t
<1>1. /\ s \o t \in Seq(S)
      /\ Len(s \o t) = Len(s) + Len(t)
      /\ \A i \in 1..(Len(s) + Len(t)) : (s \o t)[i] = IF i <= Len(s) THEN s[i] ELSE t[i - Len(s)]
  BY ConcatProperties
<1>2. Len(s) \in Nat \ {0} /\ Len(t) \in Nat
  BY EmptySeq, LenProperties
<1>3. s \o t # <<>>
  BY <1>1, <1>2, EmptySeq
<1>4. Head(s \o t) = Head(s)
  BY <1>1, <1>2
<1>5. /\ Tail(s) \in Seq(S)
      /\ Len(Tail(s)) = Len(s) - 1
      /\ \A i \in 1..Len(Tail(s)) : Tail(s)[i] = s[i + 1]
  BY HeadTailProperties
<1>6. /\ Tail(s \o t) \in Seq(S)
      /\ Len(Tail(s \o t)) = Len(s) + Len(t) - 1
      /\ \A i \in 1..Len(Tail(s \o t)) : Tail(s \o t)[i] = (s \o t)[i + 1]
  BY <1>1, <1>3, HeadTailProperties
<1>7. /\ Tail(s) \o t \in Seq(S)
      /\ Len(Tail(s) \o t) = Len(s) - 1 + Len(t)
      /\ \A i \in 1..(Len(s) - 1 + Len(t)) :
           (Tail(s) \o t)[i] = IF i <= Len(s) - 1 THEN Tail(s)[i] ELSE t[i - (Len(s) - 1)]
  BY <1>5, ConcatProperties
<1>8. ASSUME NEW i \in 1..Len(Tail(s \o t))
      PROVE  Tail(s \o t)[i] = (Tail(s) \o t)[i]
  <2>1. CASE i <= Len(s) - 1
    BY <2>1, <1>1, <1>2, <1>5, <1>6, <1>7
  <2>2. CASE ~(i <= Len(s) - 1)
    BY <2>2, <1>1, <1>2, <1>6, <1>7
  <2>3. QED
    BY <2>1, <2>2
<1>9. Len(Tail(s \o t)) = Len(Tail(s) \o t)
  BY <1>2, <1>6, <1>7
<1>10. Tail(s \o t) = Tail(s) \o t
  BY <1>6, <1>7, <1>8, <1>9, SeqEqual
<1>11. QED
  BY <1>3, <1>4, <1>10

\* What the abstract serializer sees while worker w has a batch ...
LEMMA ViewBatch ==
  ASSUME Q!JobQueueConstants, Q!MutualExclusion, NEW w \in Runners, Q!Batch(w)
  PROVE  /\ Q!Rest = IF doing[w] = "job" THEN Tail(executionList[w]) ELSE executionList[w]
         /\ Q!Running = IF doing[w] = "job" THEN Head(executionList[w]) ELSE NoneRuns
<1>1. Q!BatchOwner = w
  BY DEF Q!BatchOwner, Q!MutualExclusion, Q!Inside, Q!Batch
<1>2. QED
  BY <1>1 DEF Q!Rest, Q!Running

\* ... and in the next state.
LEMMA ViewBatchNext ==
  ASSUME Q!JobQueueConstants, Q!MutualExclusion', NEW w \in Runners, Q!Batch(w)'
  PROVE  /\ Q!Rest' = IF doing'[w] = "job" THEN Tail(executionList'[w]) ELSE executionList'[w]
         /\ Q!Running' = IF doing'[w] = "job" THEN Head(executionList'[w]) ELSE NoneRuns
<1>1. Q!BatchOwner' = w
  BY DEF Q!BatchOwner, Q!MutualExclusion, Q!Inside, Q!Batch
<1>2. QED
  BY <1>1 DEF Q!Rest, Q!Running

\* A step after which the same workers have the same batches at the same
\* place is invisible.
LEMMA ViewKept ==
  ASSUME Q!JobQueueConstants, Q!MutualExclusion, Q!MutualExclusion',
         \A u \in Runners : /\ Q!Batch(u)' <=> Q!Batch(u)
                            /\ Q!Batch(u) => /\ doing'[u] = doing[u]
                                             /\ executionList'[u] = executionList[u]
  PROVE  Q!Rest' = Q!Rest /\ Q!Running' = Q!Running
<1>1. CASE \E u \in Runners : Q!Batch(u)
  <2>1. PICK u \in Runners : Q!Batch(u)
    BY <1>1
  <2>2. Q!Batch(u)' /\ doing'[u] = doing[u] /\ executionList'[u] = executionList[u]
    BY <2>1
  <2>3. /\ Q!Rest = IF doing[u] = "job" THEN Tail(executionList[u]) ELSE executionList[u]
        /\ Q!Running = IF doing[u] = "job" THEN Head(executionList[u]) ELSE NoneRuns
    BY <2>1, ViewBatch
  <2>4. /\ Q!Rest' = IF doing'[u] = "job" THEN Tail(executionList'[u]) ELSE executionList'[u]
        /\ Q!Running' = IF doing'[u] = "job" THEN Head(executionList'[u]) ELSE NoneRuns
    BY <2>2, ViewBatchNext
  <2>5. QED
    BY <2>2, <2>3, <2>4
<1>2. CASE ~ \E u \in Runners : Q!Batch(u)
  BY <1>2 DEF Q!Rest, Q!Running
<1>3. QED
  BY <1>1, <1>2

\* What the abstract serializer sees is made of jobs.
LEMMA ViewType ==
  ASSUME Q!JobQueueConstants, Q!TypeOK, Q!MutualExclusion, BatchHeld
  PROVE  Q!Rest \in Seq(Q!Job)
<1>1. CASE \E u \in Runners : Q!Batch(u)
  <2>1. PICK u \in Runners : Q!Batch(u)
    BY <1>1
  <2>2. executionList[u] \in Seq(Q!Job)
    BY <2>1 DEF Q!TypeOK
  <2>3. doing[u] = "job" => Tail(executionList[u]) \in Seq(Q!Job)
    BY <2>1, <2>2, HeadTailProperties DEF BatchHeld
  <2>4. QED
    BY <2>1, <2>2, <2>3, ViewBatch
<1>2. CASE ~ \E u \in Runners : Q!Batch(u)
  BY <1>2 DEF Q!Rest
<1>3. QED
  BY <1>1, <1>2

\* Every step of the queue is a step of the abstract serializer, or is
\* invisible to it.
LEMMA QueueStepSimulation ==
  ASSUME Q!JobQueueConstants, QueueIInv, QueueIInv', [Q!Next]_(Q!vars)
  PROVE  [Q!Abstract!Next]_(Q!Abstract!vars)
<1> USE DEF QueueIInv, Q!Abstract!Next, Q!Abstract!vars
<1>1. ASSUME NEW p \in Callers, Q!Push(p) PROVE Q!Abstract!Next
  <2> DEFINE j == <<p, called[p] + 1>>
  <2>1. Q!Rest' = Q!Rest /\ Q!Running' = Q!Running
    BY <1>1, ViewKept DEF Q!Push, Q!Batch
  <2>2. j \in Q!Job
    BY <1>1 DEF Q!Push, Q!TypeOK, Q!Job
  <2>3. Q!Rest \o Append(jobs, j) = Append(Q!Rest \o jobs, j)
    <3>1. Q!Rest \in Seq(Q!Job) /\ jobs \in Seq(Q!Job)
      BY ViewType DEF Q!TypeOK
    <3> HIDE DEF j
    <3>2. QED
      BY <2>2, <3>1, AppendToConcat
  <2>4. QED
    BY <1>1, <2>1, <2>2, <2>3 DEF Q!Push, Q!Abstract!Submit
<1>2. ASSUME NEW p \in Callers, Q!PostExecute(p) PROVE UNCHANGED Q!Abstract!vars
  BY <1>2, ViewKept DEF Q!PostExecute, Q!Batch
<1>3. ASSUME NEW w \in Runners, Q!TakeTask(w) PROVE UNCHANGED Q!Abstract!vars
  BY <1>3, ViewKept DEF Q!TakeTask, Q!Batch, Q!TypeOK
<1>4. ASSUME NEW w \in Runners, Q!Exchange(w) PROVE UNCHANGED Q!Abstract!vars
  BY <1>4, ViewKept DEF Q!Exchange, Q!Batch, Q!TypeOK
<1>5. ASSUME NEW w \in Runners, Q!SwapJobs(w) PROVE UNCHANGED Q!Abstract!vars
  <2>1. Q!Batch(w)' /\ Q!Inside(w)
    BY <1>5 DEF Q!SwapJobs, Q!Batch, Q!Inside, Q!TypeOK
  <2>2. Q!Rest' = jobs /\ Q!Running' = NoneRuns
    BY <1>5, <2>1, ViewBatchNext DEF Q!SwapJobs, Q!TypeOK
  <2>3. \A u \in Runners : ~Q!Batch(u)
    BY <1>5, <2>1 DEF Q!SwapJobs, Q!Batch, Q!Inside, Q!MutualExclusion
  <2>4. Q!Rest = <<>> /\ Q!Running = NoneRuns
    BY <2>3 DEF Q!Rest, Q!Running
  <2>5. QED
    BY <1>5, <2>2, <2>4, ConcatEmptySeq DEF Q!SwapJobs, Q!TypeOK
<1>6. ASSUME NEW w \in Runners, Q!FoundEmpty(w) PROVE UNCHANGED Q!Abstract!vars
  BY <1>6, ViewKept DEF Q!FoundEmpty, Q!Batch, Q!TypeOK
<1>7. ASSUME NEW w \in Runners, Q!ClearFlag(w) PROVE UNCHANGED Q!Abstract!vars
  BY <1>7, ViewKept DEF Q!ClearFlag, Q!Batch, Q!TypeOK
<1>8. ASSUME NEW w \in Runners, Q!StartJob(w) PROVE Q!Abstract!Next
  <2>1. /\ Q!Batch(w) /\ doing[w] = "run"
        /\ Q!Batch(w)' /\ doing'[w] = "job"
        /\ executionList' = executionList
    BY <1>8 DEF Q!StartJob, Q!Batch, Q!TypeOK
  <2>2. /\ Q!Rest = executionList[w] /\ Q!Running = NoneRuns
        /\ Q!Rest' = Tail(executionList[w]) /\ Q!Running' = Head(executionList[w])
    BY <2>1, ViewBatch, ViewBatchNext
  <2>3. executionList[w] # <<>> /\ executionList[w] \in Seq(Q!Job) /\ jobs' = jobs
    BY <1>8 DEF Q!StartJob, Q!TypeOK
  <2>4. jobs \in Seq(Q!Job)
    BY DEF Q!TypeOK
  <2>5. /\ executionList[w] \o jobs # <<>>
        /\ Head(executionList[w] \o jobs) = Head(executionList[w])
        /\ Tail(executionList[w] \o jobs) = Tail(executionList[w]) \o jobs
    BY <2>3, <2>4, HeadTailOfConcat
  <2>6. QED
    BY <2>2, <2>3, <2>5 DEF Q!Abstract!Start
<1>9. ASSUME NEW w \in Runners, Q!FinishJob(w) PROVE Q!Abstract!Next
  <2>1. /\ Q!Batch(w) /\ doing[w] = "job"
        /\ Q!Batch(w)' /\ doing'[w] = "run"
        /\ executionList'[w] = Tail(executionList[w])
    BY <1>9 DEF Q!FinishJob, Q!Batch, Q!TypeOK
  <2>2. /\ Q!Rest = Tail(executionList[w]) /\ Q!Running = Head(executionList[w])
        /\ Q!Rest' = Tail(executionList[w]) /\ Q!Running' = NoneRuns
    BY <2>1, ViewBatch, ViewBatchNext
  <2>3. Head(executionList[w]) \in Q!Job
    BY <2>1, HeadTailProperties DEF Q!TypeOK, BatchHeld
  <2>4. Head(executionList[w]) # NoneRuns
    BY <2>3 DEF Q!Job
  <2>5. QED
    BY <1>9, <2>2, <2>4 DEF Q!FinishJob, Q!Abstract!Finish
<1>10. ASSUME NEW w \in Runners, Q!LoopBack(w) PROVE UNCHANGED Q!Abstract!vars
  <2>1. /\ Q!Batch(w) /\ doing[w] = "run" /\ ~Q!Batch(w)'
        /\ \A u \in Runners : u # w => (Q!Batch(u)' <=> Q!Batch(u))
    BY <1>10 DEF Q!LoopBack, Q!Batch, Q!TypeOK
  <2>2. Q!Rest = <<>> /\ Q!Running = NoneRuns
    BY <1>10, <2>1, ViewBatch DEF Q!LoopBack
  <2>3. \A u \in Runners : ~Q!Batch(u)'
    BY <2>1 DEF Q!MutualExclusion, Q!Inside, Q!Batch
  <2>4. Q!Rest' = <<>> /\ Q!Running' = NoneRuns
    BY <2>3 DEF Q!Rest, Q!Running
  <2>5. QED
    BY <1>10, <2>2, <2>4 DEF Q!LoopBack
<1>11. CASE UNCHANGED Q!vars
  BY <1>11, ViewKept DEF Q!vars, Q!Batch
<1>12. QED
  BY QueueCases, <1>1, <1>2, <1>3, <1>4, <1>5, <1>6, <1>7, <1>8, <1>9, <1>10, <1>11
  DEF Q!WorkerStep

\* The queue, the flag and the pool's closures together run the posted jobs
\* one at a time, each once, in queue order (the safety part of
\* ImplementsSerializer).
THEOREM SerializerImplemented ==
  ASSUME Q!JobQueueConstants PROVE Q!Spec => Q!Abstract!Safety
<1>1. Q!Init => Q!Abstract!Init
  <2> SUFFICES ASSUME Q!Init PROVE Q!Abstract!Init
    OBVIOUS
  <2>1. \A u \in Runners : ~Q!Batch(u)
    BY DEF Q!Init, Q!Batch
  <2>2. Q!Rest = <<>> /\ Q!Running = NoneRuns /\ jobs = <<>>
    BY <2>1 DEF Q!Rest, Q!Running, Q!Init
  <2>3. QED
    BY <2>2 DEF Q!Abstract!Init
<1>2. QueueIInv /\ QueueIInv' /\ [Q!Next]_(Q!vars) => [Q!Abstract!Next]_(Q!Abstract!vars)
  BY QueueStepSimulation
<1>3. QED
  BY <1>1, <1>2, QueueInvariance, PTL DEF Q!Spec, Q!Abstract!Safety
=============================================================================
