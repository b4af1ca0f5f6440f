----------------------------- MODULE WorkerPool -----------------------------
(***************************************************************************)
(* The work-stealing pool behind every JobSerializer                       *)
(* (WorkStealingThreadPool.h, WorkStealingQueue.h).  Post pushes a closure *)
(* on one of the deques, counts it in pending_, and notifies only when     *)
(* somebody sleeps.  A worker takes from the back of its own deque, steals *)
(* from the front of the others, one deque at a time, and sleeps after a   *)
(* number of vain attempts.                                                *)
(*                                                                         *)
(* The atomics are sequentially consistent (the code uses the default      *)
(* order).  The spin bound SPIN_BEFORE_SLEEP only delays: after a vain     *)
(* scan a worker may scan again or go to sleep.                            *)
(***************************************************************************)
EXTENDS Integers, Sequences, FiniteSets

CONSTANTS NumThreads, \* threadCount_
          Posters,    \* threads that call Post
          MaxPosts,   \* bound: closures each poster posts
          Stopper,    \* the thread that calls Stop
          NoThread,   \* the owner of a free sleepMutex_
          NoJob

Workers == 0..(NumThreads - 1)
Job == Posters \X (1..MaxPosts)   \* the n-th closure of a poster

ASSUME WorkerPoolAssumption ==
  /\ NumThreads \in Nat \ {0}
  /\ MaxPosts \in Nat
  /\ NoJob \notin Job
  /\ Posters \cap Workers = {}
  /\ Stopper \notin Workers \cup Posters
  /\ NoThread \notin Workers \cup Posters \cup {Stopper}

VARIABLES
  deque,      \* queues_, the front first
  pending,    \* pending_
  sleepers,   \* sleepers_
  isRunning,  \* isRunning_
  mutexOwner, \* the thread that holds sleepMutex_ across steps
  waiters,    \* workers blocked in sleepCv_.wait and not yet notified
  pc,         \* what each worker does
  offset,     \* the offset of TryGetJob, per worker
  job,        \* the closure a worker holds
  posterPc,   \* "idle", "pushed" (not counted yet), "counted", "notify"
  posted,     \* closures each poster has pushed
  stopPc      \* "idle", "flagged", "unlocked", "joining", "done"

vars == <<deque, pending, sleepers, isRunning, mutexOwner, waiters, pc, offset,
          job, posterPc, posted, stopPc>>

\* "loop" at the head of the while, "scan" in TryGetJob, "got" before the
\* decrement of pending_, "run" in the closure, "idle" after a vain scan,
\* "lock" before sleepMutex_, "pending" and "running" at the two halves of the
\* wait's predicate, "block" when it was false, "wait" blocked, "wake" notified,
\* "up" after the wait.
WorkerPc == {"loop", "scan", "got", "run", "idle", "lock", "pending", "running",
             "block", "wait", "wake", "up", "exit"}

Init ==
  /\ deque = [w \in Workers |-> <<>>]
  /\ pending = 0
  /\ sleepers = 0
  /\ isRunning = TRUE
  /\ mutexOwner = NoThread
  /\ waiters = {}
  /\ pc = [w \in Workers |-> "loop"]
  /\ offset = [w \in Workers |-> 0]
  /\ job = [w \in Workers |-> NoJob]
  /\ posterPc = [p \in Posters |-> "idle"]
  /\ posted = [p \in Posters |-> 0]
  /\ stopPc = "idle"

-----------------------------------------------------------------------------
\* Post, by any thread, a worker inside a closure included.

\* WorkStealingQueue::Push on a deque chosen at random.
Push(p) ==
  /\ posterPc[p] = "idle"
  /\ posted[p] < MaxPosts
  /\ \E w \in Workers : deque' = [deque EXCEPT ![w] = Append(@, <<p, posted[p] + 1>>)]
  /\ posted' = [posted EXCEPT ![p] = @ + 1]
  /\ posterPc' = [posterPc EXCEPT ![p] = "pushed"]
  /\ UNCHANGED <<pending, sleepers, isRunning, mutexOwner, waiters, pc, offset, job, stopPc>>

\* pending_.fetch_add(1).
Count(p) ==
  /\ posterPc[p] = "pushed"
  /\ pending' = pending + 1
  /\ posterPc' = [posterPc EXCEPT ![p] = "counted"]
  /\ UNCHANGED <<deque, sleepers, isRunning, mutexOwner, waiters, pc, offset, job, posted, stopPc>>

\* sleepers_.load().
LookForSleepers(p) ==
  /\ posterPc[p] = "counted"
  /\ posterPc' = [posterPc EXCEPT ![p] = IF sleepers > 0 THEN "notify" ELSE "idle"]
  /\ UNCHANGED <<deque, pending, sleepers, isRunning, mutexOwner, waiters, pc, offset, job,
                 posted, stopPc>>

\* Bug: notifies without sleepMutex_.
NotifyOneUnlocked(p) ==
  /\ posterPc[p] = "notify"
  /\ \/ waiters = {} /\ UNCHANGED <<waiters, pc>>
     \/ \E w \in waiters : /\ waiters' = waiters \ {w}
                           /\ pc' = [pc EXCEPT ![w] = "wake"]
  /\ posterPc' = [posterPc EXCEPT ![p] = "idle"]
  /\ UNCHANGED <<deque, pending, sleepers, isRunning, mutexOwner, offset, job, posted, stopPc>>

\* notify_one under the mutex: one of the waiters, if there is one, may go on.
NotifyOne(p) ==
  /\ posterPc[p] = "notify"
  /\ mutexOwner = NoThread
  /\ \/ waiters = {} /\ UNCHANGED <<waiters, pc>>
     \/ \E w \in waiters : /\ waiters' = waiters \ {w}
                           /\ pc' = [pc EXCEPT ![w] = "wake"]
  /\ posterPc' = [posterPc EXCEPT ![p] = "idle"]
  /\ UNCHANGED <<deque, pending, sleepers, isRunning, mutexOwner, offset, job, posted, stopPc>>

-----------------------------------------------------------------------------
\* WorkerLoop.

Goto(w, to) == pc' = [pc EXCEPT ![w] = to]

\* The while condition.
Loop(w) ==
  /\ pc[w] = "loop"
  /\ Goto(w, IF isRunning THEN "scan" ELSE "exit")
  /\ offset' = [offset EXCEPT ![w] = 0]
  /\ UNCHANGED <<deque, pending, sleepers, isRunning, mutexOwner, waiters, job, posterPc,
                 posted, stopPc>>

Victim(w) == (w + offset[w]) % NumThreads

\* Pop from the back of the own deque, Steal from the front of another.
FromDeque(w, q) == IF offset[w] = 0 THEN q[Len(q)] ELSE Head(q)
\* Bug: a thief reads the front and removes the back.
LeftInDequeWrongEnd(w, q) == SubSeq(q, 1, Len(q) - 1)
LeftInDeque(w, q) == IF offset[w] = 0 THEN SubSeq(q, 1, Len(q) - 1) ELSE Tail(q)

\* One deque of TryGetJob.
TryGetJob(w) ==
  /\ pc[w] = "scan"
  /\ LET v == Victim(w) IN
       \/ /\ deque[v] # <<>>
          /\ job' = [job EXCEPT ![w] = FromDeque(w, deque[v])]
          /\ deque' = [deque EXCEPT ![v] = LeftInDeque(w, @)]
          /\ Goto(w, "got")
          /\ UNCHANGED offset
       \/ /\ deque[v] = <<>>
          /\ offset[w] + 1 < NumThreads
          /\ offset' = [offset EXCEPT ![w] = @ + 1]
          /\ UNCHANGED <<job, deque, pc>>
       \/ /\ deque[v] = <<>>
          /\ offset[w] + 1 = NumThreads
          /\ Goto(w, "idle")
          /\ UNCHANGED <<job, deque, offset>>
  /\ UNCHANGED <<pending, sleepers, isRunning, mutexOwner, waiters, posterPc, posted, stopPc>>

\* Bug: never lets pending_ go below zero.
UncountClamped(w) ==
  /\ pc[w] = "got"
  /\ pending' = IF pending > 0 THEN pending - 1 ELSE pending
  /\ Goto(w, "run")
  /\ UNCHANGED <<deque, sleepers, isRunning, mutexOwner, waiters, offset, job, posterPc,
                 posted, stopPc>>

\* pending_.fetch_sub(1).
Uncount(w) ==
  /\ pc[w] = "got"
  /\ pending' = pending - 1
  /\ Goto(w, "run")
  /\ UNCHANGED <<deque, sleepers, isRunning, mutexOwner, waiters, offset, job, posterPc,
                 posted, stopPc>>

\* The closure returns or throws.
RunJob(w) ==
  /\ pc[w] = "run"
  /\ job' = [job EXCEPT ![w] = NoJob]
  /\ Goto(w, "loop")
  /\ UNCHANGED <<deque, pending, sleepers, isRunning, mutexOwner, waiters, offset, posterPc,
                 posted, stopPc>>

\* A vain scan: spin, or go to sleep.
SpinOrSleep(w) ==
  /\ pc[w] = "idle"
  /\ Goto(w, "loop") \/ Goto(w, "lock")
  /\ UNCHANGED <<deque, pending, sleepers, isRunning, mutexOwner, waiters, offset, job,
                 posterPc, posted, stopPc>>

\* Bug: locks without counting the sleeper.
LockToSleepUncounted(w) ==
  /\ pc[w] = "lock"
  /\ mutexOwner = NoThread
  /\ mutexOwner' = w
  /\ Goto(w, "pending")
  /\ UNCHANGED <<deque, pending, sleepers, isRunning, waiters, offset, job, posterPc, posted,
                 stopPc>>

\* Lock sleepMutex_ and count among the sleepers.
LockToSleep(w) ==
  /\ pc[w] = "lock"
  /\ mutexOwner = NoThread
  /\ mutexOwner' = w
  /\ sleepers' = sleepers + 1
  /\ Goto(w, "pending")
  /\ UNCHANGED <<deque, pending, isRunning, waiters, offset, job, posterPc, posted, stopPc>>

\* First half of the predicate: pending_.load() > 0.
CheckPending(w) ==
  /\ pc[w] = "pending"
  /\ Goto(w, IF pending > 0 THEN "up" ELSE "running")
  /\ UNCHANGED <<deque, pending, sleepers, isRunning, mutexOwner, waiters, offset, job,
                 posterPc, posted, stopPc>>

\* Second half: !isRunning_.load().
CheckRunning(w) ==
  /\ pc[w] = "running"
  /\ Goto(w, IF isRunning THEN "block" ELSE "up")
  /\ UNCHANGED <<deque, pending, sleepers, isRunning, mutexOwner, waiters, offset, job,
                 posterPc, posted, stopPc>>

\* The predicate was false: block, giving up the mutex.
Block(w) ==
  /\ pc[w] = "block"
  /\ Goto(w, "wait")
  /\ mutexOwner' = NoThread
  /\ waiters' = waiters \cup {w}
  /\ UNCHANGED <<deque, pending, sleepers, isRunning, offset, job, posterPc, posted, stopPc>>

\* A spurious wakeup.
WakeForNothing(w) ==
  /\ w \in waiters
  /\ waiters' = waiters \ {w}
  /\ Goto(w, "wake")
  /\ UNCHANGED <<deque, pending, sleepers, isRunning, mutexOwner, offset, job, posterPc,
                 posted, stopPc>>

\* The wait takes the mutex back and evaluates its predicate again.
Relock(w) ==
  /\ pc[w] = "wake"
  /\ mutexOwner = NoThread
  /\ mutexOwner' = w
  /\ Goto(w, "pending")
  /\ UNCHANGED <<deque, pending, sleepers, isRunning, waiters, offset, job, posterPc,
                 posted, stopPc>>

\* Awake: no sleeper any more, unlock.
GetUp(w) ==
  /\ pc[w] = "up"
  /\ sleepers' = sleepers - 1
  /\ mutexOwner' = NoThread
  /\ Goto(w, "loop")
  /\ UNCHANGED <<deque, pending, isRunning, waiters, offset, job, posterPc, posted, stopPc>>

WorkerStep(w) == \/ Loop(w)
                 \/ TryGetJob(w)
                 \/ Uncount(w)
                 \/ RunJob(w)
                 \/ SpinOrSleep(w)
                 \/ LockToSleep(w)
                 \/ CheckPending(w)
                 \/ CheckRunning(w)
                 \/ Block(w)
                 \/ Relock(w)
                 \/ GetUp(w)

-----------------------------------------------------------------------------
\* Stop.

\* isRunning_.exchange(false).
BeginStop ==
  /\ stopPc = "idle"
  /\ isRunning' = FALSE
  /\ stopPc' = "flagged"
  /\ UNCHANGED <<deque, pending, sleepers, mutexOwner, waiters, pc, offset, job, posterPc, posted>>

\* Bug: does not pass through sleepMutex_.
PassMutexUnlocked ==
  /\ stopPc = "flagged"
  /\ stopPc' = "unlocked"
  /\ UNCHANGED <<deque, pending, sleepers, isRunning, mutexOwner, waiters, pc, offset, job,
                 posterPc, posted>>

\* Lock and unlock sleepMutex_, so that no worker is between predicate and wait.
PassMutex ==
  /\ stopPc = "flagged"
  /\ mutexOwner = NoThread
  /\ stopPc' = "unlocked"
  /\ UNCHANGED <<deque, pending, sleepers, isRunning, mutexOwner, waiters, pc, offset, job,
                 posterPc, posted>>

\* notify_all.
NotifyAll ==
  /\ stopPc = "unlocked"
  /\ waiters' = {}
  /\ pc' = [w \in Workers |-> IF w \in waiters THEN "wake" ELSE pc[w]]
  /\ stopPc' = "joining"
  /\ UNCHANGED <<deque, pending, sleepers, isRunning, mutexOwner, offset, job, posterPc, posted>>

\* All workers have been joined.
Joined ==
  /\ stopPc = "joining"
  /\ \A w \in Workers : pc[w] = "exit"
  /\ stopPc' = "done"
  /\ UNCHANGED <<deque, pending, sleepers, isRunning, mutexOwner, waiters, pc, offset, job,
                 posterPc, posted>>

-----------------------------------------------------------------------------
PosterStep(p) == Count(p) \/ LookForSleepers(p) \/ NotifyOne(p)
StopStep == PassMutex \/ NotifyAll \/ Joined

Next == \/ \E p \in Posters : Push(p) \/ PosterStep(p)
        \/ \E w \in Workers : WorkerStep(w) \/ WakeForNothing(w)
        \/ BeginStop
        \/ StopStep

Safety == Init /\ [][Next]_vars

\* Threads that can take a step take it; a mutex that is free again and again
\* is obtained.  Nobody owes a push, a Stop, or a spurious wakeup.
Fairness == /\ \A p \in Posters : WF_vars(Count(p) \/ LookForSleepers(p))
                                  /\ SF_vars(NotifyOne(p))
            /\ \A w \in Workers : WF_vars(WorkerStep(w))
                                  /\ SF_vars(LockToSleep(w)) /\ SF_vars(Relock(w))
            /\ SF_vars(PassMutex)
            /\ WF_vars(NotifyAll \/ Joined)

Spec == Safety /\ Fairness

-----------------------------------------------------------------------------
\* The types of the variables.
TypeOK ==
  /\ deque \in [Workers -> Seq(Job)]
  /\ pending \in Int
  /\ sleepers \in Nat
  /\ isRunning \in BOOLEAN
  /\ mutexOwner \in Workers \cup {NoThread}
  /\ waiters \subseteq Workers
  /\ pc \in [Workers -> WorkerPc]
  /\ offset \in [Workers -> Workers]
  /\ job \in [Workers -> Job \cup {NoJob}]
  /\ posterPc \in [Posters -> {"idle", "pushed", "counted", "notify"}]
  /\ posted \in [Posters -> 0..MaxPosts]
  /\ stopPc \in {"idle", "flagged", "unlocked", "joining", "done"}

\* pending_ counts the queued closures, up to those a poster has not counted
\* yet or a worker still counts; it may be negative for a moment.
Places == UNION {{w} \X DOMAIN deque[w] : w \in Workers}
QueuedCount == Cardinality(Places)

PendingIsExact ==
  pending = QueuedCount + Cardinality({w \in Workers : pc[w] = "got"})
                           - Cardinality({p \in Posters : posterPc[p] = "pushed"})

\* No lost wakeup: while the pool runs and no Post is under way, a worker sleeps
\* only if every queued closure has a worker of its own that is awake and not
\* in a closure, although Post notifies without looking at the deques, only
\* when it sees a sleeper, and pending_ may lag behind them.
Free(w) == w \notin waiters /\ pc[w] \notin {"got", "run"}
NoLostWakeup ==
  isRunning /\ waiters # {} /\ (\A p \in Posters : posterPc[p] = "idle") =>
    QueuedCount <= Cardinality({w \in Workers : Free(w)})

Queued == {j \in Job : \E w \in Workers : \E i \in DOMAIN deque[w] : deque[w][i] = j}

Submitted == {j \in Job : j[2] <= posted[j[1]]}

Abstract == INSTANCE Executor WITH Worker <- Workers, waiting <- Queued,
                                   submitted <- Submitted, running <- job,
                                   stopped <- ~isRunning

\* The pool is the executor JobSerializer::Post relies on.  Every closure is run at
\* most once, by one worker: a Pop and a Steal that meet on one deque never hand
\* out the same closure.  And none waits while all workers stand still.
ImplementsExecutor == Abstract!Spec

\* Stop returns, whoever is going to sleep at that moment.
StopReturns == stopPc = "flagged" ~> stopPc = "done"
=============================================================================
