------------------------------ MODULE JobQueue ------------------------------
(***************************************************************************)
(* The job queue behind every Zone (JobQueue.h, JobSerializer.h).  A       *)
(* poster thread pushes a job under lock_ and then hands the worker pool a *)
(* closure that calls Execute.  Execute admits one thread through the      *)
(* atomic flag isExecuting_, takes the whole queue in one swap, runs the   *)
(* jobs without the lock and clears the flag, still under the lock, only   *)
(* when it finds the queue empty.                                          *)
(*                                                                         *)
(* The pool is represented by the number of Execute closures it holds; the *)
(* module WorkerPool models how it hands them to the worker threads.       *)
(***************************************************************************)
EXTENDS Naturals, Sequences

CONSTANTS Workers,   \* threads of GlobalWorkerPool()
          Posters,   \* threads that call JobSerializer::Post
          MaxPosts,  \* bound: jobs each poster posts
          NoThread,  \* the owner of a free lock_
          NoJob      \* no job is being run

JobQueueConstants ==
  /\ Workers \cap Posters = {}
  /\ NoThread \notin Workers \cup Posters
  /\ MaxPosts \in Nat \ {0}
  /\ NoJob \notin Posters \X (1..MaxPosts)

Job == Posters \X (1..MaxPosts)   \* the n-th job of a poster

ASSUME JobQueueAssumption == JobQueueConstants

VARIABLES
  jobs,          \* jobs_, oldest first
  isExecuting,   \* isExecuting_
  lockOwner,     \* the thread that holds lock_ across steps
  pc,            \* what each worker does
  executionList, \* Execute's local vector, per worker
  posterPc,      \* "idle", or "pushed": job queued, closure not yet posted
  posted,        \* number of jobs each poster has pushed
  execTasks      \* Execute closures waiting in the worker pool

vars == <<jobs, isExecuting, lockOwner, pc, executionList,
          posterPc, posted, execTasks>>

\* Program points of a worker: "idle" in the pool's loop, "enter" before the
\* exchange, "swap" before the lock, "clear" inside the lock with an empty
\* queue, "run" between two jobs, "job" inside a job.
WorkerPc == {"idle", "enter", "swap", "clear", "run", "job"}

Inside(w) == pc[w] \in {"swap", "clear", "run", "job"}
Batch(w)  == pc[w] \in {"run", "job"}

Init ==
  /\ jobs = <<>>
  /\ isExecuting = FALSE
  /\ lockOwner = NoThread
  /\ pc = [w \in Workers |-> "idle"]
  /\ executionList = [w \in Workers |-> <<>>]
  /\ posterPc = [p \in Posters |-> "idle"]
  /\ posted = [p \in Posters |-> 0]
  /\ execTasks = 0

-----------------------------------------------------------------------------
\* JobSerializer::Post, by any thread.

\* Bug: the newest job first.
PushInFront(p) ==
  /\ posterPc[p] = "idle"
  /\ posted[p] < MaxPosts
  /\ lockOwner = NoThread
  /\ jobs' = <<<<p, posted[p] + 1>>>> \o jobs
  /\ posted' = [posted EXCEPT ![p] = @ + 1]
  /\ posterPc' = [posterPc EXCEPT ![p] = "pushed"]
  /\ UNCHANGED <<isExecuting, lockOwner, pc, executionList, execTasks>>

\* JobQueue::Push: append under lock_.
Push(p) ==
  /\ posterPc[p] = "idle"
  /\ posted[p] < MaxPosts
  /\ lockOwner = NoThread
  /\ jobs' = Append(jobs, <<p, posted[p] + 1>>)
  /\ posted' = [posted EXCEPT ![p] = @ + 1]
  /\ posterPc' = [posterPc EXCEPT ![p] = "pushed"]
  /\ UNCHANGED <<isExecuting, lockOwner, pc, executionList, execTasks>>

\* GlobalWorkerPool().Post of the closure that calls Execute.
PostExecute(p) ==
  /\ posterPc[p] = "pushed"
  /\ posterPc' = [posterPc EXCEPT ![p] = "idle"]
  /\ execTasks' = execTasks + 1
  /\ UNCHANGED <<jobs, isExecuting, lockOwner, pc, executionList, posted>>

-----------------------------------------------------------------------------
\* Execute, by a worker of the pool.

\* The pool hands an Execute closure to an idle worker.
TakeTask(w) ==
  /\ pc[w] = "idle"
  /\ execTasks > 0
  /\ execTasks' = execTasks - 1
  /\ pc' = [pc EXCEPT ![w] = "enter"]
  /\ UNCHANGED <<jobs, isExecuting, lockOwner, executionList, posterPc, posted>>

\* Bug: the result of the exchange is not looked at.
ExchangeUnchecked(w) ==
  /\ pc[w] = "enter"
  /\ isExecuting' = TRUE
  /\ pc' = [pc EXCEPT ![w] = "swap"]
  /\ UNCHANGED <<jobs, lockOwner, executionList, posterPc, posted, execTasks>>

\* isExecuting_.exchange(true): leave when it was already set.
Exchange(w) ==
  /\ pc[w] = "enter"
  /\ isExecuting' = TRUE
  /\ pc' = [pc EXCEPT ![w] = IF isExecuting THEN "idle" ELSE "swap"]
  /\ UNCHANGED <<jobs, lockOwner, executionList, posterPc, posted, execTasks>>

\* The critical section, queue not empty: swap it out.
SwapJobs(w) ==
  /\ pc[w] = "swap"
  /\ lockOwner = NoThread
  /\ jobs # <<>>
  /\ executionList' = [executionList EXCEPT ![w] = jobs]
  /\ jobs' = <<>>
  /\ pc' = [pc EXCEPT ![w] = "run"]
  /\ UNCHANGED <<isExecuting, lockOwner, posterPc, posted, execTasks>>

\* Bug: the lock is given up before the store.
FoundEmptyUnlocks(w) ==
  /\ pc[w] = "swap"
  /\ lockOwner = NoThread
  /\ jobs = <<>>
  /\ pc' = [pc EXCEPT ![w] = "clear"]
  /\ UNCHANGED <<jobs, isExecuting, lockOwner, executionList, posterPc, posted, execTasks>>

\* The critical section, queue empty: keep lock_ up to the store.
FoundEmpty(w) ==
  /\ pc[w] = "swap"
  /\ lockOwner = NoThread
  /\ jobs = <<>>
  /\ lockOwner' = w
  /\ pc' = [pc EXCEPT ![w] = "clear"]
  /\ UNCHANGED <<jobs, isExecuting, executionList, posterPc, posted, execTasks>>

\* isExecuting_.store(false), unlock and return.
ClearFlag(w) ==
  /\ pc[w] = "clear"
  /\ isExecuting' = FALSE
  /\ lockOwner' = NoThread
  /\ pc' = [pc EXCEPT ![w] = "idle"]
  /\ UNCHANGED <<jobs, executionList, posterPc, posted, execTasks>>

\* The for loop enters the next job of the batch.
StartJob(w) ==
  /\ pc[w] = "run"
  /\ executionList[w] # <<>>
  /\ pc' = [pc EXCEPT ![w] = "job"]
  /\ UNCHANGED <<jobs, isExecuting, lockOwner, executionList,
                 posterPc, posted, execTasks>>

\* The job returns or throws; either way the loop goes on.
FinishJob(w) ==
  /\ pc[w] = "job"
  /\ executionList' = [executionList EXCEPT ![w] = Tail(@)]
  /\ pc' = [pc EXCEPT ![w] = "run"]
  /\ UNCHANGED <<jobs, isExecuting, lockOwner, posterPc, posted, execTasks>>

\* The batch is finished: look at the queue again.
LoopBack(w) ==
  /\ pc[w] = "run"
  /\ executionList[w] = <<>>
  /\ pc' = [pc EXCEPT ![w] = "swap"]
  /\ UNCHANGED <<jobs, isExecuting, lockOwner, executionList,
                 posterPc, posted, execTasks>>

WorkerStep(w) == \/ TakeTask(w)
                 \/ Exchange(w)
                 \/ SwapJobs(w)
                 \/ FoundEmpty(w)
                 \/ ClearFlag(w)
                 \/ StartJob(w)
                 \/ FinishJob(w)
                 \/ LoopBack(w)

\* Every poster is through and every worker is back in the pool's loop with
\* nothing to run: the only state in which the model may stop.  Jobs left in
\* the queue here would be a deadlock.
Quiescent ==
  /\ \A p \in Posters : posterPc[p] = "idle" /\ posted[p] = MaxPosts
  /\ \A w \in Workers : pc[w] = "idle"
  /\ execTasks = 0
  /\ jobs = <<>>
  /\ UNCHANGED vars

Next == \/ \E p \in Posters : Push(p) \/ PostExecute(p)
        \/ \E w \in Workers : WorkerStep(w)
        \/ Quiescent

\* A poster that has pushed goes on to post (the next statement), and a
\* worker thread that can take a step eventually takes it.  Nobody is obliged
\* to push.
Fairness == /\ \A p \in Posters : WF_vars(PostExecute(p))
            /\ \A w \in Workers : WF_vars(WorkerStep(w))

Spec == Init /\ [][Next]_vars /\ Fairness

-----------------------------------------------------------------------------
\* The state of the variables.
TypeOK ==
  /\ jobs \in Seq(Job)
  /\ isExecuting \in BOOLEAN
  /\ lockOwner \in Workers \cup {NoThread}
  /\ pc \in [Workers -> WorkerPc]
  /\ executionList \in [Workers -> Seq(Job)]
  /\ posterPc \in [Posters -> {"idle", "pushed"}]
  /\ posted \in [Posters -> 0..MaxPosts]
  /\ execTasks \in Nat

\* At most one thread is past the exchange in Execute, so the state of a Zone
\* is touched by one thread at a time.
MutualExclusion ==
  \A u, w \in Workers : Inside(u) /\ Inside(w) => u = w

\* A queued job is never forgotten: some thread is still going to look at the
\* queue (it will lock it, or an Execute closure is on its way) although
\* Execute returns early whenever another thread is inside.
WillLook(w) == pc[w] \in {"enter", "swap", "run", "job"}

NoStrandedJob ==
  jobs # <<>> => \/ \E w \in Workers : WillLook(w)
                 \/ execTasks > 0
                 \/ \E p \in Posters : posterPc[p] = "pushed"

-----------------------------------------------------------------------------
\* The abstract serializer this module implements: the job of the thread that
\* is inside a job, and before the queue the rest of the batch that was
\* swapped out of it.
BatchOwner == CHOOSE w \in Workers : Batch(w)

Rest == IF \E w \in Workers : Batch(w)
        THEN IF pc[BatchOwner] = "job"
             THEN Tail(executionList[BatchOwner])
             ELSE executionList[BatchOwner]
        ELSE <<>>

Running == IF \E w \in Workers : Batch(w) /\ pc[BatchOwner] = "job"
           THEN Head(executionList[BatchOwner])
           ELSE NoJob

Abstract == INSTANCE Serializer WITH queue <- Rest \o jobs, running <- Running

\* Jobs run one at a time, once each and in queue order, and none waits
\* forever: the code implements the abstract serializer.
ImplementsSerializer == Abstract!Spec
=============================================================================
