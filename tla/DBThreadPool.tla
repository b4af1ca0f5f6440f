---------------------------- MODULE DBThreadPool ----------------------------
(***************************************************************************)
(* The database thread pool (DBThreadPool.cpp).  Every worker owns a queue *)
(* and a MySQL session that it opens when it has its first task.  A task   *)
(* with a key goes to the worker of the key, any other task to the workers *)
(* in turn.  The server and its connections fail and come back; the        *)
(* destructor asks the workers to stop and waits for them.                 *)
(*                                                                         *)
(* Waiting on the condition variable of a worker is the guard of the step  *)
(* that follows: queue and stop are written under the mutex the predicate  *)
(* is evaluated under, and every write is followed by a notification.      *)
(***************************************************************************)
EXTENDS Naturals, Sequences, FiniteSets

CONSTANTS Workers,   \* workers_
          WorkerAt,  \* workers_[i], for i in 0..NumWorkers - 1
          NumWorkers,
          Keys,      \* keys of tasks that must stay in order (playerIDs)
          WorkerOf,  \* workers_[key % workers_.size()]
          MaxTasks,  \* bound: tasks pushed with each key, or without key
          MayFail,   \* may the server go down, and sessions die?
          NoKey, NoTask

Task == (Keys \cup {NoKey}) \X (1..MaxTasks)   \* the n-th task of a key
KeyOf(t) == t[1]

ASSUME DBThreadPoolAssumption ==
  /\ NumWorkers \in Nat \ {0}
  /\ WorkerAt \in [0..(NumWorkers - 1) -> Workers]
  /\ WorkerOf \in [Keys -> Workers]
  /\ MaxTasks \in Nat
  /\ MayFail \in BOOLEAN
  /\ NoKey \notin Keys
  /\ NoTask \notin Task

VARIABLES
  queue,      \* Worker::queue
  stop,       \* Worker::stop
  pc,         \* where each worker is in WorkerLoop
  task,       \* the local task of WorkerLoop
  session,    \* its MySQL session: "none", "live", or "dead"
  nextWorker, \* nextWorker_, modulo the number of workers
  serverUp,   \* MySQL accepts connections
  destructor, \* "no", "stopping" while it joins the workers, "done"
  pushed,     \* tasks pushed so far, per key
  ran,        \* tasks that were called, oldest first
  executed    \* tasks that were called on a live session

vars == <<queue, stop, pc, task, session, nextWorker, serverUp, destructor,
          pushed, ran, executed>>

\* "wait" at cv.wait, "ping" before the check of an idle session, "connect"
\* before an attempt to connect, "retry" after a failed one, "run" before the
\* call of the task, "check" after it threw, "exit" after the loop.
WorkerPc == {"wait", "ping", "connect", "retry", "run", "check", "exit"}

Init ==
  /\ queue = [w \in Workers |-> <<>>]
  /\ stop = [w \in Workers |-> FALSE]
  /\ pc = [w \in Workers |-> "wait"]
  /\ task = [w \in Workers |-> NoTask]
  /\ session = [w \in Workers |-> "none"]
  /\ nextWorker = 0
  /\ serverUp = TRUE      \* the constructor probes a connection and throws
  /\ destructor = "no"
  /\ pushed = [k \in Keys \cup {NoKey} |-> 0]
  /\ ran = <<>>
  /\ executed = {}

-----------------------------------------------------------------------------
\* Threads that push, while the pool lives.

\* Bug: the newest task first.
EnqueueInFront(w, t) == queue' = [queue EXCEPT ![w] = <<t>> \o @]

\* Enqueue, under the mutex of the worker.
Enqueue(w, t) == queue' = [queue EXCEPT ![w] = Append(@, t)]

\* PushTask(key, task).
PushKeyed(k) ==
  /\ destructor = "no"
  /\ pushed[k] < MaxTasks
  /\ pushed' = [pushed EXCEPT ![k] = @ + 1]
  /\ Enqueue(WorkerOf[k], <<k, pushed[k] + 1>>)
  /\ UNCHANGED <<stop, pc, task, session, nextWorker, serverUp, destructor, ran, executed>>

\* PushTask(task).
PushAny ==
  /\ destructor = "no"
  /\ pushed[NoKey] < MaxTasks
  /\ pushed' = [pushed EXCEPT ![NoKey] = @ + 1]
  /\ Enqueue(WorkerAt[nextWorker], <<NoKey, pushed[NoKey] + 1>>)
  /\ nextWorker' = (nextWorker + 1) % NumWorkers
  /\ UNCHANGED <<stop, pc, task, session, serverUp, destructor, ran, executed>>

-----------------------------------------------------------------------------
\* WorkerLoop.

Goto(w, to) == pc' = [pc EXCEPT ![w] = to]

\* The wait is over: take the oldest task.
TakeTask(w) ==
  /\ pc[w] = "wait"
  /\ queue[w] # <<>>
  /\ task' = [task EXCEPT ![w] = Head(queue[w])]
  /\ queue' = [queue EXCEPT ![w] = Tail(@)]
  /\ Goto(w, "ping")
  /\ UNCHANGED <<stop, session, nextWorker, serverUp, destructor, pushed, ran, executed>>

\* Bug: a worker that is asked to stop leaves at once.
LeaveAtOnce(w) ==
  /\ pc[w] = "wait"
  /\ stop[w]
  /\ Goto(w, "exit")
  /\ UNCHANGED <<queue, stop, task, session, nextWorker, serverUp, destructor,
                 pushed, ran, executed>>

\* The wait is over: asked to stop, nothing left.
LeaveLoop(w) ==
  /\ pc[w] = "wait"
  /\ stop[w]
  /\ queue[w] = <<>>
  /\ Goto(w, "exit")
  /\ UNCHANGED <<queue, stop, task, session, nextWorker, serverUp, destructor,
                 pushed, ran, executed>>

\* A session that was idle for long is pinged, and given up when it is dead;
\* after a short pause it is used as it is.
CheckIdle(w) ==
  /\ pc[w] = "ping"
  /\ \/ /\ session[w] = "dead"
        /\ session' = [session EXCEPT ![w] = "none"]
        /\ Goto(w, "connect")
     \/ /\ Goto(w, IF session[w] = "none" THEN "connect" ELSE "run")
        /\ UNCHANGED session
  /\ UNCHANGED <<queue, stop, task, nextWorker, serverUp, destructor, pushed, ran, executed>>

\* Connect.
Connect(w) ==
  /\ pc[w] = "connect"
  /\ \/ /\ serverUp
        /\ session' = [session EXCEPT ![w] = "live"]
        /\ Goto(w, "run")
     \/ /\ ~serverUp
        /\ Goto(w, "retry")
        /\ UNCHANGED session
  /\ UNCHANGED <<queue, stop, task, nextWorker, serverUp, destructor, pushed, ran, executed>>

\* Bug: the task goes back to the end of the queue.
RetryLater(w) ==
  /\ pc[w] = "retry"
  /\ queue' = [queue EXCEPT ![w] = Append(@, task[w])]
  /\ task' = [task EXCEPT ![w] = NoTask]
  /\ Goto(w, "wait")
  /\ UNCHANGED <<stop, session, nextWorker, serverUp, destructor, pushed, ran, executed>>

\* Bug: one failure to connect ends the worker.
RetryNever(w) ==
  /\ pc[w] = "retry"
  /\ Goto(w, "exit")
  /\ UNCHANGED <<queue, stop, task, session, nextWorker, serverUp, destructor,
                 pushed, ran, executed>>

\* Bug: a worker that cannot connect does not look at stop.
RetryForever(w) ==
  /\ pc[w] = "retry"
  /\ Goto(w, "connect")
  /\ UNCHANGED <<queue, stop, task, session, nextWorker, serverUp, destructor,
                 pushed, ran, executed>>

\* Not connected: sleep and try again, unless asked to stop.
Retry(w) ==
  /\ pc[w] = "retry"
  /\ Goto(w, IF stop[w] THEN "exit" ELSE "connect")
  /\ UNCHANGED <<queue, stop, task, session, nextWorker, serverUp, destructor,
                 pushed, ran, executed>>

\* The call of the task.  On a live session it returns or throws; on a dead
\* one its first statement throws.  Either way it is over.
RunTask(w) ==
  /\ pc[w] = "run"
  /\ ran' = Append(ran, task[w])
  /\ task' = [task EXCEPT ![w] = NoTask]
  /\ \/ /\ session[w] = "live"
        /\ executed' = executed \cup {task[w]}
        /\ \E threw \in BOOLEAN : Goto(w, IF threw THEN "check" ELSE "wait")
     \/ /\ session[w] = "dead"
        /\ Goto(w, "check")
        /\ UNCHANGED executed
  /\ UNCHANGED <<queue, stop, session, nextWorker, serverUp, destructor, pushed>>

\* After a database error: ping, and give up a dead session.
CheckSession(w) ==
  /\ pc[w] = "check"
  /\ session' = [session EXCEPT ![w] = IF @ = "dead" THEN "none" ELSE @]
  /\ Goto(w, "wait")
  /\ UNCHANGED <<queue, stop, task, nextWorker, serverUp, destructor, pushed, ran, executed>>

WorkerStep(w) == \/ TakeTask(w)
                 \/ LeaveLoop(w)
                 \/ CheckIdle(w)
                 \/ Connect(w)
                 \/ Retry(w)
                 \/ RunTask(w)
                 \/ CheckSession(w)

-----------------------------------------------------------------------------
\* The destructor.

\* One worker after the other is asked to stop.
AskToStop(w) ==
  /\ ~stop[w]
  /\ destructor # "done"
  /\ destructor' = "stopping"
  /\ stop' = [stop EXCEPT ![w] = TRUE]
  /\ UNCHANGED <<queue, pc, task, session, nextWorker, serverUp, pushed, ran, executed>>

\* All have been joined.
Joined ==
  /\ destructor = "stopping"
  /\ \A w \in Workers : pc[w] = "exit"
  /\ destructor' = "done"
  /\ UNCHANGED <<queue, stop, pc, task, session, nextWorker, serverUp, pushed, ran, executed>>

-----------------------------------------------------------------------------
\* MySQL.

Kill(w) == IF session[w] = "live" THEN "dead" ELSE session[w]

\* The server stops, with all connections, or one idle connection is closed.
ServerFails ==
  /\ MayFail
  /\ \/ /\ serverUp
        /\ serverUp' = FALSE
        /\ session' = [w \in Workers |-> Kill(w)]
     \/ /\ \E w \in Workers : /\ session[w] = "live"
                              /\ session' = [session EXCEPT ![w] = "dead"]
        /\ UNCHANGED serverUp
  /\ UNCHANGED <<queue, stop, pc, task, nextWorker, destructor, pushed, ran, executed>>

ServerReturns ==
  /\ ~serverUp
  /\ serverUp' = TRUE
  /\ UNCHANGED <<queue, stop, pc, task, session, nextWorker, destructor, pushed, ran, executed>>

-----------------------------------------------------------------------------
Destructor == (\E w \in Workers : AskToStop(w)) \/ Joined

Next == \/ \E k \in Keys : PushKeyed(k)
        \/ PushAny
        \/ \E w \in Workers : WorkerStep(w)
        \/ Destructor
        \/ ServerFails
        \/ ServerReturns

Safety == Init /\ [][Next]_vars

\* Workers run, and a destructor that has begun goes on.  Nobody owes a task,
\* and MySQL owes nothing.
Fairness == /\ \A w \in Workers : WF_vars(WorkerStep(w))
            /\ WF_vars(destructor = "stopping" /\ Destructor)

Spec == Safety /\ Fairness

-----------------------------------------------------------------------------
\* The types of the variables.
TypeOK ==
  /\ queue \in [Workers -> Seq(Task)]
  /\ stop \in [Workers -> BOOLEAN]
  /\ pc \in [Workers -> WorkerPc]
  /\ task \in [Workers -> Task \cup {NoTask}]
  /\ session \in [Workers -> {"none", "live", "dead"}]
  /\ nextWorker \in 0..(NumWorkers - 1)
  /\ serverUp \in BOOLEAN
  /\ destructor \in {"no", "stopping", "done"}
  /\ pushed \in [Keys \cup {NoKey} -> 0..MaxTasks]
  /\ ran \in Seq(Task)
  /\ executed \subseteq Task

\* The tasks of a queue that have key k, in their order: the n-th is the one that n - 1
\* others stand before.
OfKey(q, k) ==
  LET at == {i \in DOMAIN q : KeyOf(q[i]) = k}
  IN  [n \in 1..Cardinality(at) |-> q[CHOOSE i \in at : Cardinality({j \in at : j < i}) = n - 1]]

\* Tasks with one key, as their owner sees them: those that wait, oldest first,
\* and the one a worker has taken.
Waiting(k) == OfKey(queue[WorkerOf[k]], k)
Taken(k) == LET t == task[WorkerOf[k]]
            IN  IF t # NoTask /\ KeyOf(t) = k THEN t ELSE NoTask

PerKey(k) == INSTANCE Serializer
               WITH Job <- {k} \X (1..MaxTasks), NoJob <- NoTask,
                    queue <- Waiting(k), running <- Taken(k)

\* DBThreadPool.h:12: tasks of one key run one at a time, in the order in which
\* they were pushed, whatever fails and however often a worker reconnects.
KeyedInOrder ==
  /\ \A k \in Keys : PerKey(k)!Init
  /\ [][\A k \in Keys : [PerKey(k)!Next]_(PerKey(k)!vars)]_vars

\* A worker leaves with tasks undone only when it was asked to stop and has no
\* connection; so a pool whose server never fails drains its queues.
LeavesNothing ==
  \A w \in Workers :
    pc[w] = "exit" /\ (queue[w] # <<>> \/ task[w] # NoTask) => stop[w] /\ session[w] = "none"

\* When MySQL is back for good and the pool is not destroyed, every task is
\* called in the end: reconnecting never leaves a worker stuck.
TasksAreCalled ==
  (<>[](serverUp /\ destructor = "no")) =>
    \A t \in Task : (\E w \in Workers : \E i \in DOMAIN queue[w] : queue[w][i] = t)
                      ~> (\E i \in DOMAIN ran : ran[i] = t)

\* The destructor returns, even when MySQL never does.
DestructorReturns == destructor = "stopping" ~> destructor = "done"

-----------------------------------------------------------------------------
\* What a comment of the code says of it.

\* DBThreadPool.cpp:76 "tasks are not thrown away, they are run in order when
\* the database is back": a task that was called has been executed.
NoTaskThrownAway == \A i \in DOMAIN ran : ran[i] \in executed
=============================================================================
