----------------------------- MODULE Serializer -----------------------------
(***************************************************************************)
(* What JobSerializer promises to the objects that inherit from it (Zone): *)
(* jobs posted from any thread are run one at a time, each exactly once,   *)
(* in the order in which they entered the queue, and every posted job is   *)
(* eventually run.  Nothing here speaks of threads, locks or flags; the    *)
(* module JobQueue shows how the code obtains this.                        *)
(***************************************************************************)
EXTENDS Sequences

CONSTANTS Job,     \* the jobs that can be posted
          NoJob    \* the absence of a job

VARIABLES queue,   \* jobs waiting to be run, oldest first
          running  \* the job being run, or NoJob

vars == <<queue, running>>

Init == /\ queue = <<>>
        /\ running = NoJob

Submit(j) == /\ queue' = Append(queue, j)
             /\ UNCHANGED running

Start == /\ running = NoJob
         /\ queue # <<>>
         /\ running' = Head(queue)
         /\ queue' = Tail(queue)

Finish == /\ running # NoJob
          /\ running' = NoJob
          /\ UNCHANGED queue

Next == \/ \E j \in Job : Submit(j)
        \/ Start
        \/ Finish

Safety == Init /\ [][Next]_vars

Spec == Safety /\ WF_vars(Start) /\ WF_vars(Finish)
=============================================================================
