------------------------------ MODULE Executor ------------------------------
(***************************************************************************)
(* What WorkStealingThreadPool promises to JobSerializer::Post: a closure  *)
(* that is posted is run by one worker, at most once, and as long as the   *)
(* pool is not stopped the workers do not all stand still while closures   *)
(* wait.  It promises no order, and nothing for what waits when it stops.  *)
(***************************************************************************)
EXTENDS FiniteSets

CONSTANTS Job,     \* the closures that can be posted, each once
          Worker,
          NoJob

VARIABLES waiting,   \* posted and not yet taken
          submitted, \* history: posted so far
          running,   \* what each worker runs
          stopped

vars == <<waiting, submitted, running, stopped>>

Init == /\ waiting = {}
        /\ submitted = {}
        /\ running = [w \in Worker |-> NoJob]
        /\ stopped = FALSE

Submit(j) == /\ j \notin submitted
             /\ submitted' = submitted \cup {j}
             /\ waiting' = waiting \cup {j}
             /\ UNCHANGED <<running, stopped>>

Take(w) == /\ running[w] = NoJob
           /\ \E j \in waiting : /\ running' = [running EXCEPT ![w] = j]
                                 /\ waiting' = waiting \ {j}
           /\ UNCHANGED <<submitted, stopped>>

Done(w) == /\ running[w] # NoJob
           /\ running' = [running EXCEPT ![w] = NoJob]
           /\ UNCHANGED <<waiting, submitted, stopped>>

Stop == /\ stopped' = TRUE
        /\ UNCHANGED <<waiting, submitted, running>>

Next == \/ \E j \in Job : Submit(j)
        \/ \E w \in Worker : Take(w) \/ Done(w)
        \/ Stop

Safety == Init /\ [][Next]_vars

TakeWhileRunning == ~stopped /\ \E w \in Worker : Take(w)

Spec == Safety /\ WF_vars(TakeWhileRunning) /\ \A w \in Worker : WF_vars(Done(w))
=============================================================================
