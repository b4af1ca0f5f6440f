---------------------------- MODULE MCWorkerPool ----------------------------
\* Two workers and a poster of two closures: one can be stolen before it is counted,
\* while the other worker goes to sleep.
EXTENDS WorkerPool
=============================================================================
