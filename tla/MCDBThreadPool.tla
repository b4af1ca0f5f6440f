--------------------------- MODULE MCDBThreadPool ---------------------------
\* Two workers.  The tasks of k1 have one worker, those without key go to both
\* in turn, so the worker of k1 mixes the two.
EXTENDS DBThreadPool

CONSTANTS w1, w2, k1

Numbered == [i \in 0..(NumWorkers - 1) |-> IF i = 0 THEN w1 ELSE w2]
FirstWorker == [k \in Keys |-> w1]
=============================================================================
