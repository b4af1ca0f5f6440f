---------------------------- MODULE MCJobQueue ----------------------------
\* Two pool workers, two posting threads (the network thread and a database
\* thread), two jobs each: a poster can push while a batch is being run, while
\* the flag is being cleared and after a worker has left.
EXTENDS JobQueue
=============================================================================
