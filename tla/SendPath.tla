------------------------------ MODULE SendPath ------------------------------
(***************************************************************************)
(* A packet on its way to clients (SendBufferManager.cpp, SendBuffer.cpp,  *)
(* Send, DoWrite and Close of ClientProxySession.cpp).  A thread cuts a    *)
(* buffer from its own chunk, writes it and hands it to one session or, a  *)
(* multicast, to several; each queues it on its strand and writes it to    *)
(* its socket, which may be slow, break or be closed.  A buffer keeps its  *)
(* chunk alive; a chunk nobody refers to goes back to the pool and is cut  *)
(* anew.  Memory is counted in units.                                      *)
(***************************************************************************)
EXTENDS Integers, Sequences, FiniteSets, SequencesExt

CONSTANTS Threads, Sessions,
          Leavers,               \* sessions that may be closed otherwise than by a full
                                 \* queue
          CHUNK_SIZE,            \* units in a chunk
          MAX_SEND_QUEUE_BYTES,  \* units a session may have queued
          Sizes,                 \* sizes of packets, at most a chunk
          MaxBuffers,            \* bound: packets alive at a time
          Chunks,                \* bound: chunks that can be allocated
          None                   \* no chunk, no buffer

\* A SendBuffer, and a number that tells it from the others that are alive.
Buffer == [id : 1..MaxBuffers, chunk : Chunks, at : 0..(CHUNK_SIZE - 1), size : 1..CHUNK_SIZE]
Units(b) == b.at..(b.at + b.size - 1)

ASSUME SendPathAssumption ==
  /\ {CHUNK_SIZE, MAX_SEND_QUEUE_BYTES, MaxBuffers} \subseteq Nat
  /\ Sizes \subseteq 1..CHUNK_SIZE
  /\ Leavers \subseteq Sessions
  /\ None \notin Chunks /\ None \notin Buffer

VARIABLES
  \* SendBufferManager
  pool,       \* pool_: chunks to hand out, the last one first
  created,    \* chunks that exist
  local,      \* LSendBufferChunk of each thread
  usedSize,   \* usedSize_ of each chunk
  hand,       \* the buffer each thread is sending, and to whom
  \* ClientProxySession
  connected,  \* isConnected_
  registered, \* is the session in the SessionManager?
  strand,     \* what is posted: buffers of Send, None for the job of Close
  sendQueue,  \* sendQueue_
  queueBytes, \* sendQueueBytes_
  pending,    \* operations under way: a subset of {"read", "write"}
  socket,     \* "open", "broken" by the client, "closed" by us
  freed       \* sessions that are destroyed

poolVars == <<pool, created, local, usedSize>>
sessionVars == <<connected, registered, strand, sendQueue, queueBytes, pending, socket, freed>>
vars == <<poolVars, hand, sessionVars>>

Idle == [buffer |-> None, to |-> {}]

Init ==
  /\ pool = <<>>
  /\ created = {}
  /\ local = [t \in Threads |-> None]
  /\ usedSize = [c \in Chunks |-> 0]
  /\ hand = [t \in Threads |-> Idle]
  /\ connected = [s \in Sessions |-> TRUE]          \* after Start
  /\ registered = [s \in Sessions |-> TRUE]
  /\ strand = [s \in Sessions |-> <<>>]
  /\ sendQueue = [s \in Sessions |-> <<>>]
  /\ queueBytes = [s \in Sessions |-> 0]
  /\ pending = [s \in Sessions |-> {"read"}]
  /\ socket = [s \in Sessions |-> "open"]
  /\ freed = {}

-----------------------------------------------------------------------------
\* References: a buffer lives in a thread's hand, in a posted send or in a queue;
\* a chunk as a thread's local one or by a buffer cut from it (owner_).

Posted(s) == ToSet(strand[s]) \ {None}
LiveBuffers == {hand[t].buffer : t \in {u \in Threads : hand[u].to # {}}}
               \cup UNION {Posted(s) \cup ToSet(sendQueue[s]) : s \in Sessions}

\* Bug: a buffer does not hold its chunk.
ReferredByThreads(c) == \E t \in Threads : local[t] = c
Referred(c) == (\E t \in Threads : local[t] = c) \/ (\E b \in LiveBuffers : b.chunk = c)

\* Numbers that no buffer alive has; while there is one, MaxBuffers allows one more.
FreeIds == (1..MaxBuffers) \ {b.id : b \in LiveBuffers}

\* The thread is through with the buffer before.
CanMake(t) == hand[t].to = {} /\ FreeIds # {}

FreeSize(c) == CHUNK_SIZE - usedSize[c]

-----------------------------------------------------------------------------
\* SendBufferManager.

\* Bug: the chunk stays in the pool.
PopByCopy(t, size) ==
  /\ CanMake(t)
  /\ local[t] # None => FreeSize(local[t]) < size
  /\ IF pool = <<>>
       THEN \E c \in Chunks \ created :
              /\ created' = created \cup {c}
              /\ local' = [local EXCEPT ![t] = c]
       ELSE /\ local' = [local EXCEPT ![t] = Last(pool)]
            /\ UNCHANGED created
  /\ UNCHANGED <<pool, usedSize, hand, sessionVars>>

\* Open finds no chunk, or too little room in it, and takes one from the pool
\* (Pop); the reference to the old one is gone with the assignment.
Pop(t, size) ==
  /\ CanMake(t)
  /\ local[t] # None => FreeSize(local[t]) < size
  /\ IF pool = <<>>
       THEN \E c \in Chunks \ created :                \* CreateChunk
              /\ created' = created \cup {c}
              /\ local' = [local EXCEPT ![t] = c]
              /\ UNCHANGED pool
       ELSE /\ local' = [local EXCEPT ![t] = Last(pool)]
            /\ pool' = Front(pool)
            /\ UNCHANGED created
  /\ UNCHANGED <<usedSize, hand, sessionVars>>

\* A buffer of that size at the end of the thread's chunk.
Cut(t, size) == [id |-> CHOOSE i \in FreeIds : TRUE,
                 chunk |-> local[t], at |-> usedSize[local[t]], size |-> size]

\* Open, Write and Close on the thread's own chunk.
Make(t, size, targets) ==
  /\ CanMake(t)
  /\ local[t] # None /\ FreeSize(local[t]) >= size
  /\ hand' = [hand EXCEPT ![t] = [buffer |-> Cut(t, size), to |-> targets]]
  /\ usedSize' = [usedSize EXCEPT ![local[t]] = @ + size]
  /\ UNCHANGED <<pool, created, local, sessionVars>>

\* The deleter of a chunk whose last reference is gone: Push resets it.
Push(c) ==
  /\ c \in created
  /\ ~Referred(c)
  /\ c \notin ToSet(pool)
  /\ usedSize' = [usedSize EXCEPT ![c] = 0]
  /\ pool' = Append(pool, c)
  /\ UNCHANGED <<created, local, hand, sessionVars>>

-----------------------------------------------------------------------------
\* A session.

\* The thread finds the session, and Send posts the buffer.
Send(t, s) ==
  /\ s \in hand[t].to
  /\ hand' = [hand EXCEPT ![t] = IF @.to = {s} THEN Idle
                                 ELSE [buffer |-> @.buffer, to |-> @.to \ {s}]]
  /\ strand' = IF registered[s] /\ connected[s]
                 THEN [strand EXCEPT ![s] = Append(@, hand[t].buffer)]
                 ELSE strand
  /\ UNCHANGED <<poolVars, connected, registered, sendQueue, queueBytes,
                 pending, socket, freed>>

\* Close: the flag and, behind what is already posted (the sequence rest), its job.
Close(s, closes, rest) ==
  /\ strand' = [strand EXCEPT ![s] = rest \o IF closes /\ connected[s] THEN <<None>> ELSE <<>>]
  /\ connected' = [connected EXCEPT ![s] = @ /\ ~closes]

NextIsSend(s) == strand[s] # <<>> /\ Head(strand[s]) # None

StartWrite(s) == [pending EXCEPT ![s] = @ \cup {"write"}]
Ended(s, op) == [pending EXCEPT ![s] = @ \ {op}]

\* Bug: the limit is looked at before the new packet is counted.
HandleSendUncounted(s) ==
  /\ NextIsSend(s)
  /\ LET b == Head(strand[s])
         tooMuch == queueBytes[s] > MAX_SEND_QUEUE_BYTES
         takes == connected[s] /\ ~tooMuch
     IN  /\ Close(s, tooMuch, Tail(strand[s]))
         /\ sendQueue' = IF takes THEN [sendQueue EXCEPT ![s] = Append(@, b)] ELSE sendQueue
         /\ queueBytes' = IF takes THEN [queueBytes EXCEPT ![s] = @ + b.size] ELSE queueBytes
         /\ pending' = IF takes /\ sendQueue[s] = <<>> THEN StartWrite(s) ELSE pending
  /\ UNCHANGED <<poolVars, hand, registered, socket, freed>>

\* The posted send: a full queue closes the session.
HandleSend(s) ==
  /\ NextIsSend(s)
  /\ LET b == Head(strand[s])
         tooMuch == queueBytes[s] + b.size > MAX_SEND_QUEUE_BYTES
         takes == connected[s] /\ ~tooMuch
     IN  /\ Close(s, tooMuch, Tail(strand[s]))
         /\ sendQueue' = IF takes THEN [sendQueue EXCEPT ![s] = Append(@, b)] ELSE sendQueue
         /\ queueBytes' = IF takes THEN [queueBytes EXCEPT ![s] = @ + b.size] ELSE queueBytes
         /\ pending' = IF takes /\ sendQueue[s] = <<>> THEN StartWrite(s) ELSE pending
  /\ UNCHANGED <<poolVars, hand, registered, socket, freed>>

\* An operation ends and its handler runs.
Ends(s, op) == op \in pending[s]
EndsWell(s) == Ends(s, "write") /\ socket[s] = "open"

\* The client has taken the packet at the head of the queue.
Written(s) ==
  /\ EndsWell(s)
  /\ queueBytes' = [queueBytes EXCEPT ![s] = @ - Head(sendQueue[s]).size]
  /\ sendQueue' = [sendQueue EXCEPT ![s] = Tail(@)]
  /\ pending' = IF Len(sendQueue[s]) > 1 THEN pending ELSE Ended(s, "write")
  /\ UNCHANGED <<poolVars, hand, connected, registered, strand, socket, freed>>

\* A read or a write fails, and is not started again.
Fails(s, op) ==
  /\ Ends(s, op) /\ socket[s] # "open"
  /\ pending' = Ended(s, op)
  /\ Close(s, TRUE, strand[s])
  /\ UNCHANGED <<poolVars, hand, registered, sendQueue, queueBytes, socket, freed>>

NextIsClose(s) == strand[s] # <<>> /\ Head(strand[s]) = None

\* Bug: the job of Close leaves the socket to the destructor.
CloseJobUnshut(s) ==
  /\ NextIsClose(s)
  /\ strand' = [strand EXCEPT ![s] = Tail(@)]
  /\ registered' = [registered EXCEPT ![s] = FALSE]
  /\ UNCHANGED <<poolVars, hand, connected, sendQueue, queueBytes, pending, socket, freed>>

\* The job of Close.
CloseJob(s) ==
  /\ NextIsClose(s)
  /\ strand' = [strand EXCEPT ![s] = Tail(@)]
  /\ socket' = [socket EXCEPT ![s] = "closed"]
  /\ registered' = [registered EXCEPT ![s] = FALSE]
  /\ UNCHANGED <<poolVars, hand, connected, sendQueue, queueBytes, pending, freed>>

\* Nothing refers to the session any more: its queue goes with it.
Destroy(s) ==
  /\ s \notin freed
  /\ ~registered[s] /\ strand[s] = <<>> /\ pending[s] = {}
  /\ freed' = freed \cup {s}
  /\ sendQueue' = [sendQueue EXCEPT ![s] = <<>>]
  /\ queueBytes' = [queueBytes EXCEPT ![s] = 0]
  /\ UNCHANGED <<poolVars, hand, connected, registered, strand, pending, socket>>

\* Close from elsewhere: a second login, a lost zone server, a malformed packet.
CloseFromOutside(s) ==
  /\ s \in Leavers /\ connected[s]
  /\ Close(s, TRUE, strand[s])
  /\ UNCHANGED <<poolVars, hand, registered, sendQueue, queueBytes, pending, socket, freed>>

ClientLeaves(s) ==
  /\ s \in Leavers
  /\ socket[s] = "open"
  /\ socket' = [socket EXCEPT ![s] = "broken"]
  /\ UNCHANGED <<poolVars, hand, connected, registered, strand, sendQueue, queueBytes,
                 pending, freed>>

-----------------------------------------------------------------------------
Session(s) == \/ HandleSend(s) \/ CloseJob(s) \/ Destroy(s)
              \/ \E op \in {"read", "write"} : Fails(s, op)

Next ==
  \/ \E t \in Threads : \/ \E n \in Sizes : \/ Pop(t, n)
                                            \/ \E to \in SUBSET Sessions : to # {} /\ Make(t, n, to)
                        \/ \E s \in Sessions : Send(t, s)
  \/ \E c \in Chunks : Push(c)
  \/ \E s \in Sessions : Session(s) \/ Written(s) \/ CloseFromOutside(s) \/ ClientLeaves(s)

Spec == Init /\ [][Next]_vars

-----------------------------------------------------------------------------
\* The types of the variables; usedSize_ stays within a chunk (SendBufferChunk).
TypeOK ==
  /\ pool \in Seq(Chunks) /\ created \subseteq Chunks
  /\ local \in [Threads -> Chunks \cup {None}]
  /\ usedSize \in [Chunks -> 0..CHUNK_SIZE]
  /\ hand \in [Threads -> [buffer : Buffer \cup {None}, to : SUBSET Sessions]]
  /\ connected \in [Sessions -> BOOLEAN] /\ registered \in [Sessions -> BOOLEAN]
  /\ strand \in [Sessions -> Seq(Buffer \cup {None})]
  /\ sendQueue \in [Sessions -> Seq(Buffer)]
  /\ queueBytes \in [Sessions -> Int]
  /\ pending \in [Sessions -> SUBSET {"read", "write"}]
  /\ socket \in [Sessions -> {"open", "broken", "closed"}]
  /\ freed \subseteq Sessions

\* No two packets alive share a unit.
NoOverlap ==
  \A a, b \in LiveBuffers : a # b => a.chunk # b.chunk \/ Units(a) \cap Units(b) = {}

\* A chunk has one place: the pool once, or one thread, or the packets cut from it,
\* and none that is handed out has room it has already given away.
OneOwner ==
  /\ IsInjective(pool)
  /\ \A c \in ToSet(pool) : ~Referred(c) /\ usedSize[c] = 0
  /\ \A t, u \in Threads : local[t] = local[u] => t = u \/ local[t] = None

\* The bytes of a packet that a thread, a posted send or a queue refers to belong to
\* it alone, however many sessions share it and however often the chunk around it
\* changes hands: nothing is written over a packet a slow client has still to take,
\* and no two threads cut from one chunk (SendBuffer::owner_, the deleter, Pop, Push).
BytesIntact == NoOverlap /\ OneOwner

\* The units of a queue: <<i, u>> is the u-th one of its i-th packet.
Queued(q) == {e \in (1..Len(q)) \X (1..CHUNK_SIZE) : e[2] <= q[e[1]].size}

\* The counter against which the limit is checked is what is queued, and a session
\* never holds more than the limit, whoever sends and in whatever order sends, writes
\* and closes run; while it is connected a write is under way exactly when something is
\* queued.
QueueIsBounded ==
  \A s \in Sessions :
    /\ queueBytes[s] = Cardinality(Queued(sendQueue[s]))
    /\ queueBytes[s] <= MAX_SEND_QUEUE_BYTES
    /\ connected[s] => (sendQueue[s] # <<>> <=> "write" \in pending[s])

\* A session that is closed, for a full queue with a write under way too, gives back
\* what it has queued: its job of Close is still to run, or the socket is closed, so
\* that what is under way fails, nobody finds the session any more, and nothing will
\* be posted or started that could keep it alive (Close, DoWrite, Send).
ClosedIsReleased ==
  \A s \in Sessions : ~connected[s] =>
    /\ None \in ToSet(strand[s]) \/ (socket[s] = "closed" /\ ~registered[s])
    /\ ~registered[s] => socket[s] = "closed"
    /\ s \in freed => strand[s] = <<>> /\ pending[s] = {}
=============================================================================
