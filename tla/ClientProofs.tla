---------------------------- MODULE ClientProofs ----------------------------
(***************************************************************************)
(* Proofs about what clients are sent.                                     *)
(*                                                                         *)
(* SendPath, for any number of threads, sessions and chunks and any sizes: *)
(* types, that the bytes of a packet alive belong to it alone              *)
(* (BytesIntact), that a queue never exceeds its limit (QueueIsBounded),   *)
(* and that a closed session is released (ClosedIsReleased).  Only Open    *)
(* makes a buffer and only Pop and Push change the place of a chunk; every *)
(* other step can at most let buffers go, which disturbs nothing.          *)
(*                                                                         *)
(* ZoneView, at the end of the module, for any map and any number of       *)
(* players and monsters: the grids hold who is where (GridsAreExact), and  *)
(* every client shows exactly what is near (ViewIsExact).  Its names are   *)
(* those of an instance (V), since SendPath has an Init and a Next too;    *)
(* the state and the properties are those of ZoneScene.                    *)
(***************************************************************************)
EXTENDS SendPath, ZoneScene, SequenceTheorems, FiniteSetTheorems, TLAPS

CONSTANTS ReviveCell, HomeOf
VARIABLES dead, portalPending
V == INSTANCE ZoneView

\* What is cut lies below usedSize of a chunk that exists; so do all chunks in use.
CutBelow ==
  /\ ToSet(pool) \subseteq created
  /\ \A t \in Threads : local[t] \in created \cup {None}
  /\ \A b \in LiveBuffers : /\ b \in Buffer
                            /\ b.chunk \in created
                            /\ b.at + b.size <= usedSize[b.chunk]

\* The inductive invariant of BytesIntact.
ChunkInv == CutBelow /\ BytesIntact

USE SendPathAssumption

-----------------------------------------------------------------------------
\* Sequences: types, and what is in them.

LEMMA Elements ==
  ASSUME NEW S, NEW q \in Seq(S)
  PROVE  /\ ToSet(q) \subseteq S
         /\ \A e : ToSet(Append(q, e)) = ToSet(q) \cup {e}
         /\ \A e \in S : Append(q, e) \in Seq(S)
         /\ q # <<>> => /\ Head(q) \in ToSet(q) /\ ToSet(Tail(q)) \subseteq ToSet(q)
                        /\ Tail(q) \in Seq(S)
                        /\ \A e \in ToSet(q) : e = Head(q) \/ e \in ToSet(Tail(q))
         /\ q # <<>> => /\ Last(q) \in ToSet(q) /\ ToSet(Front(q)) \subseteq ToSet(q)
                        /\ Front(q) \in Seq(S)
<1>1. DOMAIN q = 1..Len(q) /\ Len(q) \in Nat /\ \A i \in 1..Len(q) : q[i] \in S
  OBVIOUS
<1>2. ToSet(q) \subseteq S
  BY <1>1 DEF ToSet
<1>3. ASSUME NEW e
      PROVE  ToSet(Append(q, e)) = ToSet(q) \cup {e}
  <2>1. q \in Seq(S \cup {e})
    BY SeqMonotonic
  <2>2. /\ Len(Append(q, e)) = Len(q) + 1
        /\ DOMAIN Append(q, e) = 1..(Len(q) + 1)
        /\ \A i \in 1..Len(q) : Append(q, e)[i] = q[i]
        /\ Append(q, e)[Len(q) + 1] = e
    BY <2>1
  <2> QED
    BY <1>1, <2>2 DEF ToSet
<1>4. ASSUME q # <<>>
      PROVE  /\ Head(q) \in ToSet(q) /\ ToSet(Tail(q)) \subseteq ToSet(q)
             /\ Tail(q) \in Seq(S)
             /\ \A e \in ToSet(q) : e = Head(q) \/ e \in ToSet(Tail(q))
  <2>1. /\ Len(q) > 0
        /\ Head(q) = q[1]
        /\ DOMAIN Tail(q) = 1..(Len(q) - 1)
        /\ \A i \in 1..(Len(q) - 1) : Tail(q)[i] = q[i + 1]
        /\ Tail(q) \in Seq(S)
    BY <1>1, <1>4
  <2>2. ASSUME NEW i \in 1..Len(q)
        PROVE  q[i] = Head(q) \/ q[i] \in ToSet(Tail(q))
    <3>1. CASE i = 1
      BY <3>1, <2>1
    <3>2. CASE i # 1
      <4>1. i - 1 \in 1..(Len(q) - 1) /\ q[i] = Tail(q)[i - 1]
        BY <3>2, <1>1, <2>1
      <4> QED
        BY <4>1, <2>1 DEF ToSet
    <3> QED
      BY <3>1, <3>2
  <2> QED
    BY <1>1, <2>1, <2>2 DEF ToSet
<1>5. ASSUME q # <<>>
      PROVE  /\ Last(q) \in ToSet(q) /\ ToSet(Front(q)) \subseteq ToSet(q)
             /\ Front(q) \in Seq(S)
  <2>1. /\ Len(q) > 0
        /\ DOMAIN Front(q) = 1..(Len(q) - 1)
        /\ \A i \in 1..(Len(q) - 1) : Front(q)[i] = q[i]
        /\ Front(q) \in Seq(S)
    BY <1>1, <1>5 DEF Front
  <2> QED
    BY <1>1, <2>1 DEF ToSet, Last
<1> QED
  BY <1>2, <1>3, <1>4, <1>5

\* The pool without its last chunk does not hold it any more.
LEMMA PoppedIsGone ==
  ASSUME NEW q \in Seq(Chunks), q # <<>>, IsInjective(q)
  PROVE  /\ Last(q) \notin ToSet(Front(q))
         /\ IsInjective(Front(q))
<1>1. /\ Len(q) \in Nat /\ Len(q) > 0 /\ DOMAIN q = 1..Len(q)
      /\ DOMAIN Front(q) = 1..(Len(q) - 1)
      /\ \A i \in 1..(Len(q) - 1) : Front(q)[i] = q[i]
  BY DEF Front
<1> QED
  BY <1>1 DEF IsInjective, ToSet, Last

\* The pool with a chunk more that was not in it.
LEMMA PushedOnce ==
  ASSUME NEW q \in Seq(Chunks), NEW c \in Chunks, IsInjective(q), c \notin ToSet(q)
  PROVE  IsInjective(Append(q, c))
<1>1. /\ Len(q) \in Nat /\ DOMAIN q = 1..Len(q)
      /\ DOMAIN Append(q, c) = 1..(Len(q) + 1)
      /\ \A i \in 1..Len(q) : Append(q, c)[i] = q[i]
      /\ Append(q, c)[Len(q) + 1] = c
  OBVIOUS
<1> QED
  BY <1>1 DEF IsInjective, ToSet

-----------------------------------------------------------------------------
\* Close posts its job behind the rest or nothing, and at most takes a flag away.
LEMMA ClosePosts ==
  ASSUME TypeOK, NEW s \in Sessions, NEW closes \in BOOLEAN,
         NEW rest \in Seq(Buffer \cup {None}), Close(s, closes, rest)
  PROVE  /\ strand' \in [Sessions -> Seq(Buffer \cup {None})]
         /\ connected' \in [Sessions -> BOOLEAN]
         /\ \A r \in Sessions : r # s => strand'[r] = strand[r] /\ connected'[r] = connected[r]
         /\ ToSet(strand'[s]) \subseteq ToSet(rest) \cup {None}
         /\ ToSet(rest) \subseteq ToSet(strand'[s])
         /\ connected'[s] <=> connected[s] /\ ~closes
         /\ connected[s] /\ closes => None \in ToSet(strand'[s])
<1>1. /\ strand \in [Sessions -> Seq(Buffer \cup {None})]
      /\ connected \in [Sessions -> BOOLEAN]
  BY DEF TypeOK
<1>2. CASE closes /\ connected[s]
  <2>1. rest \o <<None>> = Append(rest, None)
    OBVIOUS
  <2>2. strand' = [strand EXCEPT ![s] = Append(rest, None)]
    BY <1>2, <2>1 DEF Close
  <2>3. ToSet(strand'[s]) = ToSet(rest) \cup {None} /\ Append(rest, None) \in Seq(Buffer \cup {None})
    BY <1>1, <2>2, Elements
  <2> QED
    BY <1>1, <1>2, <2>2, <2>3 DEF Close
<1>3. CASE ~(closes /\ connected[s])
  <2>1. rest \o <<>> = rest
    BY ConcatEmptySeq
  <2>2. strand' = [strand EXCEPT ![s] = rest]
    BY <1>3, <2>1 DEF Close
  <2> QED
    BY <1>1, <1>3, <2>2 DEF Close
<1> QED
  BY <1>2, <1>3

\* A buffer that is cut is one (SendBufferChunk::Open).
LEMMA CutType ==
  ASSUME TypeOK, NEW t \in Threads, NEW size \in Sizes,
         CanMake(t), local[t] # None, FreeSize(local[t]) >= size
  PROVE  /\ Cut(t, size) \in Buffer
         /\ Cut(t, size).chunk = local[t] /\ local[t] \in Chunks
         /\ Cut(t, size).at = usedSize[local[t]] /\ Cut(t, size).size = size
         /\ usedSize[local[t]] + size \in 0..CHUNK_SIZE
<1>1. /\ local[t] \in Chunks
      /\ usedSize[local[t]] \in 0..CHUNK_SIZE /\ size \in 1..CHUNK_SIZE
  BY DEF TypeOK
<1>2. usedSize[local[t]] + size <= CHUNK_SIZE
  BY <1>1 DEF FreeSize
<1>3. (CHOOSE i \in FreeIds : TRUE) \in 1..MaxBuffers
  BY DEF CanMake, FreeIds
<1> QED
  BY <1>1, <1>2, <1>3 DEF Cut, Buffer

-----------------------------------------------------------------------------
\* Types.

LEMMA InitType == Init => TypeOK
  BY DEF Init, TypeOK, Idle

LEMMA PopType ==
  ASSUME TypeOK, NEW t \in Threads, NEW size \in Sizes, Pop(t, size)
  PROVE  TypeOK'
<1>1. CASE pool = <<>>
  BY <1>1 DEF Pop, TypeOK, sessionVars
<1>2. CASE pool # <<>>
  <2>1. Last(pool) \in Chunks /\ Front(pool) \in Seq(Chunks)
    BY <1>2, Elements DEF TypeOK
  <2> QED
    BY <1>2, <2>1 DEF Pop, TypeOK, sessionVars
<1> QED
  BY <1>1, <1>2

LEMMA MakeType ==
  ASSUME TypeOK, NEW t \in Threads, NEW size \in Sizes, NEW to \in SUBSET Sessions,
         Make(t, size, to)
  PROVE  TypeOK'
<1>1. /\ Cut(t, size) \in Buffer /\ local[t] \in Chunks
      /\ usedSize[local[t]] + size \in 0..CHUNK_SIZE
  BY CutType DEF Make
<1> QED
  BY <1>1 DEF Make, TypeOK, sessionVars

LEMMA PushType ==
  ASSUME TypeOK, NEW c \in Chunks, Push(c)
  PROVE  TypeOK'
<1>1. Append(pool, c) \in Seq(Chunks)
  BY DEF TypeOK
<1> QED
  BY <1>1 DEF Push, TypeOK, sessionVars

\* A thread that sends a buffer has one; CutBelow says so.
LEMMA SendType ==
  ASSUME TypeOK, CutBelow, NEW t \in Threads, NEW s \in Sessions, Send(t, s)
  PROVE  TypeOK'
<1>1. hand[t].buffer \in Buffer
  BY DEF Send, CutBelow, LiveBuffers
<1>2. /\ hand \in [Threads -> [buffer : Buffer \cup {None}, to : SUBSET Sessions]]
      /\ Append(strand[s], hand[t].buffer) \in Seq(Buffer \cup {None})
      /\ strand \in [Sessions -> Seq(Buffer \cup {None})]
  BY <1>1, Elements DEF TypeOK
<1>3. strand' \in [Sessions -> Seq(Buffer \cup {None})]
  BY <1>2 DEF Send
<1>4. hand' \in [Threads -> [buffer : Buffer \cup {None}, to : SUBSET Sessions]]
  <2>1. Idle \in [buffer : Buffer \cup {None}, to : SUBSET Sessions]
    BY DEF Idle
  <2>2. [buffer |-> hand[t].buffer, to |-> hand[t].to \ {s}] \in [buffer : Buffer \cup {None}, to : SUBSET Sessions]
    BY <1>2
  <2>3. PICK h \in [buffer : Buffer \cup {None}, to : SUBSET Sessions] :
              hand' = [hand EXCEPT ![t] = h]
    <3>1. CASE hand[t].to = {s}
      BY <2>1, <3>1 DEF Send
    <3>2. CASE hand[t].to # {s}
      BY <2>2, <3>2 DEF Send
    <3> QED
      BY <3>1, <3>2
  <2> QED
    BY <1>2, <2>3
<1> QED
  BY <1>3, <1>4 DEF Send, TypeOK, poolVars

LEMMA HandleSendType ==
  ASSUME TypeOK, NEW s \in Sessions, HandleSend(s)
  PROVE  TypeOK'
<1> DEFINE b == Head(strand[s])
           tooMuch == queueBytes[s] + b.size > MAX_SEND_QUEUE_BYTES
           takes == connected[s] /\ ~tooMuch
<1>1. b \in Buffer /\ Tail(strand[s]) \in Seq(Buffer \cup {None})
  BY Elements DEF HandleSend, NextIsSend, TypeOK
<1>2. /\ strand' \in [Sessions -> Seq(Buffer \cup {None})]
      /\ connected' \in [Sessions -> BOOLEAN]
  <2>1. Close(s, tooMuch, Tail(strand[s])) /\ tooMuch \in BOOLEAN
    BY DEF HandleSend
  <2> HIDE DEF tooMuch, b
  <2> QED
    BY <1>1, <2>1, ClosePosts
<1>3. b.size \in Int /\ queueBytes \in [Sessions -> Int]
  BY <1>1 DEF Buffer, TypeOK
<1>4. queueBytes' \in [Sessions -> Int]
  BY <1>3 DEF HandleSend
<1>5. sendQueue' \in [Sessions -> Seq(Buffer)]
  BY <1>1, Elements DEF HandleSend, TypeOK
<1>6. pending' \in [Sessions -> SUBSET {"read", "write"}]
  BY DEF HandleSend, TypeOK, StartWrite
<1> QED
  BY <1>2, <1>4, <1>5, <1>6 DEF HandleSend, TypeOK, poolVars

LEMMA WrittenType ==
  ASSUME TypeOK, NEW s \in Sessions, Written(s), sendQueue[s] # <<>>
  PROVE  TypeOK'
<1>1. Head(sendQueue[s]) \in Buffer /\ Tail(sendQueue[s]) \in Seq(Buffer)
  BY Elements DEF TypeOK
<1>2. Head(sendQueue[s]).size \in Int
  BY <1>1 DEF Buffer
<1>3. queueBytes' \in [Sessions -> Int]
  BY <1>2 DEF Written, TypeOK
<1>4. sendQueue' \in [Sessions -> Seq(Buffer)]
  BY <1>1 DEF Written, TypeOK
<1>5. pending' \in [Sessions -> SUBSET {"read", "write"}]
  BY DEF Written, TypeOK, Ended
<1> QED
  BY <1>3, <1>4, <1>5 DEF Written, TypeOK, poolVars

LEMMA FailsType ==
  ASSUME TypeOK, NEW s \in Sessions, NEW op \in {"read", "write"}, Fails(s, op)
  PROVE  TypeOK'
<1>1. /\ strand' \in [Sessions -> Seq(Buffer \cup {None})]
      /\ connected' \in [Sessions -> BOOLEAN]
  BY ClosePosts DEF Fails, TypeOK
<1> QED
  BY <1>1 DEF Fails, TypeOK, poolVars, Ended

LEMMA CloseJobType ==
  ASSUME TypeOK, NEW s \in Sessions, CloseJob(s)
  PROVE  TypeOK'
<1>1. Tail(strand[s]) \in Seq(Buffer \cup {None})
  BY Elements DEF CloseJob, NextIsClose, TypeOK
<1> QED
  BY <1>1 DEF CloseJob, TypeOK, poolVars

LEMMA DestroyType ==
  ASSUME TypeOK, NEW s \in Sessions, Destroy(s)
  PROVE  TypeOK'
  BY DEF Destroy, TypeOK, poolVars

LEMMA CloseFromOutsideType ==
  ASSUME TypeOK, NEW s \in Sessions, CloseFromOutside(s)
  PROVE  TypeOK'
<1>1. /\ strand' \in [Sessions -> Seq(Buffer \cup {None})]
      /\ connected' \in [Sessions -> BOOLEAN]
  BY ClosePosts DEF CloseFromOutside, TypeOK
<1> QED
  BY <1>1 DEF CloseFromOutside, TypeOK, poolVars

LEMMA ClientLeavesType ==
  ASSUME TypeOK, NEW s \in Sessions, ClientLeaves(s)
  PROVE  TypeOK'
  BY DEF ClientLeaves, TypeOK, poolVars

-----------------------------------------------------------------------------
\* A write runs only while something is queued (DoWrite).
Writing == \A s \in Sessions : "write" \in pending[s] => sendQueue[s] # <<>>

LEMMA WritingStep ==
  ASSUME TypeOK, Writing, [Next]_vars
  PROVE  Writing'
<1>1. CASE UNCHANGED <<sendQueue, pending>>
  BY <1>1 DEF Writing
<1>2. ASSUME NEW s \in Sessions, HandleSend(s)
      PROVE  Writing'
  <2>1. sendQueue[s] \in Seq(Buffer) /\ Head(strand[s]) \in Buffer
    BY <1>2, Elements DEF TypeOK, HandleSend, NextIsSend
  <2>2. Append(sendQueue[s], Head(strand[s])) # <<>>
    BY <2>1, AppendProperties, EmptySeq
  <2> QED
    BY <1>2, <2>2 DEF HandleSend, Writing, StartWrite, TypeOK
<1>3. ASSUME NEW s \in Sessions, Written(s)
      PROVE  Writing'
  <2>1. sendQueue[s] \in Seq(Buffer) /\ sendQueue[s] # <<>>
    BY <1>3 DEF TypeOK, Writing, Written, EndsWell, Ends
  <2>2. Len(Tail(sendQueue[s])) = Len(sendQueue[s]) - 1 /\ Len(sendQueue[s]) \in Nat
    BY <2>1, HeadTailProperties, LenProperties
  <2>3. Len(sendQueue[s]) > 1 => Tail(sendQueue[s]) # <<>>
    <3> DEFINE rest == Tail(sendQueue[s])
               n == Len(sendQueue[s])
    <3>1. Len(rest) = n - 1 /\ n \in Nat
      BY <2>2
    <3>2. rest = <<>> => Len(rest) = 0
      BY EmptySeq
    <3> HIDE DEF rest, n
    <3>3. n > 1 => rest # <<>>
      BY <3>1, <3>2
    <3> QED
      BY <3>3 DEF rest, n
  <2> QED
    BY <1>3, <2>3 DEF Written, Writing, Ended, TypeOK
<1>4. ASSUME NEW s \in Sessions, NEW op \in {"read", "write"}, Fails(s, op)
      PROVE  Writing'
  BY <1>4 DEF Fails, Writing, Ended, TypeOK
<1>5. ASSUME NEW s \in Sessions, Destroy(s)
      PROVE  Writing'
  BY <1>5 DEF Destroy, Writing, TypeOK
<1> QED
  BY <1>1, <1>2, <1>3, <1>4, <1>5
     DEF Next, Session, Pop, Make, Send, Push, CloseJob, CloseFromOutside, ClientLeaves,
         sessionVars, vars

-----------------------------------------------------------------------------
\* BytesIntact.

LEMMA InitChunks == Init => ChunkInv
<1>1. ToSet(<<>>) = {}
  BY DEF ToSet
<1>2. Init => LiveBuffers = {}
  BY <1>1 DEF Init, LiveBuffers, Posted, Idle
<1> QED
  BY <1>1, <1>2 DEF Init, ChunkInv, CutBelow, BytesIntact, NoOverlap, OneOwner, IsInjective

\* A step that leaves the chunks alone and brings no buffer to life.
LEMMA LetGo ==
  ASSUME ChunkInv, UNCHANGED poolVars, LiveBuffers' \subseteq LiveBuffers
  PROVE  ChunkInv'
<1>1. \A c : Referred(c)' => Referred(c)
  BY DEF Referred, poolVars
<1>2. CutBelow'
  BY DEF ChunkInv, CutBelow, poolVars, Buffer
<1>3. NoOverlap'
  BY DEF ChunkInv, BytesIntact, NoOverlap, Units
<1>4. OneOwner'
  BY <1>1 DEF ChunkInv, BytesIntact, OneOwner, poolVars
<1> QED
  BY <1>2, <1>3, <1>4 DEF ChunkInv, BytesIntact

LEMMA PopChunks ==
  ASSUME TypeOK, ChunkInv, NEW t \in Threads, NEW size \in Sizes, Pop(t, size)
  PROVE  ChunkInv'
<1>1. LiveBuffers' = LiveBuffers
  BY DEF Pop, LiveBuffers, Posted, sessionVars
<1>2. PICK c \in Chunks :
        /\ local' = [local EXCEPT ![t] = c]
        /\ \A u \in Threads : local[u] # c
        /\ \A b \in LiveBuffers : b.chunk # c
        /\ c \in created' /\ created \subseteq created' /\ created' \subseteq Chunks
        /\ ToSet(pool') \subseteq ToSet(pool) /\ c \notin ToSet(pool')
        /\ IsInjective(pool')
  <2>1. CASE pool = <<>>
    <3>1. PICK c \in Chunks \ created : /\ created' = created \cup {c}
                                        /\ local' = [local EXCEPT ![t] = c]
                                        /\ UNCHANGED pool
      BY <2>1 DEF Pop
    <3>2. c # None
      OBVIOUS
    <3> QED
      BY <3>1, <3>2 DEF ChunkInv, CutBelow, BytesIntact, OneOwner, TypeOK
  <2>2. CASE pool # <<>>
    <3>1. /\ local' = [local EXCEPT ![t] = Last(pool)]
          /\ pool' = Front(pool)
          /\ UNCHANGED created
      BY <2>2 DEF Pop
    <3>2. /\ Last(pool) \in ToSet(pool) /\ ToSet(pool) \subseteq Chunks
          /\ ToSet(Front(pool)) \subseteq ToSet(pool)
      BY <2>2, Elements DEF TypeOK
    <3>3. ~Referred(Last(pool))
      BY <3>2 DEF ChunkInv, BytesIntact, OneOwner
    <3>4. Last(pool) \notin ToSet(Front(pool)) /\ IsInjective(Front(pool))
      BY <2>2, PoppedIsGone DEF TypeOK, ChunkInv, BytesIntact, OneOwner
    <3> QED
      BY <3>1, <3>2, <3>3, <3>4 DEF ChunkInv, CutBelow, Referred, TypeOK
  <2> QED
    BY <2>1, <2>2
<1>3. usedSize' = usedSize /\ local \in [Threads -> Chunks \cup {None}]
  BY DEF Pop, TypeOK
<1>4. CutBelow'
  BY <1>1, <1>2, <1>3 DEF ChunkInv, CutBelow, Buffer
<1>5. NoOverlap'
  BY <1>1 DEF ChunkInv, BytesIntact, NoOverlap, Units
<1>6. \A d \in ToSet(pool') : ~Referred(d)'
  BY <1>1, <1>2, <1>3 DEF ChunkInv, BytesIntact, OneOwner, Referred
<1>7. \A u, v \in Threads : local'[u] = local'[v] => u = v \/ local'[u] = None
  BY <1>2, <1>3 DEF ChunkInv, BytesIntact, OneOwner
<1>8. OneOwner'
  BY <1>2, <1>3, <1>6, <1>7 DEF ChunkInv, BytesIntact, OneOwner
<1> QED
  BY <1>4, <1>5, <1>8 DEF ChunkInv, BytesIntact

\* The new buffer begins where the others of its chunk end.
LEMMA MakeChunks ==
  ASSUME TypeOK, ChunkInv, NEW t \in Threads, NEW size \in Sizes, NEW to \in SUBSET Sessions,
         Make(t, size, to)
  PROVE  ChunkInv'
<1> DEFINE new == Cut(t, size)
           c == local[t]
<1>1. /\ new \in Buffer /\ new.chunk = c /\ new.at = usedSize[c] /\ new.size = size
      /\ c \in Chunks /\ usedSize[c] + size \in 0..CHUNK_SIZE
  BY CutType DEF Make
<1>2. LiveBuffers' \subseteq LiveBuffers \cup {new}
  BY DEF Make, LiveBuffers, Posted, sessionVars, TypeOK
<1>3. /\ usedSize' = [usedSize EXCEPT ![c] = @ + size]
      /\ UNCHANGED <<pool, created, local>>
      /\ usedSize \in [Chunks -> 0..CHUNK_SIZE]
      /\ size \in 1..CHUNK_SIZE
  BY DEF Make, TypeOK
<1> HIDE DEF new
<1>4. Referred(c) /\ c \in created
  BY <1>1 DEF Referred, ChunkInv, CutBelow
<1>5. c \notin ToSet(pool)
  BY <1>4 DEF ChunkInv, BytesIntact, OneOwner
<1>6. ASSUME NEW b \in LiveBuffers
      PROVE  /\ b \in Buffer /\ b.chunk \in created
             /\ b.at + b.size <= usedSize[b.chunk]
             /\ b.at + b.size <= usedSize'[b.chunk]
  <2>1. b \in Buffer /\ b.chunk \in created /\ b.at + b.size <= usedSize[b.chunk]
    BY DEF ChunkInv, CutBelow
  <2>2. b.at \in Int /\ b.size \in Int /\ b.chunk \in Chunks
    BY <2>1 DEF Buffer
  <2>3. usedSize[b.chunk] \in Int /\ usedSize'[b.chunk] \in {usedSize[b.chunk], usedSize[b.chunk] + size}
    BY <2>2, <1>3
  <2> QED
    BY <2>1, <2>2, <2>3, <1>3
<1>7. CutBelow'
  <2>1. new.at + new.size <= usedSize'[new.chunk]
    BY <1>1, <1>3
  <2> QED
    BY <1>1, <1>2, <1>3, <1>4, <1>6, <2>1 DEF ChunkInv, CutBelow
<1>8. ASSUME NEW b \in LiveBuffers, b.chunk = c
      PROVE  Units(b) \cap Units(new) = {} /\ Units(new) \cap Units(b) = {}
  <2>1. b.at \in Int /\ b.size \in Int
    BY <1>6 DEF Buffer
  <2>2. b.at + b.size <= usedSize[c]
    BY <1>6, <1>8
  <2> QED
    BY <2>1, <2>2, <1>1, <1>3 DEF Units
<1>9. NoOverlap'
  BY <1>1, <1>2, <1>8 DEF ChunkInv, BytesIntact, NoOverlap
<1>10. OneOwner'
  <2>1. \A d : Referred(d)' => Referred(d)
    BY <1>1, <1>2, <1>3, <1>4 DEF Referred
  <2>2. \A d \in ToSet(pool) : usedSize'[d] = usedSize[d]
    BY <1>3, <1>5 DEF ChunkInv, CutBelow, TypeOK
  <2> QED
    BY <1>3, <2>1, <2>2 DEF ChunkInv, BytesIntact, OneOwner
<1> QED
  BY <1>7, <1>9, <1>10 DEF ChunkInv, BytesIntact

LEMMA PushChunks ==
  ASSUME TypeOK, ChunkInv, NEW c \in Chunks, Push(c)
  PROVE  ChunkInv'
<1>1. LiveBuffers' = LiveBuffers /\ UNCHANGED <<created, local>>
  BY DEF Push, LiveBuffers, Posted, sessionVars
<1>2. ToSet(pool') = ToSet(pool) \cup {c} /\ IsInjective(pool')
  BY Elements, PushedOnce DEF Push, TypeOK, ChunkInv, BytesIntact, OneOwner
<1>3. /\ usedSize'[c] = 0
      /\ \A d \in Chunks : d # c => usedSize'[d] = usedSize[d]
  BY DEF Push, TypeOK
<1>4. \A b \in LiveBuffers : b.chunk # c /\ b.chunk \in Chunks
  BY DEF Push, Referred, ChunkInv, CutBelow, Buffer
<1>5. CutBelow'
  BY <1>1, <1>2, <1>3, <1>4 DEF Push, ChunkInv, CutBelow, Buffer
<1>6. NoOverlap'
  BY <1>1 DEF ChunkInv, BytesIntact, NoOverlap, Units
<1>7. \A d : Referred(d)' = Referred(d)
  BY <1>1 DEF Referred
<1>8. ToSet(pool) \subseteq Chunks
  BY Elements DEF TypeOK
<1>9. OneOwner'
  BY <1>1, <1>2, <1>3, <1>7, <1>8 DEF Push, ChunkInv, BytesIntact, OneOwner
<1> QED
  BY <1>5, <1>6, <1>9 DEF ChunkInv, BytesIntact

-----------------------------------------------------------------------------
\* Steps that let buffers go, or leave them where they are.

\* A step of one session that puts nothing new on its strand or into its queue.
LEMMA SessionLetsGo ==
  ASSUME NEW s \in Sessions, UNCHANGED hand,
         \A r \in Sessions : r # s => strand'[r] = strand[r] /\ sendQueue'[r] = sendQueue[r],
         ToSet(strand'[s]) \cup ToSet(sendQueue'[s])
           \subseteq ToSet(strand[s]) \cup ToSet(sendQueue[s]) \cup {None},
         None \notin ToSet(sendQueue'[s])
  PROVE  LiveBuffers' \subseteq LiveBuffers
  BY DEF LiveBuffers, Posted

\* None is no buffer.
LEMMA QueuesHoldBuffers ==
  ASSUME TypeOK, NEW s \in Sessions
  PROVE  None \notin ToSet(sendQueue[s])
  BY Elements DEF TypeOK

LEMMA SendLetsGo ==
  ASSUME TypeOK, ChunkInv, NEW t \in Threads, NEW s \in Sessions, Send(t, s)
  PROVE  LiveBuffers' \subseteq LiveBuffers
<1>1. hand[t].buffer \in LiveBuffers /\ hand[t].to # {}
  BY DEF Send, LiveBuffers
<1>2. ASSUME NEW u \in Threads, hand'[u].to # {}
      PROVE  hand[u].to # {} /\ hand'[u].buffer = hand[u].buffer
  BY <1>1, <1>2 DEF Send, TypeOK, Idle
<1>3. ASSUME NEW r \in Sessions
      PROVE  ToSet(strand'[r]) \subseteq ToSet(strand[r]) \cup {hand[t].buffer}
  <2>1. ToSet(Append(strand[s], hand[t].buffer)) = ToSet(strand[s]) \cup {hand[t].buffer}
    <3>1. strand[s] \in Seq(Buffer \cup {None})
      BY DEF TypeOK
    <3> QED
      BY ZenonT(40), <3>1, Elements
  <2> QED
    BY <2>1 DEF Send, TypeOK
<1>4. UNCHANGED sendQueue
  BY DEF Send
<1>5. ASSUME NEW b, b \in LiveBuffers'
      PROVE  b \in LiveBuffers
  <2>1. CASE \E u \in Threads : hand'[u].to # {} /\ b = hand'[u].buffer
    BY <1>2, <2>1 DEF LiveBuffers
  <2>2. CASE \E r \in Sessions : b \in ToSet(strand'[r]) /\ b # None
    BY <1>1, <1>3, <2>2 DEF LiveBuffers, Posted
  <2>3. CASE \E r \in Sessions : b \in ToSet(sendQueue[r])
    BY <2>3 DEF LiveBuffers
  <2> QED
    BY <1>4, <1>5, <2>1, <2>2, <2>3 DEF LiveBuffers, Posted
<1> QED
  BY <1>5

LEMMA HandleSendLetsGo ==
  ASSUME TypeOK, NEW s \in Sessions, HandleSend(s)
  PROVE  LiveBuffers' \subseteq LiveBuffers
<1> DEFINE b == Head(strand[s])
           tooMuch == queueBytes[s] + b.size > MAX_SEND_QUEUE_BYTES
<1>1. /\ b \in ToSet(strand[s]) /\ b # None
      /\ Tail(strand[s]) \in Seq(Buffer \cup {None})
      /\ ToSet(Tail(strand[s])) \subseteq ToSet(strand[s])
  <2>1. strand[s] # <<>> /\ Head(strand[s]) # None
    BY DEF HandleSend, NextIsSend
  <2>2. strand[s] \in Seq(Buffer \cup {None})
    BY DEF TypeOK
  <2> QED
    BY <2>1, <2>2, Elements
<1>2. Close(s, tooMuch, Tail(strand[s])) /\ tooMuch \in BOOLEAN
  BY DEF HandleSend
<1>3. ToSet(Append(sendQueue[s], b)) = ToSet(sendQueue[s]) \cup {b}
  BY ZenonT(40), Elements DEF TypeOK
<1>4. /\ \A r \in Sessions : r # s => sendQueue'[r] = sendQueue[r]
      /\ ToSet(sendQueue'[s]) \subseteq ToSet(sendQueue[s]) \cup {b}
      /\ UNCHANGED hand
  BY <1>3 DEF HandleSend, TypeOK
<1> HIDE DEF tooMuch, b
<1>5. /\ \A r \in Sessions : r # s => strand'[r] = strand[r]
      /\ ToSet(strand'[s]) \subseteq ToSet(strand[s]) \cup {None}
  BY <1>1, <1>2, ClosePosts
<1> QED
  BY <1>1, <1>4, <1>5, QueuesHoldBuffers, SessionLetsGo

LEMMA WrittenLetsGo ==
  ASSUME TypeOK, NEW s \in Sessions, Written(s), sendQueue[s] # <<>>
  PROVE  LiveBuffers' \subseteq LiveBuffers
<1>1. ToSet(Tail(sendQueue[s])) \subseteq ToSet(sendQueue[s])
  BY Elements DEF TypeOK
<1>2. /\ \A r \in Sessions : r # s => sendQueue'[r] = sendQueue[r]
      /\ sendQueue'[s] = Tail(sendQueue[s])
      /\ UNCHANGED <<hand, strand>>
  BY DEF Written, TypeOK
<1> QED
  BY <1>1, <1>2, QueuesHoldBuffers, SessionLetsGo

LEMMA FailsLetsGo ==
  ASSUME TypeOK, NEW s \in Sessions, NEW op \in {"read", "write"}, Fails(s, op)
  PROVE  LiveBuffers' \subseteq LiveBuffers
<1>1. /\ \A r \in Sessions : r # s => strand'[r] = strand[r]
      /\ ToSet(strand'[s]) \subseteq ToSet(strand[s]) \cup {None}
  BY ClosePosts DEF Fails, TypeOK
<1> QED
  BY <1>1, QueuesHoldBuffers, SessionLetsGo DEF Fails

LEMMA CloseJobLetsGo ==
  ASSUME TypeOK, NEW s \in Sessions, CloseJob(s)
  PROVE  LiveBuffers' \subseteq LiveBuffers
<1>1. ToSet(Tail(strand[s])) \subseteq ToSet(strand[s])
  BY Elements DEF CloseJob, NextIsClose, TypeOK
<1>2. /\ \A r \in Sessions : r # s => strand'[r] = strand[r]
      /\ strand'[s] = Tail(strand[s])
      /\ UNCHANGED <<hand, sendQueue>>
  BY DEF CloseJob, TypeOK
<1> QED
  BY <1>1, <1>2, QueuesHoldBuffers, SessionLetsGo

LEMMA DestroyLetsGo ==
  ASSUME TypeOK, NEW s \in Sessions, Destroy(s)
  PROVE  LiveBuffers' \subseteq LiveBuffers
<1>1. ToSet(<<>>) = {}
  BY DEF ToSet
<1>2. /\ \A r \in Sessions : r # s => sendQueue'[r] = sendQueue[r]
      /\ sendQueue'[s] = <<>>
      /\ UNCHANGED <<hand, strand>>
  BY DEF Destroy, TypeOK
<1> QED
  BY <1>1, <1>2, SessionLetsGo

LEMMA CloseFromOutsideLetsGo ==
  ASSUME TypeOK, NEW s \in Sessions, CloseFromOutside(s)
  PROVE  LiveBuffers' \subseteq LiveBuffers
<1>1. /\ \A r \in Sessions : r # s => strand'[r] = strand[r]
      /\ ToSet(strand'[s]) \subseteq ToSet(strand[s]) \cup {None}
  BY ClosePosts DEF CloseFromOutside, TypeOK
<1> QED
  BY <1>1, QueuesHoldBuffers, SessionLetsGo DEF CloseFromOutside

LEMMA StillLive ==
  ASSUME UNCHANGED <<hand, strand, sendQueue>>
  PROVE  LiveBuffers' \subseteq LiveBuffers
  BY DEF LiveBuffers, Posted

-----------------------------------------------------------------------------
\* A closed session.

\* The job of Close is posted once the flag is down, and nothing follows the end.
Closing ==
  \A s \in Sessions :
    /\ None \in ToSet(strand[s]) => ~connected[s]
    /\ ~registered[s] => ~connected[s]
    /\ s \in freed => ~registered[s]

ClosingInv == Closing /\ ClosedIsReleased

LEMMA InitClosing == Init => ClosingInv
<1>1. ToSet(<<>>) = {}
  BY DEF ToSet
<1> QED
  BY <1>1 DEF Init, ClosingInv, Closing, ClosedIsReleased

\* A step of session s that may only close it, in the way Close does.
LEMMA ClosedStep ==
  ASSUME TypeOK, ClosingInv, NEW s \in Sessions, NEW closes \in BOOLEAN,
         NEW rest \in Seq(Buffer \cup {None}), Close(s, closes, rest),
         None \in ToSet(strand[s]) => None \in ToSet(rest),
         None \in ToSet(rest) => None \in ToSet(strand[s]),
         s \in freed => rest = <<>>,
         UNCHANGED <<registered, socket, freed>>,
         \A r \in Sessions : r # s => pending'[r] = pending[r],
         s \in freed => pending'[s] = {}
  PROVE  ClosingInv'
<1>1. /\ \A r \in Sessions : r # s => strand'[r] = strand[r] /\ connected'[r] = connected[r]
      /\ ToSet(strand'[s]) \subseteq ToSet(rest) \cup {None}
      /\ ToSet(rest) \subseteq ToSet(strand'[s])
      /\ connected'[s] <=> connected[s] /\ ~closes
      /\ connected[s] /\ closes => None \in ToSet(strand'[s])
  BY ClosePosts
<1>2. ~connected[s] => strand'[s] = rest
  BY ConcatEmptySeq DEF Close, TypeOK
<1>3. Closing'
  <2>1. None \in ToSet(strand'[s]) => ~connected'[s]
    <3>1. CASE closes
      BY <1>1, <3>1
    <3>2. CASE ~closes
      <4>1. strand'[s] = rest
        BY <3>2, ConcatEmptySeq DEF Close, TypeOK
      <4> QED
        BY <1>1, <4>1 DEF ClosingInv, Closing
    <3> QED
      BY <3>1, <3>2
  <2> QED
    BY <1>1, <2>1 DEF ClosingInv, Closing
<1>4. ClosedIsReleased'
  <2>1. ASSUME NEW r \in Sessions, r # s, ~connected'[r]
        PROVE  /\ None \in ToSet(strand'[r]) \/ (socket'[r] = "closed" /\ ~registered'[r])
               /\ ~registered'[r] => socket'[r] = "closed"
               /\ r \in freed' => strand'[r] = <<>> /\ pending'[r] = {}
    BY <1>1, <2>1 DEF ClosingInv, ClosedIsReleased
  <2>2. ASSUME ~connected'[s]
        PROVE  /\ None \in ToSet(strand'[s]) \/ (socket'[s] = "closed" /\ ~registered'[s])
               /\ ~registered'[s] => socket'[s] = "closed"
               /\ s \in freed' => strand'[s] = <<>> /\ pending'[s] = {}
    <3>1. CASE connected[s]
      BY <1>1, <2>2, <3>1 DEF ClosingInv, Closing, ClosedIsReleased
    <3>2. CASE ~connected[s]
      BY <1>1, <1>2, <2>2, <3>2 DEF ClosingInv, Closing, ClosedIsReleased
    <3> QED
      BY <3>1, <3>2
  <2> QED
    BY <2>1, <2>2 DEF ClosedIsReleased
<1> QED
  BY <1>3, <1>4 DEF ClosingInv

LEMMA HandleSendCloses ==
  ASSUME TypeOK, ClosingInv, NEW s \in Sessions, HandleSend(s)
  PROVE  ClosingInv'
<1> DEFINE tooMuch == queueBytes[s] + Head(strand[s]).size > MAX_SEND_QUEUE_BYTES
<1>1. strand[s] # <<>> /\ Head(strand[s]) # None /\ strand[s] \in Seq(Buffer \cup {None})
  BY DEF HandleSend, NextIsSend, TypeOK
<1>2. /\ Tail(strand[s]) \in Seq(Buffer \cup {None})
      /\ ToSet(Tail(strand[s])) \subseteq ToSet(strand[s])
      /\ None \in ToSet(strand[s]) => None \in ToSet(Tail(strand[s]))
  BY <1>1, Elements
<1>3. s \notin freed
  BY <1>1 DEF ClosingInv, Closing, ClosedIsReleased
<1>4. /\ Close(s, tooMuch, Tail(strand[s])) /\ tooMuch \in BOOLEAN
      /\ UNCHANGED <<registered, socket, freed>>
      /\ \A r \in Sessions : r # s => pending'[r] = pending[r]
  BY DEF HandleSend, StartWrite, TypeOK
<1> HIDE DEF tooMuch
<1> QED
  BY <1>2, <1>3, <1>4, ClosedStep

LEMMA FailsCloses ==
  ASSUME TypeOK, ClosingInv, NEW s \in Sessions, NEW op \in {"read", "write"}, Fails(s, op)
  PROVE  ClosingInv'
<1>1. strand[s] \in Seq(Buffer \cup {None})
  BY DEF TypeOK
<1>2. s \notin freed
  BY DEF Fails, Ends, ClosingInv, Closing, ClosedIsReleased
<1>3. \A r \in Sessions : r # s => pending'[r] = pending[r]
  BY DEF Fails, Ended, TypeOK
<1>4. Close(s, TRUE, strand[s]) /\ UNCHANGED <<registered, socket, freed>>
  BY DEF Fails
<1> QED
  BY <1>1, <1>2, <1>3, <1>4, ClosedStep

LEMMA CloseFromOutsideCloses ==
  ASSUME TypeOK, ClosingInv, NEW s \in Sessions, CloseFromOutside(s)
  PROVE  ClosingInv'
<1>1. strand[s] \in Seq(Buffer \cup {None})
  BY DEF TypeOK
<1>2. s \notin freed
  BY DEF CloseFromOutside, ClosingInv, Closing
<1>3. Close(s, TRUE, strand[s]) /\ UNCHANGED <<registered, socket, freed, pending>>
  BY DEF CloseFromOutside
<1> QED
  BY <1>1, <1>2, <1>3, ClosedStep

\* Send posts only to a session that is registered and connected.
LEMMA SendCloses ==
  ASSUME TypeOK, ChunkInv, ClosingInv, NEW t \in Threads, NEW s \in Sessions, Send(t, s)
  PROVE  ClosingInv'
<1>1. hand[t].buffer \in Buffer /\ hand[t].buffer # None
  BY DEF Send, LiveBuffers, ChunkInv, CutBelow
<1>2. UNCHANGED <<connected, registered, pending, socket, freed>>
  BY DEF Send
<1>3. CASE registered[s] /\ connected[s]
  <2>1. strand[s] \in Seq(Buffer \cup {None})
    BY DEF TypeOK
  <2>2. ToSet(Append(strand[s], hand[t].buffer)) = ToSet(strand[s]) \cup {hand[t].buffer}
    BY ZenonT(40), <2>1, Elements
  <2>3. strand' = [strand EXCEPT ![s] = Append(@, hand[t].buffer)]
    BY <1>3 DEF Send
  <2>4. /\ \A r \in Sessions : r # s => strand'[r] = strand[r]
        /\ ToSet(strand'[s]) = ToSet(strand[s]) \cup {hand[t].buffer}
    BY <2>2, <2>3 DEF TypeOK
  <2> QED
    BY <1>1, <1>2, <1>3, <2>4 DEF ClosingInv, Closing, ClosedIsReleased
<1>4. CASE ~(registered[s] /\ connected[s])
  BY <1>2, <1>4 DEF Send, ClosingInv, Closing, ClosedIsReleased
<1> QED
  BY <1>3, <1>4

LEMMA CloseJobCloses ==
  ASSUME TypeOK, ClosingInv, NEW s \in Sessions, CloseJob(s)
  PROVE  ClosingInv'
<1>1. strand[s] # <<>> /\ Head(strand[s]) = None /\ strand[s] \in Seq(Buffer \cup {None})
  BY DEF CloseJob, NextIsClose, TypeOK
<1>2. ToSet(Tail(strand[s])) \subseteq ToSet(strand[s]) /\ None \in ToSet(strand[s])
  BY <1>1, Elements
<1>3. ~connected[s] /\ s \notin freed
  BY <1>1, <1>2 DEF ClosingInv, Closing, ClosedIsReleased
<1>4. /\ \A r \in Sessions : r # s => /\ strand'[r] = strand[r] /\ socket'[r] = socket[r]
                                      /\ registered'[r] = registered[r]
      /\ strand'[s] = Tail(strand[s]) /\ socket'[s] = "closed" /\ ~registered'[s]
      /\ UNCHANGED <<connected, pending, freed>>
  BY DEF CloseJob, TypeOK
<1> QED
  BY <1>2, <1>3, <1>4 DEF ClosingInv, Closing, ClosedIsReleased

LEMMA OtherCloses ==
  ASSUME TypeOK, ClosingInv, NEW s \in Sessions,
         Written(s) \/ Destroy(s) \/ ClientLeaves(s)
  PROVE  ClosingInv'
<1>1. CASE Written(s)
  <2>1. s \notin freed
    BY <1>1 DEF Written, EndsWell, Ends, ClosingInv, Closing, ClosedIsReleased
  <2>2. \A r \in Sessions : r # s => pending'[r] = pending[r]
    BY <1>1 DEF Written, Ended, TypeOK
  <2> QED
    BY <1>1, <2>1, <2>2 DEF Written, ClosingInv, Closing, ClosedIsReleased
<1>2. CASE Destroy(s)
  BY <1>2 DEF Destroy, ClosingInv, Closing, ClosedIsReleased
<1>3. CASE ClientLeaves(s)
  <2>1. \A r \in Sessions : socket[r] = "closed" => socket'[r] = "closed"
    BY <1>3 DEF ClientLeaves, TypeOK
  <2> QED
    BY <1>3, <2>1 DEF ClientLeaves, ClosingInv, Closing, ClosedIsReleased
<1> QED
  BY <1>1, <1>2, <1>3

-----------------------------------------------------------------------------
\* What a queue holds, counted in units.

LEMMA QueuedFinite ==
  ASSUME NEW q \in Seq(Buffer)
  PROVE  IsFiniteSet(Queued(q)) /\ Cardinality(Queued(q)) \in Nat
<1>1. Len(q) \in Nat /\ CHUNK_SIZE \in Nat
  OBVIOUS
<1>2. IsFiniteSet(1..Len(q)) /\ IsFiniteSet(1..CHUNK_SIZE)
  BY <1>1, FS_Interval
<1>3. IsFiniteSet((1..Len(q)) \X (1..CHUNK_SIZE))
  BY <1>2, FS_Product
<1>4. Queued(q) \in SUBSET ((1..Len(q)) \X (1..CHUNK_SIZE))
  BY DEF Queued
<1>5. IsFiniteSet(Queued(q))
  BY <1>3, <1>4, FS_Subset
<1> QED
  BY <1>5, FS_CardinalityType

LEMMA QueuedEmpty == Cardinality(Queued(<<>>)) = 0
<1>1. Queued(<<>>) = {}
  BY DEF Queued
<1> QED
  BY <1>1, FS_EmptySet

\* The units of a packet in any place of a queue.
LEMMA QueuedPacket ==
  ASSUME NEW i \in Nat, NEW n \in Nat
  PROVE  IsFiniteSet({i} \X (1..n)) /\ Cardinality({i} \X (1..n)) = n
<1>1. IsFiniteSet({i}) /\ Cardinality({i}) = 1
  BY FS_Singleton
<1>2. IsFiniteSet(1..n) /\ Cardinality(1..n) = n
  <2>1. 1 \in Int /\ n \in Int
    OBVIOUS
  <2>2. /\ IsFiniteSet(1..n)
        /\ Cardinality(1..n) = IF 1 > n THEN 0 ELSE n - 1 + 1
    BY <2>1, FS_Interval, Zenon
  <2> QED
    BY <2>2
<1>3. /\ IsFiniteSet({i} \X (1..n))
      /\ Cardinality({i} \X (1..n)) = Cardinality({i}) * Cardinality(1..n)
  BY <1>1, <1>2, FS_Product
<1> QED
  BY <1>1, <1>2, <1>3

LEMMA QueuedAppend ==
  ASSUME NEW q \in Seq(Buffer), NEW b \in Buffer
  PROVE  Cardinality(Queued(Append(q, b))) = Cardinality(Queued(q)) + b.size
<1> DEFINE new == {Len(q) + 1} \X (1..b.size)
<1>1. Len(q) \in Nat /\ Len(q) + 1 \in Nat /\ b.size \in Nat /\ b.size \in 1..CHUNK_SIZE
  BY DEF Buffer
<1>2. IsFiniteSet(new) /\ Cardinality(new) = b.size
  BY <1>1, QueuedPacket
<1>3. /\ Len(Append(q, b)) = Len(q) + 1
      /\ \A i \in 1..Len(q) : Append(q, b)[i] = q[i]
      /\ Append(q, b)[Len(q) + 1] = b
  OBVIOUS
<1>4. Queued(Append(q, b)) = Queued(q) \cup new
  <2>1. ASSUME NEW i, NEW u
        PROVE  <<i, u>> \in Queued(Append(q, b)) <=> <<i, u>> \in Queued(q) \cup new
    <3>1. CASE i = Len(q) + 1
      BY <1>1, <1>3, <3>1 DEF Queued
    <3>2. CASE i # Len(q) + 1
      <4>1. i \in 1..(Len(q) + 1) <=> i \in 1..Len(q)
        BY <1>1, <3>2
      <4> QED
        BY <1>3, <3>2, <4>1 DEF Queued
    <3> QED
      BY <3>1, <3>2
  <2>2. /\ Queued(Append(q, b)) \subseteq Nat \X Nat
        /\ Queued(q) \cup new \subseteq Nat \X Nat
    BY <1>1, <1>3 DEF Queued
  <2> QED
    BY <2>1, <2>2
<1>5. Queued(q) \cap new = {}
  BY <1>1 DEF Queued
<1> HIDE DEF new
<1>6. Cardinality(Queued(q) \cup new) = Cardinality(Queued(q)) + Cardinality(new) - Cardinality({})
  BY <1>2, <1>5, QueuedFinite, FS_Union
<1>7. Cardinality({}) = 0 /\ Cardinality(Queued(q)) \in Nat
  BY FS_EmptySet, QueuedFinite
<1> QED
  BY <1>1, <1>2, <1>4, <1>6, <1>7

LEMMA QueuedTail ==
  ASSUME NEW q \in Seq(Buffer), q # <<>>
  PROVE  Cardinality(Queued(Tail(q))) = Cardinality(Queued(q)) - Head(q).size
<1> DEFINE first == {1} \X (1..q[1].size)
           rest == Queued(q) \ first
           Back == [e \in rest |-> <<e[1] - 1, e[2]>>]
<1>1. /\ Len(q) \in Nat /\ Len(q) >= 1 /\ Head(q) = q[1] /\ q[1] \in Buffer
      /\ Tail(q) \in Seq(Buffer) /\ Len(Tail(q)) = Len(q) - 1
      /\ \A i \in 1..(Len(q) - 1) : Tail(q)[i] = q[i + 1]
  BY HeadTailProperties, EmptySeq, LenProperties
<1>2. q[1].size \in Nat /\ q[1].size \in 1..CHUNK_SIZE
  BY <1>1 DEF Buffer
<1>3. IsFiniteSet(first) /\ Cardinality(first) = q[1].size
  BY <1>2, QueuedPacket
<1>4. first \subseteq Queued(q)
  BY <1>1, <1>2 DEF Queued
<1>5. \A e \in rest : \E i \in 2..Len(q), u \in 1..CHUNK_SIZE : e = <<i, u>> /\ u <= q[i].size
  BY <1>1 DEF Queued
<1>6. \A i \in 2..Len(q), u \in 1..CHUNK_SIZE : u <= q[i].size => <<i, u>> \in rest
  BY <1>1 DEF Queued
<1>7. \A i \in 1..(Len(q) - 1), u \in 1..CHUNK_SIZE :
        <<i, u>> \in Queued(Tail(q)) <=> u <= q[i + 1].size
  BY <1>1 DEF Queued
<1>8. \A e \in Queued(Tail(q)) : \E i \in 1..(Len(q) - 1), u \in 1..CHUNK_SIZE : e = <<i, u>>
  BY <1>1 DEF Queued
<1>9. Back \in Bijection(rest, Queued(Tail(q)))
  <2> HIDE DEF rest
  <2>1. ASSUME NEW e \in rest PROVE Back[e] \in Queued(Tail(q))
    <3>1. PICK i \in 2..Len(q), u \in 1..CHUNK_SIZE : e = <<i, u>> /\ u <= q[i].size
      BY <1>5
    <3>2. Back[e] = <<i - 1, u>> /\ i - 1 \in 1..(Len(q) - 1) /\ (i - 1) + 1 = i
      BY <1>1, <3>1
    <3> QED
      BY <1>7, <3>1, <3>2
  <2>2. ASSUME NEW d \in rest, NEW e \in rest, Back[d] = Back[e] PROVE d = e
    <3>1. PICK i \in 2..Len(q), u \in 1..CHUNK_SIZE : e = <<i, u>> /\ u <= q[i].size
      BY <1>5
    <3>2. PICK j \in 2..Len(q), v \in 1..CHUNK_SIZE : d = <<j, v>> /\ v <= q[j].size
      BY <1>5
    <3>3. <<i - 1, u>> = <<j - 1, v>>
      BY <2>2, <3>1, <3>2
    <3> QED
      BY <3>1, <3>2, <3>3
  <2>3. ASSUME NEW e \in Queued(Tail(q)) PROVE \E d \in rest : Back[d] = e
    <3>1. PICK i \in 1..(Len(q) - 1), u \in 1..CHUNK_SIZE : e = <<i, u>>
      BY <1>8
    <3>2. i + 1 \in 2..Len(q) /\ u <= q[i + 1].size
      BY <1>1, <1>7, <3>1
    <3>3. <<i + 1, u>> \in rest
      BY <1>6, <3>2
    <3>4. Back[<<i + 1, u>>] = e
      BY <3>1, <3>3
    <3> QED
      BY <3>3, <3>4
  <2>4. Back \in [rest -> Queued(Tail(q))]
    BY <2>1
  <2> HIDE DEF Back
  <2> QED
    BY <2>2, <2>3, <2>4 DEF Bijection, Injection, Surjection, IsInjective
<1>10. IsFiniteSet(rest)
  BY QueuedFinite, FS_Subset
<1>11. Cardinality(Queued(Tail(q))) = Cardinality(rest)
  BY <1>9, <1>10, FS_Bijection DEF ExistsBijection
<1>12. Queued(q) = rest \cup first /\ rest \cap first = {}
  BY <1>4
<1> HIDE DEF first, rest
<1>13. Cardinality(rest \cup first) = Cardinality(rest) + Cardinality(first) - Cardinality({})
  BY <1>3, <1>10, <1>12, FS_Union
<1>14. Cardinality({}) = 0 /\ Cardinality(rest) \in Nat
  BY <1>10, FS_EmptySet, FS_CardinalityType
<1> QED
  BY <1>1, <1>2, <1>3, <1>11, <1>12, <1>13, <1>14

-----------------------------------------------------------------------------
\* QueueIsBounded.

\* A step that leaves every queue and its counter alone, and starts and ends no write
\* of a session that stays connected.
LEMMA BoundKept ==
  ASSUME TypeOK, QueueIsBounded, UNCHANGED <<sendQueue, queueBytes>>,
         \A r \in Sessions : connected'[r] => /\ connected[r]
                                              /\ "write" \in pending'[r] <=> "write" \in pending[r]
  PROVE  QueueIsBounded'
  BY DEF QueueIsBounded

LEMMA HandleSendBound ==
  ASSUME TypeOK, Writing, QueueIsBounded, NEW s \in Sessions, HandleSend(s)
  PROVE  QueueIsBounded'
<1> DEFINE tooMuch == queueBytes[s] + Head(strand[s]).size > MAX_SEND_QUEUE_BYTES
<1>1. PICK b \in Buffer : b = Head(strand[s])
  BY Elements DEF TypeOK, HandleSend, NextIsSend
<1>2. sendQueue[s] \in Seq(Buffer) /\ queueBytes[s] \in Int /\ b.size \in Nat
  <2>1. b.size \in Nat
    BY DEF Buffer
  <2> QED
    BY <2>1 DEF TypeOK
<1>3. CASE connected[s] /\ ~tooMuch
  <2>1. /\ connected' = connected
        /\ sendQueue' = [sendQueue EXCEPT ![s] = Append(@, b)]
        /\ queueBytes' = [queueBytes EXCEPT ![s] = @ + b.size]
        /\ pending' = IF sendQueue[s] = <<>> THEN StartWrite(s) ELSE pending
    BY <1>1, <1>3 DEF HandleSend, Close, TypeOK
  <2>2. \A r \in Sessions : r # s => /\ sendQueue'[r] = sendQueue[r]
                                     /\ queueBytes'[r] = queueBytes[r]
                                     /\ pending'[r] = pending[r]
    BY <2>1 DEF StartWrite, TypeOK
  <2>3. sendQueue'[s] = Append(sendQueue[s], b) /\ queueBytes'[s] = queueBytes[s] + b.size
    BY <2>1 DEF TypeOK
  <2>4. Append(sendQueue[s], b) # <<>>
    BY <1>2, AppendProperties, EmptySeq
  <2>5. "write" \in pending'[s]
    <3>1. CASE sendQueue[s] = <<>>
      BY <2>1, <3>1 DEF StartWrite, TypeOK
    <3>2. CASE sendQueue[s] # <<>>
      BY <1>3, <2>1, <3>2 DEF QueueIsBounded
    <3> QED
      BY <3>1, <3>2
  <2>6. Cardinality(Queued(Append(sendQueue[s], b))) = Cardinality(Queued(sendQueue[s])) + b.size
    BY <1>2, QueuedAppend
  <2>7. queueBytes'[s] = Cardinality(Queued(sendQueue'[s]))
    BY <2>3, <2>6 DEF QueueIsBounded
  <2>8. queueBytes'[s] <= MAX_SEND_QUEUE_BYTES
    BY <1>1, <1>2, <1>3, <2>3
  <2> HIDE DEF tooMuch
  <2> QED
    BY <2>1, <2>2, <2>3, <2>4, <2>5, <2>7, <2>8 DEF QueueIsBounded
<1>4. CASE ~(connected[s] /\ ~tooMuch)
  <2>1. /\ UNCHANGED <<sendQueue, queueBytes, pending>>
        /\ \A r \in Sessions : connected'[r] => connected[r]
    BY <1>4 DEF HandleSend, Close, TypeOK
  <2> QED
    BY <2>1, BoundKept
<1> QED
  BY <1>3, <1>4

LEMMA WrittenBound ==
  ASSUME TypeOK, Writing, QueueIsBounded, NEW s \in Sessions, Written(s)
  PROVE  QueueIsBounded'
<1>1. sendQueue[s] \in Seq(Buffer) /\ sendQueue[s] # <<>> /\ queueBytes[s] \in Int
  BY DEF TypeOK, Writing, Written, EndsWell, Ends
<1>2. PICK b \in Buffer : b = Head(sendQueue[s])
  BY <1>1, Elements
<1>3. /\ connected' = connected
      /\ \A r \in Sessions : r # s => /\ sendQueue'[r] = sendQueue[r]
                                      /\ queueBytes'[r] = queueBytes[r]
                                      /\ pending'[r] = pending[r]
      /\ sendQueue'[s] = Tail(sendQueue[s]) /\ queueBytes'[s] = queueBytes[s] - b.size
      /\ pending'[s] = IF Len(sendQueue[s]) > 1 THEN pending[s] ELSE pending[s] \ {"write"}
      /\ "write" \in pending[s]
  BY <1>2 DEF Written, EndsWell, Ends, Ended, TypeOK
<1>4. Len(Tail(sendQueue[s])) = Len(sendQueue[s]) - 1 /\ Len(sendQueue[s]) \in Nat
  BY <1>1, HeadTailProperties, LenProperties
<1>5. Tail(sendQueue[s]) # <<>> <=> Len(sendQueue[s]) > 1
  <2> DEFINE rest == Tail(sendQueue[s])
             n == Len(sendQueue[s])
  <2>1. Len(rest) = n - 1 /\ n \in Nat /\ n # 0
    BY <1>1, <1>4, EmptySeq
  <2>2. rest = <<>> <=> Len(rest) = 0
    BY <1>1, HeadTailProperties, EmptySeq
  <2> HIDE DEF rest, n
  <2>3. rest # <<>> <=> n > 1
    BY <2>1, <2>2
  <2> QED
    BY <2>3 DEF rest, n
<1>6. Cardinality(Queued(Tail(sendQueue[s]))) = Cardinality(Queued(sendQueue[s])) - b.size
  BY <1>1, <1>2, QueuedTail
<1>7. b.size \in Nat
  BY DEF Buffer
<1>8. queueBytes'[s] = Cardinality(Queued(sendQueue'[s])) /\ queueBytes'[s] <= MAX_SEND_QUEUE_BYTES
  BY <1>1, <1>3, <1>6, <1>7 DEF QueueIsBounded
<1>9. sendQueue'[s] # <<>> <=> "write" \in pending'[s]
  BY <1>3, <1>5
<1> QED
  BY <1>3, <1>8, <1>9 DEF QueueIsBounded

LEMMA DestroyBound ==
  ASSUME TypeOK, QueueIsBounded, ClosingInv, NEW s \in Sessions, Destroy(s)
  PROVE  QueueIsBounded'
<1>1. /\ UNCHANGED <<connected, pending>> /\ ~connected[s]
      /\ \A r \in Sessions : r # s => sendQueue'[r] = sendQueue[r] /\ queueBytes'[r] = queueBytes[r]
      /\ sendQueue'[s] = <<>> /\ queueBytes'[s] = 0
  BY DEF Destroy, TypeOK, ClosingInv, Closing
<1>2. MAX_SEND_QUEUE_BYTES \in Nat
  OBVIOUS
<1> QED
  BY <1>1, <1>2, QueuedEmpty DEF QueueIsBounded

LEMMA BoundStep ==
  ASSUME TypeOK, Writing, ClosingInv, QueueIsBounded, [Next]_vars
  PROVE  QueueIsBounded'
<1>1. CASE UNCHANGED <<sendQueue, queueBytes, connected, pending>>
  BY <1>1, BoundKept
<1>2. ASSUME NEW s \in Sessions, NEW op \in {"read", "write"}, Fails(s, op)
      PROVE  QueueIsBounded'
  <2>1. \A r \in Sessions : connected'[r] => /\ connected[r]
                                             /\ pending'[r] = pending[r]
    BY <1>2 DEF Fails, Close, Ended, TypeOK
  <2> QED
    BY <1>2, <2>1, BoundKept DEF Fails
<1>3. ASSUME NEW s \in Sessions, CloseFromOutside(s)
      PROVE  QueueIsBounded'
  <2>1. \A r \in Sessions : connected'[r] => connected[r]
    BY <1>3 DEF CloseFromOutside, Close, TypeOK
  <2> QED
    BY <1>3, <2>1, BoundKept DEF CloseFromOutside
<1> QED
  BY <1>1, <1>2, <1>3, HandleSendBound, WrittenBound, DestroyBound
     DEF Next, Session, Pop, Make, Send, Push, CloseJob, ClientLeaves, sessionVars, vars

-----------------------------------------------------------------------------
IInv == TypeOK /\ ChunkInv /\ Writing /\ ClosingInv /\ QueueIsBounded

LEMMA InitIInv == Init => IInv
<1>1. Init => Writing /\ QueueIsBounded
  BY QueuedEmpty DEF Init, Writing, QueueIsBounded
<1> QED
  BY <1>1, InitType, InitChunks, InitClosing DEF IInv

LEMMA StepIInv == IInv /\ [Next]_vars => IInv'
<1> SUFFICES ASSUME TypeOK, ChunkInv, Writing, ClosingInv, QueueIsBounded, [Next]_vars
             PROVE  IInv'
  BY DEF IInv
<1>1. Writing' /\ QueueIsBounded'
  BY WritingStep, BoundStep
<1>2. ASSUME NEW t \in Threads, NEW n \in Sizes, Pop(t, n)
      PROVE  TypeOK' /\ ChunkInv' /\ ClosingInv'
  <2>1. ClosingInv'
    BY <1>2 DEF Pop, sessionVars, ClosingInv, Closing, ClosedIsReleased
  <2> QED
    BY <1>2, <2>1, PopType, PopChunks
<1>3. ASSUME NEW t \in Threads, NEW n \in Sizes, NEW to \in SUBSET Sessions, Make(t, n, to)
      PROVE  TypeOK' /\ ChunkInv' /\ ClosingInv'
  <2>1. ClosingInv'
    BY <1>3 DEF Make, sessionVars, ClosingInv, Closing, ClosedIsReleased
  <2> QED
    BY <1>3, <2>1, MakeType, MakeChunks
<1>4. ASSUME NEW t \in Threads, NEW s \in Sessions, Send(t, s)
      PROVE  TypeOK' /\ ChunkInv' /\ ClosingInv'
  <2>1. UNCHANGED poolVars
    BY <1>4 DEF Send
  <2>2. CutBelow
    BY DEF ChunkInv
  <2> QED
    BY <1>4, <2>1, <2>2, SendType, SendLetsGo, LetGo, SendCloses
<1>5. ASSUME NEW c \in Chunks, Push(c)
      PROVE  TypeOK' /\ ChunkInv' /\ ClosingInv'
  <2>1. ClosingInv'
    BY <1>5 DEF Push, sessionVars, ClosingInv, Closing, ClosedIsReleased
  <2> QED
    BY <1>5, <2>1, PushType, PushChunks
<1>6. ASSUME NEW s \in Sessions, HandleSend(s)
      PROVE  TypeOK' /\ ChunkInv' /\ ClosingInv'
  <2>1. UNCHANGED poolVars
    BY <1>6 DEF HandleSend
  <2> QED
    BY <1>6, <2>1, HandleSendType, HandleSendLetsGo, LetGo, HandleSendCloses
<1>7. ASSUME NEW s \in Sessions, Written(s)
      PROVE  TypeOK' /\ ChunkInv' /\ ClosingInv'
  <2>1. sendQueue[s] # <<>> /\ UNCHANGED poolVars
    BY <1>7 DEF Written, EndsWell, Ends, Writing
  <2> QED
    BY <1>7, <2>1, WrittenType, WrittenLetsGo, LetGo, OtherCloses
<1>8. ASSUME NEW s \in Sessions, NEW op \in {"read", "write"}, Fails(s, op)
      PROVE  TypeOK' /\ ChunkInv' /\ ClosingInv'
  <2>1. UNCHANGED poolVars
    BY <1>8 DEF Fails
  <2> QED
    BY <1>8, <2>1, FailsType, FailsLetsGo, LetGo, FailsCloses
<1>9. ASSUME NEW s \in Sessions, CloseJob(s)
      PROVE  TypeOK' /\ ChunkInv' /\ ClosingInv'
  <2>1. UNCHANGED poolVars
    BY <1>9 DEF CloseJob
  <2> QED
    BY <1>9, <2>1, CloseJobType, CloseJobLetsGo, LetGo, CloseJobCloses
<1>10. ASSUME NEW s \in Sessions, Destroy(s)
       PROVE  TypeOK' /\ ChunkInv' /\ ClosingInv'
  <2>1. UNCHANGED poolVars
    BY <1>10 DEF Destroy
  <2> QED
    BY <1>10, <2>1, DestroyType, DestroyLetsGo, LetGo, OtherCloses
<1>11. ASSUME NEW s \in Sessions, CloseFromOutside(s)
       PROVE  TypeOK' /\ ChunkInv' /\ ClosingInv'
  <2>1. UNCHANGED poolVars
    BY <1>11 DEF CloseFromOutside
  <2> QED
    BY <1>11, <2>1, CloseFromOutsideType, CloseFromOutsideLetsGo, LetGo, CloseFromOutsideCloses
<1>12. ASSUME NEW s \in Sessions, ClientLeaves(s)
       PROVE  TypeOK' /\ ChunkInv' /\ ClosingInv'
  <2>1. UNCHANGED <<poolVars, hand, strand, sendQueue>>
    BY <1>12 DEF ClientLeaves
  <2> QED
    BY <1>12, <2>1, ClientLeavesType, StillLive, LetGo, OtherCloses
<1>13. CASE UNCHANGED vars
  <2>1. UNCHANGED <<poolVars, hand, strand, sendQueue>>
    BY <1>13 DEF vars, sessionVars
  <2>2. TypeOK'
    BY <1>13 DEF vars, poolVars, sessionVars, TypeOK
  <2>3. ClosingInv'
    BY <1>13 DEF vars, sessionVars, ClosingInv, Closing, ClosedIsReleased
  <2> QED
    BY <2>1, <2>2, <2>3, StillLive, LetGo, <1>1 DEF IInv
<1> QED
  BY <1>1, <1>2, <1>3, <1>4, <1>5, <1>6, <1>7, <1>8, <1>9, <1>10, <1>11, <1>12, <1>13
     DEF Next, Session, IInv

\* Every variable keeps its type, for any number of threads, sessions and chunks.
THEOREM TypeCorrect == Spec => []TypeOK
<1>1. IInv => TypeOK
  BY DEF IInv
<1> QED
  BY <1>1, InitIInv, StepIInv, PTL DEF Spec

\* The bytes of a packet that is still to be sent belong to it alone: no thread cuts
\* into it, and its chunk goes back to the pool only after its last reference
\* (SendBufferManager, SendBuffer::owner_).
THEOREM BytesStayIntact == Spec => []BytesIntact
<1>1. IInv => BytesIntact
  BY DEF IInv, ChunkInv
<1> QED
  BY <1>1, InitIInv, StepIInv, PTL DEF Spec

\* A session that is closed, for whatever reason, is on its way out and nothing is
\* posted or started that keeps it (Close, Send, DoWrite).
THEOREM ClosedSessionsAreReleased == Spec => []ClosedIsReleased
<1>1. IInv => ClosedIsReleased
  BY DEF IInv, ClosingInv
<1> QED
  BY <1>1, InitIInv, StepIInv, PTL DEF Spec

\* What a session has queued never exceeds the limit, the counter that is checked
\* against it is exactly what is queued, and a connected session with something
\* queued has a write under way (Send, DoWrite).
THEOREM QueuesStayBounded == Spec => []QueueIsBounded
<1>1. IInv => QueueIsBounded
  BY DEF IInv
<1> QED
  BY <1>1, InitIInv, StepIInv, PTL DEF Spec

-----------------------------------------------------------------------------
(***************************************************************************)
(* ZoneView.  The theorems assume what it assumes of its constants.        *)
(***************************************************************************)

HIDE SendPathAssumption

\* Being near is symmetric: the handlers look around the one who moves, the
\* property around the one who looks.
LEMMA NearSymmetric ==
  ASSUME V!ZoneViewConstants, NEW a \in Cells, NEW b \in Cells
  PROVE  V!IsNear(a, b) <=> V!IsNear(b, a)
  <1>1. a \in Int \X Int /\ b \in Int \X Int
    BY DEF V!ZoneViewConstants
  <1>2. a[1] \in Int /\ a[2] \in Int /\ b[1] \in Int /\ b[2] \in Int
    BY <1>1
  <1>3. \A i, j \in Int : i - j \in -1..1 <=> j - i \in -1..1
    OBVIOUS
  <1>4. a[1] - b[1] \in -1..1 <=> b[1] - a[1] \in -1..1
    BY <1>2, <1>3
  <1>5. a[2] - b[2] \in -1..1 <=> b[2] - a[2] \in -1..1
    BY <1>2, <1>3
  <1>. QED
    BY <1>4, <1>5 DEF V!IsNear

\* The player grid answers who is in a set of cells.
LEMMA PlayersInCells ==
  ASSUME V!ZoneViewConstants, V!TypeOK, V!GridsAreExact, NEW S \in SUBSET Cells
  PROVE  V!InCells(playerGrid, S) = {q \in Players : players[q] \in S}
  BY DEF V!InCells, V!GridsAreExact, V!TypeOK

\* The monster grid answers which living monsters are in a set of cells.
LEMMA MonstersInCells ==
  ASSUME V!ZoneViewConstants, V!TypeOK, V!GridsAreExact, NEW S \in SUBSET Cells
  PROVE  V!InCells(monsterGrid, S) = {m \in Monsters : alive[m] /\ monsterAt[m] \in S}
  BY DEF V!InCells, V!GridsAreExact, V!TypeOK

-----------------------------------------------------------------------------
\* Views.

\* A step that sends SPAWN exactly for what comes into view and DESPAWN exactly for
\* what goes out of it keeps the views exact.
LEMMA SentIsExact ==
  ASSUME V!ZoneViewConstants, V!TypeOK, V!ViewIsExact, NEW S, NEW D,
         view' = V!Sent(S, D),
         \A p \in Players, o \in V!Objects :
           /\ <<p, o>> \in S <=> V!IsVisible(p, o)' /\ ~V!IsVisible(p, o)
           /\ <<p, o>> \in D <=> V!IsVisible(p, o) /\ ~V!IsVisible(p, o)'
  PROVE  V!ViewIsExact' /\ view' \in [Players -> [V!Objects -> Int]]
  <1>1. view' \in [Players -> [V!Objects -> Int]]
    BY DEF V!Sent, V!TypeOK
  <1>2. ASSUME NEW p \in Players, NEW o \in V!Objects
        PROVE  view'[p][o] = IF V!IsVisible(p, o)' THEN 1 ELSE 0
    <2>1. view'[p][o] = view[p][o] + (IF <<p, o>> \in S THEN 1 ELSE 0)
                                   - (IF <<p, o>> \in D THEN 1 ELSE 0)
      BY DEF V!Sent
    <2>2. view[p][o] = IF V!IsVisible(p, o) THEN 1 ELSE 0
      BY DEF V!ViewIsExact
    <2>. QED
      BY <2>1, <2>2
  <1>. QED
    BY <1>1, <1>2 DEF V!ViewIsExact

\* The same when one player leaves and drops its scene.
LEMMA SentIsExactButOne ==
  ASSUME V!ZoneViewConstants, V!TypeOK, V!ViewIsExact, NEW D, NEW x \in Players, ~V!Here(x)',
         view' = [V!Sent({}, D) EXCEPT ![x] = V!EmptyView],
         \A p \in Players, o \in V!Objects :
           p # x => /\ ~(V!IsVisible(p, o)' /\ ~V!IsVisible(p, o))
                    /\ <<p, o>> \in D <=> V!IsVisible(p, o) /\ ~V!IsVisible(p, o)'
  PROVE  V!ViewIsExact' /\ view' \in [Players -> [V!Objects -> Int]]
  <1>0. V!Sent({}, D) \in [Players -> [V!Objects -> Int]]
    BY DEF V!Sent, V!TypeOK
  <1>1. view' \in [Players -> [V!Objects -> Int]]
    <2>1. V!EmptyView \in [V!Objects -> Int]
      BY DEF V!EmptyView
    <2>. QED
      BY <1>0, <2>1
  <1>2. ASSUME NEW p \in Players, NEW o \in V!Objects
        PROVE  view'[p][o] = IF V!IsVisible(p, o)' THEN 1 ELSE 0
    <2>1. CASE p = x
      <3>1. ~V!IsVisible(p, o)'
        BY <2>1 DEF V!IsVisible
      <3>2. view'[p][o] = 0
        BY <2>1 DEF V!EmptyView, V!Sent
      <3>. QED
        BY <3>1, <3>2
    <2>2. CASE p # x
      <3>1. view'[p][o] = view[p][o] - (IF <<p, o>> \in D THEN 1 ELSE 0)
        BY <2>2 DEF V!Sent, V!TypeOK
      <3>2. view[p][o] = IF V!IsVisible(p, o) THEN 1 ELSE 0
        BY DEF V!ViewIsExact
      <3>. QED
        BY <3>1, <3>2, <2>2
    <2>. QED
      BY <2>1, <2>2
  <1>. QED
    BY <1>1, <1>2 DEF V!ViewIsExact
\* The inductive invariant.

ViewIInv == V!TypeOK /\ V!GridsAreExact /\ V!ViewIsExact

\* A player who is at no cell is not in the zone, and the other way round.
LEMMA HereIsInCells ==
  ASSUME V!ZoneViewConstants, V!TypeOK, NEW p \in Players
  PROVE  V!Here(p) <=> players[p] \in Cells
  BY DEF V!TypeOK, V!Here, V!ZoneViewConstants

\* OnPlayerCellChanged, called after the position has changed, keeps grids and views
\* exact, whether the player walks or is teleported.
LEMMA CellChangedIsExact ==
  ASSUME V!ZoneViewConstants, ViewIInv, NEW p \in Players, NEW to \in Cells, V!Here(p),
         players' = [players EXCEPT ![p] = to],
         V!OnPlayerCellChanged(p, players[p], to),
         UNCHANGED V!monsterVars
  PROVE  /\ playerGrid' \in [Cells -> SUBSET Players]
         /\ view' \in [Players -> [V!Objects -> Int]]
         /\ V!GridsAreExact'
         /\ V!ViewIsExact'
  <1>. DEFINE from == players[p]
              grid == V!Moved(playerGrid, p, from, to)
              appeared == V!InCells(grid, V!EnteredCells(from, to)) \ {p}
              disappeared == V!InCells(grid, V!LeftCells(from, to)) \ {p}
              monstersIn == V!InCells(monsterGrid, V!EnteredCells(from, to))
              monstersOut == V!InCells(monsterGrid, V!LeftCells(from, to))
  <1>1. from \in Cells
    BY HereIsInCells DEF ViewIInv
  <1>2. /\ grid \in [Cells -> SUBSET Players]
        /\ \A c \in Cells : grid[c] = IF c = to THEN playerGrid[c] \cup {p}
                                                ELSE playerGrid[c] \ {p}
    <2>1. /\ playerGrid \in [Cells -> SUBSET Players]
          /\ p \in playerGrid[from]
          /\ \A c \in Cells : c # from => p \notin playerGrid[c]
      BY <1>1 DEF ViewIInv, V!TypeOK, V!GridsAreExact
    <2>. QED
      BY <1>1, <2>1 DEF V!Moved, V!Add, V!Remove
  <1>3. playerGrid' = grid
    BY DEF V!OnPlayerCellChanged
  <1>4. V!GridsAreExact'
    <2>1. \A c \in Cells : grid[c] = {q \in Players : players'[q] = c}
      BY <1>1, <1>2 DEF ViewIInv, V!TypeOK, V!GridsAreExact
    <2>2. \A c \in Cells : monsterGrid'[c] = {m \in Monsters : alive'[m] /\ monsterAt'[m] = c}
      BY DEF ViewIInv, V!GridsAreExact, V!monsterVars
    <2>. QED
      BY <1>3, <2>1, <2>2 DEF V!GridsAreExact
  <1>5. \A c : c \in V!EnteredCells(from, to) <=> c \in Cells /\ V!IsNear(c, to) /\ ~V!IsNear(c, from)
    BY DEF V!EnteredCells, V!NearCells
  <1>6. \A c : c \in V!LeftCells(from, to) <=> c \in Cells /\ V!IsNear(c, from) /\ ~V!IsNear(c, to)
    BY DEF V!LeftCells, V!NearCells
  <1>a. ASSUME NEW C \in SUBSET Cells
        PROVE  \A q : q \in V!InCells(grid, C) \ {p} <=>
                        q \in Players /\ q # p /\ players[q] \in C
    <2>1. \A c \in Cells : \A q : q \in grid[c] /\ q # p <=>
                                    q \in Players /\ q # p /\ players[q] = c
      <3>1. \A c \in Cells : \A q : q \in playerGrid[c] <=> q \in Players /\ players[q] = c
        BY DEF ViewIInv, V!GridsAreExact
      <3>2. \A c \in Cells : \A q : q \in grid[c] /\ q # p <=> q \in playerGrid[c] /\ q # p
        BY <1>2
      <3>. QED
        BY <3>1, <3>2
    <2>. HIDE DEF grid
    <2>. QED
      BY <2>1 DEF V!InCells
  <1>b. V!EnteredCells(from, to) \in SUBSET Cells /\ V!LeftCells(from, to) \in SUBSET Cells
    BY <1>5, <1>6
  <1>7. \A q : q \in appeared <=> q \in Players /\ q # p /\ players[q] \in V!EnteredCells(from, to)
    BY <1>a, <1>b
  <1>8. \A q : q \in disappeared <=> q \in Players /\ q # p /\ players[q] \in V!LeftCells(from, to)
    BY <1>a, <1>b
  <1>9. \A m : m \in monstersIn <=>
                 m \in Monsters /\ alive[m] /\ monsterAt[m] \in V!EnteredCells(from, to)
    BY <1>5, MonstersInCells DEF ViewIInv
  <1>10. \A m : m \in monstersOut <=>
                  m \in Monsters /\ alive[m] /\ monsterAt[m] \in V!LeftCells(from, to)
    BY <1>6, MonstersInCells DEF ViewIInv
  <1>. DEFINE S == V!BothWays(p, appeared, monstersIn)
              D == V!BothWays(p, disappeared, monstersOut)
  <1>11. view' = V!Sent(S, D)
    BY DEF V!OnPlayerCellChanged
  <1>12. ASSUME NEW x \in Players, NEW o \in V!Objects
         PROVE  /\ <<x, o>> \in S <=> V!IsVisible(x, o)' /\ ~V!IsVisible(x, o)
                /\ <<x, o>> \in D <=> V!IsVisible(x, o) /\ ~V!IsVisible(x, o)'
    <2>1. /\ <<x, o>> \in S <=> \/ x = p /\ (o \in appeared \/ o \in monstersIn)
                                \/ x \in appeared /\ o = p
          /\ <<x, o>> \in D <=> \/ x = p /\ (o \in disappeared \/ o \in monstersOut)
                                \/ x \in disappeared /\ o = p
      BY DEF V!BothWays
    <2>2. /\ players'[p] = to
          /\ \A q \in Players : q # p => players'[q] = players[q]
          /\ \A q \in Players : q # p => V!Here(q)' = V!Here(q)
          /\ V!Here(p)'
      BY DEF ViewIInv, V!TypeOK, V!Here, V!ZoneViewConstants
    <2>3. alive' = alive /\ monsterAt' = monsterAt
      BY DEF V!monsterVars
    <2>4. CASE x = p
      <3>1. CASE o \in Players /\ o # p
        <4>1. o \notin Monsters
          BY <3>1 DEF V!ZoneViewConstants
        <4>2. V!Here(o) <=> players[o] \in Cells
          BY <3>1, HereIsInCells DEF ViewIInv
        <4>3. V!IsVisible(x, o) <=> V!Here(o) /\ V!IsNear(players[o], from)
          BY <2>4, <3>1, <4>1 DEF V!IsVisible
        <4>4. V!IsVisible(x, o)' <=> V!Here(o) /\ V!IsNear(players[o], to)
          BY <2>4, <2>2, <3>1, <4>1 DEF V!IsVisible
        <4>. QED
          BY <2>1, <2>4, <3>1, <4>1, <4>2, <4>3, <4>4, <1>5, <1>6, <1>7, <1>8, <1>9, <1>10
      <3>2. CASE o \in Monsters
        <4>1. o \notin Players /\ o # p
          BY <3>2 DEF V!ZoneViewConstants
        <4>2. monsterAt[o] \in Cells
          BY <3>2 DEF ViewIInv, V!TypeOK
        <4>3. V!IsVisible(x, o) <=> alive[o] /\ V!IsNear(monsterAt[o], from)
          BY <2>4, <3>2, <4>1 DEF V!IsVisible
        <4>4. V!IsVisible(x, o)' <=> alive[o] /\ V!IsNear(monsterAt[o], to)
          BY <2>4, <2>2, <2>3, <3>2, <4>1 DEF V!IsVisible
        <4>. QED
          BY <2>1, <2>4, <3>2, <4>1, <4>2, <4>3, <4>4, <1>5, <1>6, <1>7, <1>8, <1>9, <1>10
      <3>3. CASE o = p
        <4>1. o \notin Monsters
          BY <3>3 DEF V!ZoneViewConstants
        <4>2. ~V!IsVisible(x, o) /\ ~V!IsVisible(x, o)'
          BY <2>4, <3>3 DEF V!IsVisible
        <4>. QED
          BY <2>1, <2>4, <3>3, <4>1, <4>2, <1>7, <1>8, <1>9, <1>10
      <3>. QED
        BY <3>1, <3>2, <3>3 DEF V!Objects
    <2>5. CASE x # p /\ o = p
      <3>1. o \notin Monsters
        BY <2>5 DEF V!ZoneViewConstants
      <3>2. V!Here(x) <=> players[x] \in Cells
        BY HereIsInCells DEF ViewIInv
      <3>3. V!IsVisible(x, o) <=> V!Here(x) /\ V!IsNear(from, players[x])
        BY <2>5, <3>1 DEF V!IsVisible
      <3>4. V!IsVisible(x, o)' <=> V!Here(x) /\ V!IsNear(to, players[x])
        BY <2>5, <2>2, <3>1 DEF V!IsVisible
      <3>5. V!Here(x) => /\ V!IsNear(from, players[x]) <=> V!IsNear(players[x], from)
                         /\ V!IsNear(to, players[x]) <=> V!IsNear(players[x], to)
        BY <1>1, <3>2, NearSymmetric
      <3>. QED
        BY <2>1, <2>5, <3>2, <3>3, <3>4, <3>5, <1>5, <1>6, <1>7, <1>8
    <2>6. CASE x # p /\ o # p
      <3>1. V!IsVisible(x, o)' <=> V!IsVisible(x, o)
        BY <2>6, <2>2, <2>3 DEF V!IsVisible
      <3>. QED
        BY <2>1, <2>6, <3>1
    <2>. QED
      BY <2>4, <2>5, <2>6
  <1>. HIDE DEF S, D
  <1>13. V!ViewIsExact' /\ view' \in [Players -> [V!Objects -> Int]]
    BY <1>11, <1>12, SentIsExact DEF ViewIInv
  <1>. QED
    BY <1>2, <1>3, <1>4, <1>13

\* Leave keeps grids and views exact: those who are told are those who saw the player.
LEMMA LeaveIsExact ==
  ASSUME V!ZoneViewConstants, ViewIInv, NEW x \in Players, V!Here(x), V!Leave(x), UNCHANGED V!monsterVars
  PROVE  /\ players' \in [Players -> Cells \cup {NotHere}]
         /\ playerGrid' \in [Cells -> SUBSET Players]
         /\ view' \in [Players -> [V!Objects -> Int]]
         /\ V!GridsAreExact'
         /\ V!ViewIsExact'
  <1>. DEFINE c == players[x]
              grid == V!Remove(playerGrid, x, c)
              D == V!InCells(grid, V!NearCells(c)) \X {x}
  <1>1. c \in Cells
    BY HereIsInCells DEF ViewIInv
  <1>2. /\ playerGrid' = grid
        /\ players' = [players EXCEPT ![x] = NotHere]
        /\ view' = [V!Sent({}, D) EXCEPT ![x] = V!EmptyView]
    BY DEF V!Leave
  <1>3. /\ grid \in [Cells -> SUBSET Players]
        /\ \A d \in Cells : \A q : q \in grid[d] <=> q \in Players /\ q # x /\ players[q] = d
    <2>1. /\ playerGrid \in [Cells -> SUBSET Players]
          /\ \A d \in Cells : \A q : q \in playerGrid[d] <=> q \in Players /\ players[q] = d
      BY DEF ViewIInv, V!TypeOK, V!GridsAreExact
    <2>. QED
      BY <1>1, <2>1 DEF V!Remove
  <1>4. /\ players' \in [Players -> Cells \cup {NotHere}]
        /\ players'[x] = NotHere
        /\ \A q \in Players : q # x => players'[q] = players[q]
    BY <1>2 DEF ViewIInv, V!TypeOK
  <1>5. V!GridsAreExact'
    <2>1. \A d \in Cells : \A q : q \in grid[d] <=> q \in Players /\ players'[q] = d
      BY <1>3, <1>4 DEF V!ZoneViewConstants
    <2>2. \A d \in Cells : grid[d] = {q \in Players : players'[q] = d}
      BY <2>1
    <2>3. \A d \in Cells : monsterGrid'[d] = {m \in Monsters : alive'[m] /\ monsterAt'[m] = d}
      BY DEF ViewIInv, V!GridsAreExact, V!monsterVars
    <2>. QED
      BY <1>2, <2>2, <2>3 DEF V!GridsAreExact
  <1>6. \A q, o : <<q, o>> \in D <=> o = x /\ q \in Players /\ q # x
                                      /\ players[q] \in Cells /\ V!IsNear(players[q], c)
    <2>. HIDE DEF grid
    <2>1. \A q : q \in V!InCells(grid, V!NearCells(c)) <=>
                   q \in Players /\ q # x /\ players[q] \in Cells /\ V!IsNear(players[q], c)
      BY <1>3 DEF V!InCells, V!NearCells
    <2>. QED
      BY <2>1
  <1>7. ~V!Here(x)'
    BY <1>4 DEF V!Here
  <1>8. ASSUME NEW p \in Players, NEW o \in V!Objects, p # x
        PROVE  /\ ~(V!IsVisible(p, o)' /\ ~V!IsVisible(p, o))
               /\ <<p, o>> \in D <=> V!IsVisible(p, o) /\ ~V!IsVisible(p, o)'
    <2>1. V!Here(p)' <=> V!Here(p)
      BY <1>4, <1>8 DEF V!Here
    <2>2. CASE o = x
      <3>1. o \notin Monsters
        BY <2>2 DEF V!ZoneViewConstants
      <3>2. ~V!IsVisible(p, o)'
        BY <2>2, <3>1, <1>7 DEF V!IsVisible
      <3>3. V!IsVisible(p, o) <=> V!Here(p) /\ V!IsNear(c, players[p])
        BY <2>2, <3>1, <1>8 DEF V!IsVisible
      <3>4. V!Here(p) <=> players[p] \in Cells
        BY HereIsInCells DEF ViewIInv
      <3>5. V!Here(p) => (V!IsNear(c, players[p]) <=> V!IsNear(players[p], c))
        BY <1>1, <3>4, NearSymmetric
      <3>. QED
        BY <1>6, <1>8, <2>2, <3>2, <3>3, <3>4, <3>5
    <2>3. CASE o # x
      <3>1. o \in Players => (V!Here(o)' <=> V!Here(o)) /\ players'[o] = players[o]
        BY <1>4, <2>3 DEF V!Here
      <3>2. alive' = alive /\ monsterAt' = monsterAt /\ players'[p] = players[p]
        BY <1>4, <1>8 DEF V!monsterVars
      <3>3. V!IsVisible(p, o)' <=> V!IsVisible(p, o)
        BY <2>1, <3>1, <3>2 DEF V!IsVisible
      <3>. QED
        BY <1>6, <2>3, <3>3
    <2>. QED
      BY <2>2, <2>3
  <1>. HIDE DEF D
  <1>9. V!ViewIsExact' /\ view' \in [Players -> [V!Objects -> Int]]
    BY <1>2, <1>7, <1>8, SentIsExactButOne DEF ViewIInv
  <1>. QED
    BY <1>2, <1>3, <1>4, <1>5, <1>9

\* Enter, too: the client is told of what is near, and those who are near of it.
LEMMA EnterIsExact ==
  ASSUME V!ZoneViewConstants, ViewIInv, NEW x \in Players, V!Enter(x)
  PROVE  ViewIInv'
  <1>1. PICK c \in Cells, isDead \in BOOLEAN :
          /\ view' = V!Sent(V!BothWays(x, V!InCells(playerGrid, V!NearCells(c)),
                                      V!InCells(monsterGrid, V!NearCells(c))), {})
          /\ players' = [players EXCEPT ![x] = c]
          /\ dead' = [dead EXCEPT ![x] = isDead]
          /\ playerGrid' = V!Add(playerGrid, x, c)
    BY DEF V!Enter
  <1>2. ~V!Here(x) /\ UNCHANGED <<portalPending, V!monsterVars>>
    BY DEF V!Enter
  <1>3. V!NearCells(c) \in SUBSET Cells /\ \A d : d \in V!NearCells(c) <=> d \in Cells /\ V!IsNear(d, c)
    BY DEF V!NearCells
  <1>. DEFINE others == V!InCells(playerGrid, V!NearCells(c))
              monsters == V!InCells(monsterGrid, V!NearCells(c))
              S == V!BothWays(x, others, monsters)
  <1>4. /\ \A q : q \in others <=> q \in Players /\ players[q] \in V!NearCells(c)
        /\ \A m : m \in monsters <=> m \in Monsters /\ alive[m] /\ monsterAt[m] \in V!NearCells(c)
    BY <1>3, PlayersInCells, MonstersInCells DEF ViewIInv
  <1>5. /\ players' \in [Players -> Cells \cup {NotHere}]
        /\ players'[x] = c
        /\ \A q \in Players : q # x => players'[q] = players[q]
    BY <1>1 DEF ViewIInv, V!TypeOK
  <1>6. /\ playerGrid' \in [Cells -> SUBSET Players]
        /\ \A d \in Cells : \A q : q \in playerGrid'[d] <=> q \in Players /\ players'[q] = d
    <2>1. /\ playerGrid \in [Cells -> SUBSET Players]
          /\ \A d \in Cells : \A q : q \in playerGrid[d] <=> q \in Players /\ players[q] = d
      BY DEF ViewIInv, V!TypeOK, V!GridsAreExact
    <2>2. \A d \in Cells : players[x] # d
      BY <1>2, HereIsInCells DEF ViewIInv
    <2>3. /\ playerGrid' \in [Cells -> SUBSET Players]
          /\ \A d \in Cells : \A q : q \in playerGrid'[d] <=>
                                       q \in playerGrid[d] \/ (d = c /\ q = x)
      BY <1>1, <2>1 DEF V!Add
    <2>. QED
      BY <1>5, <2>1, <2>2, <2>3
  <1>7. V!GridsAreExact'
    <2>1. \A d \in Cells : playerGrid'[d] = {q \in Players : players'[q] = d}
      BY <1>6
    <2>2. \A d \in Cells : monsterGrid'[d] = {m \in Monsters : alive'[m] /\ monsterAt'[m] = d}
      BY <1>2 DEF ViewIInv, V!GridsAreExact, V!monsterVars
    <2>. QED
      BY <2>1, <2>2 DEF V!GridsAreExact
  <1>8. ASSUME NEW p \in Players, NEW o \in V!Objects
        PROVE  /\ <<p, o>> \in S <=> V!IsVisible(p, o)' /\ ~V!IsVisible(p, o)
               /\ <<p, o>> \in {} <=> V!IsVisible(p, o) /\ ~V!IsVisible(p, o)'
    <2>1. <<p, o>> \in S <=> \/ p = x /\ (o \in others \/ o \in monsters)
                             \/ p \in others /\ o = x
      BY DEF V!BothWays
    <2>2. x \notin others
      BY <1>2, <1>3, <1>4, HereIsInCells DEF ViewIInv
    <2>3. V!Here(x)' /\ \A q \in Players : q # x => V!Here(q)' = V!Here(q)
      BY <1>5 DEF V!Here, V!ZoneViewConstants
    <2>4. alive' = alive /\ monsterAt' = monsterAt
      BY <1>2 DEF V!monsterVars
    <2>5. CASE p = x
      <3>1. ~V!IsVisible(p, o)
        BY <2>5, <1>2 DEF V!IsVisible
      <3>2. CASE o \in Players /\ o # x
        <4>1. o \notin Monsters
          BY <3>2 DEF V!ZoneViewConstants
        <4>2. V!Here(o) <=> players[o] \in Cells
          BY <3>2, HereIsInCells DEF ViewIInv
        <4>3. V!IsVisible(p, o)' <=> V!Here(o) /\ V!IsNear(players[o], c)
          BY <1>5, <2>3, <2>5, <3>2, <4>1 DEF V!IsVisible
        <4>. QED
          BY <1>3, <1>4, <2>1, <2>5, <3>1, <3>2, <4>1, <4>2, <4>3
      <3>3. CASE o \in Monsters
        <4>1. o \notin Players /\ o # x
          BY <3>3 DEF V!ZoneViewConstants
        <4>2. monsterAt[o] \in Cells
          BY <3>3 DEF ViewIInv, V!TypeOK
        <4>3. V!IsVisible(p, o)' <=> alive[o] /\ V!IsNear(monsterAt[o], c)
          BY <1>5, <2>3, <2>4, <2>5, <3>3, <4>1 DEF V!IsVisible
        <4>. QED
          BY <1>3, <1>4, <2>1, <2>5, <3>1, <3>3, <4>1, <4>2, <4>3
      <3>4. CASE o = x
        <4>1. o \notin Monsters /\ ~V!IsVisible(p, o)'
          BY <2>5, <3>4 DEF V!IsVisible, V!ZoneViewConstants
        <4>. QED
          BY <1>4, <2>1, <2>2, <2>5, <3>1, <3>4, <4>1
      <3>. QED
        BY <3>2, <3>3, <3>4 DEF V!Objects
    <2>6. CASE p # x /\ o = x
      <3>1. o \notin Monsters
        BY <2>6 DEF V!ZoneViewConstants
      <3>2. ~V!IsVisible(p, o)
        BY <1>2, <2>6, <3>1 DEF V!IsVisible
      <3>3. V!Here(p) <=> players[p] \in Cells
        BY HereIsInCells DEF ViewIInv
      <3>4. V!IsVisible(p, o)' <=> V!Here(p) /\ V!IsNear(c, players[p])
        BY <1>5, <2>3, <2>6, <3>1 DEF V!IsVisible
      <3>5. V!Here(p) => (V!IsNear(c, players[p]) <=> V!IsNear(players[p], c))
        BY <3>3, NearSymmetric
      <3>. QED
        BY <1>3, <1>4, <2>1, <2>6, <3>2, <3>3, <3>4, <3>5
    <2>7. CASE p # x /\ o # x
      <3>1. V!IsVisible(p, o)' <=> V!IsVisible(p, o)
        BY <1>5, <2>3, <2>4, <2>7 DEF V!IsVisible
      <3>. QED
        BY <2>1, <2>7, <3>1
    <2>. QED
      BY <2>5, <2>6, <2>7
  <1>9. view' = V!Sent(S, {})
    BY <1>1
  <1>. HIDE DEF S
  <1>10. V!ViewIsExact' /\ view' \in [Players -> [V!Objects -> Int]]
    BY <1>8, <1>9, SentIsExact DEF ViewIInv
  <1>11. V!TypeOK'
    BY <1>1, <1>2, <1>5, <1>6, <1>10 DEF ViewIInv, V!TypeOK, V!monsterVars
  <1>. QED
    BY <1>7, <1>10, <1>11 DEF ViewIInv

\* A step of the monsters: the players near the cells that m comes into or goes out
\* of are told, and nobody else sees a difference.
LEMMA MonsterStepIsExact ==
  ASSUME V!ZoneViewConstants, ViewIInv, NEW m \in Monsters, NEW In \in SUBSET Players, NEW Out \in SUBSET Players,
         UNCHANGED V!playerVars,
         \A n \in Monsters : n # m => alive'[n] = alive[n] /\ monsterAt'[n] = monsterAt[n],
         view' = V!Sent(In \X {m}, Out \X {m}),
         \A q \in Players :
           /\ q \in In <=> V!IsVisible(q, m)' /\ ~V!IsVisible(q, m)
           /\ q \in Out <=> V!IsVisible(q, m) /\ ~V!IsVisible(q, m)'
  PROVE  V!ViewIsExact' /\ view' \in [Players -> [V!Objects -> Int]]
  <1>. DEFINE S == In \X {m}
              D == Out \X {m}
  <1>1. ASSUME NEW p \in Players, NEW o \in V!Objects
        PROVE  /\ <<p, o>> \in S <=> V!IsVisible(p, o)' /\ ~V!IsVisible(p, o)
               /\ <<p, o>> \in D <=> V!IsVisible(p, o) /\ ~V!IsVisible(p, o)'
    <2>1. CASE o = m
      BY <2>1
    <2>2. CASE o # m
      <3>1. /\ players' = players
            /\ o \in Monsters => alive'[o] = alive[o] /\ monsterAt'[o] = monsterAt[o]
        BY <2>2 DEF V!playerVars
      <3>2. V!IsVisible(p, o)' <=> V!IsVisible(p, o)
        BY <3>1 DEF V!IsVisible, V!Here
      <3>. QED
        BY <2>2, <3>2
    <2>. QED
      BY <2>1, <2>2
  <1>2. view' = V!Sent(S, D)
    OBVIOUS
  <1>. HIDE DEF S, D
  <1>. QED
    BY <1>1, <1>2, SentIsExact DEF ViewIInv

\* MonsterMoves keeps grids and views exact.
LEMMA MonsterMovesIsExact ==
  ASSUME V!ZoneViewConstants, ViewIInv, NEW m \in Monsters, NEW to \in Cells, V!MonsterMoves(m, to)
  PROVE  ViewIInv'
  <1>. DEFINE from == monsterAt[m]
              In == V!InCells(playerGrid, V!EnteredCells(from, to))
              Out == V!InCells(playerGrid, V!LeftCells(from, to))
  <1>1. /\ alive[m]
        /\ monsterAt' = [monsterAt EXCEPT ![m] = to]
        /\ monsterGrid' = V!Moved(monsterGrid, m, from, to)
        /\ view' = V!Sent(In \X {m}, Out \X {m})
        /\ UNCHANGED <<V!playerVars, alive>>
    BY DEF V!MonsterMoves
  <1>2. from \in Cells
    BY DEF ViewIInv, V!TypeOK
  <1>3. /\ monsterAt' \in [Monsters -> Cells]
        /\ monsterAt'[m] = to
        /\ \A n \in Monsters : n # m => monsterAt'[n] = monsterAt[n]
    BY <1>1 DEF ViewIInv, V!TypeOK
  <1>4. /\ monsterGrid' \in [Cells -> SUBSET Monsters]
        /\ \A d \in Cells : \A n : n \in monsterGrid'[d] <=>
                                     n \in Monsters /\ alive'[n] /\ monsterAt'[n] = d
    <2>1. /\ monsterGrid \in [Cells -> SUBSET Monsters]
          /\ \A d \in Cells : \A n : n \in monsterGrid[d] <=>
                                       n \in Monsters /\ alive[n] /\ monsterAt[n] = d
      BY DEF ViewIInv, V!TypeOK, V!GridsAreExact
    <2>2. CASE from = to
      <3>1. monsterGrid' = monsterGrid
        BY <1>1, <2>2 DEF V!Moved
      <3>2. \A n \in Monsters : monsterAt'[n] = monsterAt[n] /\ alive'[n] = alive[n]
        BY <1>1, <1>3, <2>2
      <3>. QED
        BY <2>1, <3>1, <3>2
    <2>3. CASE from # to
      <3>1. monsterGrid' = V!Add(V!Remove(monsterGrid, m, from), m, to)
        BY <1>1, <2>3 DEF V!Moved
      <3>2. /\ monsterGrid' \in [Cells -> SUBSET Monsters]
            /\ \A d \in Cells : \A n : n \in monsterGrid'[d] <=>
                 (n \in monsterGrid[d] /\ ~(n = m /\ d = from)) \/ (n = m /\ d = to)
        BY <1>2, <2>1, <2>3, <3>1 DEF V!Add, V!Remove
      <3>3. \A n : alive'[n] = alive[n]
        BY <1>1
      <3>. QED
        BY <1>1, <1>3, <2>1, <2>3, <3>2, <3>3
    <2>. QED
      BY <2>2, <2>3
  <1>5. V!GridsAreExact'
    <2>1. \A d \in Cells : monsterGrid'[d] = {n \in Monsters : alive'[n] /\ monsterAt'[n] = d}
      BY <1>4
    <2>2. \A d \in Cells : playerGrid'[d] = {q \in Players : players'[q] = d}
      BY <1>1 DEF ViewIInv, V!GridsAreExact, V!playerVars
    <2>. QED
      BY <2>1, <2>2 DEF V!GridsAreExact
  <1>6. /\ \A c : c \in V!EnteredCells(from, to) <=> c \in Cells /\ V!IsNear(c, to) /\ ~V!IsNear(c, from)
        /\ \A c : c \in V!LeftCells(from, to) <=> c \in Cells /\ V!IsNear(c, from) /\ ~V!IsNear(c, to)
    BY DEF V!EnteredCells, V!LeftCells, V!NearCells
  <1>7. /\ \A q : q \in In <=> q \in Players /\ players[q] \in V!EnteredCells(from, to)
        /\ \A q : q \in Out <=> q \in Players /\ players[q] \in V!LeftCells(from, to)
    BY <1>6, PlayersInCells DEF ViewIInv
  <1>8. ASSUME NEW q \in Players
        PROVE  /\ q \in In <=> V!IsVisible(q, m)' /\ ~V!IsVisible(q, m)
               /\ q \in Out <=> V!IsVisible(q, m) /\ ~V!IsVisible(q, m)'
    <2>1. m # q /\ m \notin Players
      BY DEF V!ZoneViewConstants
    <2>2. V!Here(q) <=> players[q] \in Cells
      BY HereIsInCells DEF ViewIInv
    <2>3. players' = players /\ alive' = alive
      BY <1>1 DEF V!playerVars
    <2>4. V!IsVisible(q, m) <=> V!Here(q) /\ V!IsNear(from, players[q])
      BY <1>1, <2>1 DEF V!IsVisible
    <2>5. V!IsVisible(q, m)' <=> V!Here(q) /\ V!IsNear(to, players[q])
      BY <1>1, <1>3, <2>1, <2>3 DEF V!IsVisible, V!Here
    <2>6. V!Here(q) => /\ V!IsNear(from, players[q]) <=> V!IsNear(players[q], from)
                       /\ V!IsNear(to, players[q]) <=> V!IsNear(players[q], to)
      BY <1>2, <2>2, NearSymmetric
    <2>. QED
      BY <1>6, <1>7, <2>2, <2>4, <2>5, <2>6
  <1>9. V!ViewIsExact' /\ view' \in [Players -> [V!Objects -> Int]]
    <2>1. In \in SUBSET Players /\ Out \in SUBSET Players
      BY <1>7
    <2>2. UNCHANGED V!playerVars
      BY <1>1
    <2>3. \A n \in Monsters : n # m => alive'[n] = alive[n] /\ monsterAt'[n] = monsterAt[n]
      BY <1>1, <1>3
    <2>4. view' = V!Sent(In \X {m}, Out \X {m})
      BY <1>1
    <2>. HIDE DEF In, Out
    <2>. QED
      BY <1>8, <2>1, <2>2, <2>3, <2>4, MonsterStepIsExact
  <1>10. V!TypeOK'
    BY <1>1, <1>3, <1>4, <1>9 DEF ViewIInv, V!TypeOK, V!playerVars
  <1>. QED
    BY <1>5, <1>9, <1>10 DEF ViewIInv

\* A monster that dies goes out of view of those near, and out of the grid.
LEMMA OnMonsterDeadIsExact ==
  ASSUME V!ZoneViewConstants, ViewIInv, NEW m \in Monsters, V!OnMonsterDead(m)
  PROVE  ViewIInv'
  <1>. DEFINE c == monsterAt[m]
              Out == V!InCells(playerGrid, V!NearCells(c))
  <1>1. /\ alive[m]
        /\ alive' = [alive EXCEPT ![m] = FALSE]
        /\ view' = V!Sent({}, Out \X {m})
        /\ monsterGrid' = V!Remove(monsterGrid, m, c)
        /\ UNCHANGED <<V!playerVars, monsterAt>>
    BY DEF V!OnMonsterDead
  <1>2. c \in Cells
    BY DEF ViewIInv, V!TypeOK
  <1>3. /\ alive' \in [Monsters -> BOOLEAN]
        /\ ~alive'[m]
        /\ \A n \in Monsters : n # m => alive'[n] = alive[n]
    BY <1>1, Zenon DEF ViewIInv, V!TypeOK
  <1>4. /\ monsterGrid' \in [Cells -> SUBSET Monsters]
        /\ \A d \in Cells : \A n : n \in monsterGrid'[d] <=>
                                     n \in Monsters /\ alive'[n] /\ monsterAt'[n] = d
    <2>1. /\ monsterGrid \in [Cells -> SUBSET Monsters]
          /\ \A d \in Cells : \A n : n \in monsterGrid[d] <=>
                                       n \in Monsters /\ alive[n] /\ monsterAt[n] = d
      BY DEF ViewIInv, V!TypeOK, V!GridsAreExact
    <2>2. /\ monsterGrid' \in [Cells -> SUBSET Monsters]
          /\ \A d \in Cells : \A n : n \in monsterGrid'[d] <=>
                                       n \in monsterGrid[d] /\ ~(n = m /\ d = c)
      BY <1>1, <1>2, <2>1 DEF V!Remove
    <2>3. monsterAt' = monsterAt
      BY <1>1
    <2>. QED
      BY <1>3, <2>1, <2>2, <2>3
  <1>5. V!GridsAreExact'
    <2>1. \A d \in Cells : monsterGrid'[d] = {n \in Monsters : alive'[n] /\ monsterAt'[n] = d}
      BY <1>4
    <2>2. \A d \in Cells : playerGrid'[d] = {q \in Players : players'[q] = d}
      BY <1>1 DEF ViewIInv, V!GridsAreExact, V!playerVars
    <2>. QED
      BY <2>1, <2>2 DEF V!GridsAreExact
  <1>6. \A q : q \in Out <=> q \in Players /\ players[q] \in Cells /\ V!IsNear(players[q], c)
    <2>1. V!NearCells(c) \in SUBSET Cells
      BY DEF V!NearCells
    <2>2. \A q : q \in Out <=> q \in Players /\ players[q] \in V!NearCells(c)
      BY <2>1, PlayersInCells DEF ViewIInv
    <2>. QED
      BY <2>2 DEF V!NearCells
  <1>7. ASSUME NEW q \in Players
        PROVE  /\ q \in {} <=> V!IsVisible(q, m)' /\ ~V!IsVisible(q, m)
               /\ q \in Out <=> V!IsVisible(q, m) /\ ~V!IsVisible(q, m)'
    <2>1. m # q /\ m \notin Players
      BY DEF V!ZoneViewConstants
    <2>2. V!Here(q) <=> players[q] \in Cells
      BY HereIsInCells DEF ViewIInv
    <2>3. V!IsVisible(q, m) <=> V!Here(q) /\ V!IsNear(c, players[q])
      BY <1>1, <2>1 DEF V!IsVisible
    <2>4. ~V!IsVisible(q, m)'
      BY <1>3, <2>1 DEF V!IsVisible
    <2>5. V!Here(q) => (V!IsNear(c, players[q]) <=> V!IsNear(players[q], c))
      BY <1>2, <2>2, NearSymmetric
    <2>. QED
      BY <1>6, <2>2, <2>3, <2>4, <2>5
  <1>8. V!ViewIsExact' /\ view' \in [Players -> [V!Objects -> Int]]
    <2>1. Out \in SUBSET Players /\ {} \in SUBSET Players
      BY <1>6
    <2>2. UNCHANGED V!playerVars
      BY <1>1
    <2>3. \A n \in Monsters : n # m => alive'[n] = alive[n] /\ monsterAt'[n] = monsterAt[n]
      BY <1>1, <1>3
    <2>4. {} \X {m} = {}
      OBVIOUS
    <2>5. view' = V!Sent({} \X {m}, Out \X {m})
      BY <1>1, <2>4
    <2>. HIDE DEF Out
    <2>. QED
      BY <1>7, <2>1, <2>2, <2>3, <2>5, MonsterStepIsExact
  <1>9. V!TypeOK'
    BY <1>1, <1>3, <1>4, <1>8 DEF ViewIInv, V!TypeOK, V!playerVars
  <1>. QED
    BY <1>5, <1>8, <1>9 DEF ViewIInv

\* A monster that respawns comes into view of those near its spawn position.
LEMMA RespawnMonsterIsExact ==
  ASSUME V!ZoneViewConstants, ViewIInv, NEW m \in Monsters, V!RespawnMonster(m)
  PROVE  ViewIInv'
  <1>. DEFINE c == HomeOf[m]
              In == V!InCells(playerGrid, V!NearCells(c))
  <1>1. /\ ~alive[m]
        /\ alive' = [alive EXCEPT ![m] = TRUE]
        /\ monsterAt' = [monsterAt EXCEPT ![m] = c]
        /\ view' = V!Sent(In \X {m}, {})
        /\ monsterGrid' = V!Add(monsterGrid, m, c)
        /\ UNCHANGED V!playerVars
    BY DEF V!RespawnMonster
  <1>2. c \in Cells
    BY DEF V!ZoneViewConstants
  <1>3. /\ alive' \in [Monsters -> BOOLEAN]
        /\ alive'[m]
        /\ \A n \in Monsters : n # m => alive'[n] = alive[n]
    BY <1>1, Zenon DEF ViewIInv, V!TypeOK
  <1>4. /\ monsterAt' \in [Monsters -> Cells]
        /\ monsterAt'[m] = c
        /\ \A n \in Monsters : n # m => monsterAt'[n] = monsterAt[n]
    BY <1>1, <1>2 DEF ViewIInv, V!TypeOK
  <1>5. /\ monsterGrid' \in [Cells -> SUBSET Monsters]
        /\ \A d \in Cells : \A n : n \in monsterGrid'[d] <=>
                                     n \in Monsters /\ alive'[n] /\ monsterAt'[n] = d
    <2>1. /\ monsterGrid \in [Cells -> SUBSET Monsters]
          /\ \A d \in Cells : \A n : n \in monsterGrid[d] <=>
                                       n \in Monsters /\ alive[n] /\ monsterAt[n] = d
      BY DEF ViewIInv, V!TypeOK, V!GridsAreExact
    <2>2. /\ monsterGrid' \in [Cells -> SUBSET Monsters]
          /\ \A d \in Cells : \A n : n \in monsterGrid'[d] <=>
                                       n \in monsterGrid[d] \/ (n = m /\ d = c)
      BY <1>1, <1>2, <2>1 DEF V!Add
    <2>. QED
      BY <1>1, <1>3, <1>4, <2>1, <2>2
  <1>6. V!GridsAreExact'
    <2>1. \A d \in Cells : monsterGrid'[d] = {n \in Monsters : alive'[n] /\ monsterAt'[n] = d}
      BY <1>5
    <2>2. \A d \in Cells : playerGrid'[d] = {q \in Players : players'[q] = d}
      BY <1>1 DEF ViewIInv, V!GridsAreExact, V!playerVars
    <2>. QED
      BY <2>1, <2>2 DEF V!GridsAreExact
  <1>7. \A q : q \in In <=> q \in Players /\ players[q] \in Cells /\ V!IsNear(players[q], c)
    <2>1. V!NearCells(c) \in SUBSET Cells
      BY DEF V!NearCells
    <2>2. \A q : q \in In <=> q \in Players /\ players[q] \in V!NearCells(c)
      BY <2>1, PlayersInCells DEF ViewIInv
    <2>. QED
      BY <2>2 DEF V!NearCells
  <1>8. ASSUME NEW q \in Players
        PROVE  /\ q \in In <=> V!IsVisible(q, m)' /\ ~V!IsVisible(q, m)
               /\ q \in {} <=> V!IsVisible(q, m) /\ ~V!IsVisible(q, m)'
    <2>1. m # q /\ m \notin Players
      BY DEF V!ZoneViewConstants
    <2>2. V!Here(q) <=> players[q] \in Cells
      BY HereIsInCells DEF ViewIInv
    <2>3. players' = players
      BY <1>1 DEF V!playerVars
    <2>4. ~V!IsVisible(q, m)
      BY <1>1, <2>1 DEF V!IsVisible
    <2>5. V!IsVisible(q, m)' <=> V!Here(q) /\ V!IsNear(c, players[q])
      BY <1>3, <1>4, <2>1, <2>3 DEF V!IsVisible, V!Here
    <2>6. V!Here(q) => (V!IsNear(c, players[q]) <=> V!IsNear(players[q], c))
      BY <1>2, <2>2, NearSymmetric
    <2>. QED
      BY <1>7, <2>2, <2>4, <2>5, <2>6
  <1>9. V!ViewIsExact' /\ view' \in [Players -> [V!Objects -> Int]]
    <2>1. In \in SUBSET Players /\ {} \in SUBSET Players
      BY <1>7
    <2>2. UNCHANGED V!playerVars
      BY <1>1
    <2>3. \A n \in Monsters : n # m => alive'[n] = alive[n] /\ monsterAt'[n] = monsterAt[n]
      BY <1>3, <1>4
    <2>4. {} \X {m} = {}
      OBVIOUS
    <2>5. view' = V!Sent(In \X {m}, {} \X {m})
      BY <1>1, <2>4
    <2>. HIDE DEF In
    <2>. QED
      BY <1>8, <2>1, <2>2, <2>3, <2>5, MonsterStepIsExact
  <1>10. V!TypeOK'
    BY <1>1, <1>3, <1>4, <1>5, <1>9 DEF ViewIInv, V!TypeOK, V!playerVars
  <1>. QED
    BY <1>6, <1>9, <1>10 DEF ViewIInv

-----------------------------------------------------------------------------
\* All together.

\* Nobody is in the zone at first, and the monsters are at home.
LEMMA InitIsExact ==
  ASSUME V!ZoneViewConstants PROVE V!Init => ViewIInv
  <1>. SUFFICES ASSUME V!Init PROVE ViewIInv
    OBVIOUS
  <1>1. V!EmptyView \in [V!Objects -> Int]
    BY DEF V!EmptyView
  <1>2. V!TypeOK
    BY <1>1 DEF V!Init, V!TypeOK, V!ZoneViewConstants
  <1>3. \A p \in Players : ~V!Here(p)
    BY DEF V!Init, V!Here
  <1>4. V!GridsAreExact
    BY DEF V!Init, V!GridsAreExact, V!ZoneViewConstants
  <1>5. V!ViewIsExact
    BY <1>3 DEF V!ViewIsExact, V!IsVisible, V!Init, V!EmptyView
  <1>. QED
    BY <1>2, <1>4, <1>5 DEF ViewIInv

\* SaveAllAndClear leaves nobody.
LEMMA SaveAllAndClearIsExact ==
  ASSUME V!ZoneViewConstants, ViewIInv, V!SaveAllAndClear
  PROVE  ViewIInv'
  <1>1. V!EmptyView \in [V!Objects -> Int]
    BY DEF V!EmptyView
  <1>2. V!TypeOK'
    BY <1>1 DEF V!SaveAllAndClear, ViewIInv, V!TypeOK, V!monsterVars
  <1>3. \A p \in Players : ~V!Here(p)'
    BY DEF V!SaveAllAndClear, V!Here
  <1>4. V!GridsAreExact'
    BY DEF V!SaveAllAndClear, ViewIInv, V!GridsAreExact, V!monsterVars, V!ZoneViewConstants
  <1>5. V!ViewIsExact'
    BY <1>3 DEF V!ViewIsExact, V!IsVisible, V!SaveAllAndClear, V!EmptyView
  <1>. QED
    BY <1>2, <1>4, <1>5 DEF ViewIInv

\* A step that neither moves, brings in or takes out an object changes no view.
LEMMA SameSceneIsExact ==
  ASSUME V!ZoneViewConstants, ViewIInv, UNCHANGED <<players, playerGrid, V!monsterVars, view>>
  PROVE  V!GridsAreExact' /\ V!ViewIsExact'
  BY DEF ViewIInv, V!GridsAreExact, V!ViewIsExact, V!IsVisible, V!Here, V!monsterVars

\* Every job of a player keeps the invariant.
LEMMA PlayerJobIsExact ==
  ASSUME V!ZoneViewConstants, ViewIInv, NEW p \in Players, V!PlayerJob(p)
  PROVE  ViewIInv'
  <1>1. CASE V!Enter(p)
    BY <1>1, EnterIsExact
  <1>2. CASE V!HandleDisconnect(p)
    <2>1. V!Here(p) /\ V!Leave(p) /\ UNCHANGED <<dead, portalPending, V!monsterVars>>
      BY <1>2 DEF V!HandleDisconnect
    <2>2. /\ players' \in [Players -> Cells \cup {NotHere}]
          /\ playerGrid' \in [Cells -> SUBSET Players]
          /\ view' \in [Players -> [V!Objects -> Int]]
          /\ V!GridsAreExact' /\ V!ViewIsExact'
      BY <2>1, LeaveIsExact
    <2>. QED
      BY <2>1, <2>2 DEF ViewIInv, V!TypeOK, V!monsterVars
  <1>3. ASSUME NEW to \in Cells, V!HandleMove(p, to) PROVE ViewIInv'
    <2>1. /\ V!Here(p)
          /\ players' = [players EXCEPT ![p] = to]
          /\ V!OnPlayerCellChanged(p, players[p], to)
          /\ UNCHANGED <<dead, portalPending>>
          /\ UNCHANGED V!monsterVars
      BY <1>3 DEF V!HandleMove
    <2>2. /\ playerGrid' \in [Cells -> SUBSET Players]
          /\ view' \in [Players -> [V!Objects -> Int]]
          /\ V!GridsAreExact' /\ V!ViewIsExact'
      BY <2>1, CellChangedIsExact
    <2>. QED
      BY <2>1, <2>2 DEF ViewIInv, V!TypeOK, V!monsterVars
  <1>4. CASE V!HandlePortal(p)
    <2>1. /\ UNCHANGED <<players, playerGrid, V!monsterVars, view>>
          /\ UNCHANGED dead
          /\ portalPending' \subseteq Players
      BY <1>4 DEF V!HandlePortal, ViewIInv, V!TypeOK
    <2>. QED
      BY <2>1, SameSceneIsExact DEF ViewIInv, V!TypeOK, V!monsterVars
  <1>5. CASE V!PortalSaved(p)
    <2>1. /\ UNCHANGED <<dead, V!monsterVars>>
          /\ portalPending' \subseteq Players
      BY <1>5 DEF V!PortalSaved, ViewIInv, V!TypeOK
    <2>2. CASE V!Here(p) /\ V!Leave(p)
      <3>1. /\ players' \in [Players -> Cells \cup {NotHere}]
            /\ playerGrid' \in [Cells -> SUBSET Players]
            /\ view' \in [Players -> [V!Objects -> Int]]
            /\ V!GridsAreExact' /\ V!ViewIsExact'
        BY <2>1, <2>2, LeaveIsExact
      <3>. QED
        BY <2>1, <3>1 DEF ViewIInv, V!TypeOK, V!monsterVars
    <2>3. CASE UNCHANGED <<players, playerGrid, view>>
      <3>1. V!GridsAreExact' /\ V!ViewIsExact'
        BY <2>1, <2>3, SameSceneIsExact
      <3>. QED
        BY <2>1, <2>3, <3>1 DEF ViewIInv, V!TypeOK, V!monsterVars
    <2>. QED
      BY <1>5, <2>2, <2>3 DEF V!PortalSaved
  <1>6. CASE V!HandleRevive(p)
    <2>1. /\ V!Here(p)
          /\ dead' = [dead EXCEPT ![p] = FALSE]
          /\ players' = [players EXCEPT ![p] = ReviveCell]
          /\ V!OnPlayerCellChanged(p, players[p], ReviveCell)
          /\ UNCHANGED portalPending
          /\ UNCHANGED V!monsterVars
          /\ ReviveCell \in Cells
      BY <1>6 DEF V!HandleRevive, V!ZoneViewConstants
    <2>2. /\ playerGrid' \in [Cells -> SUBSET Players]
          /\ view' \in [Players -> [V!Objects -> Int]]
          /\ V!GridsAreExact' /\ V!ViewIsExact'
      BY <2>1, CellChangedIsExact
    <2>3. dead' \in [Players -> BOOLEAN]
      BY <2>1 DEF ViewIInv, V!TypeOK
    <2>. QED
      BY <2>1, <2>2, <2>3 DEF ViewIInv, V!TypeOK, V!monsterVars
  <1>. QED
    BY <1>1, <1>2, <1>3, <1>4, <1>5, <1>6 DEF V!PlayerJob

\* Every step of a monster keeps it.
LEMMA MonsterJobIsExact ==
  ASSUME V!ZoneViewConstants, ViewIInv, NEW m \in Monsters, V!MonsterJob(m)
  PROVE  ViewIInv'
  <1>1. ASSUME NEW p \in Players, V!MonsterKills(m, p) PROVE ViewIInv'
    <2>1. /\ UNCHANGED <<players, playerGrid, V!monsterVars, view>>
          /\ UNCHANGED portalPending
          /\ dead' = [dead EXCEPT ![p] = TRUE]
      BY <1>1 DEF V!MonsterKills
    <2>2. dead' \in [Players -> BOOLEAN]
      BY <2>1 DEF ViewIInv, V!TypeOK
    <2>. QED
      BY <2>1, <2>2, SameSceneIsExact DEF ViewIInv, V!TypeOK, V!monsterVars
  <1>. QED
    BY <1>1, MonsterMovesIsExact, OnMonsterDeadIsExact, RespawnMonsterIsExact DEF V!MonsterJob

\* The invariant holds in every reachable state.
THEOREM ViewInvariance ==
  ASSUME V!ZoneViewConstants PROVE V!Spec => []ViewIInv
  <1>1. ViewIInv /\ [V!Next]_(V!vars) => ViewIInv'
    <2>. SUFFICES ASSUME ViewIInv, [V!Next]_(V!vars) PROVE ViewIInv'
      OBVIOUS
    <2>1. CASE V!Next
      BY <2>1, PlayerJobIsExact, MonsterJobIsExact, SaveAllAndClearIsExact DEF V!Next
    <2>2. CASE UNCHANGED V!vars
      <3>1. V!GridsAreExact' /\ V!ViewIsExact'
        BY <2>2, SameSceneIsExact DEF V!vars, V!playerVars, V!monsterVars
      <3>. QED
        BY <2>2, <3>1 DEF ViewIInv, V!TypeOK, V!vars, V!playerVars, V!monsterVars
    <2>. QED
      BY <2>1, <2>2
  <1>. QED
    BY InitIsExact, <1>1, PTL DEF V!Spec

\* The variables keep their types.
THEOREM ViewTypeCorrect ==
  ASSUME V!ZoneViewConstants PROVE V!Spec => []V!TypeOK
  <1>1. ViewIInv => V!TypeOK
    BY DEF ViewIInv
  <1>. QED
    BY ViewInvariance, <1>1, PTL

\* The grids hold who is where, so a search around a position misses nobody.
THEOREM ExactGrids ==
  ASSUME V!ZoneViewConstants PROVE V!Spec => []GridsAreExact
  <1>1. ViewIInv => GridsAreExact
    BY DEF ViewIInv, V!GridsAreExact, GridsAreExact
  <1>. QED
    BY ViewInvariance, <1>1, PTL

\* Every client shows exactly the players and living monsters near its character,
\* on any map and however many there are.
THEOREM ExactViews ==
  ASSUME V!ZoneViewConstants PROVE V!Spec => []ViewIsExact
  <1>1. ViewIInv => ViewIsExact
    BY DEF ViewIInv, V!ViewIsExact, ViewIsExact, V!IsVisible, IsVisible, V!Here, Here, V!IsNear, IsNear, V!Objects, Objects
  <1>. QED
    BY ViewInvariance, <1>1, PTL
=============================================================================
