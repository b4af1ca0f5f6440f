------------------------- MODULE GatewayLinkProofs -------------------------
(***************************************************************************)
(* Proofs about GatewayLink for any number of connections, sessions,       *)
(* faults and packets: the link is driven by exactly one attempt or one    *)
(* connection, and, but for the clients in late, the handshake goes out    *)
(* first and no packet of one client reaches another.                      *)
(*                                                                         *)
(* The hypotheses are those of the model: SendersFinish (the three seconds *)
(* before a retry outlast every Send and every queued zone job) and        *)
(* LoadsFinish (they outlast every load), where a theorem needs them.      *)
(***************************************************************************)
EXTENDS GatewayLink, FiniteSetTheorems, SequenceTheorems, TLAPS

-----------------------------------------------------------------------------
(***************************************************************************)
(* Counting the elements of a sequence that are in a set.                  *)
(***************************************************************************)

One(b) == IF b THEN 1 ELSE 0
At(s, M) == {i \in DOMAIN s : s[i] \in M}
Elements(s) == {s[i] : i \in DOMAIN s}

LEMMA AtFinite ==
  ASSUME NEW T, NEW s \in Seq(T), NEW M
  PROVE  /\ IsFiniteSet(At(s, M)) /\ Cardinality(At(s, M)) \in Nat
         /\ Cardinality(At(s, M)) = 0 <=> \A x \in Elements(s) : x \notin M
<1>1. IsFiniteSet(1..Len(s)) /\ DOMAIN s = 1..Len(s)
  BY FS_Interval
<1>2. At(s, M) \subseteq 1..Len(s)
  BY <1>1 DEF At
<1>3. IsFiniteSet(At(s, M))
  BY <1>1, <1>2, FS_Subset
<1>4. Cardinality(At(s, M)) \in Nat /\ (Cardinality(At(s, M)) = 0 <=> At(s, M) = {})
  BY <1>3, FS_CardinalityType, FS_EmptySet
<1>5. At(s, M) = {} <=> \A x \in Elements(s) : x \notin M
  BY DEF At, Elements
<1>6. QED
  BY <1>3, <1>4, <1>5

LEMMA AtAppend ==
  ASSUME NEW T, NEW s \in Seq(T), NEW x \in T, NEW M
  PROVE  /\ Cardinality(At(Append(s, x), M)) = Cardinality(At(s, M)) + One(x \in M)
         /\ Elements(Append(s, x)) = Elements(s) \cup {x}
<1>1. /\ Len(s) \in Nat /\ DOMAIN s = 1..Len(s)
      /\ DOMAIN Append(s, x) = 1..(Len(s) + 1)
      /\ \A i \in 1..Len(s) : Append(s, x)[i] = s[i]
      /\ Append(s, x)[Len(s) + 1] = x
  OBVIOUS
<1>2. Len(s) + 1 \notin At(s, M)
  BY <1>1 DEF At
<1>3. At(Append(s, x), M) = At(s, M) \cup (IF x \in M THEN {Len(s) + 1} ELSE {})
  BY <1>1 DEF At
<1>4. IsFiniteSet(At(s, M))
  BY AtFinite
<1>5. Cardinality(At(s, M) \cup {Len(s) + 1}) = Cardinality(At(s, M)) + 1
  BY <1>2, <1>4, FS_AddElement
<1>6. Cardinality(At(s, M)) \in Nat
  BY AtFinite
<1>7. Cardinality(At(Append(s, x), M)) = Cardinality(At(s, M)) + One(x \in M)
  <2>1. CASE x \in M
    BY <1>3, <1>5, <2>1 DEF One
  <2>2. CASE x \notin M
    <3>1. At(Append(s, x), M) = At(s, M)
      BY <1>3, <2>2
    <3>2. QED
      BY <1>6, <2>2, <3>1 DEF One
  <2>3. QED
    BY <2>1, <2>2
<1>8. Elements(Append(s, x)) = Elements(s) \cup {x}
  <2>1. \A i \in 1..(Len(s) + 1) : i = Len(s) + 1 \/ i \in 1..Len(s)
    BY <1>1
  <2>2. \A i \in 1..Len(s) : i \in 1..(Len(s) + 1)
    BY <1>1
  <2>3. Len(s) + 1 \in 1..(Len(s) + 1)
    BY <1>1
  <2>4. QED
    BY <1>1, <2>1, <2>2, <2>3 DEF Elements
<1>9. QED
  BY <1>7, <1>8

LEMMA AtTail ==
  ASSUME NEW T, NEW s \in Seq(T), s # <<>>, NEW M
  PROVE  /\ Cardinality(At(s, M)) = Cardinality(At(Tail(s), M)) + One(Head(s) \in M)
         /\ Elements(s) = Elements(Tail(s)) \cup {Head(s)}
         /\ Tail(s) \in Seq(T) /\ Head(s) \in T
<1> DEFINE r == Tail(s)
           R == At(r, M)
           Up == {i + 1 : i \in R}
           Move == [i \in R |-> i + 1]
<1>1. /\ Len(s) \in Nat \ {0} /\ DOMAIN s = 1..Len(s) /\ Head(s) = s[1]
      /\ r \in Seq(T) /\ DOMAIN r = 1..(Len(s) - 1) /\ Head(s) \in T
      /\ \A i \in 1..(Len(s) - 1) : r[i] = s[i + 1]
  OBVIOUS
<1> HIDE DEF r
<1>2. R \subseteq 1..(Len(s) - 1)
  BY <1>1 DEF At
<1>3. \A i \in 1..Len(s) : i # 1 => i - 1 \in 1..(Len(s) - 1) /\ i = (i - 1) + 1 /\ s[i] = r[i - 1]
  BY <1>1
<1>4. \A i \in 1..(Len(s) - 1) : i + 1 \in 1..Len(s) /\ i + 1 # 1 /\ s[i + 1] = r[i]
  BY <1>1
<1>5. 1 \in 1..Len(s)
  BY <1>1
<1>6. At(s, M) = Up \cup (IF Head(s) \in M THEN {1} ELSE {})
  <2>1. \A i \in Up : i \in At(s, M) /\ i # 1
    BY <1>1, <1>2, <1>4 DEF At
  <2>2. \A i \in At(s, M) : i # 1 => i \in Up
    BY <1>1, <1>3 DEF At
  <2>3. 1 \in At(s, M) <=> Head(s) \in M
    BY <1>1, <1>5 DEF At
  <2> HIDE DEF Up
  <2>4. QED
    BY <2>1, <2>2, <2>3
<1>7. 1 \notin Up
  BY <1>2
<1>8. IsFiniteSet(R) /\ Cardinality(R) \in Nat
  BY <1>1, AtFinite
<1>9. Move \in Bijection(R, Up)
  <2>1. Move \in [R -> Up]
    OBVIOUS
  <2>2. \A i, k \in R : Move[i] = Move[k] => i = k
    BY <1>2
  <2>3. \A u \in Up : \E i \in R : Move[i] = u
    OBVIOUS
  <2> HIDE DEF Move, R, Up
  <2>4. QED
    BY <2>1, <2>2, <2>3 DEF Bijection, Injection, Surjection, IsInjective
<1>10. IsFiniteSet(Up) /\ Cardinality(Up) = Cardinality(R)
  <2> HIDE DEF Move, R, Up
  <2>1. ExistsBijection(R, Up)
    BY <1>9 DEF ExistsBijection
  <2>2. QED
    BY <1>8, <2>1, FS_Bijection
<1>11. Cardinality(Up \cup {1}) = Cardinality(R) + 1
  <2> HIDE DEF Move, R, Up
  <2>1. QED
    BY <1>7, <1>10, FS_AddElement
<1>12. Cardinality(At(s, M)) = Cardinality(R) + One(Head(s) \in M)
  <2> HIDE DEF Move, R, Up
  <2>1. CASE Head(s) \in M
    BY <1>6, <1>11, <2>1 DEF One
  <2>2. CASE Head(s) \notin M
    <3>1. At(s, M) = Up
      BY <1>6, <2>2
    <3>2. QED
      BY <1>8, <1>10, <2>2, <3>1 DEF One
  <2>3. QED
    BY <2>1, <2>2
<1>13. Elements(s) = Elements(r) \cup {Head(s)}
  <2>1. \A i \in 1..Len(s) : s[i] \in Elements(r) \cup {Head(s)}
    BY <1>1, <1>3 DEF Elements
  <2>2. \A i \in 1..(Len(s) - 1) : r[i] \in Elements(s)
    BY <1>1, <1>4 DEF Elements
  <2>3. Head(s) \in Elements(s)
    BY <1>1, <1>5 DEF Elements
  <2>4. QED
    BY <1>1, <2>1, <2>2, <2>3 DEF Elements
<1>14. QED
  BY <1>1, <1>12, <1>13 DEF r

-----------------------------------------------------------------------------
(***************************************************************************)
(* What a step does to the operations that wait.                           *)
(***************************************************************************)

Of(kind, gen) == {h \in Handler : h.kind = kind /\ h.gen = gen}
OpsType == [OpKind \X Gens -> Nat]

LEMMA OpsCount ==
  ASSUME ops \in OpsType, NEW k \in OpKind, NEW g \in Gens, NEW kind \in OpKind, NEW gen \in Gens
  PROVE  /\ Started(k, g) \in OpsType
         /\ ops[<<k, g>>] > 0 => Ended(k, g) \in OpsType
         /\ ops[<<kind, gen>>] \in Nat
<1>1. <<k, g>> \in OpKind \X Gens /\ <<kind, gen>> \in OpKind \X Gens
  OBVIOUS
<1>2. ops[<<k, g>>] \in Nat /\ ops[<<kind, gen>>] \in Nat
  BY <1>1 DEF OpsType
<1>3. Started(k, g) \in OpsType
  BY <1>1, <1>2 DEF OpsType, Started
<1>4. ops[<<k, g>>] > 0 => Ended(k, g) \in OpsType
  BY <1>1, <1>2 DEF OpsType, Ended
<1>5. QED
  BY <1>2, <1>3, <1>4

LEMMA HandlersAt ==
  ASSUME strand \in Seq(Handler), NEW kind \in OpKind, NEW gen \in Gens
  PROVE  Handlers(kind, gen) = At(strand, Of(kind, gen))
<1>1. \A i \in DOMAIN strand : strand[i] \in Handler
  OBVIOUS
<1>2. QED
  BY <1>1 DEF Handlers, At, Of

LEMMA HandlersAtNext ==
  ASSUME strand' \in Seq(Handler), NEW kind \in OpKind, NEW gen \in Gens
  PROVE  Handlers(kind, gen)' = At(strand', Of(kind, gen))
<1>1. \A i \in DOMAIN strand' : strand'[i] \in Handler
  OBVIOUS
<1>2. QED
  BY <1>1 DEF Handlers, At, Of

\* Nothing waits when no operation is under way and no handler is on the strand.
LEMMA WaitingType ==
  ASSUME strand \in Seq(Handler), ops \in OpsType, NEW kind \in OpKind, NEW gen \in Gens
  PROVE  /\ Waiting(kind, gen) \in Nat
         /\ Waiting(kind, gen) = 0 <=> /\ ops[<<kind, gen>>] = 0
                                       /\ \A h \in Elements(strand) : h \notin Of(kind, gen)
<1>1. ops[<<kind, gen>>] \in Nat
  BY DEF OpsType
<1>2. /\ Cardinality(At(strand, Of(kind, gen))) \in Nat
      /\ Cardinality(At(strand, Of(kind, gen))) = 0
           <=> \A h \in Elements(strand) : h \notin Of(kind, gen)
  BY AtFinite
<1>3. Waiting(kind, gen) = ops[<<kind, gen>>] + Cardinality(At(strand, Of(kind, gen)))
  BY HandlersAt DEF Waiting
<1>4. QED
  BY <1>1, <1>2, <1>3

\* A handler joins the strand, and an operation starts, or none.
LEMMA JoinedStarts ==
  ASSUME strand \in Seq(Handler), ops \in OpsType, NEW h \in Handler,
         strand' = Append(strand, h),
         NEW k \in OpKind, NEW g \in Gens, ops' = Started(k, g),
         NEW kind \in OpKind, NEW gen \in Gens
  PROVE  /\ strand' \in Seq(Handler) /\ ops' \in OpsType
         /\ Elements(strand') = Elements(strand) \cup {h}
         /\ kind = k /\ gen = g => Waiting(kind, gen)' = Waiting(kind, gen) + 1 + One(h \in Of(kind, gen))
         /\ ~(kind = k /\ gen = g) => Waiting(kind, gen)' = Waiting(kind, gen) + One(h \in Of(kind, gen))
<1>1. strand' \in Seq(Handler)
  OBVIOUS
<1>2. ops' \in OpsType
  BY OpsCount
<1>3. /\ kind = k /\ gen = g => ops'[<<kind, gen>>] = ops[<<kind, gen>>] + 1
      /\ ~(kind = k /\ gen = g) => ops'[<<kind, gen>>] = ops[<<kind, gen>>]
  BY DEF OpsType, Started
<1>4. /\ Cardinality(At(strand', Of(kind, gen))) = Cardinality(At(strand, Of(kind, gen))) + One(h \in Of(kind, gen))
      /\ Elements(strand') = Elements(strand) \cup {h}
  BY AtAppend
<1>5. Waiting(kind, gen) = ops[<<kind, gen>>] + Cardinality(At(strand, Of(kind, gen)))
  BY HandlersAt DEF Waiting
<1>6. Waiting(kind, gen)' = ops'[<<kind, gen>>] + Cardinality(At(strand', Of(kind, gen)))
  BY <1>1, HandlersAtNext DEF Waiting
<1>7. /\ ops[<<kind, gen>>] \in Nat
      /\ Cardinality(At(strand, Of(kind, gen))) \in Nat
      /\ Cardinality(At(strand', Of(kind, gen))) \in Nat
  BY <1>1, AtFinite DEF OpsType
<1>8. One(h \in Of(kind, gen)) \in Nat
  BY DEF One
<1>9. QED
  BY <1>1, <1>2, <1>3, <1>4, <1>5, <1>6, <1>7, <1>8

LEMMA JoinedOnly ==
  ASSUME strand \in Seq(Handler), ops \in OpsType, NEW h \in Handler,
         strand' = Append(strand, h),
         ops' = ops,
         NEW kind \in OpKind, NEW gen \in Gens
  PROVE  /\ strand' \in Seq(Handler) /\ ops' \in OpsType
         /\ Elements(strand') = Elements(strand) \cup {h}
         /\ Waiting(kind, gen)' = Waiting(kind, gen) + One(h \in Of(kind, gen))
<1>1. strand' \in Seq(Handler)
  OBVIOUS
<1>2. ops' \in OpsType
  OBVIOUS
<1>3. ops'[<<kind, gen>>] = ops[<<kind, gen>>]
  OBVIOUS
<1>4. /\ Cardinality(At(strand', Of(kind, gen))) = Cardinality(At(strand, Of(kind, gen))) + One(h \in Of(kind, gen))
      /\ Elements(strand') = Elements(strand) \cup {h}
  BY AtAppend
<1>5. Waiting(kind, gen) = ops[<<kind, gen>>] + Cardinality(At(strand, Of(kind, gen)))
  BY HandlersAt DEF Waiting
<1>6. Waiting(kind, gen)' = ops'[<<kind, gen>>] + Cardinality(At(strand', Of(kind, gen)))
  BY <1>1, HandlersAtNext DEF Waiting
<1>7. /\ ops[<<kind, gen>>] \in Nat
      /\ Cardinality(At(strand, Of(kind, gen))) \in Nat
      /\ Cardinality(At(strand', Of(kind, gen))) \in Nat
  BY <1>1, AtFinite DEF OpsType
<1>8. One(h \in Of(kind, gen)) \in Nat
  BY DEF One
<1>9. QED
  BY <1>1, <1>2, <1>3, <1>4, <1>5, <1>6, <1>7, <1>8

\* The handler at the head of the strand runs, and starts an operation, or none.
LEMMA HandledStarts ==
  ASSUME strand \in Seq(Handler), ops \in OpsType, strand # <<>>,
         strand' = Tail(strand),
         NEW k \in OpKind, NEW g \in Gens, ops' = Started(k, g),
         NEW kind \in OpKind, NEW gen \in Gens
  PROVE  /\ strand' \in Seq(Handler) /\ ops' \in OpsType /\ Head(strand) \in Handler
         /\ Elements(strand) = Elements(strand') \cup {Head(strand)}
         /\ kind = k /\ gen = g => Waiting(kind, gen)' = Waiting(kind, gen) + 1 - One(Head(strand) \in Of(kind, gen))
         /\ ~(kind = k /\ gen = g) => Waiting(kind, gen)' = Waiting(kind, gen) - One(Head(strand) \in Of(kind, gen))
<1>1. strand' \in Seq(Handler) /\ Head(strand) \in Handler
  BY AtTail
<1>2. ops' \in OpsType
  BY OpsCount
<1>3. /\ kind = k /\ gen = g => ops'[<<kind, gen>>] = ops[<<kind, gen>>] + 1
      /\ ~(kind = k /\ gen = g) => ops'[<<kind, gen>>] = ops[<<kind, gen>>]
  BY DEF OpsType, Started
<1>4. /\ Cardinality(At(strand, Of(kind, gen))) = Cardinality(At(strand', Of(kind, gen))) + One(Head(strand) \in Of(kind, gen))
      /\ Elements(strand) = Elements(strand') \cup {Head(strand)}
  BY AtTail
<1>5. Waiting(kind, gen) = ops[<<kind, gen>>] + Cardinality(At(strand, Of(kind, gen)))
  BY HandlersAt DEF Waiting
<1>6. Waiting(kind, gen)' = ops'[<<kind, gen>>] + Cardinality(At(strand', Of(kind, gen)))
  BY <1>1, HandlersAtNext DEF Waiting
<1>7. /\ ops[<<kind, gen>>] \in Nat
      /\ Cardinality(At(strand, Of(kind, gen))) \in Nat
      /\ Cardinality(At(strand', Of(kind, gen))) \in Nat
  BY <1>1, AtFinite DEF OpsType
<1>8. One(Head(strand) \in Of(kind, gen)) \in Nat
  BY DEF One
<1>9. QED
  BY SMTT(30), <1>1, <1>2, <1>3, <1>4, <1>5, <1>6, <1>7, <1>8

LEMMA HandledOnly ==
  ASSUME strand \in Seq(Handler), ops \in OpsType, strand # <<>>,
         strand' = Tail(strand),
         ops' = ops,
         NEW kind \in OpKind, NEW gen \in Gens
  PROVE  /\ strand' \in Seq(Handler) /\ ops' \in OpsType /\ Head(strand) \in Handler
         /\ Elements(strand) = Elements(strand') \cup {Head(strand)}
         /\ Waiting(kind, gen)' = Waiting(kind, gen) - One(Head(strand) \in Of(kind, gen))
<1>1. strand' \in Seq(Handler) /\ Head(strand) \in Handler
  BY AtTail
<1>2. ops' \in OpsType
  OBVIOUS
<1>3. ops'[<<kind, gen>>] = ops[<<kind, gen>>]
  OBVIOUS
<1>4. /\ Cardinality(At(strand, Of(kind, gen))) = Cardinality(At(strand', Of(kind, gen))) + One(Head(strand) \in Of(kind, gen))
      /\ Elements(strand) = Elements(strand') \cup {Head(strand)}
  BY AtTail
<1>5. Waiting(kind, gen) = ops[<<kind, gen>>] + Cardinality(At(strand, Of(kind, gen)))
  BY HandlersAt DEF Waiting
<1>6. Waiting(kind, gen)' = ops'[<<kind, gen>>] + Cardinality(At(strand', Of(kind, gen)))
  BY <1>1, HandlersAtNext DEF Waiting
<1>7. /\ ops[<<kind, gen>>] \in Nat
      /\ Cardinality(At(strand, Of(kind, gen))) \in Nat
      /\ Cardinality(At(strand', Of(kind, gen))) \in Nat
  BY <1>1, AtFinite DEF OpsType
<1>8. One(Head(strand) \in Of(kind, gen)) \in Nat
  BY DEF One
<1>9. QED
  BY <1>1, <1>2, <1>3, <1>4, <1>5, <1>6, <1>7, <1>8

\* An operation that completes waits on: its handler is on the strand.
LEMMA Completed ==
  ASSUME strand \in Seq(Handler), ops \in OpsType,
         NEW k \in OpKind, NEW g \in Gens, NEW ok \in BOOLEAN, Completes(k, g, ok),
         NEW kind \in OpKind, NEW gen \in Gens
  PROVE  /\ strand' \in Seq(Handler) /\ ops' \in OpsType
         /\ [kind |-> k, gen |-> g, ok |-> ok] \in Handler
         /\ Elements(strand') = Elements(strand) \cup {[kind |-> k, gen |-> g, ok |-> ok]}
         /\ Waiting(kind, gen)' = Waiting(kind, gen)
         /\ Waiting(k, g) \in Nat /\ Waiting(k, g) >= 1
<1> DEFINE h == [kind |-> k, gen |-> g, ok |-> ok]
<1>1. h \in Handler /\ h.kind = k /\ h.gen = g
  BY DEF Handler
<1>2. strand' = Append(strand, h) /\ ops' = Ended(k, g) /\ ops[<<k, g>>] > 0
  BY DEF Completes
<1>3. h \in Of(kind, gen) <=> kind = k /\ gen = g
  BY <1>1 DEF Of
<1> HIDE DEF h
<1>4. strand' \in Seq(Handler)
  BY <1>1, <1>2
<1>5. ops' \in OpsType
  BY <1>2, OpsCount
<1>6. ops'[<<kind, gen>>] = ops[<<kind, gen>>] - One(h \in Of(kind, gen))
  <2>1. ops[<<kind, gen>>] \in Nat
    BY OpsCount
  <2>2. Ended(k, g)[<<kind, gen>>] = IF kind = k /\ gen = g THEN ops[<<kind, gen>>] - 1
                                                         ELSE ops[<<kind, gen>>]
    BY DEF OpsType, Ended
  <2>3. CASE h \in Of(kind, gen)
    BY <1>2, <1>3, <2>1, <2>2, <2>3 DEF One
  <2>4. CASE h \notin Of(kind, gen)
    BY <1>2, <1>3, <2>1, <2>2, <2>4 DEF One
  <2>5. QED
    BY <2>3, <2>4
<1>7. /\ Cardinality(At(strand', Of(kind, gen)))
           = Cardinality(At(strand, Of(kind, gen))) + One(h \in Of(kind, gen))
      /\ Elements(strand') = Elements(strand) \cup {h}
  BY <1>1, <1>2, AtAppend
<1>8. Waiting(kind, gen) = ops[<<kind, gen>>] + Cardinality(At(strand, Of(kind, gen)))
  BY HandlersAt DEF Waiting
<1>9. Waiting(kind, gen)' = ops'[<<kind, gen>>] + Cardinality(At(strand', Of(kind, gen)))
  BY <1>4, HandlersAtNext DEF Waiting
<1>10. ops[<<kind, gen>>] \in Nat /\ Cardinality(At(strand, Of(kind, gen))) \in Nat
  BY AtFinite DEF OpsType
<1>11. One(h \in Of(kind, gen)) \in Nat
  BY DEF One
<1>12. Waiting(kind, gen)' = Waiting(kind, gen)
  BY <1>6, <1>7, <1>8, <1>9, <1>10, <1>11
<1>13. Waiting(k, g) \in Nat /\ Waiting(k, g) >= 1
  BY <1>2, WaitingType
<1>14. QED
  BY <1>1, <1>4, <1>5, <1>7, <1>12, <1>13 DEF h

LEMMA WaitingTypeNext ==
  ASSUME strand' \in Seq(Handler), ops' \in OpsType, NEW kind \in OpKind, NEW gen \in Gens
  PROVE  /\ Waiting(kind, gen)' \in Nat
         /\ Waiting(kind, gen)' = 0 <=> /\ ops'[<<kind, gen>>] = 0
                                        /\ \A h \in Elements(strand') : h \notin Of(kind, gen)
<1>1. ops'[<<kind, gen>>] \in Nat
  BY DEF OpsType
<1>2. /\ Cardinality(At(strand', Of(kind, gen))) \in Nat
      /\ Cardinality(At(strand', Of(kind, gen))) = 0
           <=> \A h \in Elements(strand') : h \notin Of(kind, gen)
  BY AtFinite
<1>3. Waiting(kind, gen)' = ops'[<<kind, gen>>] + Cardinality(At(strand', Of(kind, gen)))
  BY HandlersAtNext DEF Waiting
<1>4. QED
  BY <1>1, <1>2, <1>3

-----------------------------------------------------------------------------
(***************************************************************************)
(* Who drives the link, whatever the delay covers.                         *)
(***************************************************************************)

\* One attempt, or one connection; at most one read and one write of it.
Driven ==
  \A g \in Gens : g = connGen =>
    /\ Waiting("timer", g) + Waiting("resolve", g) + Waiting("connect", g)
         = IF isConnected THEN 0 ELSE 1
    /\ Waiting("read", g) =< 1 /\ Waiting("write", g) =< 1
    /\ Waiting("write", g) = 1 => sendQueue # <<>>
    /\ isConnected => Waiting("read", g) = IF greeting THEN 0 ELSE 1
    /\ ~isConnected /\ Waiting("timer", g) = 0 => Waiting("read", g) = 0

\* Nothing of a connection to come, and no timer of an old one.
OtherGens ==
  /\ \A k \in OpKind, g \in Gens : g > connGen => Waiting(k, g) = 0
  /\ \A g \in Gens : g # connGen => Waiting("timer", g) = 0

\* A timer that has expired was allowed another attempt, and a read that was
\* successful finds its data.
HandlersFind ==
  \A h \in Elements(strand) :
    /\ h.kind = "timer" => connGen < MaxGen
    /\ h.kind = "read" /\ h.gen = connGen /\ h.ok => toZone[connGen] # <<>>

LinkInv == /\ Driven /\ OtherGens /\ HandlersFind
           /\ greeting => isConnected

\* What the link's variables promise without a look at the rest.
LinkTypes == /\ connGen \in Gens
             /\ isConnected \in BOOLEAN /\ greeting \in BOOLEAN
             /\ sendQueue \in Seq(Packet)
             /\ strand \in Seq(Handler) /\ ops \in OpsType

LEMMA LinkTypesOK == TypeOK => LinkTypes
BY DEF TypeOK, LinkTypes, OpsType

LEMMA InitLink == Init => LinkInv
<1> SUFFICES ASSUME Init PROVE LinkInv
  OBVIOUS
<1>1. strand \in Seq(Handler) /\ ops \in OpsType /\ Elements(strand) = {}
  BY GatewayLinkAssumption DEF Init, OpsType, Elements
<1>2. 1 \in Gens
  BY GatewayLinkAssumption DEF Gens
<1>3. /\ \A k \in OpKind, g \in Gens : ops[<<k, g>>] = One(k = "resolve" /\ g = 1)
      /\ \A k \in OpKind, g \in Gens : Handlers(k, g) = {}
  <2>1. ASSUME NEW k \in OpKind, NEW g \in Gens
        PROVE  ops[<<k, g>>] = One(k = "resolve" /\ g = 1) /\ Handlers(k, g) = {}
    <3>1. ops[<<k, g>>] = IF <<k, g>> = <<"resolve", 1>> THEN 1 ELSE 0
      BY DEF Init
    <3>2. CASE k = "resolve" /\ g = 1
      BY <3>1, <3>2 DEF One, Init, Handlers
    <3>3. CASE ~(k = "resolve" /\ g = 1)
      BY <3>1, <3>3 DEF One, Init, Handlers
    <3>4. QED
      BY <3>2, <3>3
  <2>2. QED
    BY <2>1
<1>4. Cardinality({}) = 0
  BY FS_EmptySet
<1>5. \A k \in OpKind, g \in Gens : Waiting(k, g) = One(k = "resolve" /\ g = 1)
  <2>1. ASSUME NEW k \in OpKind, NEW g \in Gens PROVE Waiting(k, g) = One(k = "resolve" /\ g = 1)
    <3>1. Waiting(k, g) = ops[<<k, g>>] + 0
      BY <1>3, <1>4 DEF Waiting
    <3>2. ops[<<k, g>>] \in Nat
      BY <1>1 DEF OpsType
    <3>3. CASE k = "resolve" /\ g = 1
      BY <1>3, <3>1, <3>2, <3>3 DEF One
    <3>4. CASE ~(k = "resolve" /\ g = 1)
      BY <1>3, <3>1, <3>2, <3>4 DEF One
    <3>5. QED
      BY <3>3, <3>4
  <2>2. QED
    BY <2>1
<1>6. /\ Waiting("resolve", 1) = 1 /\ Waiting("timer", 1) = 0 /\ Waiting("connect", 1) = 0
      /\ Waiting("read", 1) = 0 /\ Waiting("write", 1) = 0
  BY <1>2, <1>5 DEF One, OpKind
<1>7. \A k \in OpKind, g \in Gens : g # 1 => Waiting(k, g) = 0
  BY <1>5 DEF One
<1>8. connGen = 1 /\ isConnected = FALSE /\ greeting = FALSE
  BY DEF Init
<1>9. Driven
  BY <1>6, <1>8 DEF Driven
<1>10. OtherGens
  BY <1>6, <1>7, <1>8 DEF OtherGens, OpKind, Gens
<1>11. QED
  BY <1>1, <1>8, <1>9, <1>10 DEF LinkInv, HandlersFind

\* An operation completes.
LEMMA CompletesLink ==
  ASSUME LinkTypes, LinkInv, NEW k \in OpKind, NEW g \in Gens, NEW ok \in BOOLEAN,
         Completes(k, g, ok),
         k = "timer" => connGen < MaxGen,
         k = "read" /\ ok /\ g = connGen => toZone[g] # <<>>
  PROVE  LinkInv' /\ LinkTypes'
<1> DEFINE h == [kind |-> k, gen |-> g, ok |-> ok]
<1>1. strand \in Seq(Handler) /\ ops \in OpsType
  BY DEF LinkTypes
<1>2. \A kind \in OpKind, gen \in Gens : Waiting(kind, gen)' = Waiting(kind, gen)
  BY <1>1, Completed
<1>3. strand' \in Seq(Handler) /\ ops' \in OpsType /\ Elements(strand') = Elements(strand) \cup {h}
  BY <1>1, Completed
<1>4. /\ connGen' = connGen /\ isConnected' = isConnected /\ greeting' = greeting
      /\ sendQueue' = sendQueue /\ toZone' = toZone
  BY DEF Completes
<1>5. {"resolve", "connect", "read", "write", "timer"} \subseteq OpKind
  BY DEF OpKind
<1>6. Driven'
  BY <1>2, <1>4, <1>5 DEF LinkInv, Driven
<1>7. OtherGens'
  BY <1>2, <1>4, <1>5 DEF LinkInv, OtherGens
<1>8. HandlersFind'
  BY <1>3, <1>4 DEF LinkInv, HandlersFind
<1>9. QED
  BY <1>3, <1>4, <1>6, <1>7, <1>8 DEF LinkInv, LinkTypes

\* A handler is on the strand, so its operation waits.
LEMMA HeadWaits ==
  ASSUME LinkTypes, strand # <<>>, Head(strand).kind \in OpKind
  PROVE  /\ Head(strand) \in Handler /\ Head(strand).gen \in Gens
         /\ Head(strand).ok \in BOOLEAN
         /\ Head(strand) \in Elements(strand)
         /\ \A kind \in OpKind, gen \in Gens :
              Head(strand) \in Of(kind, gen) <=> Head(strand).kind = kind /\ Head(strand).gen = gen
         /\ Waiting(Head(strand).kind, Head(strand).gen) \in Nat \ {0}
<1> DEFINE h == Head(strand)
<1>1. strand \in Seq(Handler) /\ ops \in OpsType
  BY DEF LinkTypes
<1>2. h \in Handler /\ Elements(strand) = Elements(Tail(strand)) \cup {h}
  BY <1>1, AtTail
<1> HIDE DEF h
<1>3. h.gen \in Gens /\ h.ok \in BOOLEAN
  BY <1>2 DEF Handler, OpKind, h
<1>4. \A kind \in OpKind, gen \in Gens : h \in Of(kind, gen) <=> h.kind = kind /\ h.gen = gen
  BY <1>2 DEF Of
<1>5. h \in Of(h.kind, h.gen)
  BY <1>2 DEF Of
<1>6. PICK k \in OpKind : k = h.kind
  BY DEF h
<1>7. PICK g \in Gens : g = h.gen
  BY <1>3
<1>8. Waiting(k, g) \in Nat \ {0}
  BY <1>1, <1>2, <1>5, <1>6, <1>7, WaitingType
<1>9. QED
  BY <1>2, <1>3, <1>4, <1>6, <1>7, <1>8 DEF h

LEMMA HandleTimerLink ==
  ASSUME LinkTypes, LinkInv, HandleTimer
  PROVE  LinkInv' /\ LinkTypes'
<1>1. strand \in Seq(Handler) /\ ops \in OpsType /\ connGen \in Gens
  BY DEF LinkTypes
<1>2. PICK c \in Gens : c = connGen
  BY <1>1
<1>3. {"resolve", "connect", "read", "write", "timer"} \subseteq OpKind
  BY DEF OpKind
<1>4. /\ strand # <<>> /\ Head(strand).kind = "timer" /\ strand' = Tail(strand)
      /\ connGen' = c + 1 /\ sendQueue' = <<>> /\ isConnected' = isConnected /\ greeting' = greeting
      /\ ops' = Started("resolve", c + 1)
  BY <1>2 DEF HandleTimer, Runs
<1>5. Head(strand) \in Elements(strand) /\ Head(strand).gen \in Gens
      /\ Waiting("timer", Head(strand).gen) \in Nat \ {0}
      /\ \A kind \in OpKind, gen \in Gens :
           Head(strand) \in Of(kind, gen) <=> "timer" = kind /\ Head(strand).gen = gen
  BY <1>3, <1>4, HeadWaits
<1>6. Head(strand).gen = c
  BY <1>2, <1>5 DEF LinkInv, OtherGens
<1>7. c + 1 \in Gens
  BY <1>2, <1>4, <1>5, GatewayLinkAssumption DEF LinkInv, HandlersFind, Gens
<1>8. ASSUME NEW kind \in OpKind, NEW gen \in Gens
      PROVE  /\ Waiting(kind, gen) \in Nat
             /\ kind = "resolve" /\ gen = c + 1 =>
                  Waiting(kind, gen)' = Waiting(kind, gen) + 1 - One(Head(strand) \in Of(kind, gen))
             /\ ~(kind = "resolve" /\ gen = c + 1) =>
                  Waiting(kind, gen)' = Waiting(kind, gen) - One(Head(strand) \in Of(kind, gen))
             /\ strand' \in Seq(Handler) /\ ops' \in OpsType
  <2>1. PICK k \in OpKind : k = "resolve"
    BY <1>3
  <2>2. PICK g \in Gens : g = c + 1
    BY <1>7
  <2>3. ops' = Started(k, g)
    BY <1>4, <2>1, <2>2
  <2>4. /\ strand' \in Seq(Handler) /\ ops' \in OpsType
        /\ kind = k /\ gen = g =>
             Waiting(kind, gen)' = Waiting(kind, gen) + 1 - One(Head(strand) \in Of(kind, gen))
        /\ ~(kind = k /\ gen = g) =>
             Waiting(kind, gen)' = Waiting(kind, gen) - One(Head(strand) \in Of(kind, gen))
    BY <1>1, <1>4, <2>3, HandledStarts
  <2>5. QED
    BY <1>1, <2>1, <2>2, <2>4, WaitingType
<1>9. strand' \in Seq(Handler) /\ ops' \in OpsType
  BY <1>2, <1>3, <1>8
<1>10. \A kind \in OpKind, gen \in Gens :
         Waiting(kind, gen)' = IF kind = "resolve" /\ gen = c + 1
                                 THEN Waiting(kind, gen) + 1
                                 ELSE IF kind = "timer" /\ gen = c THEN Waiting(kind, gen) - 1
                                                                  ELSE Waiting(kind, gen)
  <2>1. ASSUME NEW kind \in OpKind, NEW gen \in Gens
        PROVE  Waiting(kind, gen)' = IF kind = "resolve" /\ gen = c + 1
                                 THEN Waiting(kind, gen) + 1
                                 ELSE IF kind = "timer" /\ gen = c THEN Waiting(kind, gen) - 1
                                                                  ELSE Waiting(kind, gen)
    <3>1. CASE kind = "resolve" /\ gen = c + 1
      BY <1>5, <1>6, <1>8, <3>1 DEF One
    <3>2. CASE kind = "timer" /\ gen = c
      BY <1>5, <1>6, <1>8, <3>2 DEF One
    <3>3. CASE ~(kind = "resolve" /\ gen = c + 1) /\ ~(kind = "timer" /\ gen = c)
      BY <1>5, <1>6, <1>8, <3>3 DEF One
    <3>4. QED
      BY <3>1, <3>2, <3>3
  <2>2. QED
    BY <2>1
<1>11. /\ Waiting("timer", c) = 1 /\ ~isConnected
       /\ \A kind \in OpKind : Waiting(kind, c + 1) = 0
  <2>1. Waiting("timer", c) \in Nat \ {0} /\ Waiting("resolve", c) \in Nat /\ Waiting("connect", c) \in Nat
    BY <1>3, <1>5, <1>6, <1>8
  <2>2. Waiting("timer", c) + Waiting("resolve", c) + Waiting("connect", c) = IF isConnected THEN 0 ELSE 1
    BY <1>2 DEF LinkInv, Driven
  <2>3. Waiting("timer", c) = 1 /\ ~isConnected
    BY <2>1, <2>2
  <2>4. c + 1 > connGen
    BY <1>2 DEF Gens
  <2>5. QED
    BY <1>7, <2>3, <2>4 DEF LinkInv, OtherGens
<1>12. \A gen \in Gens : Waiting("timer", gen)' = 0
  <2>1. \A gen \in Gens : gen # c => Waiting("timer", gen) = 0
    BY <1>2 DEF LinkInv, OtherGens
  <2>2. QED
    BY <1>3, <1>10, <1>11, <2>1
<1>13. /\ Waiting("timer", c + 1)' = 0 /\ Waiting("resolve", c + 1)' = 1 /\ Waiting("connect", c + 1)' = 0
       /\ Waiting("read", c + 1)' = 0 /\ Waiting("write", c + 1)' = 0
  BY <1>3, <1>7, <1>10, <1>11
<1>14. Driven'
  BY <1>4, <1>11, <1>13 DEF Driven
<1>15. OtherGens'
  <2>1. ASSUME NEW k \in OpKind, NEW g \in Gens, g > connGen' PROVE Waiting(k, g)' = 0
    <3>1. g > c /\ g # c + 1 /\ g # c
      BY <1>4, <2>1 DEF Gens
    <3>2. Waiting(k, g) = 0
      BY <1>2, <3>1 DEF LinkInv, OtherGens
    <3>3. QED
      BY <1>10, <3>1, <3>2
  <2>2. QED
    BY <1>12, <2>1 DEF OtherGens
<1>16. HandlersFind'
  <2>1. ASSUME NEW h \in Elements(strand')
        PROVE  h.kind # "timer" /\ ~(h.kind = "read" /\ h.gen = c + 1)
    <3>1. h \in Handler
      BY <1>9 DEF Elements
    <3>2. h.kind \in OpKind => h.gen \in Gens /\ h \in Of(h.kind, h.gen)
      BY <3>1 DEF Handler, Of, OpKind
    <3>3. \A kind \in OpKind, gen \in Gens : Waiting(kind, gen)' = 0 => h \notin Of(kind, gen)
      BY <1>9, WaitingTypeNext
    <3>4. QED
      BY <1>3, <1>7, <1>12, <1>13, <3>2, <3>3
  <2>2. QED
    BY <1>4, <2>1 DEF HandlersFind
<1>17. ~greeting
  BY <1>11 DEF LinkInv
<1>18. QED
  BY <1>4, <1>7, <1>9, <1>11, <1>14, <1>15, <1>16, <1>17 DEF LinkInv, LinkTypes

\* What is left after the handler at the head of the strand has run under the
\* connection of today: one operation of its own fewer, and perhaps a new one.
LEMMA RanStarts ==
  ASSUME LinkTypes, NEW k0 \in OpKind, Runs(k0), strand' = Tail(strand),
         NEW k \in OpKind, ops' = Started(k, connGen),
         NEW kind \in OpKind, NEW gen \in Gens
  PROVE  /\ strand' \in Seq(Handler) /\ ops' \in OpsType
         /\ Elements(strand') \subseteq Elements(strand)
         /\ Waiting(kind, gen) \in Nat
         /\ kind = k /\ gen = connGen /\ kind = k0 /\ gen = Head(strand).gen =>
              Waiting(kind, gen)' = Waiting(kind, gen)
         /\ kind = k /\ gen = connGen /\ ~(kind = k0 /\ gen = Head(strand).gen) =>
              Waiting(kind, gen)' = Waiting(kind, gen) + 1
         /\ ~(kind = k /\ gen = connGen) /\ kind = k0 /\ gen = Head(strand).gen =>
              Waiting(kind, gen)' = Waiting(kind, gen) - 1
         /\ ~(kind = k /\ gen = connGen) /\ ~(kind = k0 /\ gen = Head(strand).gen) =>
              Waiting(kind, gen)' = Waiting(kind, gen)
<1>1. strand \in Seq(Handler) /\ ops \in OpsType /\ strand # <<>> /\ Head(strand).kind = k0
  BY DEF LinkTypes, Runs
<1>2. PICK g \in Gens : g = connGen
  BY DEF LinkTypes
<1>3. Head(strand) \in Of(kind, gen) <=> k0 = kind /\ Head(strand).gen = gen
  BY <1>1, HeadWaits
<1>4. /\ strand' \in Seq(Handler) /\ ops' \in OpsType
      /\ Elements(strand) = Elements(strand') \cup {Head(strand)}
      /\ kind = k /\ gen = g =>
           Waiting(kind, gen)' = Waiting(kind, gen) + 1 - One(Head(strand) \in Of(kind, gen))
      /\ ~(kind = k /\ gen = g) =>
           Waiting(kind, gen)' = Waiting(kind, gen) - One(Head(strand) \in Of(kind, gen))
  <2>1. ops' = Started(k, g)
    BY <1>2
  <2>2. QED
    BY <1>1, <2>1, HandledStarts
<1>5. Waiting(kind, gen) \in Nat
  BY <1>1, WaitingType
<1>6. CASE Head(strand) \in Of(kind, gen)
  BY <1>2, <1>3, <1>4, <1>5, <1>6 DEF One
<1>7. CASE Head(strand) \notin Of(kind, gen)
  BY <1>2, <1>3, <1>4, <1>5, <1>7 DEF One
<1>8. QED
  BY <1>6, <1>7

LEMMA RanOnly ==
  ASSUME LinkTypes, NEW k0 \in OpKind, Runs(k0), strand' = Tail(strand), ops' = ops,
         NEW kind \in OpKind, NEW gen \in Gens
  PROVE  /\ strand' \in Seq(Handler) /\ ops' \in OpsType
         /\ Elements(strand') \subseteq Elements(strand)
         /\ Waiting(kind, gen) \in Nat
         /\ kind = k0 /\ gen = Head(strand).gen => Waiting(kind, gen)' = Waiting(kind, gen) - 1
         /\ ~(kind = k0 /\ gen = Head(strand).gen) => Waiting(kind, gen)' = Waiting(kind, gen)
<1>1. strand \in Seq(Handler) /\ ops \in OpsType /\ strand # <<>> /\ Head(strand).kind = k0
  BY DEF LinkTypes, Runs
<1>2. Head(strand) \in Of(kind, gen) <=> k0 = kind /\ Head(strand).gen = gen
  BY <1>1, HeadWaits
<1>3. /\ strand' \in Seq(Handler) /\ ops' \in OpsType
      /\ Elements(strand) = Elements(strand') \cup {Head(strand)}
      /\ Waiting(kind, gen)' = Waiting(kind, gen) - One(Head(strand) \in Of(kind, gen))
  BY <1>1, HandledOnly
<1>4. Waiting(kind, gen) \in Nat
  BY <1>1, WaitingType
<1>5. CASE Head(strand) \in Of(kind, gen)
  BY <1>2, <1>3, <1>4, <1>5 DEF One
<1>6. CASE Head(strand) \notin Of(kind, gen)
  BY <1>2, <1>3, <1>4, <1>6 DEF One
<1>7. QED
  BY <1>5, <1>6

\* The only handler of its kind was at the head: no other is on the strand.
LEMMA OnlyOne ==
  ASSUME LinkTypes, NEW k0 \in OpKind, Runs(k0), strand' = Tail(strand),
         NEW gen \in Gens, gen = Head(strand).gen, Waiting(k0, gen) = 1
  PROVE  \A h \in Elements(strand') : ~(h.kind = k0 /\ h.gen = gen)
<1>1. strand \in Seq(Handler) /\ ops \in OpsType /\ strand # <<>> /\ Head(strand).kind = k0
  BY DEF LinkTypes, Runs
<1>2. Head(strand) \in Of(k0, gen)
  BY <1>1, HeadWaits
<1>3. /\ Cardinality(At(strand, Of(k0, gen))) = Cardinality(At(Tail(strand), Of(k0, gen)))
                                                 + One(Head(strand) \in Of(k0, gen))
      /\ Tail(strand) \in Seq(Handler)
  BY <1>1, AtTail
<1>4. Waiting(k0, gen) = ops[<<k0, gen>>] + Cardinality(At(strand, Of(k0, gen)))
  BY <1>1, HandlersAt DEF Waiting
<1>5. ops[<<k0, gen>>] \in Nat /\ Cardinality(At(Tail(strand), Of(k0, gen))) \in Nat
  BY <1>1, <1>3, AtFinite DEF OpsType
<1>6. Cardinality(At(Tail(strand), Of(k0, gen))) = 0
  BY <1>2, <1>3, <1>4, <1>5 DEF One
<1>7. \A h \in Elements(Tail(strand)) : h \notin Of(k0, gen)
  BY <1>3, <1>6, AtFinite
<1>8. \A h \in Elements(Tail(strand)) : h \in Handler
  BY <1>3 DEF Elements
<1>9. QED
  BY <1>7, <1>8 DEF Of

\* The handler runs under the connection of today, or it is stale.
LEMMA HeadOfToday ==
  ASSUME LinkTypes, LinkInv, NEW k0 \in OpKind, Runs(k0)
  PROVE  /\ ~Stale => Waiting(k0, connGen) \in Nat \ {0}
         /\ Head(strand).gen \in Gens /\ Head(strand).ok \in BOOLEAN
         /\ Head(strand) \in Elements(strand) /\ Head(strand).kind = k0
<1>1. strand # <<>> /\ Head(strand).kind = k0
  BY DEF Runs
<1>2. /\ Waiting(k0, Head(strand).gen) \in Nat \ {0} /\ Head(strand).gen \in Gens
      /\ Head(strand).ok \in BOOLEAN /\ Head(strand) \in Elements(strand)
  BY <1>1, HeadWaits
<1>3. QED
  BY <1>1, <1>2 DEF Stale

\* No handler has joined the strand and no timer has started but of today: the
\* operations of other connections are as they were.
LEMMA OthersStay ==
  ASSUME LinkTypes, LinkInv, connGen' = connGen,
         \A k \in OpKind, g \in Gens : g # connGen /\ Waiting(k, g) = 0 => Waiting(k, g)' = 0
  PROVE  OtherGens'
<1>1. \A k \in OpKind, g \in Gens : g > connGen => g # connGen
  BY DEF Gens, LinkTypes
<1>2. QED
  BY <1>1 DEF LinkInv, OtherGens, OpKind

\* A handler of an old connection changes nothing.
LEMMA StaleLink ==
  ASSUME LinkTypes, LinkInv, NEW k0 \in OpKind, Runs(k0), Stale,
         strand' = Tail(strand), ops' = ops, connGen' = connGen, isConnected' = isConnected,
         greeting' = greeting, sendQueue' = sendQueue, toZone' = toZone
  PROVE  LinkInv' /\ LinkTypes'
<1>1. PICK c \in Gens : c = connGen
  BY DEF LinkTypes
<1>2. {"resolve", "connect", "read", "write", "timer"} \subseteq OpKind
  BY DEF OpKind
<1>3. Head(strand).gen # c
  BY <1>1 DEF Stale
<1>4. ASSUME NEW kind \in OpKind, NEW gen \in Gens
      PROVE  /\ strand' \in Seq(Handler) /\ ops' \in OpsType
             /\ Elements(strand') \subseteq Elements(strand)
             /\ Waiting(kind, gen) \in Nat
             /\ gen = c => Waiting(kind, gen)' = Waiting(kind, gen)
             /\ gen # c /\ Waiting(kind, gen) = 0 => Waiting(kind, gen)' = 0
  <2>1. Waiting(kind, gen)' \in Nat
    BY RanOnly, WaitingTypeNext
  <2>2. QED
    BY <1>3, <2>1, RanOnly
<1>5. Driven'
  BY <1>1, <1>2, <1>4 DEF LinkInv, Driven
<1>6. OtherGens'
  BY <1>1, <1>4, OthersStay
<1>7. HandlersFind'
  BY <1>1, <1>2, <1>4 DEF LinkInv, HandlersFind
<1>8. QED
  BY <1>1, <1>2, <1>4, <1>5, <1>6, <1>7 DEF LinkInv, LinkTypes

LEMMA HandleResolveLink ==
  ASSUME LinkTypes, LinkInv, HandleResolve
  PROVE  LinkInv' /\ LinkTypes'
<1>1. PICK c \in Gens : c = connGen
  BY DEF LinkTypes
<1>2. PICK k0 \in OpKind : k0 = "resolve"
  BY DEF OpKind
<1>3. {"resolve", "connect", "read", "write", "timer"} \subseteq OpKind
  BY DEF OpKind
<1>4. /\ Runs(k0) /\ strand' = Tail(strand) /\ connGen' = connGen /\ isConnected' = isConnected
      /\ greeting' = greeting /\ sendQueue' = sendQueue /\ toZone' = toZone
  BY <1>2 DEF HandleResolve, gateVars
<1>5. CASE Stale
  <2>1. ops' = ops
    BY <1>5 DEF HandleResolve
  <2>2. QED
    BY <1>4, <1>5, <2>1, StaleLink
<1>6. CASE ~Stale
  <2>1. PICK k \in OpKind : k = IF Head(strand).ok THEN "connect" ELSE "timer"
    BY <1>3
  <2>2. ops' = Started(k, connGen) /\ Head(strand).gen = c
    BY <1>1, <1>6, <2>1 DEF HandleResolve, NextOrRetry, Stale
  <2>3. ASSUME NEW kind \in OpKind, NEW gen \in Gens
        PROVE  /\ strand' \in Seq(Handler) /\ ops' \in OpsType
               /\ Elements(strand') \subseteq Elements(strand)
               /\ Waiting(kind, gen) \in Nat
               /\ gen = c /\ kind = "resolve" => Waiting(kind, gen)' = Waiting(kind, gen) - 1
               /\ gen = c /\ kind = k => Waiting(kind, gen)' = Waiting(kind, gen) + 1
               /\ gen = c /\ kind # k /\ kind # "resolve" => Waiting(kind, gen)' = Waiting(kind, gen)
               /\ gen # c /\ Waiting(kind, gen) = 0 => Waiting(kind, gen)' = 0
    <3>1. k # "resolve"
      BY <2>1
    <3>2. QED
      BY <1>1, <1>2, <1>4, <2>2, <3>1, RanStarts
  <2>4. Waiting("resolve", c) \in Nat \ {0}
    BY <1>1, <1>2, <1>4, <1>6, HeadOfToday
  <2>5. Driven'
    BY <1>1, <1>3, <1>4, <2>1, <2>3, <2>4 DEF LinkInv, Driven
  <2>6. OtherGens'
    BY <1>1, <1>4, <2>3, OthersStay
  <2>7. HandlersFind'
    BY <1>1, <1>2, <1>4, <2>3 DEF LinkInv, HandlersFind
  <2>8. QED
    BY <1>1, <1>2, <1>4, <2>3, <2>5, <2>6, <2>7 DEF LinkInv, LinkTypes
<1>7. QED
  BY <1>5, <1>6

LEMMA HandleConnectLink ==
  ASSUME LinkTypes, LinkInv, HandleConnect
  PROVE  LinkInv' /\ LinkTypes'
<1>1. PICK c \in Gens : c = connGen
  BY DEF LinkTypes
<1>2. PICK k0 \in OpKind : k0 = "connect"
  BY DEF OpKind
<1>3. {"resolve", "connect", "read", "write", "timer"} \subseteq OpKind
  BY DEF OpKind
<1>4. /\ Runs(k0) /\ strand' = Tail(strand) /\ connGen' = connGen
      /\ sendQueue' = sendQueue /\ toZone' = toZone
  BY <1>2 DEF HandleConnect, gateVars
<1>5. ~greeting /\ greeting \in BOOLEAN /\ isConnected \in BOOLEAN
  BY <1>4 DEF Runs, LinkTypes
<1>6. Head(strand).ok \in BOOLEAN
  BY <1>4, HeadOfToday
<1>7. CASE Stale
  <2>1. ops' = ops /\ isConnected' = isConnected /\ greeting' = greeting
    BY <1>5, <1>7 DEF HandleConnect
  <2>2. QED
    BY <1>4, <1>7, <2>1, StaleLink
<1>8. CASE ~Stale /\ Head(strand).ok
  <2>1. ops' = ops /\ isConnected' = TRUE /\ greeting' = TRUE /\ Head(strand).gen = c
    BY <1>1, <1>5, <1>8 DEF HandleConnect, Stale
  <2>2. ASSUME NEW kind \in OpKind, NEW gen \in Gens
        PROVE  /\ strand' \in Seq(Handler) /\ ops' \in OpsType
               /\ Elements(strand') \subseteq Elements(strand)
               /\ Waiting(kind, gen) \in Nat
               /\ gen = c /\ kind = "connect" => Waiting(kind, gen)' = Waiting(kind, gen) - 1
               /\ gen = c /\ kind # "connect" => Waiting(kind, gen)' = Waiting(kind, gen)
               /\ gen # c /\ Waiting(kind, gen) = 0 => Waiting(kind, gen)' = 0
    BY <1>1, <1>2, <1>4, <2>1, RanOnly
  <2>3. Waiting("connect", c) \in Nat \ {0}
    BY <1>1, <1>2, <1>4, <1>8, HeadOfToday
  <2>4. Driven'
    <3>1. /\ Waiting("timer", c) + Waiting("resolve", c) + Waiting("connect", c)
               = IF isConnected THEN 0 ELSE 1
          /\ Waiting("write", c) =< 1 /\ (Waiting("write", c) = 1 => sendQueue # <<>>)
          /\ ~isConnected /\ Waiting("timer", c) = 0 => Waiting("read", c) = 0
      BY <1>1 DEF LinkInv, Driven
    <3>2. /\ Waiting("timer", c) \in Nat /\ Waiting("resolve", c) \in Nat
          /\ Waiting("write", c) \in Nat
      BY <1>3, <2>2
    <3>3. /\ Waiting("timer", c) = 0 /\ Waiting("resolve", c) = 0 /\ Waiting("connect", c) = 1
          /\ Waiting("read", c) = 0
      BY <2>3, <3>1, <3>2
    <3>4. /\ Waiting("timer", c)' = 0 /\ Waiting("resolve", c)' = 0 /\ Waiting("connect", c)' = 0
          /\ Waiting("read", c)' = 0 /\ Waiting("write", c)' = Waiting("write", c)
      BY <1>3, <2>2, <3>3
    <3>5. QED
      BY <1>1, <1>4, <2>1, <3>1, <3>4 DEF Driven
  <2>5. OtherGens'
    BY <1>1, <1>4, <2>2, OthersStay
  <2>6. HandlersFind'
    BY <1>1, <1>2, <1>4, <2>2 DEF LinkInv, HandlersFind
  <2>7. QED
    BY <1>1, <1>2, <1>4, <2>1, <2>2, <2>4, <2>5, <2>6 DEF LinkInv, LinkTypes
<1>9. CASE ~Stale /\ ~Head(strand).ok
  <2>1. PICK k \in OpKind : k = "timer"
    BY <1>3
  <2>2. /\ ops' = Started(k, connGen) /\ Head(strand).gen = c
        /\ isConnected' = isConnected /\ greeting' = greeting
    BY <1>1, <1>5, <1>9, <2>1 DEF HandleConnect, Stale
  <2>3. ASSUME NEW kind \in OpKind, NEW gen \in Gens
        PROVE  /\ strand' \in Seq(Handler) /\ ops' \in OpsType
               /\ Elements(strand') \subseteq Elements(strand)
               /\ Waiting(kind, gen) \in Nat
               /\ gen = c /\ kind = "connect" => Waiting(kind, gen)' = Waiting(kind, gen) - 1
               /\ gen = c /\ kind = k => Waiting(kind, gen)' = Waiting(kind, gen) + 1
               /\ gen = c /\ kind # k /\ kind # "connect" => Waiting(kind, gen)' = Waiting(kind, gen)
               /\ gen # c /\ Waiting(kind, gen) = 0 => Waiting(kind, gen)' = 0
    BY <1>1, <1>2, <1>4, <2>1, <2>2, RanStarts
  <2>4. Waiting("connect", c) \in Nat \ {0}
    BY <1>1, <1>2, <1>4, <1>9, HeadOfToday
  <2>5. Driven'
    BY SMTT(30), <1>1, <1>3, <1>4, <1>5, <2>1, <2>2, <2>3, <2>4 DEF LinkInv, Driven
  <2>6. OtherGens'
    BY <1>1, <1>4, <2>3, OthersStay
  <2>7. HandlersFind'
    BY <1>1, <1>2, <1>4, <2>3 DEF LinkInv, HandlersFind
  <2>8. QED
    BY <1>1, <1>2, <1>4, <1>5, <2>2, <2>3, <2>5, <2>6, <2>7 DEF LinkInv, LinkTypes
<1>10. QED
  BY <1>6, <1>7, <1>8, <1>9

\* Posted packets are no operations.
LEMMA SendIsNoOperation ==
  ASSUME NEW h \in Handler, h.kind = "send", NEW kind \in OpKind, NEW gen \in Gens
  PROVE  h \notin Of(kind, gen) /\ h.packet \in Packet
BY DEF Handler, Of, OpKind

LEMMA GreetLink ==
  ASSUME LinkTypes, LinkInv, Greet
  PROVE  LinkInv' /\ LinkTypes'
<1> DEFINE h == [kind |-> "send", packet |-> Handshake]
<1>1. PICK c \in Gens : c = connGen
  BY DEF LinkTypes
<1>2. {"resolve", "connect", "read", "write", "timer"} \subseteq OpKind
  BY DEF OpKind
<1>3. PICK k \in OpKind : k = "read"
  BY <1>2
<1>4. h \in Handler /\ h.kind = "send"
  BY DEF Handler, Packet
<1>5. /\ greeting /\ ~greeting' /\ greeting' \in BOOLEAN /\ isConnected /\ strand' = Append(strand, h)
      /\ ops' = Started(k, c) /\ connGen' = connGen /\ isConnected' = isConnected
      /\ sendQueue' = sendQueue /\ toZone' = toZone
  BY <1>1, <1>3 DEF Greet, gateVars, LinkInv
<1> HIDE DEF h
<1>6. ASSUME NEW kind \in OpKind, NEW gen \in Gens
      PROVE  /\ strand' \in Seq(Handler) /\ ops' \in OpsType
             /\ Elements(strand') = Elements(strand) \cup {h}
             /\ Waiting(kind, gen) \in Nat
             /\ kind = "read" /\ gen = c => Waiting(kind, gen)' = Waiting(kind, gen) + 1
             /\ ~(kind = "read" /\ gen = c) => Waiting(kind, gen)' = Waiting(kind, gen)
  <2>1. strand \in Seq(Handler) /\ ops \in OpsType
    BY DEF LinkTypes
  <2>2. One(h \in Of(kind, gen)) = 0
    BY <1>4, SendIsNoOperation DEF One
  <2>3. /\ strand' \in Seq(Handler) /\ ops' \in OpsType
        /\ Elements(strand') = Elements(strand) \cup {h}
        /\ kind = k /\ gen = c => Waiting(kind, gen)' = Waiting(kind, gen) + 1 + One(h \in Of(kind, gen))
        /\ ~(kind = k /\ gen = c) => Waiting(kind, gen)' = Waiting(kind, gen) + One(h \in Of(kind, gen))
    BY <1>4, <1>5, <2>1, JoinedStarts
  <2>4. Waiting(kind, gen) \in Nat
    BY <2>1, WaitingType
  <2>5. QED
    BY <1>3, <2>2, <2>3, <2>4
<1>7. Driven'
  BY <1>1, <1>2, <1>5, <1>6 DEF LinkInv, Driven
<1>8. OtherGens'
  BY <1>1, <1>5, <1>6, OthersStay
<1>9. HandlersFind'
  <2>1. ASSUME NEW x \in Elements(strand')
        PROVE  x.kind = "send" \/ x \in Elements(strand)
    BY <1>1, <1>3, <1>4, <1>6
  <2>2. QED
    BY <1>5, <2>1 DEF LinkInv, HandlersFind
<1>10. QED
  BY <1>1, <1>3, <1>5, <1>6, <1>7, <1>8, <1>9 DEF LinkInv, LinkTypes

LEMMA PostSendLink ==
  ASSUME LinkTypes, LinkInv, PostSend, sending \in Packet \cup {Nothing}
  PROVE  LinkInv' /\ LinkTypes'
<1> DEFINE h == [kind |-> "send", packet |-> sending]
<1>1. PICK c \in Gens : c = connGen
  BY DEF LinkTypes
<1>2. {"resolve", "connect", "read", "write", "timer"} \subseteq OpKind
  BY DEF OpKind
<1>3. sending \in Packet
  BY DEF PostSend
<1>4. h \in Handler /\ h.kind = "send"
  BY <1>3 DEF Handler
<1>5. /\ greeting' = greeting /\ strand' = Append(strand, h)
      /\ ops' = ops /\ connGen' = connGen /\ isConnected' = isConnected
      /\ sendQueue' = sendQueue /\ toZone' = toZone
  BY DEF PostSend, gateVars
<1> HIDE DEF h
<1>6. ASSUME NEW kind \in OpKind, NEW gen \in Gens
      PROVE  /\ strand' \in Seq(Handler) /\ ops' \in OpsType
             /\ Elements(strand') = Elements(strand) \cup {h}
             /\ Waiting(kind, gen)' = Waiting(kind, gen)
  <2>1. strand \in Seq(Handler) /\ ops \in OpsType
    BY DEF LinkTypes
  <2>2. One(h \in Of(kind, gen)) = 0
    BY <1>4, SendIsNoOperation DEF One
  <2>3. /\ strand' \in Seq(Handler) /\ ops' \in OpsType
        /\ Elements(strand') = Elements(strand) \cup {h}
        /\ Waiting(kind, gen)' = Waiting(kind, gen) + One(h \in Of(kind, gen))
    BY <1>4, <1>5, <2>1, JoinedOnly
  <2>4. Waiting(kind, gen) \in Nat
    BY <2>1, WaitingType
  <2>5. QED
    BY <2>2, <2>3, <2>4
<1>7. Driven'
  BY <1>1, <1>2, <1>5, <1>6 DEF LinkInv, Driven
<1>8. OtherGens'
  BY <1>1, <1>5, <1>6, OthersStay
<1>9. HandlersFind'
  <2>1. ASSUME NEW x \in Elements(strand')
        PROVE  x.kind = "send" \/ x \in Elements(strand)
    BY <1>1, <1>2, <1>4, <1>6
  <2>2. QED
    BY <1>5, <2>1 DEF LinkInv, HandlersFind
<1>10. QED
  BY <1>1, <1>2, <1>5, <1>6, <1>7, <1>8, <1>9 DEF LinkInv, LinkTypes

LEMMA HandleSendLink ==
  ASSUME LinkTypes, LinkInv, HandleSend
  PROVE  LinkInv' /\ LinkTypes'
<1>1. PICK c \in Gens : c = connGen
  BY DEF LinkTypes
<1>2. {"resolve", "connect", "read", "write", "timer"} \subseteq OpKind
  BY DEF OpKind
<1>3. PICK k \in OpKind : k = "write"
  BY <1>2
<1>4. /\ strand # <<>> /\ Head(strand).kind = "send" /\ strand' = Tail(strand)
      /\ connGen' = connGen /\ isConnected' = isConnected /\ greeting' = greeting
      /\ sendQueue' = Append(sendQueue, Head(strand).packet) /\ toZone' = toZone
      /\ ops' = IF sendQueue = <<>> THEN Started(k, c) ELSE ops
  BY <1>1, <1>3 DEF HandleSend, Runs, gateVars
<1>5. strand \in Seq(Handler) /\ ops \in OpsType /\ sendQueue \in Seq(Packet)
  BY DEF LinkTypes
<1>6. Head(strand) \in Handler /\ Elements(strand) = Elements(Tail(strand)) \cup {Head(strand)}
  BY <1>4, <1>5, AtTail
<1>7. Head(strand).packet \in Packet
  BY <1>4, <1>6, SendIsNoOperation
<1>8. sendQueue' \in Seq(Packet) /\ sendQueue' # <<>>
  BY <1>4, <1>5, <1>7
<1>9. ASSUME NEW kind \in OpKind, NEW gen \in Gens
      PROVE  /\ strand' \in Seq(Handler) /\ ops' \in OpsType
             /\ Waiting(kind, gen) \in Nat
             /\ sendQueue = <<>> /\ kind = "write" /\ gen = c =>
                  Waiting(kind, gen)' = Waiting(kind, gen) + 1
             /\ ~(sendQueue = <<>> /\ kind = "write" /\ gen = c) =>
                  Waiting(kind, gen)' = Waiting(kind, gen)
  <2>1. One(Head(strand) \in Of(kind, gen)) = 0
    BY <1>4, <1>6, SendIsNoOperation DEF One
  <2>2. Waiting(kind, gen) \in Nat
    BY <1>5, WaitingType
  <2>3. CASE sendQueue = <<>>
    <3>1. ops' = Started(k, c)
      BY <1>4, <2>3
    <3>2. /\ strand' \in Seq(Handler) /\ ops' \in OpsType
          /\ kind = k /\ gen = c =>
               Waiting(kind, gen)' = Waiting(kind, gen) + 1 - One(Head(strand) \in Of(kind, gen))
          /\ ~(kind = k /\ gen = c) =>
               Waiting(kind, gen)' = Waiting(kind, gen) - One(Head(strand) \in Of(kind, gen))
      BY <1>4, <1>5, <3>1, HandledStarts
    <3>3. QED
      BY <1>3, <2>1, <2>2, <2>3, <3>2
  <2>4. CASE sendQueue # <<>>
    <3>1. ops' = ops
      BY <1>4, <2>4
    <3>2. /\ strand' \in Seq(Handler) /\ ops' \in OpsType
          /\ Waiting(kind, gen)' = Waiting(kind, gen) - One(Head(strand) \in Of(kind, gen))
      BY <1>4, <1>5, <3>1, HandledOnly
    <3>3. QED
      BY <2>1, <2>2, <2>4, <3>2
  <2>5. QED
    BY <2>3, <2>4
<1>10. Driven'
  BY SMTT(30), <1>1, <1>2, <1>4, <1>8, <1>9 DEF LinkInv, Driven
<1>11. OtherGens'
  BY <1>1, <1>4, <1>9, OthersStay
<1>12. HandlersFind'
  BY <1>4, <1>6 DEF LinkInv, HandlersFind
<1>13. QED
  BY <1>1, <1>3, <1>4, <1>8, <1>9, <1>10, <1>11, <1>12 DEF LinkInv, LinkTypes

\* The loss, whatever the handler that finds it.
LEMMA LossLink ==
  ASSUME LinkTypes, LinkInv, NEW k0 \in {"read", "write"}, Runs(k0), ~Stale,
         strand' = Tail(strand), OnDisconnected, connGen' = connGen,
         greeting' = greeting, sendQueue' = sendQueue, toZone' = toZone
  PROVE  LinkInv' /\ LinkTypes'
<1>1. PICK c \in Gens : c = connGen
  BY DEF LinkTypes
<1>2. {"resolve", "connect", "read", "write", "timer"} \subseteq OpKind /\ k0 \in OpKind
  BY DEF OpKind
<1>3. PICK k \in OpKind : k = "timer"
  BY <1>2
<1>4. Head(strand).gen = c
  BY <1>1 DEF Stale
<1>5. Waiting(k0, c) \in Nat \ {0}
  BY <1>1, <1>2, HeadOfToday
<1>6. ~greeting
  BY DEF Runs
<1>7. CASE isConnected
  <2>1. ops' = Started(k, connGen) /\ isConnected' = FALSE
    BY <1>3, <1>7 DEF OnDisconnected
  <2>2. ASSUME NEW kind \in OpKind, NEW gen \in Gens
        PROVE  /\ strand' \in Seq(Handler) /\ ops' \in OpsType
               /\ Elements(strand') \subseteq Elements(strand)
               /\ Waiting(kind, gen) \in Nat
               /\ gen = c /\ kind = k0 => Waiting(kind, gen)' = Waiting(kind, gen) - 1
               /\ gen = c /\ kind = k => Waiting(kind, gen)' = Waiting(kind, gen) + 1
               /\ gen = c /\ kind # k /\ kind # k0 => Waiting(kind, gen)' = Waiting(kind, gen)
               /\ gen # c /\ Waiting(kind, gen) = 0 => Waiting(kind, gen)' = 0
    <3>1. k # k0
      BY <1>3
    <3>2. /\ strand' \in Seq(Handler) /\ ops' \in OpsType
          /\ Elements(strand') \subseteq Elements(strand)
          /\ Waiting(kind, gen) \in Nat
          /\ kind = k /\ gen = connGen /\ ~(kind = k0 /\ gen = Head(strand).gen) =>
               Waiting(kind, gen)' = Waiting(kind, gen) + 1
          /\ ~(kind = k /\ gen = connGen) /\ kind = k0 /\ gen = Head(strand).gen =>
               Waiting(kind, gen)' = Waiting(kind, gen) - 1
          /\ ~(kind = k /\ gen = connGen) /\ ~(kind = k0 /\ gen = Head(strand).gen) =>
               Waiting(kind, gen)' = Waiting(kind, gen)
      BY <1>2, <2>1, RanStarts
    <3>3. QED
      BY <1>1, <1>4, <3>1, <3>2
  <2>3. Driven'
    <3>1. /\ Waiting("timer", c) + Waiting("resolve", c) + Waiting("connect", c) = 0
          /\ Waiting("read", c) =< 1 /\ Waiting("write", c) =< 1
          /\ Waiting("write", c) = 1 => sendQueue # <<>>
      BY <1>1, <1>7 DEF LinkInv, Driven
    <3>2. /\ Waiting("timer", c) \in Nat /\ Waiting("resolve", c) \in Nat
          /\ Waiting("connect", c) \in Nat
          /\ Waiting("read", c) \in Nat /\ Waiting("write", c) \in Nat
      BY <1>2, <2>2
    <3>3. /\ Waiting("timer", c) = 0 /\ Waiting("resolve", c) = 0 /\ Waiting("connect", c) = 0
      BY <3>1, <3>2
    <3>4. /\ Waiting("timer", c)' = 1 /\ Waiting("resolve", c)' = 0 /\ Waiting("connect", c)' = 0
      BY <1>2, <1>3, <2>2, <3>3
    <3>5. /\ Waiting("read", c)' =< 1 /\ Waiting("write", c)' =< 1
          /\ Waiting("write", c)' = 1 => sendQueue # <<>>
      <4>1. CASE k0 = "read"
        BY <1>2, <1>3, <1>5, <2>2, <3>1, <3>2, <4>1
      <4>2. CASE k0 = "write"
        BY <1>2, <1>3, <1>5, <2>2, <3>1, <3>2, <4>2
      <4>3. QED
        BY <4>1, <4>2
    <3>6. QED
      BY <1>1, <2>1, <3>4, <3>5 DEF Driven
  <2>4. OtherGens'
    BY <1>1, <2>2, OthersStay
  <2>5. HandlersFind'
    BY <1>1, <1>2, <2>2 DEF LinkInv, HandlersFind
  <2>6. QED
    BY <1>1, <1>2, <1>6, <2>1, <2>2, <2>3, <2>4, <2>5 DEF LinkInv, LinkTypes
<1>8. CASE ~isConnected
  <2>1. ops' = ops /\ isConnected' = isConnected
    BY <1>8 DEF OnDisconnected
  <2>2. ASSUME NEW kind \in OpKind, NEW gen \in Gens
        PROVE  /\ strand' \in Seq(Handler) /\ ops' \in OpsType
               /\ Elements(strand') \subseteq Elements(strand)
               /\ Waiting(kind, gen) \in Nat
               /\ gen = c /\ kind = k0 => Waiting(kind, gen)' = Waiting(kind, gen) - 1
               /\ gen = c /\ kind # k0 => Waiting(kind, gen)' = Waiting(kind, gen)
               /\ gen # c /\ Waiting(kind, gen) = 0 => Waiting(kind, gen)' = 0
    BY SMTT(30), <1>1, <1>2, <1>4, <2>1, RanOnly
  <2>3. Driven'
    <3>1. /\ Waiting("timer", c) + Waiting("resolve", c) + Waiting("connect", c) = 1
          /\ Waiting("read", c) =< 1 /\ Waiting("write", c) =< 1
          /\ Waiting("write", c) = 1 => sendQueue # <<>>
          /\ Waiting("timer", c) = 0 => Waiting("read", c) = 0
      BY <1>1, <1>8 DEF LinkInv, Driven
    <3>2. Waiting("read", c) \in Nat /\ Waiting("write", c) \in Nat
      BY <1>2, <2>2
    <3>3. /\ Waiting("timer", c)' = Waiting("timer", c) /\ Waiting("resolve", c)' = Waiting("resolve", c)
          /\ Waiting("connect", c)' = Waiting("connect", c)
      BY <1>2, <2>2
    <3>4. /\ Waiting("read", c)' =< 1 /\ Waiting("write", c)' =< 1
          /\ Waiting("write", c)' = 1 => sendQueue # <<>>
          /\ Waiting("timer", c) = 0 => Waiting("read", c)' = 0
      <4>1. CASE k0 = "read"
        BY <1>2, <1>5, <2>2, <3>1, <3>2, <4>1
      <4>2. CASE k0 = "write"
        BY <1>2, <1>5, <2>2, <3>1, <3>2, <4>2
      <4>3. QED
        BY <4>1, <4>2
    <3>5. QED
      BY <1>1, <1>8, <2>1, <3>1, <3>3, <3>4 DEF Driven
  <2>4. OtherGens'
    BY <1>1, <2>2, OthersStay
  <2>5. HandlersFind'
    BY <1>1, <1>2, <2>2 DEF LinkInv, HandlersFind
  <2>6. QED
    BY <1>1, <1>2, <1>6, <2>1, <2>2, <2>3, <2>4, <2>5 DEF LinkInv, LinkTypes
<1>9. QED
  BY <1>7, <1>8

LEMMA HandleWriteLink ==
  ASSUME LinkTypes, LinkInv, HandleWrite
  PROVE  LinkInv' /\ LinkTypes'
<1>1. PICK c \in Gens : c = connGen
  BY DEF LinkTypes
<1>2. {"resolve", "connect", "read", "write", "timer"} \subseteq OpKind
  BY DEF OpKind
<1>3. PICK k \in OpKind : k = "write"
  BY <1>2
<1>4. /\ Runs(k) /\ strand' = Tail(strand) /\ connGen' = connGen /\ greeting' = greeting
      /\ toZone' = toZone
  BY <1>3 DEF HandleWrite, gateVars
<1>5. CASE Stale
  <2>1. ops' = ops /\ isConnected' = isConnected /\ sendQueue' = sendQueue
    BY <1>5 DEF HandleWrite
  <2>2. QED
    BY <1>4, <1>5, <2>1, StaleLink
<1>6. CASE ~Stale /\ ~Head(strand).ok
  <2>1. OnDisconnected /\ sendQueue' = sendQueue
    BY <1>6 DEF HandleWrite
  <2>2. PICK k0 \in {"read", "write"} : k0 = k
    BY <1>3
  <2>3. QED
    BY <1>4, <1>6, <2>1, <2>2, LossLink
<1>7. CASE ~Stale /\ Head(strand).ok
  <2>1. /\ sendQueue' = Tail(sendQueue) /\ isConnected' = isConnected
        /\ ops' = IF Len(sendQueue) > 1 THEN Started(k, connGen) ELSE ops
        /\ Head(strand).gen = c
    BY <1>1, <1>3, <1>7 DEF HandleWrite, Stale
  <2>2. Waiting("write", c) \in Nat \ {0}
    BY <1>1, <1>3, <1>4, <1>7, HeadOfToday
  <2>3. Waiting("write", c) = 1 /\ sendQueue # <<>> /\ sendQueue \in Seq(Packet)
    BY <1>1, <2>2 DEF LinkInv, LinkTypes, Driven
  <2>4. /\ sendQueue' \in Seq(Packet)
        /\ Len(sendQueue) > 1 => sendQueue' # <<>>
    BY SMTT(30), <2>1, <2>3
  <2>5. ASSUME NEW kind \in OpKind, NEW gen \in Gens
        PROVE  /\ strand' \in Seq(Handler) /\ ops' \in OpsType
               /\ Elements(strand') \subseteq Elements(strand)
               /\ Waiting(kind, gen) \in Nat
               /\ gen = c /\ kind = "write" =>
                    Waiting(kind, gen)' = IF Len(sendQueue) > 1 THEN Waiting(kind, gen)
                                                                ELSE Waiting(kind, gen) - 1
               /\ gen = c /\ kind # "write" => Waiting(kind, gen)' = Waiting(kind, gen)
               /\ gen # c /\ Waiting(kind, gen) = 0 => Waiting(kind, gen)' = 0
    <3>1. CASE Len(sendQueue) > 1
      <4>1. ops' = Started(k, connGen)
        BY <2>1, <3>1
      <4>2. QED
        BY <1>1, <1>3, <1>4, <2>1, <3>1, <4>1, RanStarts
    <3>2. CASE ~(Len(sendQueue) > 1)
      <4>1. ops' = ops
        BY <2>1, <3>2
      <4>2. QED
        BY <1>1, <1>3, <1>4, <2>1, <3>2, <4>1, RanOnly
    <3>3. QED
      BY <3>1, <3>2
  <2>6. Driven'
    <3>1. /\ Waiting("timer", c)' = Waiting("timer", c) /\ Waiting("resolve", c)' = Waiting("resolve", c)
          /\ Waiting("connect", c)' = Waiting("connect", c) /\ Waiting("read", c)' = Waiting("read", c)
          /\ Waiting("write", c)' = IF Len(sendQueue) > 1 THEN 1 ELSE 0
      BY <1>2, <2>3, <2>5
    <3>2. QED
      BY <1>1, <1>4, <2>1, <2>4, <3>1 DEF LinkInv, Driven
  <2>7. OtherGens'
    BY <1>1, <1>4, <2>5, OthersStay
  <2>8. HandlersFind'
    BY <1>1, <1>3, <1>4, <2>5 DEF LinkInv, HandlersFind
  <2>9. QED
    BY <1>1, <1>3, <1>4, <2>1, <2>4, <2>5, <2>6, <2>7, <2>8 DEF LinkInv, LinkTypes
<1>8. Head(strand).ok \in BOOLEAN
  BY <1>4, HeadOfToday
<1>9. QED
  BY <1>5, <1>6, <1>7, <1>8

LEMMA HandleReadLink ==
  ASSUME LinkTypes, LinkInv, HandleRead, toZone \in [Gens -> Seq(Sids)]
  PROVE  /\ LinkInv' /\ LinkTypes'
         /\ ~Stale /\ Head(strand).ok => toZone[connGen] # <<>>
<1>1. PICK c \in Gens : c = connGen
  BY DEF LinkTypes
<1>2. {"resolve", "connect", "read", "write", "timer"} \subseteq OpKind
  BY DEF OpKind
<1>3. PICK k \in OpKind : k = "read"
  BY <1>2
<1>4. /\ Runs(k) /\ strand' = Tail(strand) /\ connGen' = connGen /\ greeting' = greeting
      /\ sendQueue' = sendQueue
  BY <1>3 DEF HandleRead
<1>5. /\ Head(strand) \in Elements(strand) /\ Head(strand).kind = "read"
      /\ Head(strand).ok \in BOOLEAN
  BY <1>3, <1>4, HeadOfToday
<1>6. ~Stale /\ Head(strand).ok => toZone[connGen] # <<>>
  BY <1>5 DEF LinkInv, HandlersFind, Stale
<1>7. CASE Stale
  <2>1. ops' = ops /\ isConnected' = isConnected /\ toZone' = toZone
    BY <1>7 DEF HandleRead
  <2>2. QED
    BY <1>4, <1>6, <1>7, <2>1, StaleLink
<1>8. CASE ~Stale /\ ~Head(strand).ok
  <2>1. OnDisconnected /\ toZone' = toZone
    BY <1>8 DEF HandleRead
  <2>2. PICK k0 \in {"read", "write"} : k0 = k
    BY <1>3
  <2>3. QED
    BY <1>4, <1>6, <1>8, <2>1, <2>2, LossLink
<1>9. CASE ~Stale /\ Head(strand).ok
  <2>1. /\ isConnected' = isConnected
        /\ ops' = IF isConnected THEN Started(k, connGen) ELSE ops
        /\ toZone' = [toZone EXCEPT ![c] = Tail(@)]
        /\ Head(strand).gen = c
    BY <1>1, <1>3, <1>9 DEF HandleRead, Stale
  <2>2. Waiting("read", c) \in Nat \ {0}
    BY <1>1, <1>3, <1>4, <1>9, HeadOfToday
  <2>3. Waiting("read", c) = 1
    BY <1>1, <2>2 DEF LinkInv, Driven
  <2>4. ASSUME NEW kind \in OpKind, NEW gen \in Gens
        PROVE  /\ strand' \in Seq(Handler) /\ ops' \in OpsType
               /\ Elements(strand') \subseteq Elements(strand)
               /\ Waiting(kind, gen) \in Nat
               /\ gen = c /\ kind = "read" =>
                    Waiting(kind, gen)' = IF isConnected THEN Waiting(kind, gen)
                                                         ELSE Waiting(kind, gen) - 1
               /\ gen = c /\ kind # "read" => Waiting(kind, gen)' = Waiting(kind, gen)
               /\ gen # c /\ Waiting(kind, gen) = 0 => Waiting(kind, gen)' = 0
    <3>1. CASE isConnected
      <4>1. ops' = Started(k, connGen)
        BY <2>1, <3>1
      <4>2. QED
        BY <1>1, <1>3, <1>4, <2>1, <3>1, <4>1, RanStarts
    <3>2. CASE ~isConnected
      <4>1. ops' = ops
        BY <2>1, <3>2
      <4>2. QED
        BY <1>1, <1>3, <1>4, <2>1, <3>2, <4>1, RanOnly
    <3>3. QED
      BY <3>1, <3>2
  <2>5. Driven'
    <3>1. /\ Waiting("timer", c)' = Waiting("timer", c) /\ Waiting("resolve", c)' = Waiting("resolve", c)
          /\ Waiting("connect", c)' = Waiting("connect", c) /\ Waiting("write", c)' = Waiting("write", c)
          /\ Waiting("read", c)' = IF isConnected THEN 1 ELSE 0
      BY <1>2, <2>3, <2>4
    <3>2. ~greeting
      BY <1>4 DEF Runs
    <3>3. QED
      BY <1>1, <1>4, <2>1, <3>1, <3>2 DEF LinkInv, Driven
  <2>6. OtherGens'
    BY <1>1, <1>4, <2>4, OthersStay
  <2>7. HandlersFind'
    <3>1. \A h \in Elements(strand') : ~(h.kind = "read" /\ h.gen = c)
      BY <1>3, <1>4, <2>1, <2>3, OnlyOne
    <3>2. QED
      BY <1>1, <1>3, <1>4, <2>4, <3>1 DEF LinkInv, HandlersFind
  <2>8. QED
    BY <1>1, <1>3, <1>4, <1>6, <2>1, <2>4, <2>5, <2>6, <2>7 DEF LinkInv, LinkTypes
<1>10. QED
  BY <1>5, <1>7, <1>8, <1>9

\* The zone and the gateway leave the link alone.
LEMMA ElsewhereLink ==
  ASSUME LinkTypes, LinkInv, UNCHANGED linkVars,
         \A g \in Gens : toZone[g] # <<>> => toZone'[g] # <<>>
  PROVE  LinkInv' /\ LinkTypes'
<1>1. /\ connGen' = connGen /\ isConnected' = isConnected /\ sendQueue' = sendQueue
      /\ greeting' = greeting /\ strand' = strand /\ ops' = ops
  BY DEF linkVars
<1>2. \A kind \in OpKind, gen \in Gens : Waiting(kind, gen)' = Waiting(kind, gen)
  BY <1>1 DEF Waiting, Handlers
<1>3. {"resolve", "connect", "read", "write", "timer"} \subseteq OpKind /\ connGen \in Gens
  BY DEF OpKind, LinkTypes
<1>4. Driven'
  BY <1>1, <1>2, <1>3 DEF LinkInv, Driven
<1>5. OtherGens'
  BY <1>1, <1>2, <1>3 DEF LinkInv, OtherGens
<1>6. HandlersFind'
  BY <1>1, <1>3 DEF LinkInv, HandlersFind
<1>7. QED
  BY <1>1, <1>4, <1>5, <1>6 DEF LinkInv, LinkTypes

-----------------------------------------------------------------------------
(***************************************************************************)
(* The types.                                                              *)
(***************************************************************************)

SocketType == socket \in {"new", "open", "closed"}
ZoneTypes == /\ sending \in Packet \cup {Nothing}
             /\ zoneJobs \in Seq(ZoneJob)
             /\ spawnPending \subseteq Sids
             /\ loads \subseteq Sids \X Gens
             /\ inside \in [Sids -> Gens \cup {Nothing}]
             /\ late \subseteq Sids \X Gens
GateTypes == /\ gatewayUp \in BOOLEAN
             /\ peer \in [Gens -> {"none", "greeting", "serving", "gone"}]
             /\ toGateway \in [Gens -> Seq(Packet)]
             /\ toZone \in [Gens -> Seq(Sids)]
             /\ sessions \in 0..MaxSessions
             /\ owner \in [Sids -> Gens \cup {Nothing}]
             /\ faults \in 0..MaxFaults

LEMMA TypesSplit == TypeOK <=> LinkTypes /\ SocketType /\ ZoneTypes /\ GateTypes
BY DEF TypeOK, LinkTypes, OpsType, SocketType, ZoneTypes, GateTypes

LEMMA TypesSplitNext == TypeOK' <=> LinkTypes' /\ SocketType' /\ ZoneTypes' /\ GateTypes'
BY DEF TypeOK, LinkTypes, OpsType, SocketType, ZoneTypes, GateTypes

LEMMA Same ==
  /\ UNCHANGED zoneVars /\ ZoneTypes => ZoneTypes'
  /\ UNCHANGED gateVars /\ GateTypes => GateTypes'
  /\ UNCHANGED linkVars /\ SocketType => SocketType'
<1>1. ASSUME UNCHANGED zoneVars, ZoneTypes PROVE ZoneTypes'
  BY <1>1 DEF zoneVars, ZoneTypes
<1>2. ASSUME UNCHANGED gateVars, GateTypes PROVE GateTypes'
  BY <1>2 DEF gateVars, GateTypes
<1>3. ASSUME UNCHANGED linkVars, SocketType PROVE SocketType'
  BY <1>3 DEF linkVars, SocketType
<1>4. QED
  BY <1>1, <1>2, <1>3

LEMMA InitTypes == Init => TypeOK
<1> SUFFICES ASSUME Init PROVE TypeOK
  OBVIOUS
<1>1. 1 \in Gens
  BY GatewayLinkAssumption DEF Gens
<1>2. LinkTypes
  <2>1. ops \in OpsType
    BY DEF Init, OpsType
  <2>2. strand \in Seq(Handler) /\ sendQueue \in Seq(Packet)
    BY DEF Init
  <2>3. QED
    BY <1>1, <2>1, <2>2 DEF Init, LinkTypes
<1>3. MaxSessions \in Nat /\ MaxFaults \in Nat
  BY GatewayLinkAssumption
<1>4. SocketType /\ ZoneTypes /\ GateTypes
  BY <1>3 DEF Init, SocketType, ZoneTypes, GateTypes
<1>5. QED
  BY <1>2, <1>4, TypesSplit

\* A write that completes has its packet at the head of the queue.
LEMMA WriteHasPacket ==
  ASSUME LinkTypes, LinkInv, Waiting("write", connGen) >= 1
  PROVE  sendQueue # <<>> /\ Head(sendQueue) \in Packet
<1>1. PICK c \in Gens : c = connGen
  BY DEF LinkTypes
<1>2. Waiting("write", c) \in Nat
  BY WaitingType DEF LinkTypes, OpKind
<1>3. sendQueue # <<>> /\ sendQueue \in Seq(Packet)
  BY <1>1, <1>2 DEF LinkInv, LinkTypes, Driven
<1>4. QED
  BY <1>3

LEMMA OperationStep ==
  ASSUME TypeOK, LinkInv, Operation
  PROVE  TypeOK' /\ LinkInv'
<1>1. LinkTypes /\ SocketType /\ ZoneTypes /\ GateTypes
  BY TypesSplit
<1>2. {"resolve", "connect", "read", "write", "timer"} \subseteq OpKind
  BY DEF OpKind
<1>3. \A k \in OpKind, g \in Gens, ok \in BOOLEAN :
        Completes(k, g, ok) => /\ UNCHANGED zoneVars /\ toZone' = toZone /\ gatewayUp' = gatewayUp
                               /\ sessions' = sessions /\ owner' = owner /\ faults' = faults
  BY DEF Completes
<1>4. ZoneTypes'
  BY <1>1, <1>2, <1>3, Same DEF Operation, ResolveDone, ConnectDone, ReadDone, WriteDone,
     TimerExpires
<1>5. ASSUME NEW gen \in Gens, NEW ok \in BOOLEAN, ResolveDone(gen, ok) PROVE TypeOK' /\ LinkInv'
  <2>1. PICK k \in OpKind : k = "resolve"
    BY <1>2
  <2>2. Completes(k, gen, ok)
    BY <1>5, <2>1 DEF ResolveDone
  <2>3. LinkInv' /\ LinkTypes'
    BY <1>1, <2>1, <2>2, CompletesLink
  <2>4. SocketType' /\ GateTypes'
    BY <1>1, <1>3, <1>5, <2>2 DEF ResolveDone, SocketType, GateTypes
  <2>5. QED
    BY <1>4, <2>3, <2>4, TypesSplitNext
<1>6. ASSUME NEW gen \in Gens, NEW ok \in BOOLEAN, ConnectDone(gen, ok) PROVE TypeOK' /\ LinkInv'
  <2>1. PICK k \in OpKind : k = "connect"
    BY <1>2
  <2>2. Completes(k, gen, ok)
    BY <1>6, <2>1 DEF ConnectDone
  <2>3. LinkInv' /\ LinkTypes'
    BY <1>1, <2>1, <2>2, CompletesLink
  <2>4. SocketType' /\ GateTypes'
    BY <1>1, <1>3, <1>6, <2>2 DEF ConnectDone, SocketType, GateTypes
  <2>5. QED
    BY <1>4, <2>3, <2>4, TypesSplitNext
<1>7. ASSUME NEW gen \in Gens, NEW ok \in BOOLEAN, ReadDone(gen, ok) PROVE TypeOK' /\ LinkInv'
  <2>1. PICK k \in OpKind : k = "read"
    BY <1>2
  <2>2. Completes(k, gen, ok) /\ (ok => toZone[gen] # <<>>)
    BY <1>7, <2>1 DEF ReadDone
  <2>3. LinkInv' /\ LinkTypes'
    BY <1>1, <2>1, <2>2, CompletesLink
  <2>4. SocketType' /\ GateTypes'
    BY <1>1, <1>3, <1>7, <2>2 DEF ReadDone, SocketType, GateTypes
  <2>5. QED
    BY <1>4, <2>3, <2>4, TypesSplitNext
<1>8. ASSUME NEW gen \in Gens, NEW ok \in BOOLEAN, WriteDone(gen, ok) PROVE TypeOK' /\ LinkInv'
  <2>1. PICK k \in OpKind : k = "write"
    BY <1>2
  <2>2. Completes(k, gen, ok)
    BY <1>8, <2>1 DEF WriteDone
  <2>3. LinkInv' /\ LinkTypes'
    BY <1>1, <2>1, <2>2, CompletesLink
  <2>4. strand \in Seq(Handler) /\ ops \in OpsType
    BY <1>1 DEF LinkTypes
  <2>5. Waiting(k, gen) >= 1
    BY <2>2, <2>4, Completed
  <2>6. ok => Head(sendQueue) \in Packet
    BY <1>1, <1>8, <2>1, <2>5, WriteHasPacket DEF WriteDone, Open
  <2>7. toGateway' \in [Gens -> Seq(Packet)]
    BY <1>1, <1>8, <2>6 DEF WriteDone, GateTypes
  <2>8. SocketType' /\ GateTypes'
    BY <1>1, <1>3, <1>8, <2>2, <2>7 DEF WriteDone, SocketType, GateTypes
  <2>9. QED
    BY <1>4, <2>3, <2>8, TypesSplitNext
<1>9. ASSUME NEW gen \in Gens, TimerExpires(gen) PROVE TypeOK' /\ LinkInv'
  <2>1. PICK k \in OpKind : k = "timer"
    BY <1>2
  <2>2. PICK ok \in BOOLEAN : ok = TRUE
    OBVIOUS
  <2>3. Completes(k, gen, ok) /\ connGen < MaxGen
    BY <1>9, <2>1, <2>2 DEF TimerExpires
  <2>4. LinkInv' /\ LinkTypes'
    BY <1>1, <2>1, <2>3, CompletesLink
  <2>5. SocketType' /\ GateTypes'
    BY <1>1, <1>3, <1>9, <2>3 DEF TimerExpires, SocketType, GateTypes
  <2>6. QED
    BY <1>4, <2>4, <2>5, TypesSplitNext
<1>10. QED
  BY <1>5, <1>6, <1>7, <1>8, <1>9 DEF Operation

LEMMA LossTypes ==
  ASSUME OnDisconnected, SocketType, zoneJobs \in Seq(ZoneJob)
  PROVE  SocketType' /\ zoneJobs' \in Seq(ZoneJob)
<1>1. [kind |-> "clear"] \in ZoneJob
  BY DEF ZoneJob
<1>2. QED
  BY <1>1 DEF OnDisconnected, SocketType

LEMMA StrandStep ==
  ASSUME TypeOK, LinkInv, Strand
  PROVE  TypeOK' /\ LinkInv'
<1>1. LinkTypes /\ SocketType /\ ZoneTypes /\ GateTypes
  BY TypesSplit
<1>2. CASE HandleTimer
  <2>1. UNCHANGED zoneVars /\ UNCHANGED gateVars /\ SocketType'
    BY <1>2 DEF HandleTimer, SocketType
  <2>2. QED
    BY <1>1, <1>2, <2>1, HandleTimerLink, Same, TypesSplitNext
<1>3. CASE HandleResolve
  <2>1. UNCHANGED zoneVars /\ UNCHANGED gateVars /\ SocketType'
    BY <1>1, <1>3 DEF HandleResolve, SocketType
  <2>2. QED
    BY <1>1, <1>3, <2>1, HandleResolveLink, Same, TypesSplitNext
<1>4. CASE HandleConnect
  <2>1. UNCHANGED zoneVars /\ UNCHANGED gateVars /\ SocketType'
    BY <1>1, <1>4 DEF HandleConnect, SocketType
  <2>2. QED
    BY <1>1, <1>4, <2>1, HandleConnectLink, Same, TypesSplitNext
<1>5. CASE Greet
  <2>1. UNCHANGED zoneVars /\ UNCHANGED gateVars /\ SocketType'
    BY <1>1, <1>5 DEF Greet, SocketType
  <2>2. QED
    BY <1>1, <1>5, <2>1, GreetLink, Same, TypesSplitNext
<1>6. CASE HandleSend
  <2>1. UNCHANGED zoneVars /\ UNCHANGED gateVars /\ SocketType'
    BY <1>1, <1>6 DEF HandleSend, SocketType
  <2>2. QED
    BY <1>1, <1>6, <2>1, HandleSendLink, Same, TypesSplitNext
<1>7. CASE HandleWrite
  <2>1. /\ UNCHANGED gateVars /\ sending' = sending /\ spawnPending' = spawnPending
        /\ loads' = loads /\ inside' = inside /\ late' = late
    BY <1>7 DEF HandleWrite
  <2>2. SocketType' /\ zoneJobs' \in Seq(ZoneJob)
    BY <1>1, <1>7, LossTypes DEF HandleWrite, SocketType, ZoneTypes
  <2>3. ZoneTypes'
    BY <1>1, <2>1, <2>2 DEF ZoneTypes
  <2>4. QED
    BY <1>1, <1>7, <2>1, <2>2, <2>3, HandleWriteLink, Same, TypesSplitNext
<1>8. CASE HandleRead
  <2>1. /\ gatewayUp' = gatewayUp /\ peer' = peer /\ toGateway' = toGateway /\ sessions' = sessions
        /\ owner' = owner /\ faults' = faults /\ sending' = sending
        /\ spawnPending' = spawnPending /\ loads' = loads /\ inside' = inside
    BY <1>8 DEF HandleRead
  <2>2. toZone \in [Gens -> Seq(Sids)] /\ connGen \in Gens
    BY <1>1 DEF GateTypes, LinkTypes
  <2>3. LinkInv' /\ LinkTypes' /\ (~Stale /\ Head(strand).ok => toZone[connGen] # <<>>)
    BY <1>1, <1>8, <2>2, HandleReadLink
  <2>4. ~Stale /\ Head(strand).ok =>
          /\ Head(toZone[connGen]) \in Sids
          /\ Tail(toZone[connGen]) \in Seq(Sids)
    BY <2>2, <2>3
  <2>5. toZone' \in [Gens -> Seq(Sids)]
    BY <1>8, <2>2, <2>4 DEF HandleRead
  <2>6. late' \subseteq Sids \X Gens
    BY <1>1, <1>8, <2>2, <2>4 DEF HandleRead, ZoneTypes
  <2>7. SocketType' /\ zoneJobs' \in Seq(ZoneJob)
    <3>1. ASSUME ~Stale, Head(strand).ok
          PROVE  [kind |-> "ready", sid |-> Head(toZone[connGen]), who |-> connGen] \in ZoneJob
      BY <2>2, <2>4, <3>1 DEF ZoneJob
    <3>2. QED
      BY <1>1, <1>8, <3>1, LossTypes DEF HandleRead, SocketType, ZoneTypes
  <2>8. ZoneTypes' /\ GateTypes'
    BY <1>1, <2>1, <2>5, <2>6, <2>7 DEF ZoneTypes, GateTypes
  <2>9. QED
    BY <2>3, <2>7, <2>8, TypesSplitNext
<1>9. QED
  BY <1>2, <1>3, <1>4, <1>5, <1>6, <1>7, <1>8 DEF Strand

LEMMA ZoneStepTypes ==
  ASSUME TypeOK, LinkInv,
         ZoneStep \/ \E sid \in Sids : SendToClient(sid)
  PROVE  TypeOK' /\ LinkInv'
<1>1. LinkTypes /\ SocketType /\ ZoneTypes /\ GateTypes
  BY TypesSplit
<1>2. ASSUME UNCHANGED linkVars, UNCHANGED gateVars, ZoneTypes' PROVE TypeOK' /\ LinkInv'
  <2>1. toZone' = toZone
    BY <1>2 DEF gateVars
  <2>2. LinkInv' /\ LinkTypes'
    BY <1>1, <1>2, <2>1, ElsewhereLink
  <2>3. QED
    BY <1>1, <1>2, <2>2, Same, TypesSplitNext
<1>3. \A kind : RunsJob(kind) =>
        /\ zoneJobs' \in Seq(ZoneJob) /\ Head(zoneJobs) \in ZoneJob /\ Head(zoneJobs).kind = kind
        /\ zoneJobs # <<>>
  BY <1>1 DEF RunsJob, ZoneTypes
<1>4. \A j \in ZoneJob : j.kind \in {"ready", "answer"} => j.sid \in Sids /\ j.who \in Gens
  BY DEF ZoneJob
<1>5. CASE ReadyToSpawn
  <2>1. /\ zoneJobs' \in Seq(ZoneJob)
        /\ Head(zoneJobs).sid \in Sids /\ Head(zoneJobs).who \in Gens
    BY <1>3, <1>4, <1>5 DEF ReadyToSpawn
  <2>2. ZoneTypes'
    BY <1>1, <1>5, <2>1 DEF ReadyToSpawn, ZoneTypes
  <2>3. QED
    BY <1>2, <1>5, <2>2 DEF ReadyToSpawn
<1>6. ASSUME NEW l \in loads, LoadDone(l) PROVE TypeOK' /\ LinkInv'
  <2>1. l[1] \in Sids /\ l[2] \in Gens
    BY <1>1 DEF ZoneTypes
  <2>2. [kind |-> "answer", sid |-> l[1], who |-> l[2]] \in ZoneJob
    BY <2>1 DEF ZoneJob
  <2>3. ZoneTypes'
    BY <1>1, <1>6, <2>2 DEF LoadDone, ZoneTypes
  <2>4. QED
    BY <1>2, <1>6, <2>3 DEF LoadDone
<1>7. CASE EnterZone
  <2>1. /\ zoneJobs' \in Seq(ZoneJob)
        /\ Head(zoneJobs).sid \in Sids /\ Head(zoneJobs).who \in Gens
    BY <1>3, <1>4, <1>7 DEF EnterZone
  <2>2. ZoneTypes'
    BY <1>1, <1>7, <2>1 DEF EnterZone, ZoneTypes
  <2>3. QED
    BY <1>2, <1>7, <2>2 DEF EnterZone
<1>8. CASE HandleGatewayLost
  <2>1. zoneJobs' \in Seq(ZoneJob)
    BY <1>3, <1>8 DEF HandleGatewayLost
  <2>2. ZoneTypes'
    BY <1>1, <1>8, <2>1 DEF HandleGatewayLost, ZoneTypes
  <2>3. QED
    BY <1>2, <1>8, <2>2 DEF HandleGatewayLost
<1>9. CASE PostSend
  <2>1. LinkInv' /\ LinkTypes'
    BY <1>1, <1>9, PostSendLink DEF ZoneTypes
  <2>2. UNCHANGED gateVars /\ SocketType' /\ ZoneTypes'
    BY <1>1, <1>9 DEF PostSend, SocketType, ZoneTypes
  <2>3. QED
    BY <1>1, <2>1, <2>2, Same, TypesSplitNext
<1>10. ASSUME NEW sid \in Sids, SendToClient(sid) PROVE TypeOK' /\ LinkInv'
  <2>1. inside[sid] \in Gens
    BY <1>1, <1>10 DEF SendToClient, ZoneTypes
  <2>2. Data(sid, inside[sid]) \in Packet
    BY <2>1 DEF Packet
  <2>3. ZoneTypes'
    BY <1>1, <1>10, <2>2 DEF SendToClient, ZoneTypes
  <2>4. QED
    BY <1>2, <1>10, <2>3 DEF SendToClient
<1>11. QED
  BY <1>5, <1>6, <1>7, <1>8, <1>9, <1>10 DEF ZoneStep

LEMMA GatewayStepTypes ==
  ASSUME TypeOK, LinkInv,
         Gateway \/ GatewayCrashes \/ \E gen \in Gens : ClientReady(gen) \/ LinkBreaks(gen)
  PROVE  TypeOK' /\ LinkInv'
<1>1. LinkTypes /\ SocketType /\ ZoneTypes /\ GateTypes
  BY TypesSplit
<1>2. ASSUME UNCHANGED linkVars, UNCHANGED zoneVars, GateTypes',
             \A g \in Gens : toZone[g] # <<>> => toZone'[g] # <<>>
      PROVE  TypeOK' /\ LinkInv'
  <2>1. LinkInv' /\ LinkTypes'
    BY <1>1, <1>2, ElsewhereLink
  <2>2. QED
    BY <1>1, <1>2, <2>1, Same, TypesSplitNext
<1>3. ASSUME NEW gens \in SUBSET Gens, CloseOrphans(gens)
      PROVE  /\ peer' \in [Gens -> {"none", "greeting", "serving", "gone"}]
             /\ toGateway' \in [Gens -> Seq(Packet)]
             /\ owner' \in [Sids -> Gens \cup {Nothing}]
  BY <1>1, <1>3 DEF CloseOrphans, GateTypes
<1>4. MaxFaults \in Nat /\ MaxSessions \in Nat
  BY GatewayLinkAssumption
<1>5. ASSUME NEW gen \in Gens, GatewayReads(gen) PROVE TypeOK' /\ LinkInv'
  <2>1. {gen} \in SUBSET Gens
    OBVIOUS
  <2>2. toGateway[gen] \in Seq(Packet) /\ toGateway[gen] # <<>>
    BY <1>1, <1>5 DEF GatewayReads, GateTypes
  <2>3. Tail(toGateway[gen]) \in Seq(Packet)
    BY <2>2
  <2>4. /\ peer' \in [Gens -> {"none", "greeting", "serving", "gone"}]
        /\ toGateway' \in [Gens -> Seq(Packet)]
        /\ owner' \in [Sids -> Gens \cup {Nothing}]
    <3>1. CASE CloseOrphans({gen})
      BY <1>3, <2>1, <3>1
    <3>2. CASE ~CloseOrphans({gen})
      BY <1>1, <1>5, <2>3, <3>2 DEF GatewayReads, GateTypes
    <3>3. QED
      BY <3>1, <3>2
  <2>5. UNCHANGED linkVars /\ UNCHANGED zoneVars /\ GateTypes' /\ toZone' = toZone
    BY <1>1, <1>5, <2>4 DEF GatewayReads, GateTypes
  <2>6. QED
    BY <1>2, <2>5
<1>6. CASE GatewayStarts
  BY <1>1, <1>2, <1>6 DEF GatewayStarts, GateTypes
<1>7. CASE GatewayCrashes
  <2>1. Live \in SUBSET Gens
    BY DEF Live
  <2>2. /\ peer' \in [Gens -> {"none", "greeting", "serving", "gone"}]
        /\ toGateway' \in [Gens -> Seq(Packet)]
        /\ owner' \in [Sids -> Gens \cup {Nothing}]
    BY <1>3, <1>7, <2>1 DEF GatewayCrashes
  <2>3. faults' \in 0..MaxFaults /\ sessions' \in 0..MaxSessions
    BY <1>1, <1>4, <1>7 DEF GatewayCrashes, GateTypes
  <2>4. UNCHANGED linkVars /\ UNCHANGED zoneVars /\ GateTypes' /\ toZone' = toZone
    BY <1>1, <1>7, <2>2, <2>3 DEF GatewayCrashes, GateTypes
  <2>5. QED
    BY <1>2, <2>4
<1>8. ASSUME NEW gen \in Gens, ClientReady(gen) PROVE TypeOK' /\ LinkInv'
  <2>1. sessions' \in 0..MaxSessions /\ sessions + 1 \in Sids
    BY <1>1, <1>4, <1>8 DEF ClientReady, GateTypes, Sids
  <2>2. owner' \in [Sids -> Gens \cup {Nothing}]
    BY <1>1, <1>8, <2>1 DEF ClientReady, GateTypes
  <2>3. toZone[gen] \in Seq(Sids) /\ Append(toZone[gen], sessions + 1) \in Seq(Sids)
        /\ Append(toZone[gen], sessions + 1) # <<>>
    <3>1. toZone[gen] \in Seq(Sids)
      BY <1>1, <1>8 DEF GateTypes
    <3>2. \A q \in Seq(Sids) : \A s \in Sids : Append(q, s) \in Seq(Sids) /\ Append(q, s) # <<>>
      OBVIOUS
    <3>3. QED
      BY <2>1, <3>1, <3>2
  <2>4. /\ toZone' \in [Gens -> Seq(Sids)]
        /\ \A g \in Gens : toZone[g] # <<>> => toZone'[g] # <<>>
    BY <1>1, <1>8, <2>3 DEF ClientReady, GateTypes
  <2>5. UNCHANGED linkVars /\ UNCHANGED zoneVars /\ GateTypes'
    BY <1>1, <1>8, <2>1, <2>2, <2>4 DEF ClientReady, GateTypes
  <2>6. QED
    BY <1>2, <2>4, <2>5
<1>9. ASSUME NEW gen \in Gens, LinkBreaks(gen) PROVE TypeOK' /\ LinkInv'
  <2>1. {gen} \in SUBSET Gens
    OBVIOUS
  <2>2. /\ peer' \in [Gens -> {"none", "greeting", "serving", "gone"}]
        /\ toGateway' \in [Gens -> Seq(Packet)]
        /\ owner' \in [Sids -> Gens \cup {Nothing}]
    BY <1>3, <1>9, <2>1 DEF LinkBreaks
  <2>3. faults' \in 0..MaxFaults
    BY <1>1, <1>4, <1>9 DEF LinkBreaks, GateTypes
  <2>4. UNCHANGED linkVars /\ UNCHANGED zoneVars /\ GateTypes' /\ toZone' = toZone
    BY <1>1, <1>9, <2>2, <2>3 DEF LinkBreaks, GateTypes
  <2>5. QED
    BY <1>2, <2>4
<1>10. QED
  BY <1>5, <1>6, <1>7, <1>8, <1>9 DEF Gateway

LEMMA StutterTypes ==
  ASSUME TypeOK, LinkInv, UNCHANGED vars
  PROVE  TypeOK' /\ LinkInv'
<1>1. LinkTypes /\ SocketType /\ ZoneTypes /\ GateTypes
  BY TypesSplit
<1>2. UNCHANGED linkVars /\ UNCHANGED zoneVars /\ UNCHANGED gateVars /\ toZone' = toZone
  BY DEF vars, gateVars
<1>3. QED
  BY <1>1, <1>2, ElsewhereLink, Same, TypesSplitNext

LEMMA BaseStep == TypeOK /\ LinkInv /\ [Next]_vars => TypeOK' /\ LinkInv'
<1> SUFFICES ASSUME TypeOK, LinkInv, [Next]_vars PROVE TypeOK' /\ LinkInv'
  OBVIOUS
<1>1. CASE Operation
  BY <1>1, OperationStep
<1>2. CASE Strand
  BY <1>2, StrandStep
<1>3. CASE ZoneStep \/ \E sid \in Sids : SendToClient(sid)
  BY <1>3, ZoneStepTypes
<1>4. CASE Gateway \/ GatewayCrashes \/ \E gen \in Gens : ClientReady(gen) \/ LinkBreaks(gen)
  BY <1>4, GatewayStepTypes
<1>5. CASE UNCHANGED vars
  BY <1>5, StutterTypes
<1>6. QED
  BY <1>1, <1>2, <1>3, <1>4, <1>5 DEF Next

\* Whatever the delay covers, one attempt or one connection drives the link.
THEOREM Base == Spec => [](TypeOK /\ LinkInv)
<1>1. Init => TypeOK /\ LinkInv
  BY InitTypes, InitLink
<1>2. TypeOK /\ LinkInv /\ [Next]_vars => (TypeOK /\ LinkInv)'
  BY BaseStep
<1>3. QED
  BY <1>1, <1>2, PTL DEF Spec

\* The variables have their types; no attempt runs past those a timer allowed.
THEOREM TypeCorrect == Spec => []TypeOK
BY Base, PTL


-----------------------------------------------------------------------------
(***************************************************************************)
(* What the delay before a retry brings: every Send that has begun is      *)
(* posted before the timer's handler, and the queue is emptied behind it.  *)
(***************************************************************************)

Expired == \E h \in Elements(strand) : h.kind = "timer"
Posted == \E h \in Elements(strand) : h.kind = "send"

\* Every posted packet comes before a timer's handler.
Before(s) == \A i, j \in DOMAIN s : s[i].kind = "timer" /\ s[j].kind = "send" => j < i

SendersDone ==
  /\ Before(strand)
  /\ Expired => sending = Nothing
  /\ \A g \in Gens : g = connGen =>
       /\ ~isConnected /\ Waiting("timer", g) = 0 =>
            sending = Nothing /\ sendQueue = <<>> /\ Waiting("write", g) = 0 /\ ~Posted
       /\ isConnected /\ sendQueue # <<>> => Waiting("write", g) = 1

LEMMA BeforeAppend ==
  ASSUME NEW s \in Seq(Handler), NEW h \in Handler, Before(s),
         h.kind = "send" => \A x \in Elements(s) : x.kind # "timer"
  PROVE  Before(Append(s, h))
<1>1. /\ Len(s) \in Nat /\ DOMAIN s = 1..Len(s)
      /\ DOMAIN Append(s, h) = 1..(Len(s) + 1)
      /\ \A i \in 1..Len(s) : Append(s, h)[i] = s[i]
      /\ Append(s, h)[Len(s) + 1] = h
  OBVIOUS
<1>2. \A i \in 1..Len(s) : s[i] \in Elements(s)
  BY <1>1 DEF Elements
<1>3. SUFFICES ASSUME NEW i \in 1..(Len(s) + 1), NEW j \in 1..(Len(s) + 1),
                      Append(s, h)[i].kind = "timer", Append(s, h)[j].kind = "send"
               PROVE  j < i
  BY <1>1 DEF Before
<1>4. CASE i = Len(s) + 1
  <2>1. j # i
    BY <1>3
  <2>2. QED
    BY <1>1, <1>4, <2>1
<1>5. CASE i # Len(s) + 1
  <2>1. i \in 1..Len(s)
    BY <1>1, <1>5
  <2>2. s[i].kind = "timer" /\ s[i] \in Elements(s)
    BY <1>1, <1>2, <1>3, <2>1
  <2>3. h.kind # "send"
    BY <2>2
  <2>4. j # Len(s) + 1
    BY <1>1, <1>3, <2>3
  <2>5. j \in 1..Len(s)
    BY <1>1, <2>4
  <2>6. s[j].kind = "send"
    BY <1>1, <1>3, <2>5
  <2>7. QED
    BY <1>1, <2>1, <2>2, <2>5, <2>6 DEF Before
<1>6. QED
  BY <1>4, <1>5

LEMMA BeforeTail ==
  ASSUME NEW s \in Seq(Handler), s # <<>>, Before(s)
  PROVE  /\ Before(Tail(s))
         /\ Head(s).kind = "timer" => \A x \in Elements(Tail(s)) : x.kind # "send"
<1> DEFINE r == Tail(s)
<1>1. /\ Len(s) \in Nat \ {0} /\ DOMAIN s = 1..Len(s) /\ Head(s) = s[1]
      /\ DOMAIN r = 1..(Len(s) - 1)
      /\ \A i \in 1..(Len(s) - 1) : r[i] = s[i + 1]
  OBVIOUS
<1> HIDE DEF r
<1>2. \A i \in 1..(Len(s) - 1) : i + 1 \in 1..Len(s) /\ ~(i + 1 < 1)
  BY <1>1
<1>3. 1 \in 1..Len(s)
  BY <1>1
<1>4. Before(r)
  <2>1. SUFFICES ASSUME NEW i \in 1..(Len(s) - 1), NEW j \in 1..(Len(s) - 1),
                        r[i].kind = "timer", r[j].kind = "send"
                 PROVE  j < i
    BY <1>1 DEF Before
  <2>2. s[i + 1].kind = "timer" /\ s[j + 1].kind = "send"
    BY <1>1, <2>1
  <2>3. j + 1 < i + 1
    BY <1>1, <1>2, <2>2 DEF Before
  <2>4. QED
    BY <2>3
<1>5. ASSUME Head(s).kind = "timer", NEW x \in Elements(r) PROVE x.kind # "send"
  <2>1. PICK i \in 1..(Len(s) - 1) : x = s[i + 1]
    BY <1>1, <1>5 DEF Elements
  <2>2. QED
    BY <1>1, <1>2, <1>3, <1>5, <2>1 DEF Before
<1>6. QED
  BY <1>4, <1>5 DEF r

\* A timer that has expired is the one attempt there is.
LEMMA ExpiredIsDown ==
  ASSUME LinkTypes, LinkInv, Expired
  PROVE  ~isConnected /\ \A g \in Gens : g = connGen => Waiting("timer", g) # 0
<1>1. strand \in Seq(Handler) /\ ops \in OpsType
  BY DEF LinkTypes
<1>2. {"resolve", "connect", "read", "write", "timer"} \subseteq OpKind
  BY DEF OpKind
<1>3. PICK h \in Elements(strand) : h.kind = "timer"
  BY DEF Expired
<1>4. h \in Handler /\ h.gen \in Gens
  BY <1>1, <1>3 DEF Elements, Handler, OpKind
<1>5. PICK k \in OpKind : k = "timer"
  BY <1>2
<1>6. h \in Of(k, h.gen)
  BY <1>3, <1>4, <1>5 DEF Of
<1>7. Waiting(k, h.gen) # 0
  BY <1>1, <1>3, <1>4, <1>6, WaitingType
<1>8. PICK c \in Gens : c = connGen
  BY DEF LinkTypes
<1>9. h.gen = c
  BY <1>4, <1>5, <1>7, <1>8 DEF LinkInv, OtherGens
<1>10. Waiting("timer", c) # 0
  BY <1>5, <1>7, <1>9
<1>11. Waiting("timer", c) \in Nat /\ Waiting("resolve", c) \in Nat /\ Waiting("connect", c) \in Nat
  BY <1>1, <1>2, WaitingType
<1>12. ~isConnected
  BY <1>8, <1>10, <1>11 DEF LinkInv, Driven
<1>13. QED
  BY <1>8, <1>10, <1>12

LEMMA InitSendersDone == Init => SendersDone
<1> SUFFICES ASSUME Init PROVE SendersDone
  OBVIOUS
<1>1. strand = <<>> /\ sending = Nothing /\ sendQueue = <<>> /\ isConnected = FALSE /\ connGen = 1
  BY DEF Init
<1>2. ops[<<"write", 1>>] = 0 /\ Handlers("write", 1) = {}
  BY <1>1, GatewayLinkAssumption DEF Init, Handlers, OpKind, Gens
<1>3. Waiting("write", 1) = 0
  BY <1>2, FS_EmptySet DEF Waiting
<1>4. ~Expired /\ ~Posted /\ Before(strand)
  BY <1>1 DEF Expired, Posted, Before, Elements
<1>5. QED
  BY <1>1, <1>3, <1>4 DEF SendersDone

\* A step that adds no packet and no timer to the strand, and whose write, if it
\* ends, leaves the link down with its timer waiting.
LEMMA SendersDoneKept ==
  ASSUME LinkTypes, SendersDone, connGen' = connGen, isConnected' = isConnected,
         sendQueue' = sendQueue, sending' = sending, Before(strand'),
         \A h \in Elements(strand') : h.kind \in {"timer", "send"} => h \in Elements(strand),
         \A g \in Gens : g = connGen =>
           /\ Waiting("write", g)' = Waiting("write", g) \/ (~isConnected /\ Waiting("timer", g)' # 0)
           /\ Waiting("timer", g)' = 0 => Waiting("timer", g) = 0
  PROVE  SendersDone'
<1>1. PICK c \in Gens : c = connGen
  BY DEF LinkTypes
<1>2. Expired' => Expired
  BY DEF Expired
<1>3. Posted' => Posted
  BY DEF Posted
<1>4. QED
  BY <1>1, <1>2, <1>3 DEF SendersDone

LEMMA CompletesSenders ==
  ASSUME LinkTypes, SendersDone, NEW k \in OpKind, NEW g \in Gens, NEW ok \in BOOLEAN,
         Completes(k, g, ok), k = "timer" => sending = Nothing
  PROVE  SendersDone'
<1> DEFINE h == [kind |-> k, gen |-> g, ok |-> ok]
<1>1. strand \in Seq(Handler) /\ ops \in OpsType
  BY DEF LinkTypes
<1>2. \A kind \in OpKind, gen \in Gens : Waiting(kind, gen)' = Waiting(kind, gen)
  BY <1>1, Completed
<1>3. Elements(strand') = Elements(strand) \cup {h} /\ h \in Handler
  BY <1>1, Completed
<1>4. h.kind = k /\ k # "send"
  BY DEF OpKind
<1>5. /\ strand' = Append(strand, h)
      /\ connGen' = connGen /\ isConnected' = isConnected /\ sendQueue' = sendQueue
      /\ sending' = sending
  BY DEF Completes, zoneVars
<1> HIDE DEF h
<1>6. Before(strand')
  BY <1>1, <1>3, <1>4, <1>5, BeforeAppend DEF SendersDone
<1>7. (Expired' => Expired \/ k = "timer") /\ (Posted' => Posted)
  BY <1>3, <1>4 DEF Expired, Posted
<1>8. PICK c \in Gens : c = connGen
  BY DEF LinkTypes
<1>9. Waiting("timer", c)' = Waiting("timer", c) /\ Waiting("write", c)' = Waiting("write", c)
  BY <1>2 DEF OpKind
<1>10. QED
  BY <1>5, <1>6, <1>7, <1>8, <1>9 DEF SendersDone

\* The handler at the head has run; its strand is no less in order.
LEMMA RanBefore ==
  ASSUME LinkTypes, SendersDone, strand # <<>>, strand' = Tail(strand)
  PROVE  /\ Before(strand') /\ Elements(strand') \subseteq Elements(strand)
         /\ Head(strand) \in Elements(strand)
         /\ Head(strand).kind = "timer" => ~Posted'
<1>1. strand \in Seq(Handler)
  BY DEF LinkTypes
<1>2. Elements(strand) = Elements(Tail(strand)) \cup {Head(strand)}
  BY <1>1, AtTail
<1>3. /\ Before(Tail(strand))
      /\ Head(strand).kind = "timer" => \A x \in Elements(Tail(strand)) : x.kind # "send"
  BY <1>1, BeforeTail DEF SendersDone
<1>4. QED
  BY <1>2, <1>3 DEF Posted

LEMMA StaleSenders ==
  ASSUME LinkTypes, SendersDone, NEW k0 \in OpKind, Runs(k0), Stale,
         strand' = Tail(strand), ops' = ops, connGen' = connGen, isConnected' = isConnected,
         sendQueue' = sendQueue, sending' = sending
  PROVE  SendersDone'
<1>1. strand # <<>>
  BY DEF Runs
<1>2. ASSUME NEW kind \in OpKind, NEW g \in Gens, g = connGen
      PROVE  Waiting(kind, g)' = Waiting(kind, g)
  BY <1>2, RanOnly DEF Stale
<1>3. /\ \A g \in Gens : g = connGen =>
           Waiting("write", g)' = Waiting("write", g) /\ Waiting("timer", g)' = Waiting("timer", g)
  BY <1>2 DEF OpKind
<1>4. Before(strand') /\ Elements(strand') \subseteq Elements(strand)
  BY <1>1, RanBefore
<1>5. QED
  BY <1>3, <1>4, SendersDoneKept

LEMMA HandleTimerSenders ==
  ASSUME LinkTypes, LinkInv, SendersDone, HandleTimer, LinkTypes', LinkInv'
  PROVE  SendersDone'
<1>1. PICK c \in Gens : c = connGen
  BY DEF LinkTypes
<1>2. PICK d \in Gens : d = connGen'
  BY DEF LinkTypes
<1>3. /\ strand # <<>> /\ Head(strand).kind = "timer" /\ strand' = Tail(strand)
      /\ connGen' = c + 1 /\ sendQueue' = <<>> /\ isConnected' = isConnected
      /\ ops' = Started("resolve", d) /\ sending' = sending
  BY <1>1, <1>2 DEF HandleTimer, Runs, zoneVars
<1>4. Before(strand') /\ ~Posted' /\ Elements(strand') \subseteq Elements(strand)
      /\ Head(strand) \in Elements(strand)
  BY <1>3, RanBefore
<1>5. sending = Nothing /\ Expired
  BY <1>3, <1>4 DEF SendersDone, Expired
<1>6. ~isConnected
  BY <1>5, ExpiredIsDown
<1>7. {"resolve", "connect", "read", "write", "timer"} \subseteq OpKind
  BY DEF OpKind
<1>8. PICK k \in OpKind : k = "resolve"
  BY <1>7
<1>9. PICK w \in OpKind : w = "write"
  BY <1>7
<1>10. Waiting(w, d)' = Waiting(w, d) - One(Head(strand) \in Of(w, d))
  <2>1. strand \in Seq(Handler) /\ ops \in OpsType /\ ops' = Started(k, d)
    BY <1>3, <1>8 DEF LinkTypes
  <2>2. ~(w = k /\ d = d)
    BY <1>8, <1>9
  <2>3. QED
    BY <1>3, <2>1, <2>2, HandledStarts
<1>11. Head(strand) \notin Of(w, d)
  BY <1>3, <1>9 DEF Of
<1>12. Waiting(w, d) = 0
  <2>1. d > connGen
    BY <1>1, <1>2, <1>3 DEF Gens
  <2>2. QED
    BY <2>1 DEF LinkInv, OtherGens
<1>13. Waiting("write", d)' = 0
  BY <1>9, <1>10, <1>11, <1>12 DEF One
<1>14. QED
  BY <1>2, <1>3, <1>4, <1>5, <1>6, <1>13 DEF SendersDone

LEMMA HandleResolveSenders ==
  ASSUME LinkTypes, LinkInv, SendersDone, HandleResolve
  PROVE  SendersDone'
<1>1. PICK c \in Gens : c = connGen
  BY DEF LinkTypes
<1>2. PICK k0 \in OpKind : k0 = "resolve"
  BY DEF OpKind
<1>3. {"resolve", "connect", "read", "write", "timer"} \subseteq OpKind
  BY DEF OpKind
<1>4. /\ Runs(k0) /\ strand' = Tail(strand) /\ connGen' = connGen /\ isConnected' = isConnected
      /\ sendQueue' = sendQueue /\ sending' = sending /\ strand # <<>>
  BY <1>2 DEF HandleResolve, zoneVars, Runs
<1>5. CASE Stale
  <2>1. ops' = ops
    BY <1>5 DEF HandleResolve
  <2>2. QED
    BY <1>4, <1>5, <2>1, StaleSenders
<1>6. CASE ~Stale
  <2>1. PICK k \in OpKind : k = IF Head(strand).ok THEN "connect" ELSE "timer"
    BY <1>3
  <2>2. ops' = Started(k, connGen)
    BY <1>6, <2>1 DEF HandleResolve, NextOrRetry
  <2>3. ASSUME NEW kind \in OpKind, kind \in {"write", "timer"}
        PROVE  /\ Waiting(kind, c) \in Nat
               /\ kind = "write" => Waiting(kind, c)' = Waiting(kind, c)
               /\ Waiting(kind, c)' = 0 => Waiting(kind, c) = 0
    <3>1. kind # k0 /\ (kind = "write" => kind # k)
      BY <1>2, <2>1, <2>3
    <3>2. QED
      BY <1>1, <1>4, <2>2, <3>1, RanStarts
  <2>4. \A g \in Gens : g = connGen =>
          /\ Waiting("write", g)' = Waiting("write", g)
          /\ Waiting("timer", g)' = 0 => Waiting("timer", g) = 0
    BY <1>1, <1>3, <2>3
  <2>5. Before(strand') /\ Elements(strand') \subseteq Elements(strand)
    BY <1>4, RanBefore
  <2>6. QED
    BY <1>4, <2>4, <2>5, SendersDoneKept
<1>7. QED
  BY <1>5, <1>6

LEMMA HandleConnectSenders ==
  ASSUME LinkTypes, LinkInv, SendersDone, HandleConnect
  PROVE  SendersDone'
<1>1. PICK c \in Gens : c = connGen
  BY DEF LinkTypes
<1>2. PICK k0 \in OpKind : k0 = "connect"
  BY DEF OpKind
<1>3. {"resolve", "connect", "read", "write", "timer"} \subseteq OpKind
  BY DEF OpKind
<1>4. /\ Runs(k0) /\ strand' = Tail(strand) /\ connGen' = connGen
      /\ sendQueue' = sendQueue /\ sending' = sending /\ strand # <<>>
      /\ isConnected \in BOOLEAN
  BY <1>2 DEF HandleConnect, zoneVars, Runs, LinkTypes
<1>5. CASE Stale
  <2>1. ops' = ops /\ isConnected' = isConnected
    BY <1>4, <1>5 DEF HandleConnect
  <2>2. QED
    BY <1>4, <1>5, <2>1, StaleSenders
<1>6. Before(strand') /\ Elements(strand') \subseteq Elements(strand)
  BY <1>4, RanBefore
<1>7. CASE ~Stale /\ Head(strand).ok
  <2>1. Waiting("connect", c) \in Nat \ {0}
    BY <1>1, <1>2, <1>4, <1>7, HeadOfToday
  <2>2. Waiting("timer", c) \in Nat /\ Waiting("resolve", c) \in Nat
    BY <1>3, WaitingType DEF LinkTypes
  <2>3. ~isConnected /\ Waiting("timer", c) = 0
    BY <1>1, <2>1, <2>2 DEF LinkInv, Driven
  <2>4. sending = Nothing /\ sendQueue = <<>> /\ isConnected'
    BY <1>1, <1>4, <1>7, <2>3 DEF SendersDone, HandleConnect
  <2>5. QED
    BY <1>1, <1>4, <1>6, <2>4 DEF SendersDone
<1>8. CASE ~Stale /\ ~Head(strand).ok
  <2>1. PICK k \in OpKind : k = "timer"
    BY <1>3
  <2>2. ops' = Started(k, connGen) /\ isConnected' = isConnected
    BY <1>4, <1>8, <2>1 DEF HandleConnect
  <2>3. ASSUME NEW kind \in OpKind, kind \in {"write", "timer"}
        PROVE  /\ Waiting(kind, c) \in Nat
               /\ kind = "write" => Waiting(kind, c)' = Waiting(kind, c)
               /\ Waiting(kind, c)' = 0 => Waiting(kind, c) = 0
    <3>1. kind # k0 /\ (kind = "write" => kind # k)
      BY <1>2, <2>1, <2>3
    <3>2. QED
      BY <1>1, <1>4, <2>2, <3>1, RanStarts
  <2>4. \A g \in Gens : g = connGen =>
          /\ Waiting("write", g)' = Waiting("write", g)
          /\ Waiting("timer", g)' = 0 => Waiting("timer", g) = 0
    BY <1>1, <1>3, <2>3
  <2>5. QED
    BY <1>4, <1>6, <2>2, <2>4, SendersDoneKept
<1>9. QED
  BY <1>5, <1>7, <1>8

\* Packets are posted only while no timer's handler is on the strand.
LEMMA PostedSenders ==
  ASSUME LinkTypes, SendersDone, NEW p \in Packet,
         strand' = Append(strand, [kind |-> "send", packet |-> p]), ~Expired,
         connGen' = connGen, isConnected' = isConnected, sendQueue' = sendQueue,
         sending' \in {sending, Nothing},
         ~isConnected => sending # Nothing,
         \A g \in Gens : g = connGen =>
           Waiting("write", g)' = Waiting("write", g) /\ Waiting("timer", g)' = Waiting("timer", g)
  PROVE  SendersDone'
<1> DEFINE h == [kind |-> "send", packet |-> p]
<1>1. strand \in Seq(Handler) /\ h \in Handler /\ h.kind = "send"
  BY DEF LinkTypes, Handler
<1>2. strand' = Append(strand, h)
  OBVIOUS
<1> HIDE DEF h
<1>3. Elements(strand') = Elements(strand) \cup {h}
  BY <1>1, <1>2, AtAppend
<1>4. Before(strand')
  BY <1>1, <1>2, BeforeAppend DEF SendersDone, Expired
<1>5. ~Expired'
  BY <1>1, <1>3 DEF Expired
<1>6. PICK c \in Gens : c = connGen
  BY DEF LinkTypes
<1>7. QED
  BY <1>4, <1>5, <1>6 DEF SendersDone

LEMMA GreetSenders ==
  ASSUME LinkTypes, LinkInv, SendersDone, Greet
  PROVE  SendersDone'
<1> DEFINE h == [kind |-> "send", packet |-> Handshake]
<1>1. PICK c \in Gens : c = connGen
  BY DEF LinkTypes
<1>2. PICK k \in OpKind : k = "read"
  BY DEF OpKind
<1>3. /\ isConnected /\ strand' = Append(strand, h) /\ ops' = Started(k, c)
      /\ connGen' = connGen /\ isConnected' = isConnected /\ sendQueue' = sendQueue
      /\ sending' = sending /\ Handshake \in Packet
  BY <1>1, <1>2 DEF Greet, zoneVars, LinkInv, Packet
<1>4. ~Expired
  BY <1>3, ExpiredIsDown
<1>5. h \in Handler /\ h.kind = "send"
  BY <1>3 DEF Handler
<1>6. ASSUME NEW kind \in OpKind, kind \in {"write", "timer"}
      PROVE  Waiting(kind, c)' = Waiting(kind, c)
  <2> HIDE DEF h
  <2>1. One(h \in Of(kind, c)) = 0
    BY <1>5, SendIsNoOperation DEF One
  <2>2. strand \in Seq(Handler) /\ ops \in OpsType /\ ~(kind = k /\ c = c)
    BY <1>2, <1>6 DEF LinkTypes
  <2>3. Waiting(kind, c)' = Waiting(kind, c) + One(h \in Of(kind, c))
    BY <1>3, <1>5, <2>2, JoinedStarts
  <2>4. Waiting(kind, c) \in Nat
    BY <2>2, WaitingType
  <2>5. QED
    BY <2>1, <2>3, <2>4
<1>7. \A g \in Gens : g = connGen =>
        Waiting("write", g)' = Waiting("write", g) /\ Waiting("timer", g)' = Waiting("timer", g)
  BY <1>1, <1>6 DEF OpKind
<1>8. QED
  BY <1>3, <1>4, <1>7, PostedSenders

LEMMA PostSendSenders ==
  ASSUME LinkTypes, LinkInv, SendersDone, PostSend, sending \in Packet \cup {Nothing}
  PROVE  SendersDone'
<1> DEFINE h == [kind |-> "send", packet |-> sending]
<1>1. PICK c \in Gens : c = connGen
  BY DEF LinkTypes
<1>2. /\ sending # Nothing /\ sending \in Packet /\ sending' = Nothing
      /\ strand' = Append(strand, h) /\ ops' = ops
      /\ connGen' = connGen /\ isConnected' = isConnected /\ sendQueue' = sendQueue
  BY DEF PostSend
<1>3. ~Expired
  BY <1>2 DEF SendersDone
<1>4. h \in Handler /\ h.kind = "send"
  BY <1>2 DEF Handler
<1>5. ASSUME NEW kind \in OpKind PROVE Waiting(kind, c)' = Waiting(kind, c)
  <2> HIDE DEF h
  <2>1. One(h \in Of(kind, c)) = 0
    BY <1>4, SendIsNoOperation DEF One
  <2>2. strand \in Seq(Handler) /\ ops \in OpsType
    BY DEF LinkTypes
  <2>3. Waiting(kind, c)' = Waiting(kind, c) + One(h \in Of(kind, c))
    BY <1>2, <1>4, <2>2, JoinedOnly
  <2>4. Waiting(kind, c) \in Nat
    BY <2>2, WaitingType
  <2>5. QED
    BY <2>1, <2>3, <2>4
<1>6. \A g \in Gens : g = connGen =>
        Waiting("write", g)' = Waiting("write", g) /\ Waiting("timer", g)' = Waiting("timer", g)
  BY <1>1, <1>5 DEF OpKind
<1>7. QED
  BY <1>2, <1>3, <1>6, PostedSenders

LEMMA HandleSendSenders ==
  ASSUME LinkTypes, LinkInv, SendersDone, HandleSend
  PROVE  SendersDone'
<1>1. PICK c \in Gens : c = connGen
  BY DEF LinkTypes
<1>2. {"resolve", "connect", "read", "write", "timer"} \subseteq OpKind
  BY DEF OpKind
<1>3. PICK k \in OpKind : k = "write"
  BY <1>2
<1>4. /\ strand # <<>> /\ Head(strand).kind = "send" /\ strand' = Tail(strand)
      /\ connGen' = connGen /\ isConnected' = isConnected /\ sending' = sending
      /\ ops' = IF sendQueue = <<>> THEN Started(k, c) ELSE ops
  BY <1>1, <1>3 DEF HandleSend, Runs, zoneVars
<1>5. strand \in Seq(Handler) /\ ops \in OpsType
  BY DEF LinkTypes
<1>6. Before(strand') /\ Elements(strand') \subseteq Elements(strand) /\ Head(strand) \in Elements(strand)
  BY <1>4, RanBefore
<1>7. Head(strand) \in Handler
  BY <1>4, <1>5, AtTail
<1>8. ASSUME NEW kind \in OpKind
      PROVE  /\ Waiting(kind, c) \in Nat
             /\ sendQueue = <<>> /\ kind = "write" => Waiting(kind, c)' = Waiting(kind, c) + 1
             /\ ~(sendQueue = <<>> /\ kind = "write") => Waiting(kind, c)' = Waiting(kind, c)
  <2>1. One(Head(strand) \in Of(kind, c)) = 0
    BY <1>4, <1>7, SendIsNoOperation DEF One
  <2>2. Waiting(kind, c) \in Nat
    BY <1>5, WaitingType
  <2>3. CASE sendQueue = <<>>
    <3>1. ops' = Started(k, c)
      BY <1>4, <2>3
    <3>2. /\ kind = k /\ c = c =>
               Waiting(kind, c)' = Waiting(kind, c) + 1 - One(Head(strand) \in Of(kind, c))
          /\ ~(kind = k /\ c = c) =>
               Waiting(kind, c)' = Waiting(kind, c) - One(Head(strand) \in Of(kind, c))
      BY <1>4, <1>5, <3>1, HandledStarts
    <3>3. QED
      BY <1>3, <2>1, <2>2, <2>3, <3>2
  <2>4. CASE sendQueue # <<>>
    <3>1. ops' = ops
      BY <1>4, <2>4
    <3>2. Waiting(kind, c)' = Waiting(kind, c) - One(Head(strand) \in Of(kind, c))
      BY <1>4, <1>5, <3>1, HandledOnly
    <3>3. QED
      BY <2>1, <2>2, <2>4, <3>2
  <2>5. QED
    BY <2>3, <2>4
<1>9. Posted
  BY <1>4, <1>6 DEF Posted
<1>10. isConnected \/ Waiting("timer", c)' # 0
  BY <1>1, <1>2, <1>8, <1>9 DEF SendersDone
<1>11. isConnected => Waiting("write", c)' = 1
  <2>1. Waiting("write", c) \in Nat /\ Waiting("write", c) =< 1
        /\ (Waiting("write", c) = 1 => sendQueue # <<>>)
    BY <1>1, <1>2, <1>8 DEF LinkInv, Driven
  <2>2. QED
    BY <1>1, <1>2, <1>8, <2>1 DEF SendersDone
<1>12. Expired' => Expired
  BY <1>6 DEF Expired
<1>13. QED
  BY <1>1, <1>4, <1>6, <1>10, <1>11, <1>12 DEF SendersDone

\* The loss, whatever the handler that finds it.
LEMMA LossSenders ==
  ASSUME LinkTypes, LinkInv, SendersDone, NEW k0 \in {"read", "write"}, Runs(k0), ~Stale,
         strand' = Tail(strand), OnDisconnected, connGen' = connGen,
         sendQueue' = sendQueue, sending' = sending
  PROVE  SendersDone'
<1>1. PICK c \in Gens : c = connGen
  BY DEF LinkTypes
<1>2. {"resolve", "connect", "read", "write", "timer"} \subseteq OpKind /\ k0 \in OpKind
  BY DEF OpKind
<1>3. PICK k \in OpKind : k = "timer"
  BY <1>2
<1>4. Head(strand).gen = c /\ strand # <<>>
  BY <1>1 DEF Stale, Runs
<1>5. Before(strand') /\ Elements(strand') \subseteq Elements(strand)
  BY <1>4, RanBefore
<1>6. CASE isConnected
  <2>1. ops' = Started(k, connGen) /\ isConnected' = FALSE
    BY <1>3, <1>6 DEF OnDisconnected
  <2>2. Waiting(k, c) \in Nat /\ Waiting(k, c)' = Waiting(k, c) + 1
    <3>1. ~(k = k0 /\ c = Head(strand).gen)
      BY <1>3
    <3>2. QED
      BY <1>1, <1>2, <2>1, <3>1, RanStarts
  <2>3. Waiting("timer", c)' # 0
    BY <1>3, <2>2
  <2>4. Expired' => Expired
    BY <1>5 DEF Expired
  <2>5. QED
    BY <1>1, <1>5, <2>1, <2>3, <2>4 DEF SendersDone
<1>7. CASE ~isConnected
  <2>1. ops' = ops /\ isConnected' = isConnected
    BY <1>7 DEF OnDisconnected
  <2>2. Waiting("timer", c)' = Waiting("timer", c)
    <3>1. ~(k = k0 /\ c = Head(strand).gen)
      BY <1>3
    <3>2. Waiting(k, c)' = Waiting(k, c)
      BY <1>1, <1>2, <2>1, <3>1, RanOnly
    <3>3. QED
      BY <1>3, <3>2
  <2>3. Waiting("timer", c) # 0
    <3>1. Waiting(k0, c) \in Nat \ {0}
      BY <1>1, <1>2, HeadOfToday
    <3>2. CASE k0 = "read"
      BY <1>1, <1>7, <3>1, <3>2 DEF LinkInv, Driven
    <3>3. CASE k0 = "write"
      BY <1>1, <1>7, <3>1, <3>3 DEF SendersDone
    <3>4. QED
      BY <3>2, <3>3
  <2>4. Expired' => Expired
    BY <1>5 DEF Expired
  <2>5. QED
    BY <1>1, <1>5, <1>7, <2>1, <2>2, <2>3, <2>4 DEF SendersDone
<1>8. QED
  BY <1>6, <1>7

LEMMA HandleWriteSenders ==
  ASSUME LinkTypes, LinkInv, SendersDone, HandleWrite
  PROVE  SendersDone'
<1>1. PICK c \in Gens : c = connGen
  BY DEF LinkTypes
<1>2. {"resolve", "connect", "read", "write", "timer"} \subseteq OpKind
  BY DEF OpKind
<1>3. PICK k \in OpKind : k = "write"
  BY <1>2
<1>4. /\ Runs(k) /\ strand' = Tail(strand) /\ connGen' = connGen /\ sending' = sending
      /\ strand # <<>>
  BY <1>3 DEF HandleWrite, Runs
<1>5. CASE Stale
  <2>1. ops' = ops /\ isConnected' = isConnected /\ sendQueue' = sendQueue
    BY <1>5 DEF HandleWrite
  <2>2. QED
    BY <1>4, <1>5, <2>1, StaleSenders
<1>6. CASE ~Stale /\ ~Head(strand).ok
  <2>1. OnDisconnected /\ sendQueue' = sendQueue
    BY <1>6 DEF HandleWrite
  <2>2. PICK k0 \in {"read", "write"} : k0 = k
    BY <1>3
  <2>3. QED
    BY <1>4, <1>6, <2>1, <2>2, LossSenders
<1>7. CASE ~Stale /\ Head(strand).ok
  <2>1. /\ sendQueue' = Tail(sendQueue) /\ isConnected' = isConnected
        /\ ops' = IF Len(sendQueue) > 1 THEN Started(k, connGen) ELSE ops
        /\ Head(strand).gen = c
    BY <1>1, <1>3, <1>7 DEF HandleWrite, Stale
  <2>2. Waiting("write", c) \in Nat \ {0}
    BY <1>1, <1>3, <1>4, <1>7, HeadOfToday
  <2>3. /\ Waiting("write", c) = 1 /\ sendQueue # <<>> /\ sendQueue \in Seq(Packet)
        /\ isConnected \/ Waiting("timer", c) # 0
    BY <1>1, <2>2 DEF LinkInv, LinkTypes, Driven, SendersDone
  <2>4. ~(Len(sendQueue) > 1) => sendQueue' = <<>>
    BY <2>1, <2>3
  <2>5. /\ Waiting("timer", c)' = Waiting("timer", c)
        /\ Len(sendQueue) > 1 => Waiting("write", c)' = 1
    <3>1. PICK t \in OpKind : t = "timer"
      BY <1>2
    <3>2. CASE Len(sendQueue) > 1
      <4>1. ops' = Started(k, connGen)
        BY <2>1, <3>2
      <4>2. Waiting(k, c)' = Waiting(k, c)
        BY <1>1, <1>4, <2>1, <4>1, RanStarts
      <4>3. ~(t = k /\ c = connGen) /\ ~(t = k /\ c = Head(strand).gen)
        BY <1>3, <3>1
      <4>4. Waiting(t, c)' = Waiting(t, c)
        BY <1>4, <4>1, <4>3, RanStarts
      <4>5. QED
        BY <1>3, <2>3, <3>1, <4>2, <4>4
    <3>3. CASE ~(Len(sendQueue) > 1)
      <4>1. ops' = ops
        BY <2>1, <3>3
      <4>2. ~(t = k /\ c = Head(strand).gen)
        BY <1>3, <3>1
      <4>3. Waiting(t, c)' = Waiting(t, c)
        BY <1>4, <4>1, <4>2, RanOnly
      <4>4. QED
        BY <3>1, <3>3, <4>3
    <3>4. QED
      BY <3>2, <3>3
  <2>6. Before(strand') /\ Elements(strand') \subseteq Elements(strand)
    BY <1>4, RanBefore
  <2>7. Expired' => Expired
    BY <2>6 DEF Expired
  <2>8. QED
    BY <1>1, <1>4, <2>1, <2>3, <2>4, <2>5, <2>6, <2>7 DEF SendersDone
<1>8. Head(strand).ok \in BOOLEAN
  BY <1>4, HeadOfToday
<1>9. QED
  BY <1>5, <1>6, <1>7, <1>8

LEMMA HandleReadSenders ==
  ASSUME LinkTypes, LinkInv, SendersDone, HandleRead
  PROVE  SendersDone'
<1>1. PICK c \in Gens : c = connGen
  BY DEF LinkTypes
<1>2. {"resolve", "connect", "read", "write", "timer"} \subseteq OpKind
  BY DEF OpKind
<1>3. PICK k \in OpKind : k = "read"
  BY <1>2
<1>4. /\ Runs(k) /\ strand' = Tail(strand) /\ connGen' = connGen /\ sending' = sending
      /\ strand # <<>> /\ sendQueue' = sendQueue
  BY <1>3 DEF HandleRead, Runs
<1>5. CASE Stale
  <2>1. ops' = ops /\ isConnected' = isConnected
    BY <1>5 DEF HandleRead
  <2>2. QED
    BY <1>4, <1>5, <2>1, StaleSenders
<1>6. CASE ~Stale /\ ~Head(strand).ok
  <2>1. OnDisconnected
    BY <1>6 DEF HandleRead
  <2>2. PICK k0 \in {"read", "write"} : k0 = k
    BY <1>3
  <2>3. QED
    BY <1>4, <1>6, <2>1, <2>2, LossSenders
<1>7. CASE ~Stale /\ Head(strand).ok
  <2>1. /\ isConnected' = isConnected
        /\ ops' = IF isConnected THEN Started(k, connGen) ELSE ops
    BY <1>3, <1>7 DEF HandleRead
  <2>2. ASSUME NEW kind \in OpKind, kind \in {"write", "timer"}
        PROVE  Waiting(kind, c)' = Waiting(kind, c)
    <3>1. kind # k
      BY <1>3, <2>2
    <3>2. CASE isConnected
      <4>1. ops' = Started(k, connGen)
        BY <2>1, <3>2
      <4>2. QED
        BY <1>4, <3>1, <4>1, RanStarts
    <3>3. CASE ~isConnected
      <4>1. ops' = ops
        BY <2>1, <3>3
      <4>2. QED
        BY <1>4, <3>1, <4>1, RanOnly
    <3>4. QED
      BY <3>2, <3>3
  <2>3. \A g \in Gens : g = connGen =>
          Waiting("write", g)' = Waiting("write", g) /\ Waiting("timer", g)' = Waiting("timer", g)
    BY <1>1, <1>2, <2>2
  <2>4. Before(strand') /\ Elements(strand') \subseteq Elements(strand)
    BY <1>4, RanBefore
  <2>5. QED
    BY <1>4, <2>1, <2>3, <2>4, SendersDoneKept
<1>8. QED
  BY <1>5, <1>6, <1>7

\* The zone and the gateway leave the link alone; a Send begins only on a link
\* that is up.
LEMMA ElsewhereSenders ==
  ASSUME LinkTypes, LinkInv, SendersDone, UNCHANGED linkVars, sending' = sending \/ isConnected
  PROVE  SendersDone'
<1>1. /\ connGen' = connGen /\ isConnected' = isConnected /\ sendQueue' = sendQueue
      /\ strand' = strand /\ ops' = ops
  BY DEF linkVars
<1>2. \A kind \in OpKind, gen \in Gens : Waiting(kind, gen)' = Waiting(kind, gen)
  BY <1>1 DEF Waiting, Handlers
<1>3. (Expired' <=> Expired) /\ (Posted' <=> Posted)
  BY <1>1 DEF Expired, Posted
<1>4. PICK c \in Gens : c = connGen
  BY DEF LinkTypes
<1>5. Waiting("timer", c)' = Waiting("timer", c) /\ Waiting("write", c)' = Waiting("write", c)
  BY <1>2 DEF OpKind
<1>6. Expired => ~isConnected
  BY ExpiredIsDown
<1>7. QED
  BY <1>1, <1>3, <1>4, <1>5, <1>6 DEF SendersDone

LEMMA OperationSenders ==
  ASSUME SendersFinish = TRUE, LinkTypes, SendersDone, Operation
  PROVE  SendersDone'
<1>1. PICK gen \in Gens : \/ \E ok \in BOOLEAN : \/ ResolveDone(gen, ok) \/ ConnectDone(gen, ok)
                                                 \/ ReadDone(gen, ok) \/ WriteDone(gen, ok)
                          \/ TimerExpires(gen)
  BY DEF Operation
<1>2. CASE TimerExpires(gen)
  <2>1. PICK k \in OpKind : k = "timer"
    BY DEF OpKind
  <2>2. PICK ok \in BOOLEAN : ok = TRUE
    OBVIOUS
  <2>3. Completes(k, gen, ok) /\ sending = Nothing
    BY <1>2, <2>1, <2>2 DEF TimerExpires, DelayCovers
  <2>4. QED
    BY <2>3, CompletesSenders
<1>3. CASE \E ok \in BOOLEAN : \/ ResolveDone(gen, ok) \/ ConnectDone(gen, ok)
                               \/ ReadDone(gen, ok) \/ WriteDone(gen, ok)
  <2>1. PICK ok \in BOOLEAN : \/ ResolveDone(gen, ok) \/ ConnectDone(gen, ok)
                              \/ ReadDone(gen, ok) \/ WriteDone(gen, ok)
    BY <1>3
  <2>2. PICK k \in OpKind : k # "timer" /\ Completes(k, gen, ok)
    <3>1. {"resolve", "connect", "read", "write", "timer"} \subseteq OpKind
      BY DEF OpKind
    <3>2. \/ Completes("resolve", gen, ok) \/ Completes("connect", gen, ok)
          \/ Completes("read", gen, ok) \/ Completes("write", gen, ok)
      BY <2>1 DEF ResolveDone, ConnectDone, ReadDone, WriteDone
    <3>3. QED
      BY <3>1, <3>2
  <2>3. QED
    BY <2>2, CompletesSenders
<1>4. QED
  BY <1>1, <1>2, <1>3

LEMMA SendersDoneStep ==
  ASSUME SendersFinish = TRUE, TypeOK, LinkInv, SendersDone, [Next]_vars
  PROVE  SendersDone'
<1>1. LinkTypes /\ sending \in Packet \cup {Nothing} /\ LinkTypes' /\ LinkInv'
  BY BaseStep, TypesSplit, TypesSplitNext DEF ZoneTypes
<1>2. CASE Operation
  BY <1>1, <1>2, OperationSenders
<1>3. CASE Strand
  BY <1>1, <1>3, HandleTimerSenders, HandleResolveSenders, HandleConnectSenders, GreetSenders,
     HandleSendSenders, HandleWriteSenders, HandleReadSenders DEF Strand
<1>4. CASE ZoneStep
  <2>1. CASE PostSend
    BY <1>1, <2>1, PostSendSenders
  <2>2. CASE ~PostSend
    <3>1. UNCHANGED linkVars /\ sending' = sending
      BY <1>4, <2>2 DEF ZoneStep, ReadyToSpawn, LoadDone, EnterZone, HandleGatewayLost, RunsJob
    <3>2. QED
      BY <1>1, <3>1, ElsewhereSenders
  <2>3. QED
    BY <2>1, <2>2
<1>5. ASSUME NEW sid \in Sids, SendToClient(sid) PROVE SendersDone'
  <2>1. UNCHANGED linkVars /\ isConnected
    BY <1>5 DEF SendToClient
  <2>2. QED
    BY <1>1, <2>1, ElsewhereSenders
<1>6. CASE Gateway \/ GatewayCrashes \/ \E gen \in Gens : ClientReady(gen) \/ LinkBreaks(gen)
  <2>1. UNCHANGED linkVars /\ UNCHANGED zoneVars
    BY <1>6 DEF Gateway, GatewayReads, GatewayStarts, GatewayCrashes, ClientReady, LinkBreaks
  <2>2. sending' = sending
    BY <2>1 DEF zoneVars
  <2>3. QED
    BY <1>1, <2>1, <2>2, ElsewhereSenders
<1>7. CASE UNCHANGED vars
  <2>1. UNCHANGED linkVars /\ sending' = sending
    BY <1>7 DEF vars, zoneVars
  <2>2. QED
    BY <1>1, <2>1, ElsewhereSenders
<1>8. QED
  BY <1>2, <1>3, <1>4, <1>5, <1>6, <1>7 DEF Next

\* Somebody always drives the link, and only one: down, one attempt; up, one read,
\* and one write when there is something to write (OnDisconnected, ScheduleReconnect,
\* DoRead, DoWrite).  The delay before a retry must outlast the Sends that have begun.
THEOREM Drives == SendersFinish = TRUE => (Spec => []LinkIsDriven)
<1> SUFFICES ASSUME SendersFinish = TRUE PROVE Spec => []LinkIsDriven
  OBVIOUS
<1> DEFINE Inv == TypeOK /\ LinkInv /\ SendersDone
<1>1. Init => Inv
  BY InitTypes, InitLink, InitSendersDone
<1>2. Inv /\ [Next]_vars => Inv'
  BY BaseStep, SendersDoneStep
<1>3. Inv => LinkIsDriven
  <2>1. SUFFICES ASSUME Inv PROVE LinkIsDriven
    OBVIOUS
  <2>2. PICK c \in Gens : c = connGen
    BY <2>1 DEF TypeOK
  <2>3. Waiting("write", c) \in Nat
    BY <2>1, LinkTypesOK, WaitingType DEF LinkTypes, OpKind
  <2>4. QED
    BY <2>1, <2>2, <2>3 DEF LinkInv, Driven, SendersDone, LinkIsDriven
<1>4. QED
  BY <1>1, <1>2, <1>3, PTL DEF Spec

-----------------------------------------------------------------------------
(***************************************************************************)
(* The two ends of a connection: the gateway's is alive only while the     *)
(* zone server's socket of today is open, and a loss is found only when    *)
(* the other end has gone.                                                 *)
(***************************************************************************)

Attempting(g) == ~isConnected /\ Waiting("timer", g) = 0
OkConnect(g) == \E h \in Elements(strand) : h.kind = "connect" /\ h.gen = g /\ h.ok

EndsOf(c) ==
  /\ isConnected => socket = "open"
  /\ socket = "open" => peer[c] # "none"
  /\ ~isConnected => (socket = "open" <=> OkConnect(c))
  /\ Attempting(c) /\ ~OkConnect(c) => socket = "new"
  /\ socket = "new" => peer[c] = "none"
  /\ \A g \in Gens : g > c => peer[g] = "none"
  /\ \A g \in Gens : peer[g] \in {"greeting", "serving"} => g = c /\ socket = "open"
  /\ isConnected => \A h \in Elements(strand) :
       h.kind \in {"read", "write"} /\ h.gen = c /\ ~h.ok => peer[c] = "gone"
  /\ ~isConnected => toGateway[c] = <<>>
Ends ==
  /\ \A c \in Gens : c = connGen => EndsOf(c)
  /\ \A g \in Gens : toGateway[g] # <<>> => peer[g] \in {"greeting", "serving"}
  /\ \A g \in Gens : toZone[g] # <<>> => peer[g] \in {"serving", "gone"}
  /\ \A s \in Sids : owner[s] # Nothing => peer[owner[s]] = "serving"

\* No timer ends but by its own handler.
LEMMA TimerStays ==
  ASSUME LinkTypes, sending \in Packet \cup {Nothing}, [Next]_vars,
         NEW c \in Gens, c = connGen, connGen' = connGen
  PROVE  Waiting("timer", c)' = 0 => Waiting("timer", c) = 0
<1>1. strand \in Seq(Handler) /\ ops \in OpsType
  BY DEF LinkTypes
<1>2. {"resolve", "connect", "read", "write", "timer"} \subseteq OpKind
  BY DEF OpKind
<1>3. PICK t \in OpKind : t = "timer"
  BY <1>2
<1>4. CASE Operation
  <2>1. PICK gen \in Gens, ok \in BOOLEAN, k \in OpKind : Completes(k, gen, ok)
    BY <1>2, <1>4 DEF Operation, ResolveDone, ConnectDone, ReadDone, WriteDone, TimerExpires
  <2>2. Waiting(t, c)' = Waiting(t, c)
    BY <1>1, <2>1, Completed
  <2>3. QED
    BY <1>3, <2>2
<1>5. ASSUME \/ ops' = ops
             \/ \E k \in OpKind : ops' = Started(k, c),
             \/ strand' = strand
             \/ \E h \in Handler : strand' = Append(strand, h)
             \/ strand # <<>> /\ Head(strand).kind # "timer" /\ strand' = Tail(strand)
      PROVE  Waiting("timer", c)' = 0 => Waiting("timer", c) = 0
  <2>1. ops' \in OpsType
    BY <1>1, <1>5, OpsCount
  <2>2. strand' \in Seq(Handler) /\ \A h \in Elements(strand) : h.kind = "timer" => h \in Elements(strand')
    <3>1. CASE strand' = strand
      BY <1>1, <3>1
    <3>2. ASSUME NEW h \in Handler, strand' = Append(strand, h)
          PROVE  strand' \in Seq(Handler) /\ \A x \in Elements(strand) : x \in Elements(strand')
      <4>1. Elements(Append(strand, h)) = Elements(strand) \cup {h}
        BY <1>1, AtAppend
      <4>2. QED
        BY <1>1, <3>2, <4>1
    <3>3. CASE strand # <<>> /\ Head(strand).kind # "timer" /\ strand' = Tail(strand)
      <4>1. Elements(strand) = Elements(Tail(strand)) \cup {Head(strand)} /\ Tail(strand) \in Seq(Handler)
        BY <1>1, <3>3, AtTail
      <4>2. QED
        BY <3>3, <4>1
    <3>4. QED
      BY <1>5, <3>1, <3>2, <3>3
  <2>3. ops'[<<t, c>>] = 0 => ops[<<t, c>>] = 0
    <3>1. ops[<<t, c>>] \in Nat
      BY <1>1, OpsCount
    <3>2. ASSUME NEW k \in OpKind PROVE Started(k, c)[<<t, c>>] # 0 \/ ops[<<t, c>>] = 0
      BY <1>1, <3>1 DEF Started, OpsType
    <3>3. QED
      BY <1>5, <3>2
  <2>4. Waiting(t, c) = 0 <=> ops[<<t, c>>] = 0 /\ \A h \in Elements(strand) : h \notin Of(t, c)
    BY <1>1, WaitingType
  <2>5. Waiting(t, c)' = 0 <=> ops'[<<t, c>>] = 0 /\ \A h \in Elements(strand') : h \notin Of(t, c)
    BY <2>1, <2>2, WaitingTypeNext
  <2>6. QED
    BY <1>3, <2>2, <2>3, <2>4, <2>5 DEF Of
<1>6. CASE Strand
  <2>1. ~HandleTimer
    BY DEF HandleTimer, LinkTypes, Gens
  <2>2. [kind |-> "send", packet |-> Handshake] \in Handler
    BY DEF Handler, Packet
  <2>3. /\ \/ ops' = ops
           \/ \E k \in OpKind : ops' = Started(k, c)
        /\ \/ \E h \in Handler : strand' = Append(strand, h)
           \/ strand # <<>> /\ Head(strand).kind # "timer" /\ strand' = Tail(strand)
    <3>1. CASE HandleResolve
      <4>1. ops' = ops \/ ops' = Started("connect", c) \/ ops' = Started("timer", c)
        BY <3>1 DEF HandleResolve, NextOrRetry
      <4>2. QED
        BY <1>2, <3>1, <4>1 DEF HandleResolve, Runs
    <3>2. CASE HandleConnect
      BY <1>2, <3>2 DEF HandleConnect, Runs
    <3>3. CASE Greet
      BY <1>2, <2>2, <3>3 DEF Greet
    <3>4. CASE HandleSend
      BY <1>2, <3>4 DEF HandleSend, Runs
    <3>5. CASE HandleWrite
      BY <1>2, <3>5 DEF HandleWrite, Runs, OnDisconnected
    <3>6. CASE HandleRead
      BY <1>2, <3>6 DEF HandleRead, Runs, OnDisconnected
    <3>7. QED
      BY <1>6, <2>1, <3>1, <3>2, <3>3, <3>4, <3>5, <3>6 DEF Strand
  <2>4. QED
    BY <1>5, <2>3
<1>7. CASE PostSend
  <2>1. [kind |-> "send", packet |-> sending] \in Handler
    BY <1>7 DEF PostSend, Handler
  <2>2. strand' = Append(strand, [kind |-> "send", packet |-> sending]) /\ ops' = ops
    BY <1>7 DEF PostSend
  <2>3. QED
    BY <1>5, <2>1, <2>2
<1>8. CASE UNCHANGED linkVars
  BY <1>5, <1>8 DEF linkVars
<1>9. (ZoneStep /\ ~PostSend) \/ (\E sid \in Sids : SendToClient(sid)) \/ Gateway \/ GatewayCrashes
      \/ (\E gen \in Gens : ClientReady(gen) \/ LinkBreaks(gen)) \/ UNCHANGED vars
      => UNCHANGED linkVars
  BY DEF ZoneStep, ReadyToSpawn, LoadDone, EnterZone, HandleGatewayLost, SendToClient, Gateway,
     GatewayReads, GatewayStarts, GatewayCrashes, ClientReady, LinkBreaks, vars
<1>10. QED
  BY <1>4, <1>6, <1>7, <1>8, <1>9 DEF Next

\* A connect whose handler is on the strand is the one attempt there is.
LEMMA ConnectAttempts ==
  ASSUME LinkTypes, LinkInv, NEW c \in Gens, c = connGen
  PROVE  /\ Waiting("connect", c) # 0 => Attempting(c) /\ Waiting("connect", c) = 1
         /\ OkConnect(c) => Waiting("connect", c) # 0
         /\ ops[<<"connect", c>>] > 0 => Attempting(c) /\ ~OkConnect(c)
<1>1. strand \in Seq(Handler) /\ ops \in OpsType
  BY DEF LinkTypes
<1>2. {"resolve", "connect", "read", "write", "timer"} \subseteq OpKind
  BY DEF OpKind
<1>3. PICK k \in OpKind : k = "connect"
  BY <1>2
<1>4. /\ Waiting("timer", c) \in Nat /\ Waiting("resolve", c) \in Nat /\ Waiting("connect", c) \in Nat
  BY <1>1, <1>2, WaitingType
<1>5. Waiting("connect", c) # 0 => Attempting(c) /\ Waiting("connect", c) = 1
  BY <1>4 DEF LinkInv, Driven, Attempting
<1>6. Waiting(k, c) = 0 <=> ops[<<k, c>>] = 0 /\ \A h \in Elements(strand) : h \notin Of(k, c)
  BY <1>1, WaitingType
<1>7. ASSUME NEW h \in Elements(strand), h.kind = "connect", h.gen = c PROVE h \in Of(k, c)
  BY <1>1, <1>3, <1>7 DEF Elements, Of
<1>8. OkConnect(c) => Waiting("connect", c) # 0
  BY <1>3, <1>6, <1>7 DEF OkConnect
<1>9. ops[<<k, c>>] > 0 => Waiting(k, c) # 0 /\ (Waiting(k, c) = 1 => ~OkConnect(c))
  <2>1. Waiting(k, c) = ops[<<k, c>>] + Cardinality(At(strand, Of(k, c)))
    BY <1>1, HandlersAt DEF Waiting
  <2>2. ops[<<k, c>>] \in Nat /\ Cardinality(At(strand, Of(k, c))) \in Nat
    BY <1>1, AtFinite DEF OpsType
  <2>3. Cardinality(At(strand, Of(k, c))) = 0 <=> \A h \in Elements(strand) : h \notin Of(k, c)
    BY <1>1, AtFinite
  <2>4. QED
    BY <1>7, <2>1, <2>2, <2>3 DEF OkConnect
<1>10. QED
  BY <1>3, <1>5, <1>8, <1>9

\* An attempt starts from nothing: no read, no write, nothing to send.
LEMMA AttemptIsIdle ==
  ASSUME LinkTypes, LinkInv, SendersDone, NEW c \in Gens, c = connGen, Attempting(c)
  PROVE  /\ ops[<<"read", c>>] = 0 /\ ops[<<"write", c>>] = 0
         /\ \A h \in Elements(strand) : h.kind \in {"read", "write"} => h.gen # c
         /\ sending = Nothing /\ sendQueue = <<>> /\ ~Posted
<1>1. strand \in Seq(Handler) /\ ops \in OpsType
  BY DEF LinkTypes
<1>2. Waiting("read", c) = 0 /\ Waiting("write", c) = 0
  BY DEF Attempting, LinkInv, Driven, SendersDone
<1>3. ASSUME NEW k \in OpKind, Waiting(k, c) = 0
      PROVE  ops[<<k, c>>] = 0 /\ \A h \in Elements(strand) : h.kind = k => h.gen # c
  <2>1. ops[<<k, c>>] = 0 /\ \A h \in Elements(strand) : h \notin Of(k, c)
    BY <1>1, <1>3, WaitingType
  <2>2. QED
    BY <1>1, <2>1 DEF Of, Elements
<1>4. sending = Nothing /\ sendQueue = <<>> /\ ~Posted
  BY DEF Attempting, SendersDone
<1>5. QED
  BY <1>2, <1>3, <1>4 DEF OpKind

LEMMA InitEnds == Init => Ends
<1> SUFFICES ASSUME Init PROVE Ends
  OBVIOUS
<1>1. /\ strand = <<>> /\ connGen = 1 /\ isConnected = FALSE /\ socket = "new"
      /\ \A g \in Gens : peer[g] = "none" /\ toGateway[g] = <<>> /\ toZone[g] = <<>>
      /\ \A s \in Sids : owner[s] = Nothing
  BY DEF Init
<1>2. \A g \in Gens : ~OkConnect(g)
  BY <1>1 DEF OkConnect, Elements
<1>3. QED
  BY <1>1, <1>2 DEF Ends, EndsOf

\* A step that leaves the sockets and the gateway alone, and posts no handler that
\* says otherwise.
LEMMA EndsKept ==
  ASSUME LinkTypes, Ends, NEW c \in Gens, c = connGen, connGen' = connGen,
         isConnected' = isConnected, socket' = socket, peer' = peer, toGateway' = toGateway,
         owner' = owner, \A g \in Gens : toZone'[g] # <<>> => toZone[g] # <<>>,
         OkConnect(c)' <=> OkConnect(c), Attempting(c)' => Attempting(c),
         isConnected => \A h \in Elements(strand') :
           h.kind \in {"read", "write"} /\ h.gen = c /\ ~h.ok => h \in Elements(strand) \/ peer[c] = "gone"
  PROVE  Ends'
<1>1. EndsOf(c)
  BY DEF Ends
<1>2. EndsOf(c)'
  BY <1>1 DEF EndsOf
<1>3. QED
  BY <1>2 DEF Ends

\* The strand and the flag alone change.
LEMMA EndsJoined ==
  ASSUME LinkTypes, sending \in Packet \cup {Nothing}, [Next]_vars, Ends, NEW c \in Gens, c = connGen, connGen' = connGen,
         NEW h \in Handler, strand' = Append(strand, h), h.kind # "connect" \/ ~h.ok,
         h.kind \in {"read", "write"} /\ h.gen = c /\ ~h.ok => peer[c] = "gone" \/ ~isConnected,
         isConnected' = isConnected, socket' = socket, peer' = peer, toGateway' = toGateway,
         owner' = owner, toZone' = toZone
  PROVE  Ends'
<1>1. Elements(strand') = Elements(strand) \cup {h}
  BY AtAppend DEF LinkTypes
<1>2. OkConnect(c)' <=> OkConnect(c)
  BY <1>1 DEF OkConnect
<1>3. Attempting(c)' => Attempting(c)
  BY TimerStays DEF Attempting
<1>4. isConnected => \A x \in Elements(strand') :
        x.kind \in {"read", "write"} /\ x.gen = c /\ ~x.ok => x \in Elements(strand) \/ peer[c] = "gone"
  BY <1>1
<1>5. QED
  BY <1>2, <1>3, <1>4, EndsKept

LEMMA EndsRan ==
  ASSUME LinkTypes, sending \in Packet \cup {Nothing}, [Next]_vars, Ends, NEW c \in Gens, c = connGen, connGen' = connGen,
         strand # <<>>, strand' = Tail(strand),
         Head(strand).kind # "connect" \/ ~Head(strand).ok \/ Head(strand).gen # c,
         isConnected' = isConnected, socket' = socket, peer' = peer, toGateway' = toGateway,
         owner' = owner, \A g \in Gens : toZone'[g] # <<>> => toZone[g] # <<>>
  PROVE  Ends'
<1>1. Elements(strand) = Elements(strand') \cup {Head(strand)}
  BY AtTail DEF LinkTypes
<1>2. OkConnect(c)' <=> OkConnect(c)
  BY <1>1 DEF OkConnect
<1>3. Attempting(c)' => Attempting(c)
  BY TimerStays DEF Attempting
<1>4. isConnected => \A x \in Elements(strand') :
        x.kind \in {"read", "write"} /\ x.gen = c /\ ~x.ok => x \in Elements(strand) \/ peer[c] = "gone"
  BY <1>1
<1>5. QED
  BY <1>2, <1>3, <1>4, EndsKept

\* A connection is made: of an attempt, which has no other connect under way.
LEMMA ConnectDoneEnds ==
  ASSUME LinkTypes, LinkInv, GateTypes, sending \in Packet \cup {Nothing}, [Next]_vars, Ends,
         NEW gen \in Gens, NEW ok \in BOOLEAN, ConnectDone(gen, ok)
  PROVE  Ends'
<1> DEFINE h == [kind |-> "connect", gen |-> gen, ok |-> ok]
<1>1. PICK c \in Gens : c = connGen
  BY DEF LinkTypes
<1>2. PICK k \in OpKind : k = "connect"
  BY DEF OpKind
<1>3. /\ Completes(k, gen, ok) /\ connGen' = connGen /\ isConnected' = isConnected /\ owner' = owner
      /\ toZone' = toZone /\ toGateway' = toGateway /\ strand' = Append(strand, h)
  BY <1>2 DEF ConnectDone, Completes
<1>4. h \in Handler /\ h.kind = "connect" /\ h.ok = ok /\ h.gen = gen
  BY <1>2 DEF Handler
<1> HIDE DEF h
<1>5. CASE ~ok
  <2>1. socket' = socket /\ peer' = peer
    BY <1>5 DEF ConnectDone
  <2>2. QED
    BY <1>1, <1>3, <1>4, <1>5, <2>1, EndsJoined
<1>6. CASE ok
  <2>1. gen = c /\ socket' = "open" /\ peer' = [peer EXCEPT ![c] = "greeting"]
    BY <1>1, <1>6 DEF ConnectDone
  <2>2. ops[<<"connect", c>>] > 0
    BY <1>2, <1>3, <2>1 DEF Completes
  <2>3. Attempting(c) /\ ~OkConnect(c) /\ ~isConnected
    BY <1>1, <2>2, ConnectAttempts DEF Attempting
  <2>4. EndsOf(c)
    BY <1>1 DEF Ends
  <2>5. socket = "new" /\ peer[c] = "none" /\ toGateway[c] = <<>>
    BY <2>3, <2>4 DEF EndsOf
  <2>6. toZone[c] = <<>>
    BY <2>5 DEF Ends
  <2>7. OkConnect(c)'
    <3>1. Elements(strand') = Elements(strand) \cup {h}
      BY <1>3, <1>4, AtAppend DEF LinkTypes
    <3>2. QED
      BY <1>4, <1>6, <2>1, <3>1 DEF OkConnect
  <2>8. \A g \in Gens : peer'[g] = IF g = c THEN "greeting" ELSE peer[g]
    BY <2>1 DEF GateTypes
  <2>9. \A g \in Gens : peer[g] \notin {"greeting", "serving"}
    BY <2>4, <2>5 DEF EndsOf
  <2>10. EndsOf(c)'
    BY <1>3, <2>1, <2>3, <2>4, <2>5, <2>7, <2>8, <2>9 DEF EndsOf, Gens
  <2>11. \A s \in Sids : owner[s] = Nothing
    BY <2>9 DEF Ends, GateTypes
  <2>12. QED
    BY <1>1, <1>3, <2>6, <2>8, <2>9, <2>10, <2>11 DEF Ends
<1>7. QED
  BY <1>5, <1>6

LEMMA WriteDoneEnds ==
  ASSUME LinkTypes, LinkInv, GateTypes, SendersDone, sending \in Packet \cup {Nothing}, [Next]_vars, Ends,
         NEW gen \in Gens, NEW ok \in BOOLEAN, WriteDone(gen, ok)
  PROVE  Ends'
<1> DEFINE h == [kind |-> "write", gen |-> gen, ok |-> ok]
<1>1. PICK c \in Gens : c = connGen
  BY DEF LinkTypes
<1>2. PICK k \in OpKind : k = "write"
  BY DEF OpKind
<1>3. /\ Completes(k, gen, ok) /\ connGen' = connGen /\ isConnected' = isConnected /\ owner' = owner
      /\ toZone' = toZone /\ socket' = socket /\ peer' = peer /\ strand' = Append(strand, h)
  BY <1>2 DEF WriteDone, Completes
<1>4. h \in Handler /\ h.kind = "write" /\ h.ok = ok /\ h.gen = gen
  BY <1>2 DEF Handler
<1>5. EndsOf(c)
  BY <1>1 DEF Ends
<1> HIDE DEF h
<1>6. ~ok /\ gen = c => peer[c] = "gone" \/ ~isConnected
  BY <1>1, <1>5 DEF WriteDone, Fails, Open, EndsOf
<1>7. CASE toGateway' = toGateway
  BY <1>1, <1>3, <1>4, <1>6, <1>7, EndsJoined
<1>8. CASE ok /\ peer[gen] # "gone"
  <2>1. gen = c /\ socket = "open" /\ toGateway' = [toGateway EXCEPT ![c] = Append(@, Head(sendQueue))]
    BY <1>1, <1>8 DEF WriteDone, Open
  <2>2. peer[c] \in {"greeting", "serving"}
    BY <1>5, <1>8, <2>1 DEF EndsOf, GateTypes
  <2>3. isConnected
    <3>1. ops[<<"write", c>>] # 0
      BY <1>2, <1>3, <2>1 DEF Completes
    <3>2. ~Attempting(c)
      BY <1>1, <3>1, AttemptIsIdle
    <3>3. ~OkConnect(c)
      BY <1>1, <3>2, ConnectAttempts
    <3>4. QED
      BY <1>5, <2>1, <3>3 DEF EndsOf
  <2>4. Elements(strand') = Elements(strand) \cup {h}
    BY <1>3, <1>4, AtAppend DEF LinkTypes
  <2>5. EndsOf(c)'
    BY <1>3, <1>4, <1>5, <1>8, <2>2, <2>3, <2>4 DEF EndsOf, Attempting
  <2>6. \A g \in Gens : g # c => toGateway'[g] = toGateway[g]
    BY <2>1 DEF GateTypes
  <2>7. QED
    BY <1>1, <1>3, <2>2, <2>5, <2>6 DEF Ends
<1>9. QED
  BY <1>7, <1>8 DEF WriteDone

LEMMA OperationEnds ==
  ASSUME LinkTypes, LinkInv, GateTypes, SendersDone, sending \in Packet \cup {Nothing}, [Next]_vars, Ends,
         Operation
  PROVE  Ends'
<1>1. PICK c \in Gens : c = connGen
  BY DEF LinkTypes
<1>2. {"resolve", "connect", "read", "write", "timer"} \subseteq OpKind
  BY DEF OpKind
<1>3. ASSUME NEW k \in OpKind, k # "connect", NEW gen \in Gens, NEW ok \in BOOLEAN, Completes(k, gen, ok),
             UNCHANGED <<socket, peer, toGateway>>,
             k \in {"read", "write"} /\ gen = c /\ ~ok => peer[c] = "gone" \/ ~isConnected
      PROVE  Ends'
  <2> DEFINE h == [kind |-> k, gen |-> gen, ok |-> ok]
  <2>1. /\ connGen' = connGen /\ isConnected' = isConnected /\ owner' = owner /\ toZone' = toZone
        /\ strand' = Append(strand, h)
    BY <1>3 DEF Completes
  <2>2. h \in Handler /\ h.kind = k /\ h.gen = gen /\ h.ok = ok
    BY DEF Handler
  <2> HIDE DEF h
  <2>3. QED
    BY <1>1, <1>3, <2>1, <2>2, EndsJoined
<1>4. ASSUME NEW gen \in Gens, NEW ok \in BOOLEAN, ResolveDone(gen, ok) PROVE Ends'
  <2>1. PICK k \in OpKind : k = "resolve"
    BY <1>2
  <2>2. QED
    BY <1>3, <1>4, <2>1 DEF ResolveDone
<1>5. ASSUME NEW gen \in Gens, NEW ok \in BOOLEAN, ReadDone(gen, ok) PROVE Ends'
  <2>1. PICK k \in OpKind : k = "read"
    BY <1>2
  <2>2. gen = c /\ ~ok => peer[c] = "gone" \/ ~isConnected
    BY <1>1, <1>5 DEF ReadDone, Fails, Open, Ends, EndsOf
  <2>3. QED
    BY <1>3, <1>5, <2>1, <2>2 DEF ReadDone
<1>6. ASSUME NEW gen \in Gens, TimerExpires(gen) PROVE Ends'
  <2>1. PICK k \in OpKind : k = "timer"
    BY <1>2
  <2>2. Completes(k, gen, TRUE) /\ UNCHANGED <<socket, peer, toGateway>>
    BY <1>6, <2>1 DEF TimerExpires
  <2>3. QED
    BY <1>3, <2>1, <2>2
<1>7. QED
  BY <1>4, <1>5, <1>6, ConnectDoneEnds, WriteDoneEnds DEF Operation

LEMMA HandleTimerEnds ==
  ASSUME LinkTypes, LinkTypes', LinkInv, GateTypes, SendersDone, Ends, HandleTimer
  PROVE  Ends'
<1>1. PICK c \in Gens : c = connGen
  BY DEF LinkTypes
<1>2. PICK d \in Gens : d = connGen'
  BY DEF LinkTypes
<1>3. /\ strand # <<>> /\ Head(strand).kind = "timer" /\ strand' = Tail(strand)
      /\ connGen' = c + 1 /\ isConnected' = isConnected /\ socket' = "new"
      /\ peer' = peer /\ toGateway' = toGateway /\ toZone' = toZone /\ owner' = owner
  BY <1>1 DEF HandleTimer, Runs, gateVars
<1>4. Elements(strand') \subseteq Elements(strand) /\ Head(strand) \in Elements(strand)
  BY <1>3, RanBefore
<1>5. Expired
  BY <1>3, <1>4 DEF Expired
<1>6. ~isConnected /\ Waiting("timer", c) # 0
  BY <1>1, <1>5, ExpiredIsDown
<1>7. EndsOf(c) /\ ~OkConnect(c)
  BY <1>1, <1>6, ConnectAttempts DEF Ends, Attempting
<1>8. d > c /\ d # c /\ \A g \in Gens : g > d => g > c
  BY <1>1, <1>2, <1>3 DEF Gens
<1>9. \A g \in Gens : peer[g] \notin {"greeting", "serving"}
  BY <1>6, <1>7 DEF EndsOf
<1>10. peer[d] = "none" /\ toGateway[d] = <<>>
  BY <1>7, <1>8, <1>9 DEF Ends, EndsOf
<1>11. ~OkConnect(d)
  <2>1. PICK k \in OpKind : k = "connect"
    BY DEF OpKind
  <2>2. Waiting(k, d) = 0
    BY <1>1, <1>8 DEF LinkInv, OtherGens
  <2>3. strand \in Seq(Handler) /\ ops \in OpsType
    BY DEF LinkTypes
  <2>4. \A h \in Elements(strand) : h \notin Of(k, d)
    BY <2>2, <2>3, WaitingType
  <2>5. QED
    BY <2>1, <2>3, <2>4 DEF OkConnect, Of, Elements
<1>12. ~OkConnect(d)'
  BY <1>4, <1>11 DEF OkConnect
<1>13. EndsOf(d)'
  BY <1>3, <1>6, <1>7, <1>8, <1>9, <1>10, <1>12 DEF EndsOf
<1>14. QED
  BY <1>2, <1>3, <1>13 DEF Ends

LEMMA HandleConnectEnds ==
  ASSUME LinkTypes, LinkInv, SendersDone, sending \in Packet \cup {Nothing}, [Next]_vars, Ends,
         HandleConnect
  PROVE  Ends'
<1>1. PICK c \in Gens : c = connGen
  BY DEF LinkTypes
<1>2. PICK k0 \in OpKind : k0 = "connect"
  BY DEF OpKind
<1>3. /\ Runs(k0) /\ strand # <<>> /\ Head(strand).kind = k0 /\ strand' = Tail(strand)
      /\ connGen' = connGen /\ socket' = socket
      /\ peer' = peer /\ toGateway' = toGateway /\ toZone' = toZone /\ owner' = owner
      /\ isConnected \in BOOLEAN
  BY <1>2 DEF HandleConnect, Runs, gateVars, LinkTypes
<1>4. CASE Stale \/ ~Head(strand).ok
  <2>1. isConnected' = isConnected
    BY <1>3, <1>4 DEF HandleConnect
  <2>2. ~Head(strand).ok \/ Head(strand).gen # c
    BY <1>1, <1>4 DEF Stale
  <2>3. QED
    BY <1>1, <1>3, <2>1, <2>2, EndsRan
<1>5. CASE ~Stale /\ Head(strand).ok
  <2>1. isConnected' /\ Head(strand).gen = c
    BY <1>1, <1>3, <1>5 DEF HandleConnect, Stale
  <2>2. Elements(strand) = Elements(strand') \cup {Head(strand)}
    BY <1>3, AtTail DEF LinkTypes
  <2>3. OkConnect(c)
    BY <1>2, <1>3, <1>5, <2>1, <2>2 DEF OkConnect
  <2>4. Attempting(c)
    BY <1>1, <2>3, ConnectAttempts
  <2>5. \A h \in Elements(strand) : h.kind \in {"read", "write"} => h.gen # c
    BY <1>1, <2>4, AttemptIsIdle
  <2>6. EndsOf(c) /\ ~isConnected
    BY <1>1, <2>4 DEF Ends, Attempting
  <2>7. socket = "open"
    BY <2>3, <2>6 DEF EndsOf
  <2>8. EndsOf(c)'
    BY <1>3, <2>1, <2>2, <2>5, <2>6, <2>7 DEF EndsOf, Attempting
  <2>9. QED
    BY <1>1, <1>3, <2>8 DEF Ends
<1>6. QED
  BY <1>4, <1>5

\* A loss is found: the other end has gone.
LEMMA LossEnds ==
  ASSUME LinkTypes, LinkInv, GateTypes, sending \in Packet \cup {Nothing}, [Next]_vars, Ends,
         NEW k0 \in {"read", "write"}, Runs(k0), ~Stale, ~Head(strand).ok,
         strand' = Tail(strand), OnDisconnected, connGen' = connGen, toZone' = toZone,
         peer' = peer, toGateway' = toGateway, owner' = owner
  PROVE  Ends'
<1>1. PICK c \in Gens : c = connGen
  BY DEF LinkTypes
<1>2. k0 \in OpKind /\ k0 # "connect"
  BY DEF OpKind
<1>3. Head(strand).gen = c /\ strand # <<>> /\ Head(strand).kind = k0
  BY <1>1 DEF Stale, Runs
<1>4. CASE ~isConnected
  <2>1. isConnected' = isConnected /\ socket' = socket
    BY <1>4 DEF OnDisconnected
  <2>2. QED
    BY <1>1, <1>2, <1>3, <2>1, EndsRan
<1>5. CASE isConnected
  <2>1. isConnected' = FALSE /\ socket' = "closed"
    BY <1>5 DEF OnDisconnected
  <2>2. Elements(strand) = Elements(strand') \cup {Head(strand)}
    BY <1>3, AtTail DEF LinkTypes
  <2>3. EndsOf(c)
    BY <1>1 DEF Ends
  <2>4. peer[c] = "gone"
    BY <1>3, <1>5, <2>2, <2>3 DEF EndsOf
  <2>5. \A g \in Gens : peer[g] \notin {"greeting", "serving"}
    BY <2>3, <2>4 DEF EndsOf
  <2>6. toGateway[c] = <<>>
    BY <2>5 DEF Ends
  <2>7. ~OkConnect(c)'
    <3>1. ~OkConnect(c)
      BY <1>1, <1>5, ConnectAttempts DEF Attempting
    <3>2. QED
      BY <2>2, <3>1 DEF OkConnect
  <2>8. ~Attempting(c)'
    <3>1. PICK t \in OpKind : t = "timer"
      BY DEF OpKind
    <3>2. ops' = Started(t, connGen)
      BY <1>5, <3>1 DEF OnDisconnected
    <3>3. ~(t = k0 /\ c = Head(strand).gen)
      BY <3>1
    <3>4. Waiting(t, c) \in Nat /\ Waiting(t, c)' = Waiting(t, c) + 1
      BY <1>1, <1>2, <3>2, <3>3, RanStarts
    <3>5. QED
      BY <3>1, <3>4 DEF Attempting
  <2>9. EndsOf(c)'
    BY <2>1, <2>3, <2>4, <2>5, <2>6, <2>7, <2>8 DEF EndsOf
  <2>10. QED
    BY <1>1, <2>9 DEF Ends
<1>6. QED
  BY <1>4, <1>5

LEMMA StrandEnds ==
  ASSUME LinkTypes, LinkTypes', LinkInv, GateTypes, SendersDone, sending \in Packet \cup {Nothing},
         [Next]_vars, Ends, Strand
  PROVE  Ends'
<1>1. PICK c \in Gens : c = connGen
  BY DEF LinkTypes
<1>2. PICK r \in {"read", "write"} : r = "read"
  OBVIOUS
<1>3. PICK w \in {"read", "write"} : w = "write"
  OBVIOUS
<1>4. CASE HandleResolve
  <2>1. /\ connGen' = connGen /\ isConnected' = isConnected /\ strand' = Tail(strand) /\ strand # <<>>
        /\ Head(strand).kind = "resolve" /\ socket' = socket
        /\ peer' = peer /\ toGateway' = toGateway /\ toZone' = toZone /\ owner' = owner
    BY <1>4 DEF HandleResolve, Runs, gateVars
  <2>2. QED
    BY <1>1, <2>1, EndsRan
<1>5. CASE Greet
  <2> DEFINE h == [kind |-> "send", packet |-> Handshake]
  <2>1. /\ connGen' = connGen /\ isConnected' = isConnected /\ strand' = Append(strand, h)
        /\ socket' = socket
        /\ peer' = peer /\ toGateway' = toGateway /\ toZone' = toZone /\ owner' = owner
    BY <1>5 DEF Greet, gateVars
  <2>2. h \in Handler /\ h.kind = "send"
    BY DEF Handler, Packet
  <2> HIDE DEF h
  <2>3. QED
    BY <1>1, <2>1, <2>2, EndsJoined
<1>6. CASE HandleSend
  <2>1. /\ connGen' = connGen /\ isConnected' = isConnected /\ strand' = Tail(strand) /\ strand # <<>>
        /\ Head(strand).kind = "send" /\ socket' = socket
        /\ peer' = peer /\ toGateway' = toGateway /\ toZone' = toZone /\ owner' = owner
    BY <1>6 DEF HandleSend, Runs, gateVars
  <2>2. QED
    BY <1>1, <2>1, EndsRan
<1>7. CASE HandleWrite
  <2>1. /\ connGen' = connGen /\ strand' = Tail(strand) /\ strand # <<>>
        /\ Head(strand).kind = "write" /\ Runs(w)
        /\ peer' = peer /\ toGateway' = toGateway /\ toZone' = toZone /\ owner' = owner
        /\ (isConnected' = isConnected /\ socket' = socket)
           \/ (~Stale /\ ~Head(strand).ok /\ OnDisconnected)
    BY <1>3, <1>7 DEF HandleWrite, Runs, gateVars
  <2>2. CASE isConnected' = isConnected /\ socket' = socket
    BY <1>1, <2>1, <2>2, EndsRan
  <2>3. CASE ~Stale /\ ~Head(strand).ok /\ OnDisconnected
    BY <2>1, <2>3, LossEnds
  <2>4. QED
    BY <2>1, <2>2, <2>3
<1>8. CASE HandleRead
  <2>1. /\ connGen' = connGen /\ strand' = Tail(strand) /\ strand # <<>>
        /\ Head(strand).kind = "read" /\ Runs(r)
        /\ peer' = peer /\ toGateway' = toGateway /\ owner' = owner
    BY <1>2, <1>8 DEF HandleRead, Runs
  <2>2. \A g \in Gens : toZone'[g] # <<>> => toZone[g] # <<>>
    <3>1. CASE ~Stale /\ Head(strand).ok
      <4>1. toZone' = [toZone EXCEPT ![c] = Tail(@)]
        BY <1>1, <1>8, <3>1 DEF HandleRead
      <4>2. toZone[c] # <<>>
        <5>1. Head(strand) \in Elements(strand) /\ Head(strand).gen = c
          BY <1>1, <2>1, <3>1, RanBefore DEF Stale
        <5>2. QED
          BY <1>1, <2>1, <3>1, <5>1 DEF LinkInv, HandlersFind
      <4>3. QED
        BY <4>1, <4>2 DEF GateTypes
    <3>2. CASE ~(~Stale /\ Head(strand).ok)
      BY <1>8, <3>2 DEF HandleRead
    <3>3. QED
      BY <3>1, <3>2
  <2>3. CASE isConnected' = isConnected /\ socket' = socket
    BY <1>1, <2>1, <2>2, <2>3, EndsRan
  <2>4. CASE ~Stale /\ ~Head(strand).ok /\ OnDisconnected /\ toZone' = toZone
    BY <2>1, <2>4, LossEnds
  <2>5. QED
    BY <1>8, <2>3, <2>4 DEF HandleRead
<1>9. QED
  BY <1>4, <1>5, <1>6, <1>7, <1>8, HandleTimerEnds, HandleConnectEnds DEF Strand

\* The ends of connections go, and their clients with them.
LEMMA CloseOrphansEnds ==
  ASSUME GateTypes, LinkTypes, Ends, UNCHANGED linkVars, NEW gens \in SUBSET Gens, CloseOrphans(gens),
         gens \subseteq {g \in Gens : peer[g] \in {"greeting", "serving"}}, toZone' = toZone
  PROVE  Ends'
<1>1. PICK c \in Gens : c = connGen
  BY DEF LinkTypes
<1>2. /\ \A g \in Gens : peer'[g] = IF g \in gens THEN "gone" ELSE peer[g]
      /\ \A g \in Gens : toGateway'[g] = IF g \in gens THEN <<>> ELSE toGateway[g]
      /\ \A s \in Sids : owner'[s] = IF owner[s] \in gens THEN Nothing ELSE owner[s]
  BY DEF CloseOrphans
<1>3. \A g \in gens : g = c /\ socket = "open"
  BY <1>1 DEF Ends, EndsOf
<1>4. EndsOf(c)
  BY <1>1 DEF Ends
<1>5. /\ connGen' = connGen /\ isConnected' = isConnected /\ socket' = socket
      /\ (OkConnect(c)' <=> OkConnect(c)) /\ (Attempting(c)' <=> Attempting(c))
      /\ Elements(strand') = Elements(strand)
  BY DEF linkVars, OkConnect, Attempting, Waiting, Handlers
<1>6. EndsOf(c)'
  BY <1>2, <1>3, <1>4, <1>5 DEF EndsOf, Gens
<1>7. \A s \in Sids : owner'[s] # Nothing => peer'[owner'[s]] = "serving"
  <2>1. ASSUME NEW s \in Sids, owner'[s] # Nothing PROVE peer'[owner'[s]] = "serving"
    <3>1. owner[s] \in Gens /\ owner[s] \notin gens /\ owner'[s] = owner[s] /\ peer[owner[s]] = "serving"
      BY <1>2, <2>1 DEF GateTypes, Ends
    <3>2. QED
      BY <1>2, <3>1
  <2>2. QED
    BY <2>1
<1>8. QED
  BY <1>1, <1>2, <1>5, <1>6, <1>7 DEF Ends

LEMMA GatewayEnds ==
  ASSUME GateTypes, GateTypes', LinkTypes, Ends, UNCHANGED linkVars,
         Gateway \/ GatewayCrashes \/ \E gen \in Gens : ClientReady(gen) \/ LinkBreaks(gen)
  PROVE  Ends'
<1>1. PICK c \in Gens : c = connGen
  BY DEF LinkTypes
<1>2. EndsOf(c)
  BY <1>1 DEF Ends
<1>3. /\ connGen' = connGen /\ isConnected' = isConnected /\ socket' = socket
      /\ (OkConnect(c)' <=> OkConnect(c)) /\ (Attempting(c)' <=> Attempting(c))
      /\ Elements(strand') = Elements(strand)
  BY DEF linkVars, OkConnect, Attempting, Waiting, Handlers
<1>4. ASSUME NEW gen \in Gens, GatewayReads(gen) PROVE Ends'
  <2>1. peer[gen] \in {"greeting", "serving"} /\ toGateway[gen] # <<>> /\ toZone' = toZone
    BY <1>4 DEF GatewayReads
  <2>2. CASE CloseOrphans({gen})
    BY <2>1, <2>2, CloseOrphansEnds
  <2>3. CASE ~CloseOrphans({gen})
    <3>1. /\ peer' = [peer EXCEPT ![gen] = "serving"]
          /\ toGateway' = [toGateway EXCEPT ![gen] = Tail(@)]
          /\ owner' = owner
      BY <1>4, <2>3 DEF GatewayReads
    <3>2. /\ \A g \in Gens : peer'[g] = IF g = gen THEN "serving" ELSE peer[g]
          /\ \A g \in Gens : g # gen => toGateway'[g] = toGateway[g]
      BY <3>1 DEF GateTypes
    <3>3. gen = c /\ socket = "open"
      BY <1>2, <2>1 DEF EndsOf
    <3>4. isConnected
      BY <1>2, <2>1, <3>3, <1>1 DEF EndsOf, LinkTypes
    <3>5. EndsOf(c)'
      BY <1>2, <1>3, <2>1, <3>2, <3>3, <3>4 DEF EndsOf
    <3>6. \A s \in Sids : owner[s] # Nothing => peer'[owner[s]] = "serving"
      BY <3>2 DEF Ends, GateTypes
    <3>7. QED
      BY <1>1, <1>3, <2>1, <3>1, <3>2, <3>5, <3>6 DEF Ends
  <2>4. QED
    BY <2>2, <2>3
<1>5. CASE GatewayStarts
  <2>1. peer' = peer /\ toGateway' = toGateway /\ toZone' = toZone /\ owner' = owner
    BY <1>5 DEF GatewayStarts
  <2>2. EndsOf(c)'
    BY <1>2, <1>3, <2>1 DEF EndsOf
  <2>3. QED
    BY <1>1, <1>3, <2>1, <2>2 DEF Ends
<1>6. CASE GatewayCrashes
  <2>1. CloseOrphans(Live) /\ toZone' = toZone
    BY <1>6 DEF GatewayCrashes
  <2>2. PICK gens \in SUBSET Gens : gens = Live
    BY DEF Live
  <2>3. QED
    BY <2>1, <2>2, CloseOrphansEnds DEF Live
<1>7. ASSUME NEW gen \in Gens, LinkBreaks(gen) PROVE Ends'
  <2>1. CloseOrphans({gen}) /\ toZone' = toZone /\ gen \in Live
    BY <1>7 DEF LinkBreaks
  <2>2. {gen} \subseteq {g \in Gens : peer[g] \in {"greeting", "serving"}}
    BY <2>1 DEF Live
  <2>3. QED
    BY <2>1, <2>2, CloseOrphansEnds
<1>8. ASSUME NEW gen \in Gens, ClientReady(gen) PROVE Ends'
  <2>1. peer[gen] = "serving" /\ peer' = peer /\ toGateway' = toGateway
    BY <1>8 DEF ClientReady
  <2>2. EndsOf(c)'
    BY <1>2, <1>3, <2>1 DEF EndsOf
  <2>3. \A g \in Gens : toZone'[g] # <<>> => toZone[g] # <<>> \/ g = gen
    BY <1>8 DEF ClientReady, GateTypes
  <2>4. \A s \in Sids : owner'[s] # Nothing => peer[owner'[s]] = "serving"
    <3>1. owner' = [owner EXCEPT ![sessions + 1] = gen]
      BY <1>8 DEF ClientReady
    <3>2. \A s \in Sids : owner'[s] = gen \/ owner'[s] = owner[s]
      BY <3>1 DEF GateTypes
    <3>3. QED
      BY <2>1, <3>2 DEF Ends
  <2>5. QED
    BY <1>1, <1>3, <2>1, <2>2, <2>3, <2>4 DEF Ends
<1>9. QED
  BY <1>4, <1>5, <1>6, <1>7, <1>8 DEF Gateway

LEMMA EndsStep ==
  ASSUME TypeOK, LinkInv, SendersDone, Ends, [Next]_vars
  PROVE  Ends'
<1>1. LinkTypes /\ GateTypes /\ sending \in Packet \cup {Nothing} /\ LinkTypes' /\ GateTypes'
  BY BaseStep, TypesSplit, TypesSplitNext DEF ZoneTypes
<1>2. PICK c \in Gens : c = connGen
  BY <1>1 DEF LinkTypes
<1>3. CASE Operation
  BY <1>1, <1>3, OperationEnds
<1>4. CASE Strand
  BY <1>1, <1>4, StrandEnds
<1>5. CASE PostSend
  <2> DEFINE h == [kind |-> "send", packet |-> sending]
  <2>1. /\ connGen' = connGen /\ isConnected' = isConnected /\ strand' = Append(strand, h)
        /\ socket' = socket
        /\ peer' = peer /\ toGateway' = toGateway /\ toZone' = toZone /\ owner' = owner
    BY <1>5 DEF PostSend, gateVars
  <2>2. h \in Handler /\ h.kind = "send"
    BY <1>1, <1>5 DEF PostSend, Handler
  <2> HIDE DEF h
  <2>3. QED
    BY <1>1, <1>2, <2>1, <2>2, EndsJoined
<1>6. CASE (ZoneStep /\ ~PostSend) \/ (\E sid \in Sids : SendToClient(sid)) \/ UNCHANGED vars
  <2>1. UNCHANGED linkVars /\ UNCHANGED gateVars
    BY <1>6 DEF ZoneStep, ReadyToSpawn, LoadDone, EnterZone, HandleGatewayLost, SendToClient,
       vars
  <2>2. /\ connGen' = connGen /\ isConnected' = isConnected /\ socket' = socket /\ peer' = peer
        /\ toGateway' = toGateway /\ toZone' = toZone /\ owner' = owner
        /\ (OkConnect(c)' <=> OkConnect(c)) /\ (Attempting(c)' <=> Attempting(c))
        /\ strand' = strand
    BY <2>1 DEF linkVars, gateVars, OkConnect, Attempting, Waiting, Handlers
  <2>3. QED
    BY <1>1, <1>2, <2>2, EndsKept
<1>7. CASE Gateway \/ GatewayCrashes \/ \E gen \in Gens : ClientReady(gen) \/ LinkBreaks(gen)
  <2>1. UNCHANGED linkVars
    BY <1>7 DEF Gateway, GatewayReads, GatewayStarts, GatewayCrashes, ClientReady, LinkBreaks
  <2>2. QED
    BY <1>1, <1>7, <2>1, GatewayEnds
<1>8. QED
  BY <1>3, <1>4, <1>5, <1>6, <1>7 DEF Next

-----------------------------------------------------------------------------
(***************************************************************************)
(* Where the packets and the clients come from.                            *)
(***************************************************************************)

\* Packets between the zone and the gateway, over the connection of today.
Sent == {p \in Packet : \/ \E h \in Elements(strand) : h.kind = "send" /\ h.packet = p
                        \/ p \in Elements(sendQueue)
                        \/ \E g \in Gens : g = connGen /\ p \in Elements(toGateway[g])
                        \/ p = sending}

\* Clients the zone has heard of.
Clients == {x \in Sids \X Gens :
              \/ x \in loads
              \/ \E j \in Elements(zoneJobs) : j.kind \in {"ready", "answer"} /\ x = <<j.sid, j.who>>
              \/ inside[x[1]] = x[2]}

\* A packet is made by the handshake, or for a client that is inside.
LEMMA SentGrows ==
  ASSUME TypeOK, LinkInv, [Next]_vars, connGen' = connGen
  PROVE  \A p \in Sent' :
           \/ p \in Sent \/ p = Handshake
           \/ isConnected /\ \E s \in Sids : inside[s] \in Gens /\ p = Data(s, inside[s])
<1>1. /\ LinkTypes /\ GateTypes /\ sending \in Packet \cup {Nothing} /\ strand \in Seq(Handler)
      /\ sendQueue \in Seq(Packet) /\ inside \in [Sids -> Gens \cup {Nothing}]
  BY TypesSplit DEF ZoneTypes, LinkTypes
<1>2. PICK c \in Gens : c = connGen
  BY <1>1 DEF LinkTypes
<1>3. toGateway[c] \in Seq(Packet)
  BY <1>1 DEF GateTypes
<1>4. ASSUME \A h \in Elements(strand') : h.kind = "send" =>
               h \in Elements(strand) \/ h.packet = Handshake \/ h.packet = sending,
             \A p \in Elements(sendQueue') : p \in Sent,
             \A p \in Elements(toGateway'[c]) : p \in Sent,
             \/ sending' \in {sending, Nothing}
             \/ isConnected /\ \E s \in Sids : inside[s] \in Gens /\ sending' = Data(s, inside[s])
      PROVE  \A p \in Sent' :
               \/ p \in Sent \/ p = Handshake
               \/ isConnected /\ \E s \in Sids : inside[s] \in Gens /\ p = Data(s, inside[s])
  <2>1. SUFFICES ASSUME NEW p \in Packet,
                        \/ \E h \in Elements(strand') : h.kind = "send" /\ h.packet = p
                        \/ p \in Elements(sendQueue')
                        \/ p \in Elements(toGateway'[c])
                        \/ p = sending'
                 PROVE  \/ p \in Sent \/ p = Handshake
                        \/ isConnected /\ \E s \in Sids : inside[s] \in Gens /\ p = Data(s, inside[s])
    BY <1>2 DEF Sent
  <2>2. Nothing \notin Packet
    BY GatewayLinkAssumption
  <2>3. (\E h \in Elements(strand) : h.kind = "send" /\ h.packet = p) \/ p = sending => p \in Sent
    BY DEF Sent
  <2>4. CASE \E h \in Elements(strand') : h.kind = "send" /\ h.packet = p
    BY <1>4, <2>3, <2>4
  <2>5. CASE p \in Elements(sendQueue')
    BY <1>4, <2>5
  <2>6. CASE p \in Elements(toGateway'[c])
    BY <1>4, <2>6
  <2>7. CASE p = sending'
    BY <1>4, <2>2, <2>3, <2>7
  <2>8. QED
    BY <2>1, <2>4, <2>5, <2>6, <2>7
<1>5. /\ \A p \in Elements(sendQueue) : p \in Sent
      /\ \A p \in Elements(toGateway[c]) : p \in Sent
  <2>1. \A p \in Elements(sendQueue) : p \in Packet
    BY <1>1 DEF Elements
  <2>2. \A p \in Elements(toGateway[c]) : p \in Packet
    BY <1>3 DEF Elements
  <2>3. QED
    BY <1>2, <2>1, <2>2 DEF Sent
<1>6. CASE Operation
  <2>1. PICK gen \in Gens, ok \in BOOLEAN, k \in OpKind :
          /\ Completes(k, gen, ok)
          /\ toGateway' = toGateway \/ (k = "write" /\ WriteDone(gen, ok) /\ ok)
    <3>1. {"resolve", "connect", "read", "write", "timer"} \subseteq OpKind
      BY DEF OpKind
    <3>2. QED
      BY <1>6, <3>1 DEF Operation, ResolveDone, ConnectDone, ReadDone, WriteDone, TimerExpires
  <2> DEFINE h == [kind |-> k, gen |-> gen, ok |-> ok]
  <2>2. Elements(strand') = Elements(strand) \cup {h} /\ sendQueue' = sendQueue /\ sending' = sending
    BY <1>1, <2>1, Completed DEF LinkTypes, Completes, zoneVars
  <2>3. h.kind # "send"
    BY DEF OpKind
  <2> HIDE DEF h
  <2>4. \A p \in Elements(toGateway'[c]) : p \in Sent
    <3>1. CASE toGateway' = toGateway
      BY <1>5, <3>1
    <3>2. CASE k = "write" /\ WriteDone(gen, ok) /\ ok
      <4>1. gen = c
        BY <1>2, <3>2 DEF WriteDone, Open
      <4>2. toGateway' = toGateway \/ toGateway' = [toGateway EXCEPT ![c] = Append(@, Head(sendQueue))]
        BY <3>2, <4>1 DEF WriteDone
      <4>3. Waiting("write", connGen) >= 1
        BY <1>1, <1>2, <2>1, <3>2, <4>1, Completed DEF LinkTypes
      <4>4. sendQueue # <<>> /\ Head(sendQueue) \in Packet
        BY <1>1, <4>3, WriteHasPacket
      <4>5. Head(sendQueue) \in Elements(sendQueue)
        BY <1>1, <4>4, AtTail
      <4>6. Elements(Append(toGateway[c], Head(sendQueue))) = Elements(toGateway[c]) \cup {Head(sendQueue)}
        BY <1>3, <4>4, AtAppend
      <4>7. toGateway'[c] = toGateway[c] \/ toGateway'[c] = Append(toGateway[c], Head(sendQueue))
        BY <1>1, <4>2 DEF GateTypes
      <4>8. QED
        BY <1>5, <4>5, <4>6, <4>7
    <3>3. QED
      BY <2>1, <3>1, <3>2
  <2>5. QED
    BY <1>4, <1>5, <2>2, <2>3, <2>4
<1>7. CASE Strand
  <2>1. sending' = sending /\ toGateway' = toGateway
    BY <1>7 DEF Strand, HandleTimer, HandleResolve, HandleConnect, Greet, HandleSend,
       HandleWrite,
       HandleRead, zoneVars, gateVars
  <2>2. CASE Greet
    <3> DEFINE h == [kind |-> "send", packet |-> Handshake]
    <3>1. strand' = Append(strand, h) /\ sendQueue' = sendQueue
      BY <2>2 DEF Greet
    <3>2. h \in Handler /\ h.packet = Handshake
      BY DEF Handler, Packet
    <3> HIDE DEF h
    <3>3. Elements(strand') = Elements(strand) \cup {h}
      BY <1>1, <3>1, <3>2, AtAppend
    <3>4. QED
      BY <1>4, <1>5, <2>1, <3>1, <3>2, <3>3
  <2>3. CASE ~Greet
    <3>1. strand # <<>> /\ strand' = Tail(strand)
      BY <1>2, <1>7, <2>3 DEF Strand, HandleTimer, HandleResolve, HandleConnect, HandleSend,
         HandleWrite,
         HandleRead, Runs
    <3>2. Elements(strand) = Elements(strand') \cup {Head(strand)} /\ Head(strand) \in Handler
      BY <1>1, <3>1, AtTail
    <3>3. \A p \in Elements(sendQueue') : p \in Sent
      <4>1. CASE HandleSend
        <5>1. sendQueue' = Append(sendQueue, Head(strand).packet) /\ Head(strand).kind = "send"
          BY <4>1 DEF HandleSend, Runs
        <5>2. Head(strand).packet \in Packet
          BY <3>2, <5>1 DEF Handler, OpKind
        <5>3. Elements(sendQueue') = Elements(sendQueue) \cup {Head(strand).packet}
          BY <1>1, <5>1, <5>2, AtAppend
        <5>4. Head(strand).packet \in Sent
          BY <3>2, <5>1, <5>2 DEF Sent
        <5>5. QED
          BY <1>5, <5>3, <5>4
      <4>2. CASE HandleWrite
        <5>1. CASE sendQueue' = sendQueue
          BY <1>5, <5>1
        <5>2. CASE ~Stale /\ Head(strand).ok
          <6>1. PICK k \in OpKind : k = "write"
            BY DEF OpKind
          <6>2. Waiting(k, connGen) \in Nat \ {0}
            BY <1>1, <4>2, <5>2, <6>1, HeadOfToday DEF HandleWrite
          <6>3. sendQueue # <<>>
            BY <1>1, <6>1, <6>2, WriteHasPacket
          <6>4. Elements(sendQueue) = Elements(Tail(sendQueue)) \cup {Head(sendQueue)}
            BY <1>1, <6>3, AtTail
          <6>5. sendQueue' = Tail(sendQueue)
            BY <4>2, <5>2 DEF HandleWrite
          <6>6. QED
            BY <1>5, <6>4, <6>5
        <5>3. QED
          BY <4>2, <5>1, <5>2 DEF HandleWrite
      <4>3. CASE ~HandleSend /\ ~HandleWrite
        <5>1. ~HandleTimer
          BY <1>2 DEF HandleTimer, Gens
        <5>2. sendQueue' = sendQueue
          BY <1>7, <2>3, <4>3, <5>1 DEF Strand, HandleResolve, HandleConnect, HandleRead
        <5>3. QED
          BY <1>5, <5>2
      <4>4. QED
        BY <4>1, <4>2, <4>3
    <3>4. QED
      BY <1>4, <1>5, <2>1, <3>2, <3>3
  <2>4. QED
    BY <2>2, <2>3
<1>8. CASE PostSend
  <2> DEFINE h == [kind |-> "send", packet |-> sending]
  <2>1. strand' = Append(strand, h) /\ sendQueue' = sendQueue /\ toGateway' = toGateway /\ sending' = Nothing
    BY <1>8 DEF PostSend, gateVars
  <2>2. h \in Handler /\ h.packet = sending
    BY <1>1, <1>8 DEF PostSend, Handler
  <2> HIDE DEF h
  <2>3. Elements(strand') = Elements(strand) \cup {h}
    BY <1>1, <2>1, <2>2, AtAppend
  <2>4. QED
    BY <1>4, <1>5, <2>1, <2>2, <2>3
<1>9. CASE (ZoneStep /\ ~PostSend) \/ UNCHANGED vars
  <2>1. strand' = strand /\ sendQueue' = sendQueue /\ toGateway' = toGateway /\ sending' = sending
    BY <1>9 DEF ZoneStep, ReadyToSpawn, LoadDone, EnterZone, HandleGatewayLost, RunsJob, vars,
       linkVars,
       gateVars, zoneVars
  <2>2. QED
    BY <1>4, <1>5, <2>1
<1>10. ASSUME NEW s \in Sids, SendToClient(s)
       PROVE  \A p \in Sent' :
                \/ p \in Sent \/ p = Handshake
                \/ isConnected /\ \E t \in Sids : inside[t] \in Gens /\ p = Data(t, inside[t])
  <2>1. /\ strand' = strand /\ sendQueue' = sendQueue /\ toGateway' = toGateway
        /\ isConnected /\ inside[s] \in Gens /\ sending' = Data(s, inside[s])
    BY <1>1, <1>10 DEF SendToClient, linkVars, gateVars
  <2>2. QED
    BY <1>4, <1>5, <2>1
<1>11. CASE Gateway \/ GatewayCrashes \/ \E gen \in Gens : ClientReady(gen) \/ LinkBreaks(gen)
  <2>1. UNCHANGED linkVars /\ UNCHANGED zoneVars
    BY <1>11 DEF Gateway, GatewayReads, GatewayStarts, GatewayCrashes, ClientReady, LinkBreaks
  <2>2. strand' = strand /\ sendQueue' = sendQueue /\ sending' = sending
    BY <2>1 DEF linkVars, zoneVars
  <2>3. \/ toGateway'[c] = toGateway[c] \/ toGateway'[c] = <<>>
        \/ toGateway[c] # <<>> /\ toGateway'[c] = Tail(toGateway[c])
    <3>1. \A gens \in SUBSET Gens : CloseOrphans(gens) =>
            toGateway'[c] = toGateway[c] \/ toGateway'[c] = <<>>
      BY DEF CloseOrphans
    <3>2. Live \in SUBSET Gens
      BY DEF Live
    <3>3. ASSUME NEW gen \in Gens, GatewayReads(gen), ~CloseOrphans({gen})
          PROVE  \/ toGateway'[c] = toGateway[c]
                 \/ toGateway[c] # <<>> /\ toGateway'[c] = Tail(toGateway[c])
      BY <1>1, <3>3 DEF GatewayReads, GateTypes
    <3>4. \A gen \in Gens : {gen} \in SUBSET Gens
      OBVIOUS
    <3>5. CASE Gateway
      BY <3>1, <3>3, <3>4, <3>5 DEF Gateway, GatewayStarts
    <3>6. CASE GatewayCrashes
      BY <3>1, <3>2, <3>6 DEF GatewayCrashes
    <3>7. CASE \E gen \in Gens : ClientReady(gen) \/ LinkBreaks(gen)
      BY <3>1, <3>4, <3>7 DEF ClientReady, LinkBreaks
    <3>8. QED
      BY <1>11, <3>5, <3>6, <3>7
  <2>4. \A p \in Elements(toGateway'[c]) : p \in Elements(toGateway[c])
    <3>1. CASE toGateway'[c] = <<>>
      BY <3>1 DEF Elements
    <3>2. CASE toGateway[c] # <<>> /\ toGateway'[c] = Tail(toGateway[c])
      BY <1>3, <3>2, AtTail
    <3>3. QED
      BY <2>3, <3>1, <3>2
  <2>5. QED
    BY <1>4, <1>5, <2>2, <2>4
<1>12. QED
  BY <1>6, <1>7, <1>8, <1>9, <1>10, <1>11 DEF Next

\* A client the zone has not heard of comes with a READY.
LEMMA ClientsGrow ==
  ASSUME TypeOK, LinkInv, [Next]_vars
  PROVE  \A x \in Clients' :
           \/ x \in Clients
           \/ /\ HandleRead /\ ~Stale /\ Head(strand).ok
              /\ x[2] = connGen /\ (~isConnected => x \in late')
<1>1. /\ zoneJobs \in Seq(ZoneJob) /\ loads \subseteq Sids \X Gens
      /\ inside \in [Sids -> Gens \cup {Nothing}] /\ LinkTypes /\ GateTypes
  BY TypesSplit DEF ZoneTypes
<1>2. \A j \in Elements(zoneJobs) : j \in ZoneJob
  BY <1>1 DEF Elements
<1>3. \A j \in ZoneJob : j.kind \in {"ready", "answer"} => j.sid \in Sids /\ j.who \in Gens
  BY DEF ZoneJob
<1>4. \A j \in Elements(zoneJobs) : j.kind \in {"ready", "answer"} => <<j.sid, j.who>> \in Clients
  BY <1>2, <1>3 DEF Clients
<1>5. \A x \in loads : x \in Clients
  BY <1>1 DEF Clients
<1>6. \A x \in Sids \X Gens : inside[x[1]] = x[2] => x \in Clients
  BY DEF Clients
<1>7. ASSUME \A x \in loads' : x \in Clients,
             \A j \in Elements(zoneJobs') : j.kind \in {"ready", "answer"} => <<j.sid, j.who>> \in Clients,
             \A x \in Sids \X Gens : inside'[x[1]] = x[2] => x \in Clients
      PROVE  \A x \in Clients' : x \in Clients
  BY <1>7 DEF Clients
<1>8. CASE zoneJobs # <<>> /\ zoneJobs' = Tail(zoneJobs)
  <2>1. /\ Elements(zoneJobs) = Elements(zoneJobs') \cup {Head(zoneJobs)}
        /\ Head(zoneJobs) \in ZoneJob
    BY <1>1, <1>8, AtTail
  <2>2. \A j \in Elements(zoneJobs') : j.kind \in {"ready", "answer"} => <<j.sid, j.who>> \in Clients
    BY <1>4, <2>1
  <2>3. Head(zoneJobs).kind \in {"ready", "answer"} =>
          /\ <<Head(zoneJobs).sid, Head(zoneJobs).who>> \in Clients
          /\ Head(zoneJobs).sid \in Sids /\ Head(zoneJobs).who \in Gens
    BY <1>3, <1>4, <2>1
  <2>4. CASE ReadyToSpawn
    <3>1. loads' \subseteq loads \cup {<<Head(zoneJobs).sid, Head(zoneJobs).who>>} /\ inside' = inside
          /\ Head(zoneJobs).kind = "ready"
      BY <2>4 DEF ReadyToSpawn, RunsJob
    <3>2. QED
      BY <1>5, <1>6, <1>7, <2>2, <2>3, <3>1
  <2>5. CASE EnterZone
    <3>1. loads' = loads /\ Head(zoneJobs).kind = "answer"
          /\ inside' \in {inside, [inside EXCEPT ![Head(zoneJobs).sid] = Head(zoneJobs).who]}
      BY <2>5 DEF EnterZone, RunsJob
    <3>2. \A x \in Sids \X Gens : inside'[x[1]] = x[2] =>
            inside[x[1]] = x[2] \/ x = <<Head(zoneJobs).sid, Head(zoneJobs).who>>
      BY <1>1, <3>1
    <3>3. QED
      BY <1>5, <1>6, <1>7, <2>2, <2>3, <3>1, <3>2
  <2>6. CASE HandleGatewayLost
    <3>1. loads' = loads /\ inside' = [s \in Sids |-> Nothing]
      BY <2>6 DEF HandleGatewayLost
    <3>2. \A x \in Sids \X Gens : inside'[x[1]] # x[2]
      BY <3>1, GatewayLinkAssumption
    <3>3. QED
      BY <1>5, <1>7, <2>2, <3>1, <3>2
  <2>7. CASE loads' = loads /\ inside' = inside
    BY <1>5, <1>6, <1>7, <2>2, <2>7
  <2>8. CASE ~ReadyToSpawn /\ ~EnterZone /\ ~HandleGatewayLost /\ ~(loads' = loads /\ inside' = inside)
    <3>1. \E l \in loads : LoadDone(l)
      BY ZenonT(60), <2>8 DEF Next, vars, Operation, Strand, ZoneStep, Gateway, Completes,
         ResolveDone, ConnectDone,
         ReadDone, WriteDone, TimerExpires, HandleTimer, HandleResolve, HandleConnect, Greet, HandleSend,
         HandleWrite, HandleRead, PostSend, SendToClient, GatewayReads, GatewayStarts, GatewayCrashes,
         ClientReady, LinkBreaks, zoneVars
    <3>2. PICK l \in loads : zoneJobs' = Append(zoneJobs, [kind |-> "answer", sid |-> l[1], who |-> l[2]])
      BY <3>1 DEF LoadDone
    <3>3. [kind |-> "answer", sid |-> l[1], who |-> l[2]] \in ZoneJob
      BY <1>1, <3>2 DEF ZoneJob
    <3>4. Len(zoneJobs') = Len(zoneJobs) + 1
      BY <1>1, <3>2, <3>3
    <3>5. Len(zoneJobs') = Len(zoneJobs) - 1 /\ Len(zoneJobs) \in Nat
      BY <1>1, <1>8
    <3>6. QED
      BY <3>4, <3>5
  <2>9. QED
    BY <2>4, <2>5, <2>6, <2>7, <2>8
<1>9. ASSUME NEW l \in loads, LoadDone(l) PROVE \A x \in Clients' : x \in Clients
  <2> DEFINE j == [kind |-> "answer", sid |-> l[1], who |-> l[2]]
  <2>1. zoneJobs' = Append(zoneJobs, j) /\ loads' \subseteq loads /\ inside' = inside
    BY <1>9 DEF LoadDone
  <2>2. j \in ZoneJob /\ <<j.sid, j.who>> = l
    BY <1>1, <1>9 DEF ZoneJob
  <2> HIDE DEF j
  <2>3. Elements(zoneJobs') = Elements(zoneJobs) \cup {j}
    BY <1>1, <2>1, <2>2, AtAppend
  <2>4. QED
    BY <1>4, <1>5, <1>6, <1>7, <1>9, <2>1, <2>2, <2>3
<1>10. CASE HandleRead
  <2>1. loads' = loads /\ inside' = inside
    BY <1>10 DEF HandleRead
  <2>2. CASE zoneJobs' = zoneJobs
    BY <1>4, <1>5, <1>6, <1>7, <2>1, <2>2
  <2>3. CASE zoneJobs' = Append(zoneJobs, [kind |-> "clear"])
    <3>1. [kind |-> "clear"] \in ZoneJob
      BY DEF ZoneJob
    <3>2. Elements(zoneJobs') = Elements(zoneJobs) \cup {[kind |-> "clear"]}
      BY <1>1, <2>3, <3>1, AtAppend
    <3>3. QED
      BY <1>4, <1>5, <1>6, <1>7, <2>1, <3>2
  <2>4. CASE ~Stale /\ Head(strand).ok
    <3>1. PICK c \in Gens : c = connGen
      BY <1>1 DEF LinkTypes
    <3>2. toZone[c] # <<>> /\ toZone[c] \in Seq(Sids)
      BY <1>1, <1>10, <2>4, <3>1, HandleReadLink DEF GateTypes
    <3>3. PICK sid \in Sids : sid = Head(toZone[connGen])
      BY <3>1, <3>2
    <3> DEFINE j == [kind |-> "ready", sid |-> sid, who |-> c]
    <3>4. zoneJobs' = Append(zoneJobs, j) /\ (~isConnected => <<sid, c>> \in late')
      BY <1>10, <2>4, <3>1, <3>3 DEF HandleRead
    <3>5. j \in ZoneJob /\ <<j.sid, j.who>> = <<sid, c>>
      BY DEF ZoneJob
    <3> HIDE DEF j
    <3>6. Elements(zoneJobs') = Elements(zoneJobs) \cup {j}
      BY <1>1, <3>4, <3>5, AtAppend
    <3>7. \A x \in Clients' : x \in Clients \/ x = <<sid, c>>
      BY <1>4, <1>5, <1>6, <2>1, <3>5, <3>6 DEF Clients
    <3>8. QED
      BY <1>10, <2>4, <3>1, <3>4, <3>7
  <2>5. QED
    BY <1>10, <2>2, <2>3, <2>4 DEF HandleRead, OnDisconnected
<1>11. CASE HandleWrite
  <2>1. loads' = loads /\ inside' = inside
        /\ (zoneJobs' = zoneJobs \/ zoneJobs' = Append(zoneJobs, [kind |-> "clear"]))
    BY <1>11 DEF HandleWrite, OnDisconnected
  <2>2. CASE zoneJobs' = zoneJobs
    BY <1>4, <1>5, <1>6, <1>7, <2>1, <2>2
  <2>3. CASE zoneJobs' = Append(zoneJobs, [kind |-> "clear"])
    <3>1. [kind |-> "clear"] \in ZoneJob
      BY DEF ZoneJob
    <3>2. Elements(zoneJobs') = Elements(zoneJobs) \cup {[kind |-> "clear"]}
      BY <1>1, <2>3, <3>1, AtAppend
    <3>3. QED
      BY <1>4, <1>5, <1>6, <1>7, <2>1, <3>2
  <2>4. QED
    BY <2>1, <2>2, <2>3
<1>12. CASE zoneJobs' = zoneJobs /\ loads' = loads /\ inside' = inside
  BY <1>4, <1>5, <1>6, <1>7, <1>12
<1>13. \/ zoneJobs # <<>> /\ zoneJobs' = Tail(zoneJobs)
       \/ \E l \in loads : LoadDone(l)
       \/ HandleRead \/ HandleWrite
       \/ zoneJobs' = zoneJobs /\ loads' = loads /\ inside' = inside
  BY ZenonT(60) DEF Next, vars, Operation, Strand, ZoneStep, Gateway, Completes, ResolveDone,
     ConnectDone,
     ReadDone, WriteDone, TimerExpires, HandleTimer, HandleResolve, HandleConnect, Greet, HandleSend,
     ReadyToSpawn, EnterZone, HandleGatewayLost, RunsJob,
     PostSend, SendToClient, GatewayReads, GatewayStarts, GatewayCrashes,
     ClientReady, LinkBreaks, zoneVars
<1>14. QED
  BY <1>8, <1>9, <1>10, <1>11, <1>12, <1>13

-----------------------------------------------------------------------------
(***************************************************************************)
(* The zone forgets the clients of a lost connection before the next one   *)
(* is tried, but for the late ones.                                        *)
(***************************************************************************)

Clearing == \E j \in Elements(zoneJobs) : j.kind = "clear"
AllLate == ~Clearing /\ Clients \subseteq late

\* A retry is due, under way, or has not yet said hello.
Settled == \/ Expired \/ greeting
           \/ \E g \in Gens : g = connGen /\ (Attempting(g) \/ peer[g] = "greeting")

\* Every client and every packet is of the connection of today, or late.
OfNow ==
  \A c \in Gens : c = connGen =>
    /\ \A p \in Sent : p = Handshake \/ p.who = c \/ OfLate(p)
    /\ \A x \in Clients : x[2] = c \/ x \in late

\* No client enters the next connection, but the late ones.
Empty == Settled => /\ AllLate
                    /\ isConnected => \A p \in Sent : p = Handshake \/ OfLate(p)

\* While the link is down, a READY is cleared by what stands behind it in the queue
\* of jobs, or is late; once the zone is cleared, nobody comes back.
LateReady(g) == {j \in ZoneJob : j.kind = "ready" /\ j.who = g /\ <<j.sid, j.who>> \in late}
ClearedBehind(s, L) ==
  \A i \in DOMAIN s : s[i].kind = "ready" =>
    (s[i] \in L \/ \E k \in DOMAIN s : i < k /\ s[k].kind = "clear")
Enters(x) == x \in loads \/ \E j \in Elements(zoneJobs) : j.kind = "answer" /\ x = <<j.sid, j.who>>
ClearedOf(g) ==
  /\ ClearedBehind(zoneJobs, LateReady(g))
  /\ ~Clearing =>
       /\ \A s \in Sids : inside[s] # Nothing => <<s, inside[s]>> \in late
       /\ \A x \in Sids \X Gens : Enters(x) /\ x[1] \in spawnPending => x \in late
Emptying == ~isConnected => (AllLate \/ \A g \in Gens : g = connGen => ClearedOf(g))

LEMMA InitEmpty == Init => Empty /\ OfNow /\ Emptying
<1> SUFFICES ASSUME Init PROVE Empty /\ OfNow /\ Emptying
  OBVIOUS
<1>1. /\ strand = <<>> /\ sendQueue = <<>> /\ sending = Nothing /\ loads = {} /\ zoneJobs = <<>>
      /\ isConnected = FALSE
      /\ \A g \in Gens : toGateway[g] = <<>>
      /\ \A s \in Sids : inside[s] = Nothing
  BY DEF Init
<1>2. Sent = {} /\ Clients = {} /\ ~Clearing
  BY <1>1, GatewayLinkAssumption DEF Sent, Clients, Clearing, Elements
<1>3. QED
  BY <1>1, <1>2 DEF Empty, OfNow, Emptying, AllLate

LEMMA LateStays ==
  ASSUME [Next]_vars
  PROVE  late \subseteq late' /\ (~HandleRead => late' = late)
BY DEF Next, vars, Operation, Strand, ZoneStep, Gateway, Completes, ResolveDone, ConnectDone,
     ReadDone, WriteDone, TimerExpires, HandleTimer, HandleResolve, HandleConnect, Greet, HandleSend,
     HandleWrite, HandleRead, ReadyToSpawn, LoadDone, EnterZone, HandleGatewayLost, RunsJob,
     PostSend, SendToClient, GatewayReads, GatewayStarts, GatewayCrashes,
     ClientReady, LinkBreaks, zoneVars

\* The zones are told to clear by a loss, and by nothing else.
LEMMA LossTells ==
  ASSUME TypeOK, [Next]_vars
  PROVE  /\ Clearing' => (Clearing \/ (isConnected /\ ~isConnected'))
         /\ isConnected /\ ~isConnected' =>
              /\ zoneJobs' = Append(zoneJobs, [kind |-> "clear"]) /\ loads' = loads /\ inside' = inside
              /\ connGen' = connGen /\ ~Stale /\ ~Head(strand).ok /\ strand # <<>>
              /\ strand' = Tail(strand) /\ ops' = Started("timer", connGen)
              /\ Head(strand).kind \in {"read", "write"} /\ ~greeting
<1>1. zoneJobs \in Seq(ZoneJob) /\ loads \subseteq Sids \X Gens
  BY DEF TypeOK
<1>2. isConnected /\ ~isConnected' =>
        /\ zoneJobs' = Append(zoneJobs, [kind |-> "clear"]) /\ loads' = loads /\ inside' = inside
        /\ connGen' = connGen /\ ~Stale /\ ~Head(strand).ok /\ strand # <<>>
        /\ strand' = Tail(strand) /\ ops' = Started("timer", connGen)
        /\ Head(strand).kind \in {"read", "write"} /\ ~greeting
  BY DEF Next, vars, Operation, Strand, ZoneStep, Gateway, Completes, ResolveDone, ConnectDone,
     ReadDone, WriteDone, TimerExpires, HandleTimer, HandleResolve, HandleConnect, Greet, HandleSend,
     HandleWrite, HandleRead, OnDisconnected, Runs, ReadyToSpawn, LoadDone, EnterZone, HandleGatewayLost,
     PostSend, SendToClient, GatewayReads, GatewayStarts, GatewayCrashes,
     ClientReady, LinkBreaks, linkVars
<1>3. \/ zoneJobs' = zoneJobs
      \/ zoneJobs # <<>> /\ zoneJobs' = Tail(zoneJobs)
      \/ \E j \in ZoneJob : j.kind # "clear" /\ zoneJobs' = Append(zoneJobs, j)
      \/ isConnected /\ ~isConnected'
      \/ ~Stale /\ Head(strand).ok /\ HandleRead
  <2>1. ASSUME NEW l \in loads, LoadDone(l)
        PROVE  \E j \in ZoneJob : j.kind # "clear" /\ zoneJobs' = Append(zoneJobs, j)
    <3>1. [kind |-> "answer", sid |-> l[1], who |-> l[2]] \in ZoneJob
      BY <1>1, <2>1 DEF ZoneJob
    <3>2. QED
      BY <2>1, <3>1 DEF LoadDone
  <2>2. QED
    BY ZenonT(60), <2>1 DEF Next, vars, Operation, Strand, ZoneStep, Gateway, Completes,
       ResolveDone, ConnectDone,
     ReadDone, WriteDone, TimerExpires, HandleTimer, HandleResolve, HandleConnect, Greet, HandleSend,
     HandleWrite, HandleRead, OnDisconnected, ReadyToSpawn, EnterZone, HandleGatewayLost, RunsJob,
     PostSend, SendToClient, GatewayReads, GatewayStarts, GatewayCrashes,
     ClientReady, LinkBreaks, zoneVars
<1>4. CASE zoneJobs # <<>> /\ zoneJobs' = Tail(zoneJobs)
  <2>1. Elements(zoneJobs) = Elements(Tail(zoneJobs)) \cup {Head(zoneJobs)}
    BY <1>1, <1>4, AtTail
  <2>2. QED
    BY <1>2, <1>4, <2>1 DEF Clearing
<1>5. ASSUME NEW j \in ZoneJob, j.kind # "clear", zoneJobs' = Append(zoneJobs, j)
      PROVE  Clearing' => Clearing
  <2>1. Elements(Append(zoneJobs, j)) = Elements(zoneJobs) \cup {j}
    BY <1>1, AtAppend
  <2>2. QED
    BY <1>5, <2>1 DEF Clearing
<1>6. CASE ~Stale /\ Head(strand).ok /\ HandleRead
  <2>1. zoneJobs' = Append(zoneJobs, [kind |-> "ready", sid |-> Head(toZone[connGen]), who |-> connGen])
    BY <1>6 DEF HandleRead
  <2>2. Elements(zoneJobs') \subseteq
          Elements(zoneJobs) \cup {[kind |-> "ready", sid |-> Head(toZone[connGen]), who |-> connGen]}
    <3>1. PICK j : j = [kind |-> "ready", sid |-> Head(toZone[connGen]), who |-> connGen]
      OBVIOUS
    <3>2. /\ Len(zoneJobs) \in Nat /\ DOMAIN zoneJobs = 1..Len(zoneJobs)
          /\ DOMAIN Append(zoneJobs, j) = 1..(Len(zoneJobs) + 1)
          /\ \A i \in 1..Len(zoneJobs) : Append(zoneJobs, j)[i] = zoneJobs[i]
          /\ Append(zoneJobs, j)[Len(zoneJobs) + 1] = j
      BY <1>1
    <3>3. \A i \in 1..(Len(zoneJobs) + 1) : i = Len(zoneJobs) + 1 \/ i \in 1..Len(zoneJobs)
      BY <3>2
    <3>4. QED
      BY <2>1, <3>1, <3>2, <3>3 DEF Elements
  <2>3. QED
    BY <1>2, <2>2 DEF Clearing
<1>7. QED
  BY <1>2, <1>3, <1>4, <1>5, <1>6 DEF Clearing

LEMMA LossWaits ==
  ASSUME TypeOK, LinkInv, [Next]_vars, isConnected, ~isConnected', NEW c \in Gens, c = connGen
  PROVE  ~Attempting(c)' /\ connGen' = connGen
<1>1. LinkTypes
  BY TypesSplit
<1>2. /\ connGen' = connGen /\ ~Stale /\ ~Head(strand).ok /\ strand # <<>>
      /\ strand' = Tail(strand) /\ ops' = Started("timer", connGen)
      /\ Head(strand).kind \in {"read", "write"} /\ ~greeting
  BY LossTells
<1>3. PICK k0 \in OpKind : k0 = Head(strand).kind /\ k0 # "timer"
  BY <1>2 DEF OpKind
<1>4. Runs(k0)
  BY <1>2, <1>3 DEF Runs
<1>5. PICK t \in OpKind : t = "timer"
  BY DEF OpKind
<1>6. ops' = Started(t, connGen) /\ ~(t = k0 /\ c = Head(strand).gen)
  BY <1>2, <1>3, <1>5
<1>7. Waiting(t, c) \in Nat /\ Waiting(t, c)' = Waiting(t, c) + 1
  BY <1>1, <1>2, <1>4, <1>6, RanStarts
<1>8. QED
  BY <1>2, <1>5, <1>7 DEF Attempting

\* Late clients stay the only ones while no READY comes over a live connection and
\* nothing is lost.
LEMMA AllLateKept ==
  ASSUME TypeOK, LinkInv, [Next]_vars, AllLate, isConnected => isConnected',
         HandleRead /\ ~Stale /\ Head(strand).ok => ~isConnected
  PROVE  AllLate'
<1>1. ~Clearing'
  BY LossTells DEF AllLate
<1>2. \A x \in Clients' : x \in Clients \/ x \in late'
  BY ClientsGrow
<1>3. QED
  BY <1>1, <1>2, LateStays DEF AllLate

LEMMA TimerRuns ==
  ASSUME TypeOK, LinkInv, SendersDone, HandleTimer
  PROVE  Expired /\ Settled /\ ~isConnected /\ isConnected' = isConnected
         /\ strand # <<>> /\ strand' = Tail(strand) /\ Head(strand).kind = "timer"
<1>1. LinkTypes
  BY TypesSplit
<1>2. /\ strand # <<>> /\ strand' = Tail(strand) /\ Head(strand).kind = "timer"
      /\ isConnected' = isConnected
  BY DEF HandleTimer, Runs
<1>3. Expired
  BY <1>1, <1>2, RanBefore DEF Expired
<1>4. QED
  BY <1>1, <1>2, <1>3, ExpiredIsDown DEF Settled

\* With a retry or a greeting in hand, no READY comes over a live connection, and
\* nothing is lost.
LEMMA SettledIsQuiet ==
  ASSUME TypeOK, LinkInv, SendersDone, Ends, [Next]_vars, Settled
  PROVE  /\ isConnected => isConnected'
         /\ HandleRead /\ ~Stale /\ Head(strand).ok => ~isConnected
<1>1. LinkTypes /\ GateTypes
  BY TypesSplit
<1>2. PICK c \in Gens : c = connGen
  BY <1>1 DEF LinkTypes
<1>3. isConnected /\ ~greeting => peer[c] = "greeting" /\ EndsOf(c)
  BY <1>1, <1>2, ExpiredIsDown DEF Settled, Attempting, Ends
<1>4. ASSUME isConnected, ~isConnected' PROVE FALSE
  <2>1. /\ ~Stale /\ ~Head(strand).ok /\ strand # <<>> /\ strand' = Tail(strand)
        /\ Head(strand).kind \in {"read", "write"} /\ ~greeting
    BY <1>4, LossTells
  <2>2. Head(strand) \in Elements(strand) /\ Head(strand).gen = c
    BY <1>1, <1>2, <2>1, RanBefore DEF Stale
  <2>3. QED
    BY <1>3, <1>4, <2>1, <2>2 DEF EndsOf
<1>5. ASSUME isConnected, HandleRead, ~Stale, Head(strand).ok PROVE FALSE
  <2>1. toZone[c] # <<>> /\ ~greeting
    BY <1>1, <1>2, <1>5, HandleReadLink DEF GateTypes, HandleRead, Runs
  <2>2. QED
    BY <1>3, <1>5, <2>1 DEF Ends
<1>6. QED
  BY <1>4, <1>5

\* A connection that is made finds no packet on its way.
LEMMA NothingSentBefore ==
  ASSUME TypeOK, LinkInv, SendersDone, Ends, NEW c \in Gens, c = connGen, Attempting(c)
  PROVE  Sent = {}
<1>1. LinkTypes
  BY TypesSplit
<1>2. sending = Nothing /\ sendQueue = <<>> /\ ~Posted
  BY <1>1, AttemptIsIdle
<1>3. toGateway[c] = <<>>
  BY DEF Ends, EndsOf, Attempting
<1>4. Nothing \notin Packet
  BY GatewayLinkAssumption
<1>5. QED
  BY <1>2, <1>3, <1>4 DEF Sent, Posted, Elements

\* The flag goes up at the end of an attempt.
LEMMA RisesFromAttempt ==
  ASSUME TypeOK, LinkInv, [Next]_vars, (~isConnected /\ isConnected') \/ (~greeting /\ greeting'),
         NEW c \in Gens, c = connGen
  PROVE  Attempting(c) /\ connGen' = connGen
<1>1. LinkTypes
  BY TypesSplit
<1>2. HandleConnect /\ ~Stale /\ Head(strand).ok
  <2>1. CASE HandleConnect
    <3>1. CASE ~Stale /\ Head(strand).ok
      BY <2>1, <3>1
    <3>2. CASE ~(~Stale /\ Head(strand).ok)
      <4>1. (isConnected' => isConnected) /\ ~greeting'
        BY <2>1, <3>2 DEF HandleConnect
      <4>2. QED
        BY <4>1
    <3>3. QED
      BY <3>1, <3>2
  <2>2. CASE ~HandleConnect
    <3>1. (isConnected' = isConnected \/ isConnected' = FALSE)
          /\ (greeting' = greeting \/ greeting' = FALSE)
      BY <2>2 DEF Next, vars, Operation, Strand, ZoneStep, Gateway, Completes, ResolveDone,
         ConnectDone,
         ReadDone, WriteDone, TimerExpires, HandleTimer, HandleResolve, Greet, HandleSend,
         HandleWrite, HandleRead, OnDisconnected, ReadyToSpawn, LoadDone, EnterZone, HandleGatewayLost,
         PostSend, SendToClient, GatewayReads, GatewayStarts, GatewayCrashes,
         ClientReady, LinkBreaks, linkVars
    <3>2. QED
      BY <3>1
  <2>3. QED
    BY <2>1, <2>2
<1>3. strand # <<>> /\ Head(strand).kind = "connect" /\ Head(strand).gen = c
  BY <1>2 DEF HandleConnect, Runs, Stale
<1>4. Elements(strand) = Elements(Tail(strand)) \cup {Head(strand)}
  BY <1>1, <1>3, AtTail DEF LinkTypes
<1>5. OkConnect(c)
  BY <1>2, <1>3, <1>4 DEF OkConnect
<1>6. QED
  BY <1>1, <1>2, <1>5, ConnectAttempts DEF HandleConnect

\* A retry becomes due when its timer expires, and in no other way.
LEMMA SettledFrom ==
  ASSUME TypeOK, TypeOK', LinkInv, SendersDone, Ends, [Next]_vars, Settled'
  PROVE  Settled \/ \E gen \in Gens : TimerExpires(gen)
<1>1. LinkTypes /\ GateTypes /\ sending \in Packet \cup {Nothing} /\ strand \in Seq(Handler)
  BY TypesSplit DEF ZoneTypes, LinkTypes
<1>2. CASE HandleTimer
  BY <1>2, TimerRuns
<1>3. CASE connGen' = connGen
  <2>1. PICK c \in Gens : c = connGen
    BY <1>1 DEF LinkTypes
  <2>2. CASE Expired' /\ ~Expired
    <3>1. CASE Operation
      <4>1. PICK gen \in Gens, ok \in BOOLEAN, k \in OpKind :
              Completes(k, gen, ok) /\ (k = "timer" => TimerExpires(gen))
        <5>1. {"resolve", "connect", "read", "write", "timer"} \subseteq OpKind
          BY DEF OpKind
        <5>2. QED
          BY <3>1, <5>1 DEF Operation, ResolveDone, ConnectDone, ReadDone, WriteDone,
             TimerExpires
      <4>2. Elements(strand') = Elements(strand) \cup {[kind |-> k, gen |-> gen, ok |-> ok]}
        BY <1>1, <4>1, Completed DEF LinkTypes
      <4>3. k = "timer"
        BY <2>2, <4>2 DEF Expired
      <4>4. QED
        BY <4>1, <4>3
    <3>2. CASE ~Operation
      <4>1. \/ strand' = strand
            \/ strand # <<>> /\ strand' = Tail(strand)
            \/ \E p \in Packet : strand' = Append(strand, [kind |-> "send", packet |-> p])
        <5>1. Handshake \in Packet
          BY DEF Packet
        <5>2. PostSend => sending \in Packet
          BY <1>1 DEF PostSend
        <5>3. QED
          BY <3>2, <5>1, <5>2 DEF Next, vars, Strand, ZoneStep, Gateway, HandleTimer,
             HandleResolve, HandleConnect,
             Greet, HandleSend, HandleWrite, HandleRead, Runs, ReadyToSpawn, LoadDone, EnterZone,
             HandleGatewayLost, PostSend, SendToClient, GatewayReads, GatewayStarts, GatewayCrashes,
             ClientReady, LinkBreaks, linkVars
      <4>2. CASE strand' = strand
        BY <2>2, <4>2 DEF Expired
      <4>3. CASE strand # <<>> /\ strand' = Tail(strand)
        BY <1>1, <2>2, <4>3, AtTail DEF Expired
      <4>4. ASSUME NEW p \in Packet, strand' = Append(strand, [kind |-> "send", packet |-> p])
            PROVE  FALSE
        <5>1. PICK h \in Handler : h = [kind |-> "send", packet |-> p]
          BY DEF Handler
        <5>2. Elements(Append(strand, h)) = Elements(strand) \cup {h}
          BY <1>1, AtAppend
        <5>3. QED
          BY <2>2, <4>4, <5>1, <5>2 DEF Expired
      <4>5. QED
        BY <4>1, <4>2, <4>3, <4>4
    <3>3. QED
      BY <3>1, <3>2
  <2>3. CASE greeting' /\ ~greeting
    BY <2>1, <2>3, RisesFromAttempt DEF Settled
  <2>4. CASE Attempting(c)' /\ ~Attempting(c)
    <3>1. Waiting("timer", c) = 0 /\ ~isConnected'
      BY <1>1, <1>3, <2>1, <2>4, TimerStays DEF Attempting
    <3>2. isConnected
      BY <2>4, <3>1 DEF Attempting
    <3>3. QED
      BY <2>1, <2>4, <3>1, <3>2, LossWaits
  <2>5. CASE peer'[c] = "greeting" /\ peer[c] # "greeting"
    <3>1. \A gens \in SUBSET Gens : CloseOrphans(gens) => peer'[c] \in {"gone", peer[c]}
      BY DEF CloseOrphans
    <3>2. PICK ok \in BOOLEAN, gen \in Gens : ConnectDone(gen, ok) /\ ok
      <4>1. Live \in SUBSET Gens /\ \A g \in Gens : {g} \in SUBSET Gens
        BY DEF Live
      <4>2. ~Gateway /\ ~GatewayCrashes /\ ~\E g \in Gens : ClientReady(g) \/ LinkBreaks(g)
        <5>1. ASSUME NEW g \in Gens, GatewayReads(g), ~CloseOrphans({g}) PROVE FALSE
          <6>1. peer' = [peer EXCEPT ![g] = "serving"]
            BY <5>1 DEF GatewayReads
          <6>2. QED
            BY <1>1, <2>5, <6>1 DEF GateTypes
        <5>2. QED
          BY <2>5, <3>1, <4>1, <5>1 DEF Gateway, GatewayStarts, GatewayCrashes, ClientReady,
             LinkBreaks
      <4>3. Operation
        BY <2>5, <4>2 DEF Next, vars, Strand, ZoneStep, HandleTimer, HandleResolve,
           HandleConnect,
           Greet, HandleSend, HandleWrite, HandleRead, ReadyToSpawn, LoadDone, EnterZone,
           HandleGatewayLost, PostSend, SendToClient, gateVars
      <4>4. QED
        BY <2>5, <4>3 DEF Operation, ResolveDone, ConnectDone, ReadDone, WriteDone, TimerExpires
    <3>3. gen = c /\ ops[<<"connect", c>>] > 0
      BY <2>1, <3>2 DEF ConnectDone, Completes
    <3>4. Attempting(c)
      BY <1>1, <2>1, <3>3, ConnectAttempts
    <3>5. QED
      BY <2>1, <3>4 DEF Settled
  <2>6. QED
    BY <1>3, <2>1, <2>2, <2>3, <2>4, <2>5 DEF Settled
<1>4. CASE ~HandleTimer /\ connGen' # connGen
  BY <1>4 DEF Next, vars, Operation, Strand, ZoneStep, Gateway, Completes, ResolveDone,
     ConnectDone,
     ReadDone, WriteDone, TimerExpires, HandleResolve, HandleConnect, Greet, HandleSend,
     HandleWrite, HandleRead, ReadyToSpawn, LoadDone, EnterZone, HandleGatewayLost,
     PostSend, SendToClient, GatewayReads, GatewayStarts, GatewayCrashes,
     ClientReady, LinkBreaks, linkVars
<1>5. QED
  BY <1>2, <1>3, <1>4

LEMMA EmptyStep ==
  ASSUME SendersFinish = TRUE, LoadsFinish = TRUE,
         TypeOK, TypeOK', LinkInv, SendersDone, Ends, Empty, Emptying, [Next]_vars
  PROVE  Empty'
<1>1. CASE Settled
  <2>1. /\ isConnected => isConnected'
        /\ HandleRead /\ ~Stale /\ Head(strand).ok => ~isConnected
    BY <1>1, SettledIsQuiet
  <2>2. AllLate /\ (isConnected => \A p \in Sent : p = Handshake \/ OfLate(p))
    BY <1>1 DEF Empty
  <2>3. AllLate'
    BY <2>1, <2>2, AllLateKept
  <2>4. ASSUME isConnected', NEW p \in Sent' PROVE p = Handshake \/ OfLate(p)'
    <3>1. PICK c \in Gens : c = connGen
      BY DEF TypeOK
    <3>2. connGen' = connGen
      <4>1. ~HandleTimer \/ (~isConnected /\ ~isConnected')
        BY TimerRuns
      <4>2. CASE ~HandleTimer
        BY <4>2 DEF Next, vars, Operation, Strand, ZoneStep, Gateway, Completes, ResolveDone,
           ConnectDone,
           ReadDone, WriteDone, TimerExpires, HandleResolve, HandleConnect, Greet, HandleSend,
           HandleWrite, HandleRead, ReadyToSpawn, LoadDone, EnterZone, HandleGatewayLost,
           PostSend, SendToClient, GatewayReads, GatewayStarts, GatewayCrashes,
           ClientReady, LinkBreaks, linkVars
      <4>3. QED
        BY <2>4, <4>1, <4>2
    <3>3. \/ p \in Sent \/ p = Handshake
          \/ isConnected /\ \E s \in Sids : inside[s] \in Gens /\ p = Data(s, inside[s])
      BY <2>4, <3>2, SentGrows
    <3>4. CASE ~isConnected
      <4>1. Attempting(c)
        BY <2>4, <3>1, <3>4, RisesFromAttempt
      <4>2. Sent = {}
        BY <3>1, <4>1, NothingSentBefore
      <4>3. QED
        BY <3>3, <3>4, <4>2
    <3>5. CASE isConnected
      <4>1. ASSUME NEW s \in Sids, inside[s] \in Gens, p = Data(s, inside[s]) PROVE OfLate(p)
        <5>1. <<s, inside[s]>> \in Clients
          BY <4>1 DEF Clients
        <5>2. <<s, inside[s]>> \in late
          BY <2>2, <5>1 DEF AllLate
        <5>3. QED
          BY <4>1, <5>2 DEF OfLate, Data, Handshake
      <4>2. p = Handshake \/ OfLate(p)
        BY <2>2, <3>3, <3>5, <4>1
      <4>3. QED
        BY <4>2, LateStays DEF OfLate
    <3>6. QED
      BY <3>4, <3>5
  <2>5. QED
    BY <2>3, <2>4 DEF Empty
<1>2. ASSUME NEW gen \in Gens, TimerExpires(gen) PROVE Empty'
  <2>1. sending = Nothing /\ zoneJobs = <<>> /\ loads = {} /\ UNCHANGED zoneVars
        /\ isConnected' = isConnected
    BY <1>2 DEF TimerExpires, DelayCovers, Completes
  <2>2. PICK t \in OpKind : t = "timer"
    BY DEF OpKind
  <2>3. Waiting(t, gen) \in Nat /\ Waiting(t, gen) >= 1
    <3>1. strand \in Seq(Handler) /\ ops \in OpsType
      BY DEF TypeOK, OpsType
    <3>2. PICK ok \in BOOLEAN : ok = TRUE
      OBVIOUS
    <3>3. Completes(t, gen, ok)
      BY <1>2, <2>2, <3>2 DEF TimerExpires
    <3>4. QED
      BY <3>1, <3>3, Completed
  <2>4. ~isConnected
    <3>1. gen = connGen
      BY <2>2, <2>3 DEF LinkInv, OtherGens
    <3>2. strand \in Seq(Handler) /\ ops \in OpsType
      BY DEF TypeOK, OpsType
    <3>3. Waiting("timer", gen) \in Nat \ {0} /\ Waiting("resolve", gen) \in Nat
          /\ Waiting("connect", gen) \in Nat
      <4>1. Waiting("timer", gen) \in Nat \ {0}
        <5>1. Waiting(t, gen) \in Nat \ {0}
          BY <2>3
        <5>2. QED
          BY <2>2, <5>1
      <4>2. PICK k \in OpKind : k = "resolve"
        BY DEF OpKind
      <4>3. PICK m \in OpKind : m = "connect"
        BY DEF OpKind
      <4>4. Waiting(k, gen) \in Nat /\ Waiting(m, gen) \in Nat
        BY <3>2, WaitingType
      <4>5. QED
        BY <4>1, <4>2, <4>3, <4>4
    <3>4. QED
      BY <3>1, <3>3 DEF LinkInv, Driven
  <2>5. ~Clearing
    BY <2>1 DEF Clearing, Elements
  <2>6. \A s \in Sids : inside[s] # Nothing => <<s, inside[s]>> \in late
    <3>1. CASE AllLate
      <4>1. \A s \in Sids : inside[s] # Nothing => <<s, inside[s]>> \in Clients
        BY DEF Clients, TypeOK
      <4>2. QED
        BY <3>1, <4>1 DEF AllLate
    <3>2. CASE ~AllLate
      <4>1. PICK c \in Gens : c = connGen
        BY DEF TypeOK
      <4>2. ClearedOf(c)
        BY <2>4, <3>2, <4>1 DEF Emptying
      <4>3. QED
        BY <2>5, <4>2 DEF ClearedOf
    <3>3. QED
      BY <3>1, <3>2
  <2>7. \A x \in Clients : x \in late
    <3>1. \A x \in Clients : x \in Sids \X Gens /\ inside[x[1]] = x[2]
      BY <2>1 DEF Clients, Elements
    <3>2. Nothing \notin Gens
      BY GatewayLinkAssumption
    <3>3. QED
      BY <2>6, <3>1, <3>2
  <2>8. AllLate /\ ~isConnected'
    BY <2>1, <2>4, <2>5, <2>7 DEF AllLate
  <2>9. AllLate'
    BY <2>1, <2>8 DEF AllLate, Clearing, Clients, zoneVars
  <2>10. QED
    BY <2>8, <2>9 DEF Empty
<1>3. QED
  BY <1>1, <1>2, SettledFrom DEF Empty

LEMMA OfNowStep ==
  ASSUME TypeOK, TypeOK', LinkInv, SendersDone, Ends, Empty, OfNow, [Next]_vars
  PROVE  OfNow'
<1>1. PICK c \in Gens : c = connGen
  BY DEF TypeOK
<1>2. PICK d \in Gens : d = connGen'
  BY DEF TypeOK
<1>3. CASE HandleTimer
  <2>1. Expired /\ Settled /\ strand # <<>> /\ strand' = Tail(strand) /\ Head(strand).kind = "timer"
        /\ ~isConnected
    BY <1>3, TimerRuns
  <2>2. \A x \in Clients : x \in late
    BY <2>1 DEF Empty, AllLate
  <2>3. UNCHANGED zoneVars /\ sendQueue' = <<>> /\ toGateway' = toGateway /\ d = c + 1
    BY <1>1, <1>2, <1>3 DEF HandleTimer, gateVars
  <2>4. Clients' = Clients /\ late' = late /\ sending' = sending
    BY <2>3 DEF Clients, zoneVars
  <2>5. Sent' = {}
    <3>1. sending = Nothing /\ ~Posted'
      BY <2>1, TypesSplit, RanBefore DEF SendersDone
    <3>2. toGateway[d] = <<>>
      <4>1. d > c
        BY <2>3 DEF Gens
      <4>2. peer[d] = "none"
        BY <1>1, <4>1 DEF Ends, EndsOf
      <4>3. QED
        BY <4>2 DEF Ends
    <3>3. Nothing \notin Packet
      BY GatewayLinkAssumption
    <3>4. QED
      BY <1>2, <2>3, <2>4, <3>1, <3>2, <3>3 DEF Sent, Posted, Elements
  <2>6. QED
    BY <2>2, <2>4, <2>5 DEF OfNow
<1>4. CASE ~HandleTimer
  <2>1. connGen' = connGen
    BY <1>4 DEF Next, vars, Operation, Strand, ZoneStep, Gateway, Completes, ResolveDone,
       ConnectDone,
       ReadDone, WriteDone, TimerExpires, HandleResolve, HandleConnect, Greet, HandleSend,
       HandleWrite, HandleRead, ReadyToSpawn, LoadDone, EnterZone, HandleGatewayLost,
       PostSend, SendToClient, GatewayReads, GatewayStarts, GatewayCrashes,
       ClientReady, LinkBreaks, linkVars
  <2>2. \A x \in Clients' : x[2] = c \/ x \in late'
    BY <1>1, ClientsGrow, LateStays DEF OfNow
  <2>3. ASSUME NEW p \in Sent' PROVE p = Handshake \/ p.who = c \/ OfLate(p)'
    <3>1. \/ p \in Sent \/ p = Handshake
          \/ \E s \in Sids : inside[s] \in Gens /\ p = Data(s, inside[s])
      BY <2>1, <2>3, SentGrows
    <3>2. ASSUME NEW s \in Sids, inside[s] \in Gens, p = Data(s, inside[s])
          PROVE  p.who = c \/ OfLate(p)
      <4>1. <<s, inside[s]>> \in Clients
        BY <3>2 DEF Clients
      <4>2. inside[s] = c \/ <<s, inside[s]>> \in late
        BY <1>1, <4>1 DEF OfNow
      <4>3. QED
        BY <3>2, <4>2 DEF OfLate, Data, Handshake
    <3>3. p = Handshake \/ p.who = c \/ OfLate(p)
      BY <1>1, <3>1, <3>2 DEF OfNow
    <3>4. QED
      BY <3>3, LateStays DEF OfLate
  <2>4. QED
    BY <1>1, <2>1, <2>2, <2>3 DEF OfNow
<1>5. QED
  BY <1>3, <1>4

LEMMA ClearedAppend ==
  ASSUME NEW s \in Seq(ZoneJob), NEW j \in ZoneJob, NEW L,
         j.kind = "clear" \/ (ClearedBehind(s, L) /\ (j.kind = "ready" => j \in L))
  PROVE  ClearedBehind(Append(s, j), L)
<1>1. /\ Len(s) \in Nat /\ DOMAIN s = 1..Len(s)
      /\ DOMAIN Append(s, j) = 1..(Len(s) + 1)
      /\ \A i \in 1..Len(s) : Append(s, j)[i] = s[i] /\ i \in 1..(Len(s) + 1) /\ i < Len(s) + 1
      /\ Append(s, j)[Len(s) + 1] = j /\ Len(s) + 1 \in 1..(Len(s) + 1)
      /\ \A i \in 1..(Len(s) + 1) : i = Len(s) + 1 \/ i \in 1..Len(s)
  OBVIOUS
<1>2. SUFFICES ASSUME NEW i \in 1..(Len(s) + 1), Append(s, j)[i].kind = "ready", Append(s, j)[i] \notin L
               PROVE  \E k \in 1..(Len(s) + 1) : i < k /\ Append(s, j)[k].kind = "clear"
  BY <1>1 DEF ClearedBehind
<1>3. CASE j.kind = "clear"
  <2>1. i \in 1..Len(s)
    BY <1>1, <1>2, <1>3
  <2>2. QED
    BY <1>1, <1>3, <2>1
<1>4. CASE ClearedBehind(s, L) /\ (j.kind = "ready" => j \in L)
  <2>1. i \in 1..Len(s) /\ s[i].kind = "ready" /\ s[i] \notin L
    BY <1>1, <1>2, <1>4
  <2>2. PICK k \in 1..Len(s) : i < k /\ s[k].kind = "clear"
    BY <1>1, <1>4, <2>1 DEF ClearedBehind
  <2>3. QED
    BY <1>1, <2>2
<1>5. QED
  BY <1>3, <1>4

LEMMA ClearedTail ==
  ASSUME NEW s \in Seq(ZoneJob), s # <<>>, NEW L, ClearedBehind(s, L)
  PROVE  /\ ClearedBehind(Tail(s), L)
         /\ Head(s).kind = "ready" /\ Head(s) \notin L => \E x \in Elements(Tail(s)) : x.kind = "clear"
<1> DEFINE r == Tail(s)
<1>1. /\ Len(s) \in Nat \ {0} /\ DOMAIN s = 1..Len(s) /\ Head(s) = s[1]
      /\ DOMAIN r = 1..(Len(s) - 1)
      /\ \A i \in 1..(Len(s) - 1) : r[i] = s[i + 1] /\ i + 1 \in 1..Len(s)
      /\ 1 \in 1..Len(s)
  OBVIOUS
<1> HIDE DEF r
<1>2. ASSUME NEW i \in 1..Len(s), NEW k \in 1..Len(s), i < k
      PROVE  k - 1 \in 1..(Len(s) - 1) /\ r[k - 1] = s[k] /\ i - 1 < k - 1
  <2>1. k - 1 \in 1..(Len(s) - 1) /\ (k - 1) + 1 = k /\ i - 1 < k - 1
    BY <1>1, <1>2
  <2>2. r[k - 1] = s[(k - 1) + 1]
    BY <1>1, <2>1
  <2>3. QED
    BY <2>1, <2>2
<1>3. ClearedBehind(r, L)
  <2>1. SUFFICES ASSUME NEW i \in 1..(Len(s) - 1), r[i].kind = "ready", r[i] \notin L
                 PROVE  \E k \in 1..(Len(s) - 1) : i < k /\ r[k].kind = "clear"
    BY <1>1 DEF ClearedBehind
  <2>2. i + 1 \in 1..Len(s) /\ s[i + 1].kind = "ready" /\ s[i + 1] \notin L
    BY <1>1, <2>1
  <2>3. PICK k \in 1..Len(s) : i + 1 < k /\ s[k].kind = "clear"
    BY <1>1, <2>2 DEF ClearedBehind
  <2>4. k - 1 \in 1..(Len(s) - 1) /\ r[k - 1] = s[k] /\ (i + 1) - 1 < k - 1
    BY <1>2, <2>2, <2>3
  <2>5. i < k - 1
    BY <2>1, <2>4
  <2>6. QED
    BY <2>3, <2>4, <2>5
<1>4. ASSUME Head(s).kind = "ready", Head(s) \notin L PROVE \E x \in Elements(r) : x.kind = "clear"
  <2>1. PICK k \in 1..Len(s) : 1 < k /\ s[k].kind = "clear"
    BY <1>1, <1>4 DEF ClearedBehind
  <2>2. k - 1 \in 1..(Len(s) - 1) /\ r[k - 1] = s[k]
    BY <1>1, <1>2, <2>1
  <2>3. QED
    BY <1>1, <2>1, <2>2 DEF Elements
<1>5. QED
  BY <1>3, <1>4 DEF r

LEMMA EmptyingStep ==
  ASSUME TypeOK, LinkInv, SendersDone, Ends, Empty, OfNow, Emptying, [Next]_vars
  PROVE  Emptying'
<1>1. PICK c \in Gens : c = connGen
  BY DEF TypeOK
<1>2. /\ zoneJobs \in Seq(ZoneJob) /\ loads \subseteq Sids \X Gens /\ spawnPending \subseteq Sids
      /\ inside \in [Sids -> Gens \cup {Nothing}] /\ isConnected \in BOOLEAN
  BY DEF TypeOK
<1>3. SUFFICES ASSUME ~isConnected', ~AllLate' PROVE \A g \in Gens : g = connGen' => ClearedOf(g)'
  BY DEF Emptying
<1>4. CASE isConnected
  <2>1. zoneJobs' = Append(zoneJobs, [kind |-> "clear"]) /\ connGen' = connGen
    BY <1>3, <1>4, LossTells
  <2>2. PICK j \in ZoneJob : j = [kind |-> "clear"]
    BY DEF ZoneJob
  <2>3. Clearing'
    <3>1. Elements(Append(zoneJobs, j)) = Elements(zoneJobs) \cup {j}
      BY <1>2, AtAppend
    <3>2. QED
      BY <2>1, <2>2, <3>1 DEF Clearing
  <2>4. \A L : ClearedBehind(zoneJobs', L)
    BY <1>2, <2>1, <2>2, ClearedAppend
  <2>5. ClearedOf(c)'
    BY <2>3, <2>4 DEF ClearedOf
  <2>6. QED
    BY <1>1, <2>1, <2>5
<1>5. CASE ~isConnected
  <2>1. ~AllLate
    BY <1>3, <1>5, AllLateKept
  <2>2. ClearedOf(c) /\ ~Settled
    BY <1>1, <1>5, <2>1 DEF Emptying, Empty
  <2>3. ~HandleTimer
    BY <2>2, TimerRuns
  <2>4. connGen' = connGen
    BY <2>3 DEF Next, vars, Operation, Strand, ZoneStep, Gateway, Completes, ResolveDone,
       ConnectDone,
       ReadDone, WriteDone, TimerExpires, HandleResolve, HandleConnect, Greet, HandleSend,
       HandleWrite, HandleRead, ReadyToSpawn, LoadDone, EnterZone, HandleGatewayLost,
       PostSend, SendToClient, GatewayReads, GatewayStarts, GatewayCrashes,
       ClientReady, LinkBreaks, linkVars
  <2>5. \A j \in LateReady(c) : j \in LateReady(c)'
    BY LateStays DEF LateReady
  <2>6. \A L, M : \A s : ClearedBehind(s, L) /\ L \subseteq M => ClearedBehind(s, M)
    BY DEF ClearedBehind
  <2>7. ClearedBehind(zoneJobs, LateReady(c)')
    BY <2>2, <2>5, <2>6 DEF ClearedOf
  <2>8. ASSUME NEW l \in loads, LoadDone(l) PROVE ClearedOf(c)'
    <3> DEFINE j == [kind |-> "answer", sid |-> l[1], who |-> l[2]]
    <3>1. /\ zoneJobs' = Append(zoneJobs, j) /\ loads' \subseteq loads
          /\ spawnPending' = spawnPending /\ inside' = inside /\ late' = late
      BY <2>8 DEF LoadDone
    <3>2. j \in ZoneJob /\ j.kind = "answer" /\ <<j.sid, j.who>> = l
      BY <1>2, <2>8 DEF ZoneJob
    <3> HIDE DEF j
    <3>3. Elements(zoneJobs') = Elements(zoneJobs) \cup {j}
      BY <1>2, <3>1, <3>2, AtAppend
    <3>4. ClearedBehind(zoneJobs', LateReady(c)')
      BY <1>2, <2>7, <3>1, <3>2, ClearedAppend
    <3>5. Clearing' <=> Clearing
      BY <3>2, <3>3 DEF Clearing
    <3>6. \A x : Enters(x)' => Enters(x)
      BY <2>8, <3>1, <3>2, <3>3 DEF Enters
    <3>7. QED
      BY <2>2, <3>1, <3>4, <3>5, <3>6 DEF ClearedOf
  <2>9. ASSUME HandleRead, ~Stale, Head(strand).ok PROVE ClearedOf(c)'
    <3>1. toZone[c] # <<>> /\ toZone[c] \in Seq(Sids)
      BY <1>1, <2>9, TypesSplit, HandleReadLink DEF GateTypes
    <3>2. PICK sid \in Sids : sid = Head(toZone[connGen])
      BY <1>1, <3>1
    <3> DEFINE j == [kind |-> "ready", sid |-> sid, who |-> c]
    <3>3. /\ zoneJobs' = Append(zoneJobs, j) /\ loads' = loads
          /\ spawnPending' = spawnPending /\ inside' = inside /\ <<sid, c>> \in late'
      BY <1>1, <1>5, <2>9, <3>2 DEF HandleRead
    <3>4. j \in ZoneJob /\ j.kind = "ready" /\ j \in LateReady(c)'
      BY <3>3 DEF ZoneJob, LateReady
    <3> HIDE DEF j
    <3>5. Elements(zoneJobs') = Elements(zoneJobs) \cup {j}
      BY <1>2, <3>3, <3>4, AtAppend
    <3>6. ClearedBehind(zoneJobs', LateReady(c)')
      BY <1>2, <2>7, <3>3, <3>4, ClearedAppend
    <3>7. (Clearing' <=> Clearing) /\ \A x : Enters(x)' => Enters(x)
      BY <3>3, <3>4, <3>5 DEF Clearing, Enters
    <3>8. QED
      BY <2>2, <3>3, <3>6, <3>7, LateStays DEF ClearedOf
  <2>10. ASSUME zoneJobs' = zoneJobs, loads' = loads, spawnPending' = spawnPending, inside' = inside
         PROVE  ClearedOf(c)'
    <3>1. (Clearing' <=> Clearing) /\ \A x : Enters(x)' => Enters(x)
      BY <2>10 DEF Clearing, Enters
    <3>2. QED
      BY <2>2, <2>7, <2>10, <3>1, LateStays DEF ClearedOf
  <2>11. ASSUME zoneJobs # <<>>, zoneJobs' = Tail(zoneJobs), ReadyToSpawn \/ EnterZone \/ HandleGatewayLost
         PROVE  ClearedOf(c)'
    <3>1. PICK job \in ZoneJob : job = Head(zoneJobs)
      BY <1>2, <2>11
    <3>2. Elements(zoneJobs) = Elements(zoneJobs') \cup {job} /\ late' = late
      BY <1>2, <2>11, <3>1, AtTail, LateStays DEF ReadyToSpawn, EnterZone, HandleGatewayLost
    <3>3. /\ ClearedBehind(zoneJobs', LateReady(c)')
          /\ job.kind = "ready" /\ job \notin LateReady(c) => Clearing'
      BY <1>2, <2>2, <2>7, <2>11, <3>1, ClearedTail DEF ClearedOf, Clearing
    <3>4. SUFFICES ASSUME ~Clearing'
                   PROVE  /\ \A s \in Sids : inside'[s] # Nothing => <<s, inside'[s]>> \in late
                          /\ \A x \in Sids \X Gens : Enters(x)' /\ x[1] \in spawnPending' => x \in late
      BY <3>2, <3>3 DEF ClearedOf
    <3>5. CASE ReadyToSpawn
      <4>1. job.kind = "ready" /\ job \in LateReady(c) /\ ~Clearing
        BY <3>1, <3>2, <3>3, <3>4, <3>5 DEF ReadyToSpawn, RunsJob, Clearing
      <4>2. job.sid \in Sids /\ job.who = c /\ <<job.sid, c>> \in late
        BY <4>1 DEF LateReady, ZoneJob
      <4>3. /\ inside' = inside /\ spawnPending' \subseteq spawnPending \cup {job.sid}
            /\ loads' \subseteq loads \cup {<<job.sid, c>>}
        BY <3>1, <3>5, <4>2 DEF ReadyToSpawn
      <4>4. ASSUME NEW x \in Sids \X Gens, Enters(x)', x[1] \in spawnPending' PROVE x \in late
        <5>1. Enters(x) \/ x = <<job.sid, c>>
          BY <3>2, <4>3, <4>4 DEF Enters
        <5>2. CASE Enters(x) /\ x[1] \in spawnPending
          BY <2>2, <4>1, <5>2 DEF ClearedOf
        <5>3. CASE Enters(x) /\ x[1] = job.sid
          <6>1. x \in Clients
            BY <5>3 DEF Clients, Enters
          <6>2. x[2] = c \/ x \in late
            BY <1>1, <6>1 DEF OfNow
          <6>3. QED
            BY <4>2, <5>3, <6>2
        <5>4. QED
          BY <4>2, <4>3, <4>4, <5>1, <5>2, <5>3
      <4>5. QED
        BY <2>2, <4>1, <4>3, <4>4 DEF ClearedOf
    <3>6. CASE EnterZone
      <4>1. job.kind = "answer" /\ ~Clearing /\ loads' = loads
        BY <3>1, <3>2, <3>4, <3>6 DEF EnterZone, RunsJob, Clearing
      <4>2. job.sid \in Sids /\ job.who \in Gens
        BY <4>1 DEF ZoneJob
      <4>3. Enters(<<job.sid, job.who>>)
        BY <3>2, <4>1 DEF Enters
      <4>4. /\ spawnPending' \subseteq spawnPending
            /\ inside' = IF job.sid \in spawnPending THEN [inside EXCEPT ![job.sid] = job.who] ELSE inside
        BY <3>1, <3>6 DEF EnterZone
      <4>5. job.sid \in spawnPending => <<job.sid, job.who>> \in late
        BY <2>2, <4>1, <4>2, <4>3 DEF ClearedOf
      <4>6. \A s \in Sids : inside'[s] # Nothing => <<s, inside'[s]>> \in late
        BY <1>2, <2>2, <4>1, <4>2, <4>4, <4>5 DEF ClearedOf
      <4>7. \A x : Enters(x)' => Enters(x)
        BY <3>2, <4>1 DEF Enters
      <4>8. QED
        BY <2>2, <4>1, <4>4, <4>6, <4>7 DEF ClearedOf
    <3>7. CASE HandleGatewayLost
      BY <3>7 DEF HandleGatewayLost
    <3>8. QED
      BY <2>11, <3>5, <3>6, <3>7
  <2>12. \/ \E l \in loads : LoadDone(l)
         \/ HandleRead /\ ~Stale /\ Head(strand).ok
         \/ zoneJobs' = zoneJobs /\ loads' = loads /\ spawnPending' = spawnPending /\ inside' = inside
         \/ zoneJobs # <<>> /\ zoneJobs' = Tail(zoneJobs) /\ (ReadyToSpawn \/ EnterZone \/ HandleGatewayLost)
    <3>1. CASE ZoneStep
      <4>1. CASE ReadyToSpawn \/ EnterZone \/ HandleGatewayLost
        <5>1. zoneJobs # <<>> /\ zoneJobs' = Tail(zoneJobs)
          BY <4>1 DEF ReadyToSpawn, EnterZone, HandleGatewayLost, RunsJob
        <5>2. QED
          BY <4>1, <5>1
      <4>2. CASE PostSend
        BY <4>2 DEF PostSend, zoneVars
      <4>3. QED
        BY <3>1, <4>1, <4>2 DEF ZoneStep
    <3>2. CASE Strand
      <4>1. CASE HandleRead
        <5>1. CASE ~Stale /\ Head(strand).ok
          BY <4>1, <5>1
        <5>2. CASE Stale \/ ~Head(strand).ok
          BY <1>5, <4>1, <5>2 DEF HandleRead, OnDisconnected, zoneVars
        <5>3. QED
          BY <5>1, <5>2
      <4>2. CASE HandleResolve
        BY <4>2 DEF HandleResolve, zoneVars
      <4>3. CASE HandleConnect
        BY <4>3 DEF HandleConnect, zoneVars
      <4>4. CASE Greet
        BY <4>4 DEF Greet, zoneVars
      <4>5. CASE HandleSend
        BY <4>5 DEF HandleSend, zoneVars
      <4>6. CASE HandleWrite
        BY <1>5, <4>6 DEF HandleWrite, OnDisconnected, zoneVars
      <4>7. QED
        BY <2>3, <3>2, <4>1, <4>2, <4>3, <4>4, <4>5, <4>6 DEF Strand
    <3>3. CASE Operation
      <4>1. PICK gen \in Gens : \/ \E ok \in BOOLEAN : \/ ResolveDone(gen, ok) \/ ConnectDone(gen, ok)
                                                      \/ ReadDone(gen, ok) \/ WriteDone(gen, ok)
                                \/ TimerExpires(gen)
        BY <3>3 DEF Operation
      <4>2. \E kind \in OpKind : \E ok \in BOOLEAN : Completes(kind, gen, ok)
        <5>1. CASE TimerExpires(gen)
          BY <5>1 DEF TimerExpires, OpKind
        <5>2. CASE \E ok \in BOOLEAN : ResolveDone(gen, ok)
          BY <5>2 DEF ResolveDone, OpKind
        <5>3. CASE \E ok \in BOOLEAN : ConnectDone(gen, ok)
          BY <5>3 DEF ConnectDone, OpKind
        <5>4. CASE \E ok \in BOOLEAN : ReadDone(gen, ok)
          BY <5>4 DEF ReadDone, OpKind
        <5>5. CASE \E ok \in BOOLEAN : WriteDone(gen, ok)
          BY <5>5 DEF WriteDone, OpKind
        <5>6. QED
          BY <4>1, <5>1, <5>2, <5>3, <5>4, <5>5
      <4>3. QED
        BY <4>2 DEF Completes, zoneVars
    <3>4. CASE Gateway \/ GatewayCrashes
      BY <3>4 DEF Gateway, GatewayReads, GatewayStarts, GatewayCrashes, zoneVars
    <3>5. CASE \/ \E sid \in Sids : SendToClient(sid)
               \/ \E gen \in Gens : ClientReady(gen) \/ LinkBreaks(gen)
      BY <3>5 DEF SendToClient, ClientReady, LinkBreaks, zoneVars
    <3>6. CASE UNCHANGED vars
      BY <3>6 DEF vars, zoneVars
    <3>7. QED
      BY <3>1, <3>2, <3>3, <3>4, <3>5, <3>6 DEF Next
  <2>13. ClearedOf(c)'
    BY <2>8, <2>9, <2>10, <2>11, <2>12
  <2>14. QED
    BY <1>1, <2>4, <2>13
<1>6. QED
  BY <1>2, <1>4, <1>5

\* The zone and the gateway agree on who is who.
Agreement == /\ TypeOK /\ LinkInv /\ SendersDone /\ Ends
             /\ Empty /\ OfNow /\ Emptying

LEMMA AgreementHolds == SendersFinish = TRUE /\ LoadsFinish = TRUE => (Spec => []Agreement)
<1> SUFFICES ASSUME SendersFinish = TRUE, LoadsFinish = TRUE PROVE Spec => []Agreement
  OBVIOUS
<1>1. Init => Agreement
  BY InitTypes, InitLink, InitSendersDone, InitEnds, InitEmpty DEF Agreement
<1>2. Agreement /\ [Next]_vars => Agreement'
  <2>1. SUFFICES ASSUME Agreement, [Next]_vars PROVE Agreement'
    OBVIOUS
  <2>2. TypeOK' /\ LinkInv'
    BY <2>1, BaseStep DEF Agreement
  <2>3. SendersDone' /\ Ends'
    BY <2>1, SendersDoneStep, EndsStep DEF Agreement
  <2>4. Empty' /\ OfNow' /\ Emptying'
    BY <2>1, <2>2, EmptyStep, OfNowStep, EmptyingStep DEF Agreement
  <2>5. QED
    BY <2>2, <2>3, <2>4 DEF Agreement
<1>3. QED
  BY <1>1, <1>2, PTL DEF Spec

\* The gateway reads nothing before the handshake, although the flag that lets the
\* zones send is up before it is posted: but for the late ones, a new connection finds
\* the zones empty (OnConnected, Send, SaveAllAndClear).  The delay before a retry
\* must outlast the Sends that have begun, the jobs of the zones and their loads.
THEOREM GreetsFirst == SendersFinish = TRUE /\ LoadsFinish = TRUE => (Spec => []HandshakeFirst)
<1>1. Agreement => HandshakeFirst
  <2>1. SUFFICES ASSUME Agreement, NEW g \in Gens, peer[g] = "greeting", toGateway[g] # <<>>
                 PROVE  Head(toGateway[g]) = Handshake \/ OfLate(Head(toGateway[g]))
    BY DEF HandshakeFirst
  <2>2. PICK c \in Gens : c = connGen
    BY <2>1 DEF Agreement, TypeOK
  <2>3. g = c
    BY <2>1, <2>2 DEF Agreement, Ends, EndsOf
  <2>4. isConnected
    BY <2>1, <2>2, <2>3 DEF Agreement, Ends, EndsOf
  <2>5. Settled
    BY <2>1, <2>2, <2>3 DEF Settled
  <2>6. toGateway[c] \in Seq(Packet)
    BY <2>1 DEF Agreement, TypeOK
  <2>7. Head(toGateway[c]) \in Packet /\ Head(toGateway[c]) \in Elements(toGateway[c])
    BY <2>1, <2>3, <2>6, AtTail
  <2>8. Head(toGateway[c]) \in Sent
    BY <2>2, <2>7 DEF Sent
  <2>9. QED
    BY <2>1, <2>3, <2>4, <2>5, <2>8 DEF Agreement, Empty
<1>2. QED
  BY <1>1, AgreementHolds, PTL

\* A sessionID stands for the same client in the zone and at the gateway, and a packet
\* reaches the client it was made for, although a new gateway gives the sessionIDs of
\* the old one again; but for the late ones (TryConnect, HandleReadyToSpawn).
THEOREM NobodyElses == SendersFinish = TRUE /\ LoadsFinish = TRUE => (Spec => []OwnCharacter)
<1>1. Agreement => OwnCharacter
  <2>1. SUFFICES ASSUME Agreement PROVE OwnCharacter
    OBVIOUS
  <2>2. PICK c \in Gens : c = connGen
    BY <2>1 DEF Agreement, TypeOK
  <2>3. \A s \in Sids : owner[s] \in {Nothing, c}
    BY <2>1, <2>2 DEF Agreement, Ends, EndsOf, TypeOK
  <2>4. \A s \in Sids : \/ owner[s] = Nothing \/ inside[s] \in {Nothing, owner[s]}
                        \/ <<s, inside[s]>> \in late
    <3>1. ASSUME NEW s \in Sids, inside[s] # Nothing PROVE inside[s] = c \/ <<s, inside[s]>> \in late
      <4>1. <<s, inside[s]>> \in Clients
        BY <2>1, <3>1 DEF Agreement, TypeOK, Clients
      <4>2. QED
        BY <2>1, <2>2, <4>1 DEF Agreement, OfNow
    <3>2. QED
      BY <2>3, <3>1
  <2>5. ASSUME NEW g \in Gens, NEW i \in DOMAIN toGateway[g]
        PROVE  \/ toGateway[g][i] = Handshake
               \/ owner[toGateway[g][i].sid] \in {toGateway[g][i].who, Nothing}
               \/ OfLate(toGateway[g][i])
    <3>1. toGateway[g] \in Seq(Packet)
      BY <2>1 DEF Agreement, TypeOK
    <3>2. toGateway[g] # <<>> /\ toGateway[g][i] \in Packet /\ toGateway[g][i] \in Elements(toGateway[g])
      BY <3>1 DEF Elements
    <3>3. g = c
      BY <2>1, <2>2, <3>2 DEF Agreement, Ends, EndsOf
    <3>4. toGateway[g][i] \in Sent
      BY <2>2, <3>2, <3>3 DEF Sent
    <3>5. toGateway[g][i] = Handshake \/ toGateway[g][i].who = c \/ OfLate(toGateway[g][i])
      BY <2>1, <2>2, <3>4 DEF Agreement, OfNow
    <3>6. toGateway[g][i] = Handshake \/ toGateway[g][i].sid \in Sids
      BY <3>2 DEF Packet, Data, Handshake
    <3>7. QED
      BY <2>3, <3>5, <3>6
  <2>6. QED
    BY <2>4, <2>5 DEF OwnCharacter
<1>2. QED
  BY <1>1, AgreementHolds, PTL
=============================================================================
