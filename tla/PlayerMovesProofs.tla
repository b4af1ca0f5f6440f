------------------------- MODULE PlayerMovesProofs -------------------------
(***************************************************************************)
(* Proofs about PlayerMoves, for any speed limit, map, delays and client:  *)
(* types, that the budget of TryMove bounds the way a player walks, that   *)
(* an honest client is never put back, and that client and zone agree when *)
(* nothing is on its way.                                                  *)
(*                                                                         *)
(* What was walked too much and what the budget still allows never exceed  *)
(* the cap together: an accepted move takes from one what it adds to the   *)
(* other, a refused move only writes the refill down, and a tick gives to  *)
(* the budget no more than it forgives of the excess.                      *)
(*                                                                         *)
(* A move of an honest client on its way for n ticks finds a budget of at  *)
(* least n + 1 steps: it was due with a budget of one, every tick since    *)
(* has added one, and the moves before it, a tick older each, took one.    *)
(***************************************************************************)
EXTENDS PlayerMoves, SequenceTheorems, TLAPS

\* The inductive invariant: what may still be walked at once fits under the cap.
BudgetHolds == excess + Refilled <= Cap
IInv == TypeOK /\ BudgetHolds

USE PlayerMovesAssumption DEF Least, Less, Distance

-----------------------------------------------------------------------------
\* The cap is a natural number, and so are distances on the map (TryMove).
LEMMA Numbers ==
  /\ Cap \in Nat
  /\ \A a, b \in Places : Distance(a, b) \in Nat
<1>1. MAX_MOVE_SPEED \in Nat /\ Second \in Nat
  OBVIOUS
<1>2. MAX_MOVE_SPEED * Second \in Nat
  BY <1>1
<1>3. Cap \in Nat
  BY <1>2 DEF Cap
<1>4. ASSUME NEW a \in Places, NEW b \in Places
      PROVE  Distance(a, b) \in Nat
  <2>1. a \in Int /\ b \in Int
    OBVIOUS
  <2> QED
    BY <2>1
<1> QED
  BY <1>3, <1>4

\* The refilled budget is a natural number below the cap.
LEMMA RefilledType ==
  ASSUME TypeOK
  PROVE  Refilled \in Nat /\ Refilled <= Cap
<1>1. moveBudget \in Nat /\ sinceMove \in Nat /\ Cap \in Nat /\ MAX_MOVE_SPEED \in Nat
  BY Numbers DEF TypeOK
<1>2. sinceMove * MAX_MOVE_SPEED \in Nat
  BY <1>1
<1> QED
  BY <1>1, <1>2 DEF Refilled

\* What is below the cap is not capped.
LEMMA LeastOfSum ==
  ASSUME NEW c \in Nat, NEW b \in Nat, NEW r, b <= c, r = 0
  PROVE  Least(b + r, c) = b
OBVIOUS

\* Right after a call of TryMove the refilled budget is what is left of it.
LEMMA JustRefilled ==
  ASSUME sinceMove' = 0, moveBudget' \in Nat, moveBudget' <= Cap
  PROVE  Refilled' = moveBudget'
<1>1. Cap \in Nat /\ MAX_MOVE_SPEED \in Nat
  BY Numbers
<1> DEFINE r == sinceMove' * MAX_MOVE_SPEED
           b == moveBudget'
<1>2. r = 0
  BY <1>1
<1>3. b \in Nat /\ b <= Cap
  OBVIOUS
<1>4. Refilled' = Least(b + r, Cap)
  BY DEF Refilled, Cap
<1> HIDE DEF r, b
<1>5. Least(b + r, Cap) = b
  BY <1>1, <1>2, <1>3, LeastOfSum
<1> QED
  BY <1>4, <1>5 DEF b

\* What TryMove leaves behind, accepting or refusing.
LEMMA TryMoveType ==
  ASSUME TypeOK, NEW to \in Places \cup {NotFinite}, NEW ok \in BOOLEAN, TryMove(to, ok)
  PROVE  /\ x' \in Places /\ moveBudget' \in 0..Cap /\ sinceMove' \in 0..Second
         /\ ok => /\ to \in Places
                  /\ Distance(x, to) \in Nat
                  /\ Refilled' = Refilled - Distance(x, to)
         /\ ~ok => Refilled' = Refilled
<1>1. x \in Places /\ Cap \in Nat /\ Refilled \in Nat /\ Refilled <= Cap
  BY RefilledType, Numbers DEF TypeOK
<1>2. CASE to = NotFinite
  <2>1. ~ok /\ UNCHANGED <<x, moveBudget, sinceMove>>
    BY <1>2 DEF TryMove
  <2>2. Refilled' = Refilled
    BY <2>1 DEF Refilled, Cap
  <2> QED
    BY <2>1, <2>2 DEF TypeOK
<1>3. CASE to # NotFinite
  <2>1. to \in Places
    BY <1>3
  <2>2. Distance(x, to) \in Nat
    BY <2>1, <1>1, Numbers
  <2>3. /\ ok <=> Distance(x, to) <= Refilled
        /\ sinceMove' = 0
        /\ moveBudget' = IF ok THEN Refilled - Distance(x, to) ELSE Refilled
        /\ x' = IF ok THEN to ELSE x
    BY <1>3 DEF TryMove
  <2> HIDE DEF Distance
  <2>4. moveBudget' \in Nat /\ moveBudget' <= Cap
    BY <2>2, <2>3, <1>1
  <2>5. Refilled' = moveBudget'
    BY <2>3, <2>4, JustRefilled
  <2> QED
    BY <2>1, <2>2, <2>3, <2>4, <2>5, <1>1
<1> QED
  BY <1>2, <1>3

-----------------------------------------------------------------------------
\* Packets on their way.

\* A queue without its head, and with one packet more, is a queue of such packets.
LEMMA QueueType ==
  ASSUME NEW S, NEW q \in Seq(S)
  PROVE  /\ q # <<>> => Head(q) \in S /\ Tail(q) \in Seq(S)
         /\ \A p \in S : Append(q, p) \in Seq(S)
OBVIOUS

\* Packets that all age by a tick are still requests.
LEMMA AgedType ==
  ASSUME NEW q \in Seq(Request), \A i \in DOMAIN q : q[i].age < MaxDelay
  PROVE  [i \in DOMAIN q |-> [q[i] EXCEPT !.age = @ + 1]] \in Seq(Request)
<1> DEFINE aged == [i \in DOMAIN q |-> [q[i] EXCEPT !.age = @ + 1]]
<1>1. Len(q) \in Nat /\ DOMAIN q = 1..Len(q)
  OBVIOUS
<1>2. ASSUME NEW i \in DOMAIN q
      PROVE  aged[i] \in Request
  <2>1. q[i] \in Request /\ q[i].age < MaxDelay
    OBVIOUS
  <2>2. aged[i] = [q[i] EXCEPT !.age = @ + 1]
    OBVIOUS
  <2>3. MaxDelay \in Nat
    OBVIOUS
  <2> DEFINE r == q[i]
  <2>4. r \in Request /\ r.age < MaxDelay /\ aged[i] = [r EXCEPT !.age = @ + 1]
    BY <2>1, <2>2
  <2> HIDE DEF aged, r
  <2>5. CASE r \in [kind : {"move"}, x : Places \cup {NotFinite}, age : 0..MaxDelay]
    <3>1. r.age \in 0..MaxDelay /\ r.age + 1 \in 0..MaxDelay
      BY <2>3, <2>4, <2>5
    <3>2. aged[i] = [kind |-> "move", x |-> r.x, age |-> r.age + 1]
      BY <2>4, <2>5
    <3> QED
      BY <2>5, <3>1, <3>2 DEF Request
  <2>6. CASE r \in [kind : {"revive"}, age : 0..MaxDelay]
    <3>1. r.age \in 0..MaxDelay /\ r.age + 1 \in 0..MaxDelay
      BY <2>3, <2>4, <2>6
    <3>2. aged[i] = [kind |-> "revive", age |-> r.age + 1]
      BY <2>4, <2>6
    <3> QED
      BY <2>6, <3>1, <3>2 DEF Request
  <2> QED
    BY <2>4, <2>5, <2>6 DEF Request
<1>3. aged \in [1..Len(q) -> Request]
  BY <1>1, <1>2
<1> HIDE DEF aged
<1>4. aged \in Seq(Request)
  BY <1>1, <1>3
<1> QED
  BY <1>4 DEF aged

\* Every answer of the zone is one of the packets a client may get.
LEMMA AnswerType ==
  /\ \A p \in Places : /\ [kind |-> "correction", x |-> p] \in Answer
                       /\ [kind |-> "revived", x |-> p] \in Answer
  /\ [kind |-> "killed"] \in Answer
  /\ [kind |-> "enter", x |-> Spawn] \in Answer
BY DEF Answer

-----------------------------------------------------------------------------
\* Types.

LEMMA InitType == Init => TypeOK
<1> SUFFICES ASSUME Init PROVE TypeOK
  OBVIOUS
<1>1. Cap \in Nat /\ Second \in Nat /\ REVIVE_INTERVAL \in Nat
  BY Numbers
<1>2. down \in Seq(Answer) /\ up \in Seq(Request)
  BY AnswerType DEF Init
<1>3. moveBudget \in 0..Cap /\ sinceMove \in 0..Second
  BY <1>1 DEF Init
<1>4. tickIn \in 0..1 /\ reviveIn \in 0..REVIVE_INTERVAL
  BY <1>1 DEF Init
<1> QED
  BY <1>2, <1>3, <1>4 DEF Init, TypeOK

LEMMA HandleMoveType ==
  ASSUME TypeOK, HandleMove
  PROVE  TypeOK'
<1>1. up' \in Seq(Request) /\ Head(up) \in Request /\ Head(up).kind = "move"
  BY QueueType DEF HandleMove, Receives, TypeOK
<1>2. Head(up).x \in Places \cup {NotFinite}
  BY <1>1 DEF Request
<1>3. CASE ~alive /\ UNCHANGED <<x, moveBudget, sinceMove, down, history>>
  BY <1>1, <1>3 DEF HandleMove, TypeOK, history, botVars
<1>4. CASE /\ TryMove(Head(up).x, TRUE)
           /\ excess' = excess + Distance(x, Head(up).x)
           /\ UNCHANGED <<down, corrected, overtaken>>
  <2>1. x' \in Places /\ moveBudget' \in 0..Cap /\ sinceMove' \in 0..Second
    BY <1>2, <1>4, TryMoveType
  <2>2. Distance(x, Head(up).x) \in Nat
    BY <1>2, <1>4, TryMoveType
  <2> HIDE DEF Distance
  <2> DEFINE d == Distance(x, Head(up).x)
  <2>3. excess' \in Nat
    <3>1. excess' = excess + d /\ excess \in Nat /\ d \in Nat
      BY <1>4, <2>2 DEF TypeOK
    <3> HIDE DEF d
    <3> QED
      BY <3>1
  <2> QED
    BY <1>1, <1>4, <2>1, <2>3 DEF HandleMove, TypeOK, botVars
<1>5. CASE /\ TryMove(Head(up).x, FALSE)
           /\ down' = Append(down, [kind |-> "correction", x |-> x])
           /\ corrected' = TRUE
           /\ UNCHANGED <<excess, overtaken>>
  <2>1. x' \in Places /\ moveBudget' \in 0..Cap /\ sinceMove' \in 0..Second
    BY <1>2, <1>5, TryMoveType
  <2>2. down' \in Seq(Answer)
    BY <1>5, AnswerType, QueueType DEF TypeOK
  <2> QED
    BY <1>1, <1>5, <2>1, <2>2 DEF HandleMove, TypeOK, botVars
<1> QED
  BY <1>3, <1>4, <1>5 DEF HandleMove

LEMMA HandleReviveType ==
  ASSUME TypeOK, HandleRevive
  PROVE  TypeOK'
<1>1. up' \in Seq(Request)
  BY QueueType DEF HandleRevive, Receives, TypeOK
<1>2. x' \in Places /\ alive' \in BOOLEAN /\ overtaken' \in BOOLEAN
  BY DEF HandleRevive, TypeOK
<1>3. down' \in Seq(Answer)
  BY AnswerType, QueueType DEF HandleRevive, TypeOK
<1> QED
  BY <1>1, <1>2, <1>3 DEF HandleRevive, TypeOK, botVars

LEMMA HandlePacketType ==
  ASSUME TypeOK, HandlePacket
  PROVE  TypeOK'
<1>1. Head(down) \in Answer /\ down' \in Seq(Answer)
  BY QueueType DEF HandlePacket, TypeOK
<1>2. Head(down).kind # "killed" => Head(down).x \in Places
  BY <1>1 DEF Answer
<1>3. myX' \in Places /\ myHp' \in BOOLEAN /\ tickIn' \in 0..1 /\ state' = "InGame"
  BY SMTT(20), <1>2 DEF HandlePacket, TypeOK
<1> QED
  BY <1>1, <1>3 DEF HandlePacket, TypeOK, zoneVars, history

LEMMA ClientType ==
  ASSUME TypeOK, NEW r \in Request,
         AskRevive \/ (\E to \in Places : MoveToward(to)) \/ (r.age = 0 /\ SendAnything(r))
  PROVE  TypeOK'
<1>1. CASE AskRevive
  <2>1. [kind |-> "revive", age |-> 0] \in Request /\ REVIVE_INTERVAL \in Nat
    BY DEF Request
  <2>2. up' \in Seq(Request)
    BY <1>1, <2>1, QueueType DEF AskRevive, TypeOK
  <2>3. reviveIn' \in 0..REVIVE_INTERVAL
    <3>1. /\ reviveIn \in 0..REVIVE_INTERVAL /\ REVIVE_INTERVAL \in Nat
          /\ reviveIn' = REVIVE_INTERVAL \/ reviveIn' = reviveIn
      BY <1>1, <2>1 DEF AskRevive, TypeOK
    <3> QED
      BY <3>1
  <2> QED
    BY <1>1, <2>2, <2>3 DEF AskRevive, OnTick, TypeOK, zoneVars, history
<1>2. ASSUME NEW to \in Places, MoveToward(to)
      PROVE  TypeOK'
  <2>1. [kind |-> "move", x |-> to, age |-> 0] \in Request
    BY DEF Request
  <2>2. up' \in Seq(Request)
    BY <1>2, <2>1, QueueType DEF MoveToward, TypeOK
  <2> QED
    BY <1>2, <2>2 DEF MoveToward, OnTick, TypeOK, zoneVars, history
<1>3. CASE SendAnything(r)
  <2>1. up' \in Seq(Request)
    BY <1>3, QueueType DEF SendAnything, TypeOK
  <2> QED
    BY <1>3, <2>1 DEF SendAnything, TypeOK, zoneVars, botVars, history
<1> QED
  BY <1>1, <1>2, <1>3

LEMMA TickType ==
  ASSUME TypeOK, Tick
  PROVE  TypeOK'
<1>1. up' \in Seq(Request)
  BY AgedType DEF Tick, TypeOK
<1>2. sinceMove' \in 0..Second
  <2>1. sinceMove \in 0..Second /\ Second \in Nat /\ sinceMove' = Least(sinceMove + 1, Second)
    BY DEF Tick, TypeOK
  <2> QED
    BY <2>1
<1>4. tickIn' \in 0..1
  <2>1. tickIn \in 0..1 /\ tickIn' = Less(tickIn)
    BY DEF Tick, TypeOK
  <2> QED
    BY <2>1
<1>5. reviveIn' \in 0..REVIVE_INTERVAL
  <2>1. /\ reviveIn \in 0..REVIVE_INTERVAL /\ reviveIn' = Less(reviveIn)
        /\ REVIVE_INTERVAL \in Nat
    BY DEF Tick, TypeOK
  <2> QED
    BY <2>1
<1>3. excess' \in Nat
  BY SMTT(20) DEF Tick, TypeOK
<1> QED
  BY <1>1, <1>2, <1>3, <1>4, <1>5 DEF Tick, TypeOK

LEMMA NextType ==
  ASSUME TypeOK, [Next]_vars
  PROVE  TypeOK'
<1>1. CASE MonsterAttack
  <2>1. down' \in Seq(Answer)
    BY <1>1, AnswerType, QueueType DEF MonsterAttack, TypeOK
  <2> QED
    BY <1>1, <2>1 DEF MonsterAttack, TypeOK, botVars, history
<1>2. CASE AskRevive \/ (\E to \in Places : MoveToward(to))
  <2>1. [kind |-> "revive", age |-> 0] \in Request
    BY DEF Request
  <2> QED
    BY <1>2, <2>1, ClientType
<1>3. CASE \E p \in Request : p.age = 0 /\ SendAnything(p)
  BY <1>3, ClientType
<1>4. CASE UNCHANGED vars
  BY <1>4 DEF vars, zoneVars, botVars, history, TypeOK
<1> QED
  BY <1>1, <1>2, <1>3, <1>4, HandleMoveType, HandleReviveType, HandlePacketType, TickType
     DEF Next

\* Every variable keeps its type, for any map, delays and client; the budget of TryMove
\* is never negative nor above its cap.
THEOREM TypeCorrect == Spec => []TypeOK
<1>1. Init => TypeOK
  BY InitType
<1>2. TypeOK /\ [Next]_vars => TypeOK'
  BY NextType
<1> QED
  BY <1>1, <1>2, PTL DEF Spec

-----------------------------------------------------------------------------
\* The budget.

\* A tick adds to the budget at most what it takes from the excess.
LEMMA TickKeepsBudget ==
  ASSUME IInv, Tick
  PROVE  BudgetHolds'
<1> DEFINE V == MAX_MOVE_SPEED
<1>1. /\ moveBudget \in Nat /\ sinceMove \in Nat /\ Second \in Nat /\ V \in Nat
      /\ Cap \in Nat /\ excess \in Nat
  BY Numbers DEF IInv, TypeOK
<1>2. /\ sinceMove' = Least(sinceMove + 1, Second) /\ sinceMove <= Second
      /\ moveBudget' = moveBudget
      /\ excess' = IF excess > V THEN excess - V ELSE 0
  BY DEF Tick, IInv, TypeOK
<1>3. sinceMove * V \in Nat /\ (sinceMove + 1) * V = sinceMove * V + V
  BY <1>1
<1>4. sinceMove' * V \in Nat /\ sinceMove' * V <= sinceMove * V + V
  <2>1. sinceMove' = sinceMove + 1 \/ sinceMove' = sinceMove
    BY <1>1, <1>2
  <2> QED
    BY <1>1, <1>3, <2>1
<1>5. /\ Refilled = Least(moveBudget + sinceMove * V, Cap)
      /\ Refilled' = Least(moveBudget + sinceMove' * V, Cap)
      /\ excess + Refilled <= Cap
  BY <1>2 DEF Refilled, Cap, IInv, BudgetHolds
<1> DEFINE old == sinceMove * V
           new == sinceMove' * V
<1>6. old \in Nat /\ new \in Nat /\ new <= old + V
  BY <1>3, <1>4
<1>7. /\ Refilled = Least(moveBudget + old, Cap)
      /\ Refilled' = Least(moveBudget + new, Cap)
  BY <1>5
<1> HIDE DEF old, new, V
<1>8. excess' + Least(moveBudget + new, Cap) <= Cap
  <2>1. excess + Least(moveBudget + old, Cap) <= Cap
    BY <1>5, <1>7
  <2>2. V \in Nat
    BY <1>1
  <2> QED
    BY <1>1, <1>2, <1>6, <2>1, <2>2
<1> QED
  BY <1>7, <1>8 DEF BudgetHolds, Cap

\* A move takes from the budget what it adds to the excess.
LEMMA MoveKeepsBudget ==
  ASSUME IInv, HandleMove
  PROVE  BudgetHolds'
<1>1. Head(up).x \in Places \cup {NotFinite}
  <2>1. Head(up) \in Request /\ Head(up).kind = "move"
    BY QueueType DEF HandleMove, Receives, IInv, TypeOK
  <2> QED
    BY <2>1 DEF Request
<1>2. excess \in Nat /\ Refilled \in Nat /\ Cap \in Nat /\ excess + Refilled <= Cap /\ TypeOK
  BY RefilledType, Numbers DEF IInv, TypeOK, BudgetHolds
<1>3. CASE UNCHANGED <<x, moveBudget, sinceMove, down, history>>
  <2>1. Refilled' = Refilled /\ excess' = excess
    BY <1>3 DEF Refilled, Cap, history
  <2> QED
    BY <1>2, <2>1 DEF BudgetHolds, Cap
<1>4. CASE TryMove(Head(up).x, TRUE) /\ excess' = excess + Distance(x, Head(up).x)
  <2> HIDE DEF Distance
  <2>1. /\ Distance(x, Head(up).x) \in Nat
        /\ Refilled' = Refilled - Distance(x, Head(up).x)
    BY <1>1, <1>2, <1>4, TryMoveType
  <2>2. excess' + Refilled' = excess + Refilled
    BY <1>2, <1>4, <2>1
  <2> QED
    BY <1>2, <2>2 DEF BudgetHolds, Cap
<1>5. CASE TryMove(Head(up).x, FALSE) /\ UNCHANGED excess
  <2>1. Refilled' = Refilled
    BY <1>1, <1>2, <1>5, TryMoveType
  <2> QED
    BY <1>2, <1>5, <2>1 DEF BudgetHolds, Cap
<1> QED
  BY <1>3, <1>4, <1>5 DEF HandleMove

LEMMA NextKeepsBudget ==
  ASSUME IInv, [Next]_vars
  PROVE  BudgetHolds'
<1>1. CASE UNCHANGED <<moveBudget, sinceMove, excess>>
  BY <1>1 DEF IInv, BudgetHolds, Refilled, Cap
<1>2. CASE ~UNCHANGED <<moveBudget, sinceMove, excess>>
  <2>1. HandleMove \/ Tick
    BY <1>2 DEF Next, HandleRevive, MonsterAttack, HandlePacket, AskRevive, MoveToward,
                SendAnything, vars, zoneVars, history
  <2> QED
    BY <2>1, MoveKeepsBudget, TickKeepsBudget
<1> QED
  BY <1>1, <1>2

\* Whatever a client sends, however its packets bunch: over no stretch of time does
\* its player walk more than the limit times the time, and a second's worth.
THEOREM SpeedLimited == Spec => []SpeedBounded
<1>1. Init => IInv
  <2> SUFFICES ASSUME Init PROVE IInv
    OBVIOUS
  <2>1. TypeOK /\ excess = 0
    BY InitType DEF Init
  <2> QED
    BY <2>1, RefilledType, Numbers DEF IInv, BudgetHolds
<1>2. IInv /\ [Next]_vars => IInv'
  BY NextType, NextKeepsBudget DEF IInv
<1>3. IInv => SpeedBounded
  <2> SUFFICES ASSUME IInv PROVE SpeedBounded
    OBVIOUS
  <2>1. excess \in Nat /\ Refilled \in Nat /\ Cap \in Nat /\ excess + Refilled <= Cap
    BY RefilledType, Numbers DEF IInv, BudgetHolds, TypeOK
  <2> QED
    BY <2>1 DEF SpeedBounded
<1> QED
  BY <1>1, <1>2, <1>3, PTL DEF Spec
-----------------------------------------------------------------------------
\* The inductive invariant of an honest client.

Is(q, i, kind) == i \in DOMAIN q /\ q[i].kind = kind
Move(i) == Is(up, i, "move")

\* What a client still has to be told, and what it knows, end with the truth: a death
\* the zone took back is followed by the revival, a revival by the next death.
Told ==
  /\ alive  => /\ \A i \in DOMAIN down : Is(down, i, "killed") => \E j \in DOMAIN down : j > i /\ Is(down, j, "revived")
               /\ myHp \/ \E j \in DOMAIN down : Is(down, j, "revived")
  /\ ~alive => /\ \A i \in DOMAIN down : Is(down, i, "revived") => \E j \in DOMAIN down : j > i /\ Is(down, j, "killed")
               /\ ~myHp \/ \E j \in DOMAIN down : Is(down, j, "killed")

\* The first packet is the one to enter, and nothing happens before it.
Entering ==
  /\ state = "Spawning" => /\ up = <<>> /\ x = Spawn /\ myX = Spawn
                           /\ Is(down, 1, "enter") /\ down[1].x = Spawn
  /\ \A i \in DOMAIN down : Is(down, i, "enter") => i = 1 /\ state = "Spawning"

\* From where the zone has the player, the moves on their way lead step by step to
\* where the client is.
Trail ==
  /\ \A i \in DOMAIN up : Move(i) /\ (\A k \in 1..i-1 : ~Move(k)) => Distance(x, up[i].x) <= Step
  /\ \A i, j \in DOMAIN up :
       i < j /\ Move(i) /\ Move(j) /\ (\A k \in i+1..j-1 : ~Move(k)) => Distance(up[i].x, up[j].x) <= Step
  /\ \A i \in DOMAIN up : Move(i) /\ (\A k \in i+1..Len(up) : ~Move(k)) => up[i].x = myX
  /\ (\A i \in DOMAIN up : ~Move(i)) => x = myX

\* A client that is told all it has to know has left a trail; one that does not yet
\* know of its revival has no move on its way.
Followed ==
  alive => \/ /\ down = <<>> \/ (state = "Spawning" /\ Len(down) = 1)
              /\ Trail
           \/ /\ Len(down) = 1 /\ Is(down, 1, "revived") /\ down[1].x = Spawn
              /\ ~myHp /\ x = Spawn
              /\ \A i \in DOMAIN up : ~Move(i)

\* A move on its way finds the budget of the time it has travelled and of its own
\* tick; the moves left a tick apart, and the next is due with a budget of its own.
Affordable ==
  /\ \A i \in DOMAIN up : Move(i) => up[i].x \in Places /\ Refilled >= Step * (up[i].age + 1)
  /\ \A i, j \in DOMAIN up : i < j /\ Move(i) /\ Move(j) => up[i].age > up[j].age
  /\ tickIn = 0 => \A i \in DOMAIN up : Move(i) => up[i].age >= 1
  /\ tickIn = 0 /\ state = "InGame" => Refilled >= Step

\* Nothing is put back, so no correction is on its way.
Uncorrected == ~corrected /\ \A i \in DOMAIN down : ~Is(down, i, "correction")

Honest == honest /\ ~overtaken => Followed /\ Affordable /\ Uncorrected
HInv == TypeOK /\ Told /\ Entering /\ Honest
\* Where the packets of a queue are after its head left, and after one more came.
LEMMA TailAt ==
  ASSUME NEW S, NEW q \in Seq(S), q # <<>>
  PROVE  /\ 1 \in DOMAIN q /\ Head(q) = q[1]
         /\ Len(Tail(q)) = Len(q) - 1
         /\ \A i \in DOMAIN Tail(q) : i \in Nat /\ i >= 1 /\ i + 1 \in DOMAIN q /\ Tail(q)[i] = q[i + 1]
         /\ \A i \in DOMAIN q : i = 1 \/ (i > 1 /\ i - 1 \in DOMAIN Tail(q) /\ Tail(q)[i - 1] = q[i])
<1>1. Len(q) \in Nat /\ Len(q) >= 1 /\ DOMAIN q = 1..Len(q)
  OBVIOUS
<1>2. /\ Tail(q) \in Seq(S) /\ Len(Tail(q)) = Len(q) - 1
      /\ \A i \in 1..Len(q) - 1 : Tail(q)[i] = q[i + 1]
  BY HeadTailProperties
<1>3. Head(q) = q[1]
  OBVIOUS
<1>4. DOMAIN Tail(q) = 1..Len(q) - 1
  BY <1>2
<1> DEFINE t == Tail(q)
<1>5. /\ DOMAIN t = 1..Len(q) - 1 /\ Len(t) = Len(q) - 1
      /\ \A i \in 1..Len(q) - 1 : t[i] = q[i + 1]
  BY <1>2, <1>4
<1> HIDE DEF t
<1>6. \A i \in DOMAIN q : i = 1 \/ (i > 1 /\ i - 1 \in DOMAIN t /\ t[i - 1] = q[i])
  BY SMTT(20), <1>1, <1>5
<1>7. \A i \in DOMAIN t : i \in Nat /\ i >= 1 /\ i + 1 \in DOMAIN q /\ t[i] = q[i + 1]
  BY SMTT(20), <1>1, <1>5
<1> QED
  BY <1>1, <1>3, <1>5, <1>6, <1>7 DEF t

LEMMA AppendAt ==
  ASSUME NEW S, NEW q \in Seq(S), NEW p \in S
  PROVE  /\ Len(Append(q, p)) = Len(q) + 1
         /\ Len(q) + 1 \in DOMAIN Append(q, p) /\ Append(q, p)[Len(q) + 1] = p
         /\ \A i \in DOMAIN q : i \in DOMAIN Append(q, p) /\ Append(q, p)[i] = q[i] /\ i < Len(q) + 1
         /\ \A i \in DOMAIN Append(q, p) : i \in Nat /\ (i \in DOMAIN q \/ i = Len(q) + 1)
OBVIOUS

-----------------------------------------------------------------------------
\* What the client is told.

\* A packet of the zone goes to the end of what the client is still to be told.
LEMMA TellKeepsTold ==
  ASSUME TypeOK, Told, NEW p \in Answer, down' = Append(down, p), myHp' = myHp,
         \/ p.kind = "correction" /\ alive' = alive
         \/ p.kind = "killed" /\ ~alive'
         \/ p.kind = "revived" /\ alive'
  PROVE  Told'
<1>1. /\ \A i \in DOMAIN down : i \in DOMAIN down' /\ down'[i] = down[i] /\ i < Len(down) + 1
      /\ \A i \in DOMAIN down' : i \in Nat /\ (i \in DOMAIN down \/ i = Len(down) + 1)
      /\ Len(down) + 1 \in DOMAIN down' /\ down'[Len(down) + 1] = p
      /\ Len(down) \in Nat
  BY SMTT(20), AppendAt DEF TypeOK
<1>2. CASE p.kind = "correction" /\ alive' = alive
  BY SMTT(20), <1>1, <1>2 DEF Told, Is
<1>3. CASE p.kind = "killed" /\ ~alive'
  BY SMTT(20), <1>1, <1>3 DEF Told, Is
<1>4. CASE p.kind = "revived" /\ alive'
  BY SMTT(20), <1>1, <1>4 DEF Told, Is
<1> QED
  BY <1>2, <1>3, <1>4

LEMMA PacketKeepsTold ==
  ASSUME TypeOK, Told, HandlePacket
  PROVE  Told'
<1>1. /\ 1 \in DOMAIN down /\ Head(down) = down[1]
      /\ \A i \in DOMAIN down' : i \in Nat /\ i >= 1 /\ i + 1 \in DOMAIN down /\ down'[i] = down[i + 1]
      /\ \A i \in DOMAIN down : i = 1 \/ (i > 1 /\ i - 1 \in DOMAIN down' /\ down'[i - 1] = down[i])
      /\ \A i \in DOMAIN down : i \in Nat
  <2>1. down \in Seq(Answer) /\ down # <<>> /\ down' = Tail(down)
    BY DEF HandlePacket, TypeOK
  <2>2. \A i \in DOMAIN down : i \in Nat
    BY <2>1
  <2> QED
    BY <2>1, <2>2, TailAt
<1>2. /\ myHp' = (down[1].kind # "killed" /\ (down[1].kind = "revived" \/ myHp))
      /\ alive' = alive
  BY <1>1 DEF HandlePacket, zoneVars
<1>3. CASE alive
  <2>1. ASSUME NEW i \in DOMAIN down', Is(down', i, "killed")
        PROVE  \E j \in DOMAIN down' : j > i /\ Is(down', j, "revived")
    <3>1. PICK j \in DOMAIN down : j > i + 1 /\ Is(down, j, "revived")
      BY <1>1, <1>3, <2>1 DEF Told, Is
    <3>2. j - 1 \in DOMAIN down' /\ j - 1 > i /\ Is(down', j - 1, "revived")
      BY <1>1, <3>1 DEF Is
    <3> QED
      BY <3>2
  <2>2. myHp' \/ \E j \in DOMAIN down' : Is(down', j, "revived")
    <3>1. CASE down[1].kind = "killed"
      <4>1. PICK j \in DOMAIN down : j > 1 /\ Is(down, j, "revived")
        BY <1>1, <1>3, <3>1 DEF Told, Is
      <4> QED
        BY <1>1, <4>1 DEF Is
    <3>2. CASE down[1].kind # "killed" /\ down[1].kind # "revived" /\ ~myHp
      <4>1. PICK j \in DOMAIN down : Is(down, j, "revived")
        BY <1>3, <3>2 DEF Told
      <4> QED
        BY <1>1, <3>2, <4>1 DEF Is
    <3> QED
      BY <1>2, <3>1, <3>2
  <2> QED
    BY <1>2, <1>3, <2>1, <2>2 DEF Told
<1>4. CASE ~alive
  <2>1. ASSUME NEW i \in DOMAIN down', Is(down', i, "revived")
        PROVE  \E j \in DOMAIN down' : j > i /\ Is(down', j, "killed")
    <3>1. PICK j \in DOMAIN down : j > i + 1 /\ Is(down, j, "killed")
      BY <1>1, <1>4, <2>1 DEF Told, Is
    <3>2. j - 1 \in DOMAIN down' /\ j - 1 > i /\ Is(down', j - 1, "killed")
      BY <1>1, <3>1 DEF Is
    <3> QED
      BY <3>2
  <2>2. ~myHp' \/ \E j \in DOMAIN down' : Is(down', j, "killed")
    <3>1. CASE down[1].kind = "revived"
      <4>1. PICK j \in DOMAIN down : j > 1 /\ Is(down, j, "killed")
        BY <1>1, <1>4, <3>1 DEF Told, Is
      <4> QED
        BY <1>1, <4>1 DEF Is
    <3>2. CASE down[1].kind # "killed" /\ down[1].kind # "revived" /\ myHp
      <4>1. PICK j \in DOMAIN down : Is(down, j, "killed")
        BY <1>4, <3>2 DEF Told
      <4> QED
        BY <1>1, <3>2, <4>1 DEF Is
    <3> QED
      BY <1>2, <3>1, <3>2
  <2> QED
    BY <1>2, <1>4, <2>1, <2>2 DEF Told
<1> QED
  BY <1>3, <1>4

LEMMA NextKeepsTold ==
  ASSUME TypeOK, Told, [Next]_vars
  PROVE  Told'
<1>1. CASE UNCHANGED <<alive, myHp, down>>
  BY <1>1 DEF Told, Is
<1>2. CASE HandleMove /\ ~UNCHANGED down
  <2>1. /\ down' = Append(down, [kind |-> "correction", x |-> x])
        /\ alive' = alive /\ myHp' = myHp
    BY <1>2 DEF HandleMove, botVars
  <2>2. [kind |-> "correction", x |-> x] \in Answer
    BY AnswerType DEF TypeOK
  <2> QED
    BY <2>1, <2>2, TellKeepsTold
<1>3. CASE HandleRevive /\ ~UNCHANGED <<alive, myHp, down>>
  <2>1. down' = Append(down, [kind |-> "revived", x |-> Spawn]) /\ alive' /\ myHp' = myHp
    BY <1>3 DEF HandleRevive, botVars
  <2>2. [kind |-> "revived", x |-> Spawn] \in Answer
    BY AnswerType
  <2> QED
    BY <2>1, <2>2, TellKeepsTold
<1>4. CASE MonsterAttack
  <2>1. down' = Append(down, [kind |-> "killed"]) /\ ~alive' /\ myHp' = myHp
    BY <1>4 DEF MonsterAttack, botVars
  <2> QED
    BY <2>1, AnswerType, TellKeepsTold
<1>5. CASE ~(HandleMove \/ HandleRevive \/ MonsterAttack \/ HandlePacket)
  BY <1>1, <1>5 DEF Next, AskRevive, MoveToward, SendAnything, Tick, vars, zoneVars, botVars
<1> QED
  <2>1. HandleMove => UNCHANGED <<alive, myHp>>
    BY DEF HandleMove, botVars
  <2> QED
    BY <1>1, <1>2, <1>3, <1>4, <1>5, <2>1, PacketKeepsTold

\* A client that has not entered has sent nothing and is where it will enter.
LEMMA NextKeepsEntering ==
  ASSUME TypeOK, Entering, [Next]_vars
  PROVE  Entering'
<1>1. CASE UNCHANGED <<state, down, x, myX, up>>
  BY <1>1 DEF Entering, Is
<1>2. CASE HandlePacket
  <2>1. /\ \A i \in DOMAIN down' : i \in Nat /\ i >= 1 /\ i + 1 \in DOMAIN down /\ down'[i] = down[i + 1]
        /\ state' = "InGame"
    BY <1>2, TailAt DEF HandlePacket, TypeOK
  <2> QED
    BY <2>1 DEF Entering, Is
<1>3. ASSUME NEW p \in Answer, down' = Append(down, p), p.kind # "enter",
             UNCHANGED <<state, myX>>, state = "Spawning" => UNCHANGED <<x, up>>
      PROVE  Entering'
  <2>1. /\ \A i \in DOMAIN down : i \in DOMAIN down' /\ down'[i] = down[i]
        /\ \A i \in DOMAIN down' : i \in Nat /\ (i \in DOMAIN down \/ i = Len(down) + 1)
        /\ down'[Len(down) + 1] = p
    BY SMTT(20), <1>3, AppendAt DEF TypeOK
  <2>2. state' = "Spawning" => /\ up' = <<>> /\ x' = Spawn /\ myX' = Spawn
                               /\ Is(down', 1, "enter") /\ down'[1].x = Spawn
    BY <1>3, <2>1 DEF Entering, Is
  <2>3. ASSUME NEW i \in DOMAIN down', Is(down', i, "enter")
        PROVE  i = 1 /\ state' = "Spawning"
    <3>1. i \in DOMAIN down /\ Is(down, i, "enter")
      BY <1>3, <2>1, <2>3 DEF Is
    <3> QED
      BY <1>3, <3>1 DEF Entering
  <2> QED
    BY <2>2, <2>3 DEF Entering
<1>4. CASE HandleMove
  <2>1. state # "Spawning"
    BY <1>4 DEF Entering, HandleMove, Receives
  <2>2. [kind |-> "correction", x |-> x] \in Answer
    BY AnswerType DEF TypeOK
  <2>3. UNCHANGED <<state, myX>>
    BY <1>4 DEF HandleMove, botVars
  <2>4. UNCHANGED down \/ down' = Append(down, [kind |-> "correction", x |-> x])
    BY <1>4 DEF HandleMove
  <2>5. UNCHANGED down => Entering'
    BY <2>1, <2>3 DEF Entering, Is
  <2> QED
    BY <1>3, <2>1, <2>2, <2>3, <2>4, <2>5
<1>5. CASE HandleRevive
  <2>1. state # "Spawning"
    BY <1>5 DEF Entering, HandleRevive, Receives
  <2>2. [kind |-> "revived", x |-> Spawn] \in Answer
    BY AnswerType
  <2>3. UNCHANGED <<state, myX>>
    BY <1>5 DEF HandleRevive, botVars
  <2>4. UNCHANGED down \/ down' = Append(down, [kind |-> "revived", x |-> Spawn])
    BY <1>5 DEF HandleRevive
  <2>5. UNCHANGED down => Entering'
    BY <2>1, <2>3 DEF Entering, Is
  <2> QED
    BY <1>3, <2>1, <2>2, <2>3, <2>4, <2>5
<1>6. CASE MonsterAttack
  BY <1>3, <1>6, AnswerType DEF MonsterAttack, botVars
<1>7. CASE AskRevive \/ (\E to \in Places : MoveToward(to)) \/ (\E p \in Request : SendAnything(p))
  <2>1. state = "InGame" /\ UNCHANGED <<state, down>>
    BY <1>7 DEF AskRevive, MoveToward, SendAnything, OnTick, botVars
  <2> QED
    BY <2>1 DEF Entering, Is
<1>8. CASE Tick
  <2>1. UNCHANGED <<state, down, x, myX>> /\ (up = <<>> => up' = <<>>)
    BY <1>8 DEF Tick
  <2> QED
    BY <2>1 DEF Entering, Is
<1> QED
  <2>1. UNCHANGED vars => UNCHANGED <<state, down, x, myX, up>>
    BY DEF vars, zoneVars, botVars
  <2> QED
    BY <1>1, <1>2, <1>4, <1>5, <1>6, <1>7, <1>8, <2>1 DEF Next

-----------------------------------------------------------------------------
\* Steps and budgets.

\* Multiples of a step grow with their count, by a step each.
LEMMA Steps ==
  ASSUME NEW a \in Nat, NEW b \in Nat, a <= b
  PROVE  /\ Step * a \in Nat /\ Step * b \in Nat /\ Step * a <= Step * b
         /\ Step * (a + 1) = Step * a + Step
<1>1. Step \in Nat
  OBVIOUS
<1>2. PICK d \in Nat : b = a + d
  <2>1. b - a \in Nat /\ b = a + (b - a)
    OBVIOUS
  <2> QED
    BY <2>1
<1>3. Step * b = Step * a + Step * d /\ Step * d \in Nat /\ Step * a \in Nat
  BY <1>1, <1>2
<1> QED
  BY <1>1, <1>3

\* A tick adds the way of a tick to the budget, up to the cap.
LEMMA TickRefills ==
  ASSUME TypeOK, Tick
  PROVE  Refilled' >= Least(Refilled + MAX_MOVE_SPEED, Cap)
<1> DEFINE V == MAX_MOVE_SPEED
<1>1. /\ moveBudget \in Nat /\ sinceMove \in Nat /\ Second \in Nat /\ V \in Nat
      /\ Cap \in Nat /\ sinceMove <= Second
  BY Numbers DEF TypeOK
<1>2. sinceMove' = Least(sinceMove + 1, Second) /\ moveBudget' = moveBudget
  BY DEF Tick
<1> DEFINE old == sinceMove * V
           new == sinceMove' * V
<1>3. /\ Refilled = Least(moveBudget + old, Cap)
      /\ Refilled' = Least(moveBudget + new, Cap)
  BY <1>2 DEF Refilled, Cap
<1>4. old \in Nat
  BY <1>1
<1>5. new = old + V \/ new = Cap
  <2>1. CASE sinceMove < Second
    <3>1. sinceMove' = sinceMove + 1
      BY <1>1, <1>2, <2>1
    <3> QED
      BY <1>1, <3>1
  <2>2. CASE sinceMove = Second
    <3>1. sinceMove' = Second
      BY <1>1, <1>2, <2>2
    <3> QED
      BY <1>1, <3>1 DEF Cap
  <2> QED
    BY <1>1, <2>1, <2>2
<1> HIDE DEF old, new, V
<1>6. Refilled' >= Least(Refilled + V, Cap)
  BY <1>1, <1>3, <1>4, <1>5
<1> QED
  BY <1>6 DEF V

\* Aging changes nothing about a packet but its age.
LEMMA AgedAt ==
  ASSUME TypeOK, Tick
  PROVE  /\ DOMAIN up' = DOMAIN up /\ Len(up') = Len(up)
         /\ \A i \in DOMAIN up : /\ up'[i].kind = up[i].kind /\ up'[i].age = up[i].age + 1
                                 /\ Move(i) => up'[i].x = up[i].x
                                 /\ up[i].age \in Nat /\ up[i].age < MaxDelay
<1>1. up \in Seq(Request) /\ Len(up) \in Nat /\ DOMAIN up = 1..Len(up)
  BY DEF TypeOK
<1> DEFINE aged == [i \in DOMAIN up |-> [up[i] EXCEPT !.age = @ + 1]]
<1>2. up' = aged /\ \A i \in DOMAIN up : up[i].age < MaxDelay
  BY DEF Tick
<1>3. DOMAIN aged = 1..Len(up) /\ aged \in Seq(Request)
  BY <1>1, <1>2, AgedType
<1>4. Len(aged) = Len(up)
  BY <1>1, <1>3
<1>5. ASSUME NEW i \in DOMAIN up
      PROVE  /\ aged[i].kind = up[i].kind /\ aged[i].age = up[i].age + 1
             /\ Move(i) => aged[i].x = up[i].x
             /\ up[i].age \in Nat
  <2>1. up[i] \in Request /\ aged[i] = [up[i] EXCEPT !.age = @ + 1]
    BY <1>1
  <2> DEFINE r == up[i]
  <2>2. r \in Request /\ aged[i] = [r EXCEPT !.age = @ + 1] /\ (Move(i) => r.kind = "move")
    BY <2>1 DEF Move, Is
  <2> HIDE DEF r, aged
  <2>3. /\ aged[i].kind = r.kind /\ aged[i].age = r.age + 1 /\ r.age \in Nat
        /\ Move(i) => aged[i].x = r.x
    <3>1. CASE r \in [kind : {"move"}, x : Places \cup {NotFinite}, age : 0..MaxDelay]
      <4>1. aged[i] = [kind |-> "move", x |-> r.x, age |-> r.age + 1] /\ r.age \in 0..MaxDelay
        BY <2>2, <3>1
      <4> QED
        BY <2>2, <3>1, <4>1
    <3>2. CASE r \in [kind : {"revive"}, age : 0..MaxDelay]
      <4>1. aged[i] = [kind |-> "revive", age |-> r.age + 1] /\ r.age \in 0..MaxDelay
        BY <2>2, <3>2
      <4> QED
        BY <2>2, <3>2, <4>1
    <3> QED
      BY <2>2, <3>1, <3>2 DEF Request
  <2> QED
    BY <2>3 DEF r
<1> HIDE DEF aged
<1> QED
  BY <1>1, <1>2, <1>3, <1>4, <1>5

\* The requests on their way have an age, and the first of them is the head.
LEMMA UpAt ==
  ASSUME TypeOK
  PROVE  /\ \A i \in DOMAIN up : i \in Nat /\ i >= 1 /\ up[i] \in Request /\ up[i].age \in Nat
         /\ DOMAIN up = 1..Len(up) /\ Len(up) \in Nat
<1>1. up \in Seq(Request)
  BY DEF TypeOK
<1>2. \A r \in Request : r.age \in Nat
  BY DEF Request
<1> QED
  BY <1>1, <1>2

-----------------------------------------------------------------------------
\* An honest client, action by action.

\* The zone reads the first request: what the others say of their budgets stays true
\* as long as the budget is left alone.
LEMMA ReceiveKeepsAffordable ==
  ASSUME TypeOK, Affordable, up # <<>>, up' = Tail(up), UNCHANGED <<tickIn, state>>,
         \A i \in DOMAIN up : i > 1 /\ Move(i) => Refilled' >= Step * (up[i].age + 1),
         tickIn = 0 /\ state = "InGame" => Refilled' >= Step
  PROVE  Affordable'
<1>1. /\ 1 \in DOMAIN up /\ Head(up) = up[1]
      /\ \A i \in DOMAIN up' : i \in Nat /\ i >= 1 /\ i + 1 \in DOMAIN up /\ up'[i] = up[i + 1]
  BY TailAt DEF TypeOK
<1>2. \A i \in DOMAIN up' : Move(i)' => Move(i + 1) /\ i + 1 > 1
  BY <1>1 DEF Move, Is
<1>3. \A i \in DOMAIN up' : Move(i)' => up'[i].x \in Places /\ Refilled' >= Step * (up'[i].age + 1)
  BY <1>1, <1>2 DEF Affordable
<1>4. ASSUME NEW i \in DOMAIN up', NEW j \in DOMAIN up', i < j, Move(i)', Move(j)'
      PROVE  up'[i].age > up'[j].age
  <2>1. i + 1 < j + 1
    BY <1>1, <1>4
  <2> QED
    BY <1>1, <1>2, <1>4, <2>1 DEF Affordable
<1>5. tickIn' = 0 => \A i \in DOMAIN up' : Move(i)' => up'[i].age >= 1
  BY <1>1, <1>2 DEF Affordable
<1> QED
  BY <1>3, <1>4, <1>5 DEF Affordable

LEMMA HonestMove ==
  ASSUME HInv, honest, ~overtaken, HandleMove
  PROVE  Followed' /\ Affordable' /\ Uncorrected'
<1>1. Followed /\ Affordable /\ Uncorrected /\ TypeOK /\ Entering
  BY DEF HInv, Honest
<1>2. /\ 1 \in DOMAIN up /\ Head(up) = up[1] /\ Len(up') = Len(up) - 1
      /\ \A i \in DOMAIN up' : i \in Nat /\ i >= 1 /\ i + 1 \in DOMAIN up /\ up'[i] = up[i + 1]
      /\ \A i \in DOMAIN up : i = 1 \/ (i > 1 /\ i - 1 \in DOMAIN up' /\ up'[i - 1] = up[i])
      /\ up # <<>> /\ up' = Tail(up)
  <2>1. up \in Seq(Request) /\ up # <<>> /\ up' = Tail(up)
    BY <1>1 DEF HandleMove, Receives, TypeOK
  <2> QED
    BY <2>1, TailAt
<1>3. Move(1) /\ UNCHANGED <<tickIn, state, myX, myHp, alive>>
  BY <1>2 DEF HandleMove, Receives, Move, Is, botVars
<1>4. CASE ~alive /\ UNCHANGED <<x, moveBudget, sinceMove, down, history>>
  <2>1. Refilled' = Refilled
    BY <1>4 DEF Refilled, Cap
  <2>2. Affordable'
    BY <1>1, <1>2, <1>3, <2>1, ReceiveKeepsAffordable DEF Affordable
  <2> QED
    BY <1>1, <1>3, <1>4, <2>2 DEF Followed, Uncorrected, history, Move, Is
<1>5. CASE alive
  <2>1. Trail /\ down = <<>>
    <3>1. state # "Spawning"
      BY <1>1, <1>2 DEF Entering
    <3> QED
      BY <1>1, <1>2, <1>3, <1>5, <3>1 DEF Followed
  <2>2. Distance(x, up[1].x) <= Step
    <3>1. \A k \in 1..1-1 : ~Move(k)
      OBVIOUS
    <3> QED
      BY <1>2, <1>3, <2>1, <3>1 DEF Trail
  <2>3. up[1].x \in Places /\ Refilled >= Step * (up[1].age + 1)
    BY <1>1, <1>2, <1>3 DEF Affordable
  <2>4. /\ up[1].age \in Nat /\ Refilled \in Nat /\ Distance(x, up[1].x) \in Nat
        /\ x \in Places /\ Step \in Nat
    BY <1>1, <1>2, <2>3, UpAt, RefilledType, Numbers DEF TypeOK
  <2> HIDE DEF Distance
  <2>5. Distance(x, up[1].x) <= Refilled
    <3>1. Step * (up[1].age + 1) = Step * up[1].age + Step /\ Step * up[1].age \in Nat
      BY <2>4, Steps
    <3> QED
      BY <2>2, <2>3, <2>4, <3>1
  <2>6. ~TryMove(up[1].x, FALSE)
    BY <2>3, <2>5 DEF TryMove
  <2>7. /\ TryMove(up[1].x, TRUE)
        /\ UNCHANGED <<down, corrected>>
    BY <1>2, <1>5, <2>6 DEF HandleMove
  <2>8. x' = up[1].x /\ Refilled' = Refilled - Distance(x, up[1].x)
    <3>1. x' = up[1].x
      BY <2>3, <2>7 DEF TryMove
    <3> QED
      BY <1>1, <2>3, <2>7, <3>1, TryMoveType
  <2>9. Refilled' >= Step * up[1].age /\ Refilled' \in Int
    <3>1. Step * (up[1].age + 1) = Step * up[1].age + Step /\ Step * up[1].age \in Nat
      BY <2>4, Steps
    <3> QED
      BY <2>2, <2>3, <2>4, <2>8, <3>1
  <2>10. Affordable'
    <3>1. ASSUME NEW i \in DOMAIN up, i > 1, Move(i)
          PROVE  Refilled' >= Step * (up[i].age + 1)
      <4>1. up[1].age > up[i].age /\ up[i].age \in Nat
        BY <1>1, <1>2, <1>3, <3>1, UpAt DEF Affordable
      <4>2. up[i].age + 1 \in Nat /\ up[i].age + 1 <= up[1].age
        BY <2>4, <4>1
      <4>3. /\ Step * (up[i].age + 1) <= Step * up[1].age
            /\ Step * (up[i].age + 1) \in Nat /\ Step * up[1].age \in Nat
        BY <2>4, <4>2, Steps
      <4> QED
        BY <2>9, <4>3
    <3>2. tickIn = 0 /\ state = "InGame" => Refilled' >= Step
      <4>1. SUFFICES ASSUME tickIn = 0 PROVE Refilled' >= Step
        OBVIOUS
      <4>2. up[1].age >= 1
        BY <1>1, <1>2, <1>3, <4>1 DEF Affordable
      <4>3. Step * 1 <= Step * up[1].age /\ Step * up[1].age \in Nat /\ Step * 1 = Step
        BY <2>4, <4>2, Steps
      <4> QED
        BY <2>4, <2>9, <4>3
    <3> QED
      BY <1>1, <1>2, <1>3, <3>1, <3>2, ReceiveKeepsAffordable
  <2>11. Trail'
    <3>1. /\ \A i \in DOMAIN up' : Move(i)' <=> Move(i + 1)
          /\ \A k \in DOMAIN up : k \in Nat /\ (Move(k) /\ k # 1 => Move(k - 1)')
      BY <1>1, <1>2, UpAt DEF Move, Is
    <3>2. ASSUME NEW i \in DOMAIN up', Move(i)', \A k \in 1..i-1 : ~Move(k)'
          PROVE  Distance(x', up'[i].x) <= Step
      <4>1. \A k \in 2..i : ~Move(k)
        <5>1. ASSUME NEW k \in 2..i, Move(k)
              PROVE  FALSE
          <6>1. k - 1 \in 1..i-1 /\ Move(k - 1)'
            BY <1>2, <5>1 DEF Move, Is
          <6> QED
            BY <3>2, <6>1
        <5> QED
          BY <5>1
      <4>2. \A k \in 1+1..(i + 1)-1 : ~Move(k)
        BY <1>2, <4>1
      <4>3. 1 < i + 1 /\ i + 1 \in DOMAIN up /\ Move(i + 1)
        BY <1>2, <3>1, <3>2
      <4>4. Distance(up[1].x, up[i + 1].x) <= Step
        BY <1>2, <1>3, <2>1, <4>2, <4>3 DEF Trail
      <4> QED
        BY <1>2, <2>8, <4>4
    <3>3. ASSUME NEW i \in DOMAIN up', NEW j \in DOMAIN up', i < j, Move(i)', Move(j)',
                 \A k \in i+1..j-1 : ~Move(k)'
          PROVE  Distance(up'[i].x, up'[j].x) <= Step
      <4>1. \A k \in (i + 1)+1..(j + 1)-1 : ~Move(k)
        <5>1. ASSUME NEW k \in (i + 1)+1..(j + 1)-1, Move(k)
              PROVE  FALSE
          <6>1. /\ i \in Nat /\ j \in Nat /\ k \in Nat /\ k > 1 /\ k \in DOMAIN up
                /\ k - 1 >= i + 1 /\ k - 1 <= j - 1
            <7>1. i \in Nat /\ j \in Nat
              BY <1>2
            <7>2. k \in Nat /\ k >= i + 2 /\ k <= j
              BY <5>1, <7>1
            <7>3. k \in DOMAIN up
              BY <5>1 DEF Move, Is
            <7> QED
              BY <7>1, <7>2, <7>3
          <6>2. k - 1 \in i+1..j-1
            BY <6>1
          <6>3. Move(k - 1)'
            BY <3>1, <5>1, <6>1
          <6> QED
            BY <3>3, <6>2, <6>3
        <5> QED
          BY <5>1
      <4>2. i + 1 < j + 1
        BY <1>2, <3>3
      <4> QED
        BY ZenonT(40), <1>2, <2>1, <3>1, <3>3, <4>1, <4>2 DEF Trail
    <3>4. ASSUME NEW i \in DOMAIN up', Move(i)', \A k \in i+1..Len(up') : ~Move(k)'
          PROVE  up'[i].x = myX'
      <4>1. \A k \in (i + 1)+1..Len(up) : ~Move(k)
        <5>1. ASSUME NEW k \in (i + 1)+1..Len(up), Move(k)
              PROVE  FALSE
          <6>1. /\ i \in Nat /\ k \in Nat /\ k > 1 /\ k \in DOMAIN up /\ Len(up) \in Nat
                /\ k - 1 >= i + 1 /\ k - 1 <= Len(up) - 1
            BY SMTT(20), <1>1, <1>2, <5>1, UpAt DEF Move, Is
          <6>2. k - 1 \in i+1..Len(up')
            BY <1>2, <6>1
          <6>3. Move(k - 1)'
            BY SMTT(60), <3>1, <5>1, <6>1
          <6> QED
            BY <3>4, <6>2, <6>3
        <5> QED
          BY <5>1
      <4> QED
        BY <1>2, <1>3, <2>1, <3>1, <3>4, <4>1 DEF Trail
    <3>5. ASSUME \A i \in DOMAIN up' : ~Move(i)'
          PROVE  x' = myX'
      <4>1. ASSUME NEW k \in 1+1..Len(up), Move(k)
            PROVE  FALSE
        <5>1. k - 1 \in DOMAIN up' /\ Move(k - 1)'
          BY SMTT(20), <1>2, <4>1 DEF Move, Is
        <5> QED
          BY <3>5, <5>1
      <4> QED
        BY <1>2, <1>3, <2>1, <2>8, <4>1 DEF Trail
    <3> QED
      BY <3>2, <3>3, <3>4, <3>5 DEF Trail
  <2> QED
    BY <1>1, <2>1, <2>7, <2>10, <2>11 DEF Followed, Uncorrected, Move, Is
<1> QED
  BY <1>4, <1>5 DEF HandleMove

\* The zone reads a request that is no move.
LEMMA HonestRevive ==
  ASSUME HInv, honest, ~overtaken', HandleRevive
  PROVE  Followed' /\ Affordable' /\ Uncorrected'
<1>0. ~overtaken
  BY DEF HandleRevive
<1>1. Followed /\ Affordable /\ Uncorrected /\ TypeOK /\ Entering /\ Told
  BY <1>0 DEF HInv, Honest
<1>2. /\ 1 \in DOMAIN up /\ Head(up) = up[1] /\ Len(up') = Len(up) - 1
      /\ \A i \in DOMAIN up' : i \in Nat /\ i >= 1 /\ i + 1 \in DOMAIN up /\ up'[i] = up[i + 1]
      /\ \A i \in DOMAIN up : i = 1 \/ (i > 1 /\ i - 1 \in DOMAIN up' /\ up'[i - 1] = up[i])
      /\ up # <<>> /\ up' = Tail(up)
  <2>1. up \in Seq(Request) /\ up # <<>> /\ up' = Tail(up)
    BY <1>1 DEF HandleRevive, Receives, TypeOK
  <2> QED
    BY <2>1, TailAt
<1>3. /\ ~Move(1) /\ state # "Spawning"
      /\ UNCHANGED <<tickIn, state, myX, myHp, corrected, moveBudget, sinceMove>>
  BY <1>1, <1>2 DEF HandleRevive, Receives, Move, Is, botVars, Entering
<1>4. Refilled' = Refilled
  BY <1>3 DEF Refilled, Cap
<1>5. Affordable'
  BY <1>1, <1>2, <1>3, <1>4, ReceiveKeepsAffordable DEF Affordable
<1>6. /\ \A i \in DOMAIN up' : Move(i)' <=> Move(i + 1)
      /\ \A k \in DOMAIN up : k \in Nat /\ (Move(k) => k # 1 /\ Move(k - 1)')
  BY <1>1, <1>2, <1>3, UpAt DEF Move, Is
<1>7. CASE alive
  <2>1. UNCHANGED <<x, alive, down>>
    BY <1>7 DEF HandleRevive
  <2>2. ASSUME Trail
        PROVE  Trail'
    <3>1. ASSUME NEW i \in DOMAIN up', Move(i)', \A k \in 1..i-1 : ~Move(k)'
          PROVE  Distance(x', up'[i].x) <= Step
      <4>1. ASSUME NEW k \in 1..(i + 1)-1, Move(k)
            PROVE  FALSE
        <5>1. k \in DOMAIN up /\ k # 1 /\ Move(k - 1)'
          BY <1>6, <4>1 DEF Move, Is
        <5>2. k - 1 \in 1..i-1
          <6>1. i \in Nat
            BY <1>2
          <6> QED
            BY <4>1, <5>1, <6>1
        <5> QED
          BY <3>1, <5>1, <5>2
      <4>2. i + 1 \in DOMAIN up /\ Move(i + 1)
        BY <1>2, <1>6, <3>1
      <4> QED
        BY <1>2, <2>1, <2>2, <4>1, <4>2 DEF Trail
    <3>2. ASSUME NEW i \in DOMAIN up', NEW j \in DOMAIN up', i < j, Move(i)', Move(j)',
                 \A k \in i+1..j-1 : ~Move(k)'
          PROVE  Distance(up'[i].x, up'[j].x) <= Step
      <4>1. i \in Nat /\ j \in Nat
        BY <1>2
      <4>2. ASSUME NEW k \in (i + 1)+1..(j + 1)-1, Move(k)
            PROVE  FALSE
        <5>1. k \in DOMAIN up /\ k # 1 /\ Move(k - 1)'
          BY <1>6, <4>2 DEF Move, Is
        <5>2. k - 1 \in i+1..j-1
          BY <4>1, <4>2
        <5> QED
          BY <3>2, <5>1, <5>2
      <4>3. i + 1 \in DOMAIN up /\ j + 1 \in DOMAIN up /\ i + 1 < j + 1 /\ Move(i + 1) /\ Move(j + 1)
        BY <1>2, <1>6, <3>2, <4>1
      <4>4. Distance(up[i + 1].x, up[j + 1].x) <= Step
        BY <2>2, <4>2, <4>3 DEF Trail
      <4> QED
        BY <1>2, <4>4
    <3>3. ASSUME NEW i \in DOMAIN up', Move(i)', \A k \in i+1..Len(up') : ~Move(k)'
          PROVE  up'[i].x = myX'
      <4>1. i \in Nat /\ Len(up) \in Nat
        BY <1>1, <1>2, UpAt
      <4>2. ASSUME NEW k \in (i + 1)+1..Len(up), Move(k)
            PROVE  FALSE
        <5>1. k \in DOMAIN up /\ k # 1 /\ Move(k - 1)'
          BY <1>6, <4>2 DEF Move, Is
        <5>2. k - 1 \in i+1..Len(up')
          BY SMTT(20), <1>2, <4>1, <4>2
        <5> QED
          BY <3>3, <5>1, <5>2
      <4>3. i + 1 \in DOMAIN up /\ Move(i + 1)
        BY <1>2, <1>6, <3>3
      <4> QED
        BY <1>2, <1>3, <2>2, <4>2, <4>3 DEF Trail
    <3>4. ASSUME \A i \in DOMAIN up' : ~Move(i)'
          PROVE  x' = myX'
      <4>1. ASSUME NEW k \in DOMAIN up, Move(k)
            PROVE  FALSE
        <5>1. k # 1 /\ Move(k - 1)' /\ k - 1 \in DOMAIN up'
          BY <1>2, <1>6, <4>1
        <5> QED
          BY <3>4, <5>1
      <4> QED
        BY <1>3, <2>1, <2>2, <4>1 DEF Trail
    <3> QED
      BY <3>1, <3>2, <3>3, <3>4 DEF Trail
  <2>3. (\A i \in DOMAIN up : ~Move(i)) => \A i \in DOMAIN up' : ~Move(i)'
    BY <1>2, <1>6
  <2> QED
    BY <1>1, <1>3, <1>5, <1>7, <2>1, <2>2, <2>3 DEF Followed, Uncorrected, Is
<1>8. CASE ~alive
  <2>1. /\ x' = Spawn /\ down' = Append(down, [kind |-> "revived", x |-> Spawn])
        /\ ~\E i \in DOMAIN down : down[i].kind = "killed"
        /\ ~\E i \in DOMAIN up : up[i].kind = "move"
    BY <1>8 DEF HandleRevive
  <2>2. ~myHp /\ \A i \in DOMAIN down : ~Is(down, i, "revived")
    BY <1>1, <1>8, <2>1 DEF Told, Is
  <2>3. \A i \in DOMAIN down : down[i].kind \notin {"enter", "correction", "killed", "revived"}
    BY <1>1, <1>3, <2>1, <2>2 DEF Entering, Uncorrected, Is
  <2>4. \A p \in Answer : p.kind \in {"enter", "correction", "killed", "revived"}
    BY DEF Answer
  <2>5. down \in Seq(Answer)
    BY <1>1 DEF TypeOK
  <2>6. down = <<>>
    <3>1. SUFFICES ASSUME down # <<>> PROVE FALSE
      OBVIOUS
    <3>2. 1 \in DOMAIN down /\ down[1] \in Answer
      BY <2>5, <3>1
    <3> QED
      BY <2>3, <2>4, <3>2
  <2>7. down' = <<[kind |-> "revived", x |-> Spawn]>>
    BY <2>1, <2>6
  <2> DEFINE p == [kind |-> "revived", x |-> Spawn]
  <2>8. p.kind = "revived" /\ p.x = Spawn /\ down' = <<p>>
    BY <2>7
  <2> HIDE DEF p
  <2>9. /\ Len(down') = 1 /\ DOMAIN down' = {1} /\ down'[1] = p
    BY <2>8
  <2>10. \A i \in DOMAIN up' : ~Move(i)'
    BY <1>2, <1>6, <2>1 DEF Move, Is
  <2>11. Followed'
    BY <1>3, <2>1, <2>2, <2>8, <2>9, <2>10 DEF Followed, Is
  <2>12. Uncorrected'
    BY <1>1, <1>3, <2>8, <2>9 DEF Uncorrected, Is
  <2> QED
    BY <1>5, <2>11, <2>12
<1> QED
  BY <1>7, <1>8

\* The client reads what the zone tells it.
LEMMA HonestPacket ==
  ASSUME HInv, honest, ~overtaken, HandlePacket
  PROVE  Followed' /\ Affordable' /\ Uncorrected'
<1>1. Followed /\ Affordable /\ Uncorrected /\ TypeOK /\ Entering
  BY DEF HInv, Honest
<1>2. /\ 1 \in DOMAIN down /\ Head(down) = down[1] /\ Len(down') = Len(down) - 1
      /\ \A i \in DOMAIN down' : i \in Nat /\ i >= 1 /\ i + 1 \in DOMAIN down /\ down'[i] = down[i + 1]
      /\ down # <<>> /\ down' = Tail(down) /\ down' \in Seq(Answer)
  <2>1. down \in Seq(Answer) /\ down # <<>> /\ down' = Tail(down)
    BY <1>1 DEF HandlePacket, TypeOK
  <2> QED
    BY <2>1, TailAt, QueueType
<1>3. /\ state' = "InGame"
      /\ myX' = (IF down[1].kind = "killed" THEN myX ELSE down[1].x)
      /\ tickIn' = (IF down[1].kind = "enter" THEN 1 ELSE tickIn)
      /\ UNCHANGED <<x, alive, moveBudget, sinceMove, up, corrected>>
  BY <1>2 DEF HandlePacket, zoneVars, history
<1>4. Uncorrected'
  BY <1>1, <1>2, <1>3 DEF Uncorrected, Is
<1>5. Affordable'
  <2>1. Refilled' = Refilled
    BY <1>3 DEF Refilled, Cap
  <2>2. tickIn' = 0 => tickIn = 0 /\ state = "InGame"
    BY <1>1, <1>3 DEF Entering, Is, TypeOK
  <2> QED
    BY <1>1, <1>3, <2>1, <2>2 DEF Affordable, Move, Is
<1>6. Followed'
  <2>1. SUFFICES ASSUME alive
                 PROVE  down' = <<>> /\ Trail'
    BY <1>3 DEF Followed
  <2>2. Len(down) = 1
    BY <1>1, <1>2, <2>1 DEF Followed
  <2>3. down' = <<>>
    BY SMTT(20), <1>2, <2>2
  <2>4. CASE state = "Spawning"
    <3>1. up = <<>> /\ x = Spawn /\ down[1].kind = "enter" /\ down[1].x = Spawn
      BY <1>1, <2>4 DEF Entering, Is
    <3>2. DOMAIN up' = {} /\ x' = myX'
      BY <1>3, <3>1
    <3> QED
      BY <2>3, <3>2 DEF Trail
  <2>5. CASE state # "Spawning"
    <3>1. /\ Is(down, 1, "revived") /\ down[1].x = Spawn /\ x = Spawn
          /\ \A i \in DOMAIN up : ~Move(i)
      BY <1>1, <1>2, <2>1, <2>5 DEF Followed
    <3>2. x' = myX' /\ \A i \in DOMAIN up' : ~Move(i)'
      BY <1>3, <3>1 DEF Move, Is
    <3> QED
      BY <2>3, <3>2 DEF Trail
  <2> QED
    BY <2>4, <2>5
<1> QED
  BY <1>4, <1>5, <1>6

\* A dead bot asks to be revived: no move is sent.
LEMMA HonestAsk ==
  ASSUME HInv, honest, ~overtaken, AskRevive
  PROVE  Followed' /\ Affordable' /\ Uncorrected'
<1>1. Followed /\ Affordable /\ Uncorrected /\ TypeOK /\ Told
  BY DEF HInv, Honest
<1>2. /\ state = "InGame" /\ tickIn = 0 /\ tickIn' = 1 /\ ~myHp
      /\ UNCHANGED <<x, alive, moveBudget, sinceMove, state, myX, myHp, down, corrected>>
  BY DEF AskRevive, OnTick, zoneVars, history
<1>3. Refilled' = Refilled
  BY <1>2 DEF Refilled, Cap
<1>4. /\ \A i \in DOMAIN up' : Move(i)' => i \in DOMAIN up /\ up'[i] = up[i] /\ Move(i)
  <2>1. CASE up' = up
    BY <2>1 DEF Move, Is
  <2>2. CASE up' = Append(up, [kind |-> "revive", age |-> 0])
    <3> DEFINE p == [kind |-> "revive", age |-> 0]
    <3>1. p \in Request /\ p.kind = "revive" /\ up \in Seq(Request) /\ up' = Append(up, p)
      BY <1>1, <2>2 DEF Request, TypeOK
    <3> HIDE DEF p
    <3>2. /\ \A i \in DOMAIN up : up'[i] = up[i]
          /\ \A i \in DOMAIN up' : i \in DOMAIN up \/ i = Len(up) + 1
          /\ up'[Len(up) + 1] = p
      BY <3>1, AppendAt
    <3> QED
      BY <3>1, <3>2 DEF Move, Is
  <2> QED
    BY <2>1, <2>2 DEF AskRevive
<1>5. Affordable'
  BY <1>1, <1>2, <1>3, <1>4 DEF Affordable
<1>6. alive => down # <<>>
  BY <1>1, <1>2 DEF Told, Is
<1>7. Followed'
  BY <1>1, <1>2, <1>4, <1>6 DEF Followed, Is
<1> QED
  BY <1>1, <1>2, <1>5, <1>7 DEF Uncorrected, Is

\* A living bot takes a step.
LEMMA HonestStep ==
  ASSUME HInv, honest, ~overtaken, NEW to \in Places, MoveToward(to)
  PROVE  Followed' /\ Affordable' /\ Uncorrected'
<1>1. Followed /\ Affordable /\ Uncorrected /\ TypeOK
  BY DEF HInv, Honest
<1>2. /\ state = "InGame" /\ tickIn = 0 /\ tickIn' = 1 /\ myHp /\ myX' = to
      /\ Distance(myX, to) <= Step
      /\ UNCHANGED <<x, alive, moveBudget, sinceMove, state, myHp, down, corrected>>
  BY DEF MoveToward, OnTick, zoneVars, history
<1>3. Refilled' = Refilled
  BY <1>2 DEF Refilled, Cap
<1>4. Uncorrected'
  BY <1>1, <1>2 DEF Uncorrected, Is
<1>5. alive => down = <<>> /\ Trail
  BY <1>1, <1>2 DEF Followed
<1>6. CASE to = myX
  <2>1. up' = up
    BY <1>6 DEF MoveToward
  <2>2. Affordable'
    BY <1>1, <1>2, <1>3, <2>1 DEF Affordable, Move, Is
  <2>3. Trail => Trail'
    BY <1>2, <1>6, <2>1 DEF Trail, Move, Is
  <2> QED
    BY <1>2, <1>4, <1>5, <2>2, <2>3 DEF Followed
<1>7. CASE to # myX
  <2> DEFINE p == [kind |-> "move", x |-> to, age |-> 0]
  <2>1. /\ p \in Request /\ p.kind = "move" /\ p.x = to /\ p.age = 0
        /\ up \in Seq(Request) /\ up' = Append(up, p)
    <3>1. p \in Request
      BY DEF Request
    <3> QED
      BY <1>1, <1>7, <3>1 DEF MoveToward, TypeOK
  <2> HIDE DEF p
  <2>0. PICK n \in Nat : n = Len(up) + 1
    BY <2>1
  <2>2. /\ Len(up') = n /\ n \in DOMAIN up' /\ up'[n] = p
        /\ \A i \in DOMAIN up : i \in DOMAIN up' /\ up'[i] = up[i] /\ i < n
        /\ \A i \in DOMAIN up' : i \in Nat /\ (i \in DOMAIN up \/ i = n)
    BY <2>0, <2>1, AppendAt
  <2>3. /\ DOMAIN up = 1..n-1 /\ n \in Nat /\ n >= 1 /\ Len(up) = n - 1
        /\ \A i \in DOMAIN up : up[i].age \in Nat
    BY <1>1, <2>0, UpAt
  <2>4. Move(n)' /\ \A i \in DOMAIN up : Move(i)' <=> Move(i)
    BY <2>1, <2>2 DEF Move, Is
  <2>5. Affordable'
    <3>1. Step * (0 + 1) = Step /\ Refilled >= Step
      <4>1. Step \in Nat
        OBVIOUS
      <4> QED
        BY <1>1, <1>2, <4>1 DEF Affordable
    <3>2. \A i \in DOMAIN up' : Move(i)' => up'[i].x \in Places /\ Refilled' >= Step * (up'[i].age + 1)
      BY <1>1, <1>3, <2>1, <2>2, <2>4, <3>1 DEF Affordable
    <3>3. ASSUME NEW i \in DOMAIN up', NEW j \in DOMAIN up', i < j, Move(i)', Move(j)'
          PROVE  up'[i].age > up'[j].age
      <4>1. i \in DOMAIN up /\ Move(i) /\ up[i].age >= 1 /\ up'[i] = up[i]
        BY SMTT(20), <1>1, <1>2, <2>2, <2>3, <2>4, <3>3 DEF Affordable
      <4>2. CASE j \in DOMAIN up
        BY <1>1, <2>2, <2>4, <3>3, <4>1, <4>2 DEF Affordable
      <4>3. CASE j = n
        BY SMTT(20), <2>1, <2>2, <2>3, <4>1, <4>3
      <4> QED
        BY <2>2, <4>2, <4>3
    <3> QED
      BY <1>2, <3>2, <3>3 DEF Affordable
  <2>6. ASSUME Trail
        PROVE  Trail'
    <3>1. ASSUME NEW i \in DOMAIN up', Move(i)', \A k \in 1..i-1 : ~Move(k)'
          PROVE  Distance(x', up'[i].x) <= Step
      <4>1. CASE i \in DOMAIN up
        <5>1. \A k \in 1..i-1 : ~Move(k)
          BY SMTT(20), <2>3, <2>4, <3>1, <4>1
        <5> QED
          BY <1>2, <2>2, <2>4, <2>6, <3>1, <4>1, <5>1 DEF Trail
      <4>2. CASE i = n
        <5>1. \A k \in DOMAIN up : ~Move(k)
          BY <2>3, <2>4, <3>1, <4>2
        <5>2. x = myX
          BY <2>6, <5>1 DEF Trail
        <5> QED
          BY <1>2, <2>1, <2>2, <4>2, <5>2
      <4> QED
        BY <2>2, <4>1, <4>2
    <3>2. ASSUME NEW i \in DOMAIN up', NEW j \in DOMAIN up', i < j, Move(i)', Move(j)',
                 \A k \in i+1..j-1 : ~Move(k)'
          PROVE  Distance(up'[i].x, up'[j].x) <= Step
      <4>0. i \in DOMAIN up
        BY <2>2, <2>3, <3>2
      <4>1. CASE j \in DOMAIN up
        <5>1. ASSUME NEW k \in i+1..j-1
              PROVE  ~Move(k)
          <6>1. k \in DOMAIN up
            BY SMTT(20), <2>3, <4>0, <4>1
          <6> QED
            BY <2>4, <3>2, <6>1
        <5> QED
          BY <2>2, <2>4, <2>6, <3>2, <4>0, <4>1, <5>1 DEF Trail
      <4>2. CASE j = n
        <5>1. \A k \in i+1..Len(up) : ~Move(k)
          BY SMTT(20), <2>3, <2>4, <3>2, <4>0, <4>2
        <5>2. up[i].x = myX
          BY <2>4, <2>6, <3>2, <4>0, <5>1 DEF Trail
        <5> QED
          BY <1>2, <2>1, <2>2, <4>0, <4>2, <5>2
      <4> QED
        BY <2>2, <4>1, <4>2
    <3>3. ASSUME NEW i \in DOMAIN up', Move(i)', \A k \in i+1..Len(up') : ~Move(k)'
          PROVE  up'[i].x = myX'
      <4>1. i = n
        BY <2>2, <2>3, <2>4, <3>3
      <4> QED
        BY <1>2, <2>1, <2>2, <4>1
    <3> QED
      BY <2>2, <2>4, <3>1, <3>2, <3>3 DEF Trail
  <2> QED
    BY <1>2, <1>4, <1>5, <2>5, <2>6 DEF Followed
<1> QED
  BY <1>6, <1>7

\* A tick pays for the age it adds.
LEMMA HonestTick ==
  ASSUME HInv, honest, ~overtaken, Tick
  PROVE  Followed' /\ Affordable' /\ Uncorrected'
<1>1. Followed /\ Affordable /\ Uncorrected /\ TypeOK /\ Entering
  BY DEF HInv, Honest
<1>2. /\ UNCHANGED <<x, alive, state, myX, myHp, down, corrected>>
      /\ tickIn' = Less(tickIn) /\ tickIn \in 0..1
  BY <1>1 DEF Tick, TypeOK
<1>3. /\ DOMAIN up' = DOMAIN up /\ Len(up') = Len(up)
      /\ \A i \in DOMAIN up : /\ up'[i].kind = up[i].kind /\ up'[i].age = up[i].age + 1
                              /\ Move(i) => up'[i].x = up[i].x
                              /\ up[i].age \in Nat /\ up[i].age < MaxDelay
  BY <1>1, AgedAt
<1>4. \A i : Move(i)' <=> Move(i)
  BY <1>3 DEF Move, Is
<1>5. Trail => Trail'
  BY <1>2, <1>3, <1>4 DEF Trail
<1>6. state = "Spawning" => state' = "Spawning"
  BY <1>2
<1>7. Followed'
  BY <1>1, <1>2, <1>3, <1>4, <1>5 DEF Followed, Is
<1>8. /\ Refilled' >= Least(Refilled + MAX_MOVE_SPEED, Cap)
      /\ Refilled \in Nat /\ Refilled' \in Nat /\ Cap \in Nat
      /\ Step \in Nat /\ MAX_MOVE_SPEED \in Nat /\ Step <= MAX_MOVE_SPEED
      /\ MaxDelay \in Nat /\ Step * (MaxDelay + 1) <= Cap
  <2>1. moveBudget' \in Nat /\ sinceMove' \in Nat /\ Cap \in Nat /\ MAX_MOVE_SPEED \in Nat
    <3>1. TypeOK' /\ Cap \in Nat
      BY <1>1, TickType, Numbers
    <3>2. moveBudget' \in 0..Cap /\ sinceMove' \in 0..Second
      BY <3>1 DEF TypeOK, Cap
    <3> QED
      BY <3>1, <3>2
  <2>2. Refilled' \in Nat
    <3>1. PICK b \in Nat, t \in Nat : b = moveBudget' /\ t = sinceMove'
      BY <2>1
    <3>2. PICK m \in Nat : m = t * MAX_MOVE_SPEED
      BY <2>1
    <3>3. Refilled' = Least(b + m, Cap)
      BY <3>1, <3>2 DEF Refilled, Cap
    <3> QED
      BY <2>1, <3>3
  <2> QED
    BY <1>1, <2>2, RefilledType, TickRefills, Numbers
<1> DEFINE r == Refilled
           rr == Refilled'
<1>9. Affordable'
  <2>1. ASSUME NEW i \in DOMAIN up, Move(i)
        PROVE  Refilled' >= Step * (up'[i].age + 1)
    <3> DEFINE a == up[i].age + 1
    <3>1. a \in Nat /\ a <= MaxDelay /\ up'[i].age = a
      BY <1>3, <1>8
    <3>2. r >= Step * a
      BY <1>1, <2>1 DEF Affordable
    <3> HIDE DEF a
    <3>3. /\ Step * (a + 1) = Step * a + Step /\ Step * a \in Nat
      BY <3>1, Steps
    <3>4. Step * (a + 1) <= Step * (MaxDelay + 1) /\ Step * (MaxDelay + 1) \in Nat
      <4>1. a + 1 \in Nat /\ MaxDelay + 1 \in Nat /\ a + 1 <= MaxDelay + 1
        BY <1>8, <3>1
      <4> QED
        BY <4>1, Steps
    <3> HIDE DEF r, rr
    <3>5. r \in Nat /\ rr \in Nat /\ rr >= Least(r + MAX_MOVE_SPEED, Cap)
      BY <1>8 DEF r, rr
    <3>6. rr >= Step * (a + 1)
      BY <1>8, <3>2, <3>3, <3>4, <3>5
    <3> QED
      BY <3>1, <3>6 DEF rr
  <2>2. \A i \in DOMAIN up' : Move(i)' => up'[i].x \in Places /\ Refilled' >= Step * (up'[i].age + 1)
    BY <1>1, <1>3, <1>4, <2>1 DEF Affordable
  <2>3. \A i, j \in DOMAIN up' : i < j /\ Move(i)' /\ Move(j)' => up'[i].age > up'[j].age
    <3>1. \A i, j \in DOMAIN up : i < j /\ Move(i) /\ Move(j) => up[i].age > up[j].age
      BY <1>1 DEF Affordable
    <3>2. ASSUME NEW i \in DOMAIN up', NEW j \in DOMAIN up', i < j, Move(i)', Move(j)'
          PROVE  up'[i].age > up'[j].age
      <4>1. i \in DOMAIN up /\ j \in DOMAIN up
        BY <1>3, <3>2
      <4>2. up[i].age > up[j].age
        BY <1>4, <3>1, <3>2, <4>1
      <4>3. /\ up'[i].age = up[i].age + 1 /\ up[i].age \in Nat
            /\ up'[j].age = up[j].age + 1 /\ up[j].age \in Nat
        BY <1>3, <4>1
      <4> QED
        BY <4>2, <4>3
    <3> QED
      BY <3>2
  <2>4. \A i \in DOMAIN up' : Move(i)' => up'[i].age >= 1
    BY <1>3, <1>4
  <2>5. Refilled' >= Step
    <3>1. /\ Step * 1 <= Step * (MaxDelay + 1) /\ Step * (MaxDelay + 1) \in Nat
      <4>1. 1 <= MaxDelay + 1 /\ MaxDelay + 1 \in Nat
        BY <1>8
      <4> QED
        BY <4>1, Steps
    <3>2. Step * 1 = Step
      BY <1>8
    <3> HIDE DEF r, rr
    <3>3. r \in Nat /\ rr \in Nat /\ rr >= Least(r + MAX_MOVE_SPEED, Cap)
      BY <1>8 DEF r, rr
    <3>4. rr >= Step
      BY <1>8, <3>1, <3>2, <3>3
    <3> QED
      BY <3>4 DEF rr
  <2> QED
    BY <2>2, <2>3, <2>4, <2>5 DEF Affordable
<1> QED
  BY <1>1, <1>2, <1>7, <1>9 DEF Uncorrected, Is

\* A monster's blow leaves nothing to follow, and budgets as they are.
LEMMA HonestKilled ==
  ASSUME HInv, honest, ~overtaken, MonsterAttack
  PROVE  Followed' /\ Affordable' /\ Uncorrected'
<1>1. Affordable /\ Uncorrected /\ TypeOK
  BY DEF HInv, Honest
<1>2. /\ ~alive' /\ down' = Append(down, [kind |-> "killed"])
      /\ UNCHANGED <<moveBudget, sinceMove, tickIn, state, up, corrected>>
  BY DEF MonsterAttack, botVars, history
<1>3. Refilled' = Refilled
  BY <1>2 DEF Refilled, Cap
<1>4. Affordable'
  BY <1>1, <1>2, <1>3 DEF Affordable, Move, Is
<1> DEFINE p == [kind |-> "killed"]
<1>5. p \in Answer /\ p.kind = "killed" /\ down \in Seq(Answer) /\ down' = Append(down, p)
  BY <1>1, <1>2, AnswerType DEF TypeOK
<1> HIDE DEF p
<1>6. /\ \A i \in DOMAIN down : down'[i] = down[i]
      /\ \A i \in DOMAIN down' : i \in DOMAIN down \/ i = Len(down) + 1
      /\ down'[Len(down) + 1] = p
  BY <1>5, AppendAt
<1>7. Uncorrected'
  BY <1>1, <1>2, <1>5, <1>6 DEF Uncorrected, Is
<1> QED
  BY <1>2, <1>4, <1>7 DEF Followed

LEMMA NextKeepsHonest ==
  ASSUME HInv, [Next]_vars
  PROVE  Honest'
<1>1. SUFFICES ASSUME honest', ~overtaken'
               PROVE  Followed' /\ Affordable' /\ Uncorrected'
  BY DEF Honest
<1>2. honest /\ ~overtaken
  <2>1. CASE UNCHANGED <<honest, overtaken>>
    BY <1>1, <2>1
  <2>2. CASE HandleRevive
    <3>1. honest' = honest
      BY <2>2 DEF HandleRevive
    <3>2. ASSUME overtaken
          PROVE  FALSE
      BY <1>1, <2>2, <3>2 DEF HandleRevive
    <3> QED
      BY <1>1, <3>1, <3>2
  <2>3. HandleMove => UNCHANGED <<honest, overtaken>>
    BY DEF HandleMove, history
  <2>4. HandlePacket \/ MonsterAttack \/ Tick => UNCHANGED <<honest, overtaken>>
    BY DEF HandlePacket, MonsterAttack, Tick, history
  <2>5. /\ AskRevive => UNCHANGED <<honest, overtaken>>
        /\ \A to : MoveToward(to) => UNCHANGED <<honest, overtaken>>
        /\ \A p : SendAnything(p) => UNCHANGED <<honest, overtaken>>
        /\ UNCHANGED vars => UNCHANGED <<honest, overtaken>>
    BY DEF AskRevive, MoveToward, SendAnything, vars, history
  <2>6. HandleRevive \/ UNCHANGED <<honest, overtaken>>
    BY <2>3, <2>4, <2>5 DEF Next
  <2> QED
    BY <2>1, <2>2, <2>6
<1>3. CASE UNCHANGED vars
  <2>1. /\ UNCHANGED <<x, alive, moveBudget, sinceMove, state, myX, myHp, tickIn, up, down>>
        /\ UNCHANGED <<corrected, overtaken, honest>>
    BY <1>3 DEF vars, zoneVars, botVars, history
  <2>2. Refilled' = Refilled
    BY <2>1 DEF Refilled, Cap
  <2>3. Followed /\ Affordable /\ Uncorrected
    BY <1>2 DEF HInv, Honest
  <2>4. Followed'
    BY <2>1, <2>3 DEF Followed, Trail, Move, Is
  <2>5. Affordable' /\ Uncorrected'
    BY <2>1, <2>2, <2>3 DEF Affordable, Uncorrected, Move, Is
  <2> QED
    BY <2>4, <2>5
<1>4. CASE \E p \in Request : p.age = 0 /\ SendAnything(p)
  BY <1>2, <1>4 DEF SendAnything
<1> QED
  BY <1>1, <1>2, <1>3, <1>4, HonestMove, HonestRevive, HonestPacket, HonestAsk, HonestStep,
     HonestTick, HonestKilled DEF Next

LEMMA HonestInvariant == Spec => []HInv
<1>1. Init => HInv
  <2> SUFFICES ASSUME Init PROVE HInv
    OBVIOUS
  <2> DEFINE p == [kind |-> "enter", x |-> Spawn]
  <2>1. p.kind = "enter" /\ p.x = Spawn /\ down = <<p>>
    BY DEF Init
  <2> HIDE DEF p
  <2>2. Len(down) = 1 /\ DOMAIN down = {1} /\ down[1] = p
    BY <2>1
  <2>3. DOMAIN up = {} /\ up = <<>>
    BY DEF Init
  <2>4. Told /\ Entering
    BY <2>1, <2>2, <2>3 DEF Init, Told, Entering, Is
  <2>5. Followed
    BY <2>2, <2>3 DEF Init, Followed, Trail
  <2>6. Affordable /\ Uncorrected
    BY <2>1, <2>2, <2>3 DEF Init, Affordable, Uncorrected, Is
  <2> QED
    BY <2>4, <2>5, <2>6, InitType DEF HInv, Honest
<1>2. HInv /\ [Next]_vars => HInv'
  BY NextType, NextKeepsTold, NextKeepsEntering, NextKeepsHonest DEF HInv
<1> QED
  BY <1>1, <1>2, PTL DEF Spec

\* Whatever the delays, the deaths and revivals and the moves that were ignored in
\* between: a client that keeps to its step per tick is never put back, unless a
\* second request revived it of a death it had not asked about.
THEOREM HonestNeverCorrected == Spec => []HonestIsBelieved
<1>1. HInv => HonestIsBelieved
  BY DEF HInv, Honest, Uncorrected, HonestIsBelieved
<1> QED
  BY <1>1, HonestInvariant, PTL

\* With nothing on its way client and zone agree on life and death, and an honest
\* client on where it is, with the same exception.
THEOREM QuietAgreement == Spec => []AgreeWhenQuiet
<1>1. HInv => AgreeWhenQuiet
  <2> SUFFICES ASSUME HInv, up = <<>>, down = <<>>
               PROVE  /\ alive = myHp
                      /\ honest /\ alive /\ ~overtaken => x = myX
    BY DEF AgreeWhenQuiet
  <2>1. alive \in BOOLEAN /\ myHp \in BOOLEAN /\ DOMAIN down = {} /\ DOMAIN up = {} /\ Len(down) = 0
    BY DEF HInv, TypeOK
  <2>2. alive = myHp
    BY <2>1 DEF HInv, Told
  <2>3. honest /\ alive /\ ~overtaken => x = myX
    BY <2>1 DEF HInv, Honest, Followed, Trail
  <2> QED
    BY <2>2, <2>3
<1> QED
  BY <1>1, HonestInvariant, PTL
=============================================================================
