----------------------------- MODULE PlayerMoves -----------------------------
(***************************************************************************)
(* One player that moves, dies and revives: the zone with its movement     *)
(* budget (Player::TryMove, Zone::HandleMove, Zone::HandleRevive), the     *)
(* client with its own idea of where it is (Bot.cpp), and the connection   *)
(* between them, which keeps the order and may delay.  The zone is the     *)
(* authority: it accepts a move in silence and answers a move it refuses   *)
(* with its own position.                                                  *)
(*                                                                         *)
(* The map is a line, and time is counted in ticks of the bot; a clock     *)
(* reading is kept as the time that has passed since, or that is left.     *)
(***************************************************************************)
EXTENDS Integers, Sequences, FiniteSets

CONSTANTS MAX_MOVE_SPEED,  \* distance a player may move in a tick
          Second,          \* ticks in the second that caps the budget
          Step,            \* distance the bot moves in a tick
          Places,          \* the positions of the map
          NotFinite,       \* a coordinate that is NaN or infinite
          Spawn,           \* where a player enters and revives
          REVIVE_INTERVAL, \* ticks between two requests of a bot to revive
          MaxDelay,        \* ticks a packet of the client travels at most
          MaxDown,         \* bound: packets of the zone on their way when time passes
          MaxUp            \* bound: packets on their way of a client that is no bot

Cap == MAX_MOVE_SPEED * Second
Distance(a, b) == IF a < b THEN b - a ELSE a - b
Least(a, b) == IF a < b THEN a ELSE b
\* A count of ticks that is left, a tick later.
Less(n) == IF n = 0 THEN 0 ELSE n - 1

\* A bot keeps below the limit, and what it walks while a packet travels below the
\* cap (Bot.h: half of MAX_MOVE_SPEED).
ASSUME PlayerMovesAssumption ==
  /\ {MAX_MOVE_SPEED, Second, Step, REVIVE_INTERVAL, MaxDelay, MaxDown, MaxUp} \subseteq Nat
  /\ Places \subseteq Int /\ Spawn \in Places /\ NotFinite \notin Places
  /\ Step <= MAX_MOVE_SPEED
  /\ Step * (MaxDelay + 1) <= Cap

Request == [kind : {"move"}, x : Places \cup {NotFinite}, age : 0..MaxDelay]
           \cup [kind : {"revive"}, age : 0..MaxDelay]
Answer == [kind : {"enter", "correction", "revived"}, x : Places] \cup [kind : {"killed"}]

VARIABLES
  honest,       \* does the client move like a bot, or as it likes?
  \* Player, in the zone
  x,            \* x_, y_, z_
  alive,        \* hp_ > 0
  moveBudget,   \* moveBudget_
  sinceMove,    \* time since lastMoveTime_, counted up to Second
  \* Bot
  state,        \* "Spawning", "InGame"
  myX,          \* x_, z_
  myHp,         \* hp_ > 0
  tickIn,       \* time until tick_ expires
  reviveIn,     \* time until nextReviveAt_
  \* the connection
  up,           \* packets of the client on their way
  down,         \* packets of the zone on their way
  \* history
  excess,       \* the most, over all stretches of time that end now, by which the
                \* distance walked exceeds the speed limit times the time
  corrected,    \* has a correction been sent?
  overtaken     \* has a request revived a player of a later death than the one its
                \* client asked for: one it has not heard of, or after it moved again?

zoneVars == <<x, alive, moveBudget, sinceMove>>
botVars == <<state, myX, myHp, tickIn, reviveIn>>
history == <<excess, corrected, overtaken>>
vars == <<honest, zoneVars, botVars, up, down, history>>

\* The player is loaded, alive or dead, and the client told to enter.
Init ==
  /\ honest \in BOOLEAN
  /\ x = Spawn /\ alive \in BOOLEAN /\ moveBudget = 0 /\ sinceMove = 0
  /\ state = "Spawning" /\ myX = Spawn /\ myHp = alive /\ tickIn = 0 /\ reviveIn = 0
  /\ up = <<>>
  /\ down = <<[kind |-> "enter", x |-> Spawn]>>
  /\ excess = 0 /\ corrected = FALSE /\ overtaken = FALSE

-----------------------------------------------------------------------------
\* The zone.

\* The budget of the moment: what was left, and the way of the time since.
Refilled == Least(moveBudget + sinceMove * MAX_MOVE_SPEED, Cap)

\* Bug: the time of a refused move is not remembered.
TryMoveRefillsTwice(to, ok) ==
  /\ to # NotFinite
  /\ ok <=> Distance(x, to) <= Refilled
  /\ sinceMove' = IF ok THEN 0 ELSE sinceMove
  /\ moveBudget' = IF ok THEN Refilled - Distance(x, to) ELSE Refilled
  /\ x' = IF ok THEN to ELSE x

\* The budget is refilled whether or not the move is accepted; a place that is none
\* is refused before that.
TryMove(to, ok) ==
  \/ /\ to = NotFinite /\ ~ok
     /\ UNCHANGED <<x, moveBudget, sinceMove>>
  \/ /\ to # NotFinite
     /\ ok <=> Distance(x, to) <= Refilled
     /\ sinceMove' = 0
     /\ moveBudget' = IF ok THEN Refilled - Distance(x, to) ELSE Refilled
     /\ x' = IF ok THEN to ELSE x

Receives(kind) == up # <<>> /\ Head(up).kind = kind /\ up' = Tail(up)

\* Of the dead no move is looked at, and none is answered.
HandleMove ==
  /\ Receives("move")
  /\ \/ /\ ~alive
        /\ UNCHANGED <<x, moveBudget, sinceMove, down, history>>
     \/ /\ alive
        /\ TryMove(Head(up).x, TRUE)
        /\ excess' = excess + Distance(x, Head(up).x)
        /\ UNCHANGED <<down, corrected, overtaken>>
     \/ /\ alive
        /\ TryMove(Head(up).x, FALSE)
        /\ down' = Append(down, [kind |-> "correction", x |-> x])
        /\ corrected' = TRUE
        /\ UNCHANGED <<excess, overtaken>>
  /\ UNCHANGED <<honest, alive, botVars>>

\* Bug: whoever asks is taken to the spawn point.
HandleReviveAlways ==
  /\ Receives("revive")
  /\ alive' = TRUE
  /\ x' = Spawn
  /\ down' = Append(down, [kind |-> "revived", x |-> Spawn])
  /\ UNCHANGED <<honest, moveBudget, sinceMove, botVars, history>>

HandleRevive ==
  /\ Receives("revive")
  /\ \/ /\ alive
        /\ UNCHANGED <<x, alive, down, overtaken>>
     \/ /\ ~alive
        /\ alive' = TRUE
        /\ x' = Spawn
        /\ down' = Append(down, [kind |-> "revived", x |-> Spawn])
        /\ overtaken' = \/ overtaken
                        \/ \E i \in DOMAIN down : down[i].kind = "killed"
                        \/ \E i \in DOMAIN up : up[i].kind = "move"
  /\ UNCHANGED <<honest, moveBudget, sinceMove, botVars, excess, corrected>>

\* Bug: the others near are told, as of a move.
MonsterAttackUntold ==
  /\ alive /\ Len(down) < MaxDown
  /\ alive' = FALSE
  /\ UNCHANGED <<honest, x, moveBudget, sinceMove, botVars, up, down, history>>

MonsterAttack ==
  /\ alive /\ Len(down) < MaxDown
  /\ alive' = FALSE
  /\ down' = Append(down, [kind |-> "killed"])
  /\ UNCHANGED <<honest, x, moveBudget, sinceMove, botVars, up, history>>

-----------------------------------------------------------------------------
\* The client.

\* Bug: the place of revival is not taken over.
HandlePacketStays ==
  /\ down # <<>> /\ down' = Tail(down)
  /\ LET p == Head(down)
     IN  /\ state' = "InGame"
         /\ myX' = IF p.kind \in {"enter", "correction"} THEN p.x ELSE myX
         /\ myHp' = (p.kind # "killed" /\ (p.kind = "revived" \/ myHp))
         /\ tickIn' = IF p.kind = "enter" THEN 1 ELSE tickIn
  /\ UNCHANGED <<honest, zoneVars, reviveIn, up, history>>

HandlePacket ==
  /\ down # <<>> /\ down' = Tail(down)
  /\ LET p == Head(down)
     IN  /\ state' = "InGame"
         /\ myX' = IF p.kind = "killed" THEN myX ELSE p.x
         /\ myHp' = (p.kind # "killed" /\ (p.kind = "revived" \/ myHp))
         /\ tickIn' = IF p.kind = "enter" THEN 1 ELSE tickIn
  /\ UNCHANGED <<honest, zoneVars, reviveIn, up, history>>

OnTick == honest /\ state = "InGame" /\ tickIn = 0 /\ tickIn' = 1

\* OnTick of a living bot: a step towards a monster or a waypoint, or none.
MoveToward(to) ==
  /\ OnTick /\ myHp
  /\ to \in Places /\ Distance(myX, to) <= Step
  /\ myX' = to
  /\ up' = IF to = myX THEN up ELSE Append(up, [kind |-> "move", x |-> to, age |-> 0])
  /\ UNCHANGED <<honest, zoneVars, state, myHp, reviveIn, down, history>>

\* OnTick of a dead one: now and then a request to revive.
AskRevive ==
  /\ OnTick /\ ~myHp
  /\ IF reviveIn = 0
       THEN /\ up' = Append(up, [kind |-> "revive", age |-> 0])
            /\ reviveIn' = REVIVE_INTERVAL
       ELSE UNCHANGED <<up, reviveIn>>
  /\ UNCHANGED <<honest, zoneVars, state, myX, myHp, down, history>>

\* Any other client sends what it likes.
SendAnything(p) ==
  /\ ~honest /\ state = "InGame"
  /\ Len(up) < MaxUp /\ Len(down) < MaxDown
  /\ up' = Append(up, p)
  /\ UNCHANGED <<honest, zoneVars, botVars, down, history>>

-----------------------------------------------------------------------------
\* Time passes while nothing of the client is on its way for longer than MaxDelay.
Tick ==
  /\ (\A i \in DOMAIN up : up[i].age < MaxDelay) /\ Len(down) <= MaxDown
  /\ up' = [i \in DOMAIN up |-> [up[i] EXCEPT !.age = @ + 1]]
  /\ sinceMove' = Least(sinceMove + 1, Second)
  /\ tickIn' = Less(tickIn) /\ reviveIn' = Less(reviveIn)
  /\ excess' = IF excess > MAX_MOVE_SPEED THEN excess - MAX_MOVE_SPEED ELSE 0
  /\ UNCHANGED <<honest, x, alive, moveBudget, state, myX, myHp, down, corrected, overtaken>>

Next ==
  \/ HandleMove \/ HandleRevive \/ MonsterAttack
  \/ HandlePacket \/ AskRevive \/ (\E to \in Places : MoveToward(to))
  \/ \E p \in Request : p.age = 0 /\ SendAnything(p)
  \/ Tick

\* Time passes, packets arrive and the bot's timer fires.
Fairness ==
  /\ WF_vars(Tick) /\ WF_vars(HandleMove) /\ WF_vars(HandleRevive) /\ WF_vars(HandlePacket)
  /\ WF_vars(AskRevive \/ \E to \in Places : MoveToward(to))

Spec == Init /\ [][Next]_vars /\ Fairness

-----------------------------------------------------------------------------
\* The types of the variables; the budget of TryMove stays below its cap.
TypeOK ==
  /\ honest \in BOOLEAN
  /\ x \in Places /\ alive \in BOOLEAN /\ moveBudget \in 0..Cap /\ sinceMove \in 0..Second
  /\ state \in {"Spawning", "InGame"} /\ myX \in Places /\ myHp \in BOOLEAN
  /\ tickIn \in 0..1 /\ reviveIn \in 0..REVIVE_INTERVAL
  /\ up \in Seq(Request) /\ down \in Seq(Answer)
  /\ excess \in Nat /\ corrected \in BOOLEAN /\ overtaken \in BOOLEAN

\* Over any stretch of time a player walks at most the speed limit times the time
\* plus one second's worth, whatever its client sends and however its packets
\* bunch, with moves refused, deaths and revivals in between (TryMove).
SpeedBounded == excess <= Cap

\* A client that keeps to its step per tick is never put back, although the
\* connection delays and bunches its moves, and it dies and revives with moves and
\* requests on their way.  The exception is real: the second request of a bot that
\* asked twice may revive it of its next death, and the zone then believes moves
\* that the bot forgets (TryMove, HandleMove, HandleRevive, Bot::AskRevive).
HonestIsBelieved == honest /\ ~overtaken => ~corrected

\* When nothing is on its way, client and zone agree on whether the player lives,
\* and an honest client that lives is where the zone has it, although moves of it
\* were ignored; with the same exception (HandleMove, HandleRevive, HandlePacket).
AgreeWhenQuiet ==
  up = <<>> /\ down = <<>> => /\ alive = myHp
                              /\ honest /\ alive /\ ~overtaken => x = myX

\* A bot that is killed comes back to life: it learns of its death, asks, asks
\* again, and one request reaches the zone while the player is dead.
Revives == honest /\ ~alive ~> alive
=============================================================================
