------------------------------ MODULE ZoneLife ------------------------------
(***************************************************************************)
(* The life of a character between the gateway, the zones of one zone      *)
(* server and the game database: READY_TO_SPAWN, asynchronous load, Enter, *)
(* play, autosave, portal to another zone, disconnect, loss of the         *)
(* gateway, orderly shutdown (Zone.cpp, GameDB.cpp, Main_Zone.cpp).        *)
(*                                                                         *)
(* A zone runs one job at a time (module JobQueue), so a job is one step.  *)
(* Jobs come to a zone from the network, netQueue, and from the database   *)
(* threads, jobQueue; the two interleave freely.  Tasks of one playerID    *)
(* run in the order they were pushed (DBThreadPool::PushTask with a key),  *)
(* so there is one task queue per player.                                  *)
(*                                                                         *)
(* A character's data is what can be lost: its exp, and whether it is      *)
(* alive.  Positions, hit points and packets are left to other modules.    *)
(***************************************************************************)
EXTENDS Integers, Sequences, FiniteSets

CONSTANTS Zones,      \* zones of the server
          Players,    \* characters
          Sessions,   \* gateway sessions; a sessionID is never used twice
          PlayerOf,   \* the character each session selects
          Slices,     \* AUTOSAVE_SLICES, as a set
          SliceOf,    \* playerID % AUTOSAVE_SLICES
          HomeZone,   \* zoneID of a new character
          MaxExp,     \* bound: exp a character can earn
          MaxTasks,   \* bound: database tasks waiting for one player
          MaxNet,     \* bound: jobs waiting for a zone when READY is forwarded
          MaxReady,   \* bound: READYs a client sends for one order to load a map
          FailKinds,  \* kinds of database task that may fail
          SelectWhileLeaving, \* may a character be selected while a zone is not
                      \* through with its previous session?
          NoPlayer, NoSession, NoZone, NotHere

TaskKinds == {"save", "auto", "portal", "load"}

ASSUME ZoneLifeAssumption ==
  /\ PlayerOf \in [Sessions -> Players]
  /\ SliceOf \in [Players -> Slices]
  /\ HomeZone \in Zones
  /\ IsFiniteSet(Zones)
  /\ MaxExp \in Nat
  /\ MaxTasks \in Nat
  /\ MaxNet \in Nat
  /\ MaxReady \in Nat
  /\ FailKinds \subseteq TaskKinds
  /\ SelectWhileLeaving \in BOOLEAN
  /\ NoPlayer \notin Players
  /\ NoSession \notin Sessions
  /\ NoZone \notin Zones

State == [exp : 0..MaxExp, alive : BOOLEAN]   \* Player::SavedState
Char  == [sid : Sessions, now : State, lastSaved : State]  \* a Player object

ASSUME NotHereAssumption == NotHere \notin Char

\* What the network threads post to a zone: READY_TO_SPAWN of a session, its
\* disconnect, "clear" (gateway lost), and the two jobs of Zone::Shutdown.
NetJob == [kind : {"ready", "bye"}, s : Sessions]
          \cup [kind : {"clear", "close", "clearDone"}, s : {NoSession}]

\* What a database task posts back to the zone that pushed it.
DbJob == [kind : {"spawned"}, s : Sessions, p : Players, ok : BOOLEAN, now : State]
         \cup [kind : {"portalDone"}, s : Sessions, p : Players, ok : BOOLEAN, to : Zones]

\* A database task of a player: a save writes state and zone `to'.
Task == [kind : TaskKinds \ {"load"}, z : Zones, to : Zones, now : State,
         s : Sessions]
        \cup [kind : {"load"}, z : Zones, s : Sessions]

VARIABLES
  \* Zone, per zone
  players,         \* players_: the Player object of each character, or NotHere
  sessionToPlayer, \* sessionToPlayer_: the character each session plays
  spawnPending,    \* spawnPending_
  portalPending,   \* portalPending_
  closed,          \* closed_
  netQueue,        \* jobs posted by the network threads, oldest first
  jobQueue,        \* jobs posted by the database threads, oldest first
  \* GameDB
  row,             \* character_state of each character
  dbQueue,         \* tasks pushed and not yet run, per player
  dbOpen,          \* pool_ is not null
  \* gateway
  gate,            \* "new", "play" (InGame), "gone"
  route,           \* zone the packets of a session are forwarded to
  mayReady,        \* READYs the client may still send for its order to load a map
  leaveAck,        \* ZONE_LEAVE_COMPLETED on its way to the gateway
  \* Main_Zone
  phase,           \* "up", "stopping"
  remaining,       \* zones that have not asked for all their saves
  \* history
  earned           \* the exp each character has earned

zoneVars == <<players, sessionToPlayer, spawnPending, portalPending, closed>>
dbVars   == <<row, dbQueue, dbOpen>>
gateVars == <<gate, route, mayReady, leaveAck>>
mainVars == <<phase, remaining>>
vars == <<zoneVars, netQueue, jobQueue, dbVars, gateVars, mainVars, earned>>

Net(kind, s) == [kind |-> kind, s |-> s]

Init ==
  /\ players = [z \in Zones |-> [p \in Players |-> NotHere]]
  /\ sessionToPlayer = [z \in Zones |-> [s \in Sessions |-> NoPlayer]]
  /\ spawnPending = [z \in Zones |-> {}]
  /\ portalPending = [z \in Zones |-> {}]
  /\ closed = [z \in Zones |-> FALSE]
  /\ netQueue = [z \in Zones |-> <<>>]
  /\ jobQueue = [z \in Zones |-> <<>>]
  /\ row = [p \in Players |-> [now |-> [exp |-> 0, alive |-> TRUE], zone |-> HomeZone]]
  /\ dbQueue = [p \in Players |-> <<>>]
  /\ dbOpen = TRUE
  /\ gate = [s \in Sessions |-> "new"]
  /\ route = [s \in Sessions |-> NoZone]
  /\ mayReady = [s \in Sessions |-> 0]
  /\ leaveAck = [s \in Sessions |-> NoZone]
  /\ phase = "up"
  /\ remaining = Cardinality(Zones)
  /\ earned = [p \in Players |-> 0]

-----------------------------------------------------------------------------
\* Helpers.

Here(z, p) == players[z][p] # NotHere

\* Bug: the newest task of a player first.
PushTaskInFront(q, p, task) == IF dbOpen THEN [q EXCEPT ![p] = <<task>> \o @] ELSE q

\* GameDB::PushTask(playerID, ...): nothing happens once pool_ is gone.
PushTask(q, p, task) == IF dbOpen THEN [q EXCEPT ![p] = Append(@, task)] ELSE q

\* Bug: the snapshot is taken of what was saved last.
SaveTaskStale(kind, z, p, to) ==
  [kind |-> kind, z |-> z, to |-> to, now |-> players[z][p].lastSaved,
   s |-> players[z][p].sid]

\* GameDB::SaveCharacterProgressAsync of the character as it is now.
SaveTask(kind, z, p, to) ==
  [kind |-> kind, z |-> z, to |-> to, now |-> players[z][p].now, s |-> players[z][p].sid]

\* The characters HandleDisconnect and SaveAllAndClear save: a portal save in
\* flight is taken to be the final state.
NeedsSave(z, p) == Here(z, p) /\ p \notin portalPending[z]

\* Bug: the player stays.
LeaveKeepsPlayer(z, p) ==
  /\ sessionToPlayer' = [sessionToPlayer EXCEPT ![z][players[z][p].sid] = NoPlayer]
  /\ UNCHANGED players

\* Zone::Leave: out of both maps.
Leave(z, p) ==
  /\ players' = [players EXCEPT ![z][p] = NotHere]
  /\ sessionToPlayer' = [sessionToPlayer EXCEPT ![z][players[z][p].sid] = NoPlayer]

\* The zone takes the next job posted from the network.
NextNet(z, kind) ==
  /\ netQueue[z] # <<>>
  /\ Head(netQueue[z]).kind = kind
  /\ netQueue' = [netQueue EXCEPT ![z] = Tail(@)]

\* The zone takes the next job posted by a database thread.
NextJob(z, kind) ==
  /\ jobQueue[z] # <<>>
  /\ Head(jobQueue[z]).kind = kind
  /\ jobQueue' = [jobQueue EXCEPT ![z] = Tail(@)]

-----------------------------------------------------------------------------
\* Zone jobs posted from the network.

\* Bug: a closed zone still loads.
StartsLoadWhenClosed(z, s) ==
  sessionToPlayer[z][s] = NoPlayer /\ s \notin spawnPending[z]

\* A READY_TO_SPAWN that starts a load: zone open, session not in the zone and
\* not loading already.
StartsLoad(z, s) ==
  /\ ~closed[z]
  /\ sessionToPlayer[z][s] = NoPlayer
  /\ s \notin spawnPending[z]

HandleReadyToSpawn(z) ==
  /\ NextNet(z, "ready")
  /\ LET s == Head(netQueue[z]).s IN
       \/ /\ StartsLoad(z, s)
          /\ Len(dbQueue[PlayerOf[s]]) < MaxTasks
          /\ spawnPending' = [spawnPending EXCEPT ![z] = @ \cup {s}]
          /\ dbQueue' = PushTask(dbQueue, PlayerOf[s], [kind |-> "load", z |-> z, s |-> s])
       \/ /\ ~StartsLoad(z, s)
          /\ UNCHANGED <<spawnPending, dbQueue>>
  /\ UNCHANGED <<players, sessionToPlayer, portalPending, closed, jobQueue,
                 row, dbOpen, gateVars, mainVars, earned>>

\* Cancels the load, saves the character and takes it out of the zone.
HandleDisconnect(z) ==
  /\ NextNet(z, "bye")
  /\ LET s == Head(netQueue[z]).s
         p == sessionToPlayer[z][s]
     IN
       /\ spawnPending' = [spawnPending EXCEPT ![z] = @ \ {s}]
       /\ \/ /\ p # NoPlayer
             /\ Leave(z, p)
             /\ dbQueue' = IF NeedsSave(z, p)
                           THEN PushTask(dbQueue, p, SaveTask("save", z, p, z))
                           ELSE dbQueue
          \/ /\ p = NoPlayer
             /\ UNCHANGED <<players, sessionToPlayer, dbQueue>>
  /\ UNCHANGED <<portalPending, closed, jobQueue, row, dbOpen, gateVars,
                 mainVars, earned>>

\* Bug: loads under way survive the clearing.
SaveAllAndClearButLoads(z) ==
  /\ dbQueue' = [p \in Players |->
                   IF NeedsSave(z, p) /\ dbOpen
                   THEN Append(dbQueue[p], SaveTask("save", z, p, z))
                   ELSE dbQueue[p]]
  /\ players' = [players EXCEPT ![z] = [p \in Players |-> NotHere]]
  /\ sessionToPlayer' = [sessionToPlayer EXCEPT ![z] = [s \in Sessions |-> NoPlayer]]
  /\ UNCHANGED <<spawnPending, portalPending, closed, jobQueue, row, dbOpen,
                 gateVars, earned>>

\* SaveAllAndClear: saves everybody, then forgets players, sessions and loads.
\* portalPending_ is kept.
SaveAllAndClear(z) ==
  /\ dbQueue' = [p \in Players |->
                   IF NeedsSave(z, p) /\ dbOpen
                   THEN Append(dbQueue[p], SaveTask("save", z, p, z))
                   ELSE dbQueue[p]]
  /\ players' = [players EXCEPT ![z] = [p \in Players |-> NotHere]]
  /\ sessionToPlayer' = [sessionToPlayer EXCEPT ![z] = [s \in Sessions |-> NoPlayer]]
  /\ spawnPending' = [spawnPending EXCEPT ![z] = {}]
  /\ UNCHANGED <<portalPending, closed, jobQueue, row, dbOpen, gateVars, earned>>

\* HandleGatewayLost.
HandleGatewayLost(z) ==
  /\ NextNet(z, "clear")
  /\ SaveAllAndClear(z)
  /\ UNCHANGED mainVars

\* Zone::Shutdown, first job.
CloseZone(z) ==
  /\ NextNet(z, "close")
  /\ closed' = [closed EXCEPT ![z] = TRUE]
  /\ UNCHANGED <<players, sessionToPlayer, spawnPending, portalPending, jobQueue,
                 dbVars, gateVars, mainVars, earned>>

\* Bug: onDone is lost.
ClearForShutdownUncounted(z) ==
  /\ NextNet(z, "clearDone")
  /\ SaveAllAndClear(z)
  /\ UNCHANGED mainVars

\* Zone::Shutdown, second job, with the onDone of Main_Zone.
ClearForShutdown(z) ==
  /\ NextNet(z, "clearDone")
  /\ SaveAllAndClear(z)
  /\ remaining' = remaining - 1
  /\ UNCHANGED phase

-----------------------------------------------------------------------------
\* Zone jobs posted by database tasks.

\* The job a load posts: enter, unless the session went away or the character
\* is already here.
SpawnLoaded(z) ==
  /\ NextJob(z, "spawned")
  /\ LET job == Head(jobQueue[z]) IN
       /\ spawnPending' = [spawnPending EXCEPT ![z] = @ \ {job.s}]
       /\ \/ /\ job.s \in spawnPending[z]
             /\ job.ok
             /\ ~Here(z, job.p)
             /\ players' = [players EXCEPT ![z][job.p] =
                              [sid |-> job.s, now |-> job.now, lastSaved |-> job.now]]
             /\ sessionToPlayer' = [sessionToPlayer EXCEPT ![z][job.s] = job.p]
          \/ /\ job.s \notin spawnPending[z] \/ ~job.ok \/ Here(z, job.p)
             /\ UNCHANGED <<players, sessionToPlayer>>
  /\ UNCHANGED <<portalPending, closed, netQueue, dbVars, gateVars, mainVars, earned>>

\* Is the player the portal save was made for still here?
PortalLeaves(z, job) ==
  /\ job.ok
  /\ Here(z, job.p)
  /\ players[z][job.p].sid = job.s

\* The job a portal save posts: leave the zone and tell the gateway.
PortalSaved(z) ==
  /\ NextJob(z, "portalDone")
  /\ LET job == Head(jobQueue[z]) IN
       /\ portalPending' = [portalPending EXCEPT ![z] = @ \ {job.p}]
       /\ \/ /\ PortalLeaves(z, job)
             /\ Leave(z, job.p)
             /\ leaveAck' = [leaveAck EXCEPT ![job.s] = job.to]
          \/ /\ ~PortalLeaves(z, job)
             /\ UNCHANGED <<players, sessionToPlayer, leaveAck>>
  /\ UNCHANGED <<spawnPending, closed, netQueue, dbVars, gate, route, mayReady,
                 mainVars, earned>>

-----------------------------------------------------------------------------
\* Zone jobs that play the game.

\* Bug: a character whose portal save is in flight may act.
CanActInPortal(z, p) == ~closed[z] /\ Here(z, p) /\ players[z][p].now.alive

\* What an attack, a skill or a move requires of the character.
CanAct(z, p) ==
  /\ ~closed[z]
  /\ Here(z, p)
  /\ players[z][p].now.alive
  /\ p \notin portalPending[z]

\* An attack or a skill kills a monster: GiveRewards adds exp.
EarnExp(z, p) ==
  /\ CanAct(z, p)
  /\ players[z][p].now.exp < MaxExp
  /\ players' = [players EXCEPT ![z][p].now.exp = @ + 1]
  /\ earned' = [earned EXCEPT ![p] =
                  IF players[z][p].now.exp + 1 > @ THEN players[z][p].now.exp + 1 ELSE @]
  /\ UNCHANGED <<sessionToPlayer, spawnPending, portalPending, closed, netQueue,
                 jobQueue, dbVars, gateVars, mainVars>>

\* A tick: a monster that chases the character kills it.  Only the tick as a
\* whole looks at closed_, and nothing looks at portalPending_.
MonsterKills(z, p) ==
  /\ ~closed[z]
  /\ Here(z, p)
  /\ players[z][p].now.alive
  /\ players' = [players EXCEPT ![z][p].now.alive = FALSE]
  /\ UNCHANGED <<sessionToPlayer, spawnPending, portalPending, closed, netQueue,
                 jobQueue, dbVars, gateVars, mainVars, earned>>

\* HandleRevive.
HandleRevive(z, p) ==
  /\ ~closed[z]
  /\ Here(z, p)
  /\ ~players[z][p].now.alive
  /\ players' = [players EXCEPT ![z][p].now.alive = TRUE]
  /\ UNCHANGED <<sessionToPlayer, spawnPending, portalPending, closed, netQueue,
                 jobQueue, dbVars, gateVars, mainVars, earned>>

\* HandlePortalRequest and HandlePortal: save at the destination first; the
\* character leaves only in the callback (PortalSaved).
HandlePortal(z, p, dest) ==
  /\ CanAct(z, p)
  /\ Len(dbQueue[p]) < MaxTasks
  /\ portalPending' = [portalPending EXCEPT ![z] = @ \cup {p}]
  /\ dbQueue' = PushTask(dbQueue, p, SaveTask("portal", z, p, dest))
  /\ UNCHANGED <<players, sessionToPlayer, spawnPending, closed, netQueue, jobQueue,
                 row, dbOpen, gateVars, mainVars, earned>>

\* ConsumeChanged, and the conditions of AutoSaveTick before it.
AutoSaves(z, p, slice) ==
  /\ Here(z, p)
  /\ SliceOf[p] = slice
  /\ p \notin portalPending[z]
  /\ players[z][p].now.alive
  /\ players[z][p].now # players[z][p].lastSaved

\* AutoSaveTick for one slice; the timer may choose any slice next.
AutoSaveTick(z, slice) ==
  /\ ~closed[z]
  /\ \E p \in Players : AutoSaves(z, p, slice)
  /\ \A p \in Players : AutoSaves(z, p, slice) => Len(dbQueue[p]) < MaxTasks
  /\ players' = [players EXCEPT ![z] = [p \in Players |->
                   IF AutoSaves(z, p, slice)
                   THEN [players[z][p] EXCEPT !.lastSaved = players[z][p].now]
                   ELSE players[z][p]]]
  /\ dbQueue' = [p \in Players |->
                   IF AutoSaves(z, p, slice) /\ dbOpen
                   THEN Append(dbQueue[p], SaveTask("auto", z, p, z))
                   ELSE dbQueue[p]]
  /\ UNCHANGED <<sessionToPlayer, spawnPending, portalPending, closed, netQueue,
                 jobQueue, row, dbOpen, gateVars, mainVars, earned>>

-----------------------------------------------------------------------------
\* Database threads.

\* The order in which a worker runs the tasks of one key.
NextTask(p) == Head(dbQueue[p])
OtherTasks(p) == Tail(dbQueue[p])

\* Bug: the client is sent back to the zone it leaves.
CallbackSendsBack(p, task, ok) ==
  IF task.kind = "load"
  THEN <<[kind |-> "spawned", s |-> task.s, p |-> p, ok |-> ok, now |-> row[p].now]>>
  ELSE IF task.kind = "portal"
       THEN <<[kind |-> "portalDone", s |-> task.s, p |-> p, ok |-> ok, to |-> task.z]>>
       ELSE <<>>

\* Bug: nobody is told of a failed load.
CallbackOnlyLoaded(p, task, ok) ==
  IF task.kind = "portal"
  THEN <<[kind |-> "portalDone", s |-> task.s, p |-> p, ok |-> ok, to |-> task.to]>>
  ELSE IF task.kind = "load" /\ ok
       THEN <<[kind |-> "spawned", s |-> task.s, p |-> p, ok |-> ok, now |-> row[p].now]>>
       ELSE <<>>

\* Bug: nobody is told of a failed portal save.
CallbackOnlySaved(p, task, ok) ==
  IF task.kind = "load"
  THEN <<[kind |-> "spawned", s |-> task.s, p |-> p, ok |-> ok, now |-> row[p].now]>>
  ELSE IF task.kind = "portal" /\ ok
       THEN <<[kind |-> "portalDone", s |-> task.s, p |-> p, ok |-> ok, to |-> task.to]>>
       ELSE <<>>

\* The callback of a task, posted to the zone that pushed it.
Callback(p, task, ok) ==
  IF task.kind = "load"
  THEN <<[kind |-> "spawned", s |-> task.s, p |-> p, ok |-> ok, now |-> row[p].now]>>
  ELSE IF task.kind = "portal"
       THEN <<[kind |-> "portalDone", s |-> task.s, p |-> p, ok |-> ok, to |-> task.to]>>
       ELSE <<>>

\* A task runs: it succeeds, or fails and writes or reads nothing.
RunTask(p) ==
  /\ dbQueue[p] # <<>>
  /\ LET task == NextTask(p) IN
       \E ok \in {TRUE} \cup (IF task.kind \in FailKinds THEN {FALSE} ELSE {}) :
         /\ row' = IF ok /\ task.kind # "load"
                   THEN [row EXCEPT ![p] = [now |-> task.now, zone |-> task.to]]
                   ELSE row
         /\ jobQueue' = [jobQueue EXCEPT ![task.z] = @ \o Callback(p, task, ok)]
         /\ dbQueue' = [dbQueue EXCEPT ![p] = OtherTasks(p)]
  /\ UNCHANGED <<zoneVars, netQueue, dbOpen, gateVars, mainVars, earned>>

-----------------------------------------------------------------------------
\* Gateway.  A client sends READY only when it was told to load a map.

\* Some zone still has the character, awaits its portal save or a load, or has
\* jobs of one of its sessions to run.
Leaving(p) ==
  \E z \in Zones :
    \/ Here(z, p)
    \/ p \in portalPending[z]
    \/ \E s \in spawnPending[z] : PlayerOf[s] = p
    \/ \E s \in Sessions, i \in DOMAIN netQueue[z] :
         PlayerOf[s] = p /\ netQueue[z][i].s = s

\* Login and SelectCharacter: one session per user at a time; the zone comes
\* from the row, in a task without key.
SelectCharacter(s) ==
  /\ gate[s] = "new"
  /\ \A t \in Sessions : PlayerOf[t] = PlayerOf[s] => gate[t] # "play"
  /\ SelectWhileLeaving \/ ~Leaving(PlayerOf[s])
  /\ gate' = [gate EXCEPT ![s] = "play"]
  /\ route' = [route EXCEPT ![s] = row[PlayerOf[s]].zone]
  /\ mayReady' = [mayReady EXCEPT ![s] = MaxReady]
  /\ UNCHANGED <<zoneVars, netQueue, jobQueue, dbVars, leaveAck, mainVars, earned>>

\* RoutePacket of PKT_C_READY_TO_SPAWN.
RouteReady(s) ==
  /\ gate[s] = "play"
  /\ mayReady[s] > 0
  /\ Len(netQueue[route[s]]) < MaxNet
  /\ netQueue' = [netQueue EXCEPT ![route[s]] = Append(@, Net("ready", s))]
  /\ mayReady' = [mayReady EXCEPT ![s] = @ - 1]
  /\ UNCHANGED <<zoneVars, jobQueue, dbVars, gate, route, leaveAck, mainVars, earned>>

\* OnZone1LeaveCompleted: the session moves to the next zone.
LeaveCompleted(s) ==
  /\ leaveAck[s] # NoZone
  /\ leaveAck' = [leaveAck EXCEPT ![s] = NoZone]
  /\ \/ /\ gate[s] = "play"
        /\ route' = [route EXCEPT ![s] = leaveAck[s]]
        /\ mayReady' = [mayReady EXCEPT ![s] = MaxReady]
     \/ /\ gate[s] = "gone"
        /\ UNCHANGED <<route, mayReady>>
  /\ UNCHANGED <<zoneVars, netQueue, jobQueue, dbVars, gate, mainVars, earned>>

\* ClientProxySession::Close: the binding is released, the zone is told.
CloseSession(s) ==
  /\ gate[s] = "play"
  /\ gate' = [gate EXCEPT ![s] = "gone"]
  /\ netQueue' = [netQueue EXCEPT ![route[s]] = Append(@, Net("bye", s))]
  /\ UNCHANGED <<zoneVars, jobQueue, dbVars, route, mayReady, leaveAck, mainVars, earned>>

\* The gateway link breaks: sessions and unread packets are gone, jobs already
\* posted are not; every zone is told by OnDisconnected.  No more than MaxNet
\* READYs and one disconnect per session can be unread.
LoseGateway ==
  /\ \E s \in Sessions : gate[s] = "play"
  /\ gate' = [s \in Sessions |-> IF gate[s] = "play" THEN "gone" ELSE gate[s]]
  /\ leaveAck' = [s \in Sessions |-> NoZone]
  /\ \E lost \in [Zones -> 0..(MaxNet + Cardinality(Sessions))] :
       /\ \A z \in Zones :
            /\ lost[z] <= Len(netQueue[z])
            /\ \A i \in (Len(netQueue[z]) - lost[z] + 1)..Len(netQueue[z]) :
                 netQueue[z][i].kind \in {"ready", "bye"}
       /\ netQueue' = [z \in Zones |->
                         Append(SubSeq(netQueue[z], 1, Len(netQueue[z]) - lost[z]),
                                Net("clear", NoSession))]
  /\ UNCHANGED <<zoneVars, jobQueue, dbVars, route, mayReady, mainVars, earned>>

-----------------------------------------------------------------------------
\* Orderly shutdown (Main_Zone).

\* SIGINT or SIGTERM: Zone::Shutdown posts two jobs to every zone.
Signal ==
  /\ phase = "up"
  /\ phase' = "stopping"
  /\ netQueue' = [z \in Zones |->
                    netQueue[z] \o <<Net("close", NoSession), Net("clearDone", NoSession)>>]
  /\ UNCHANGED <<zoneVars, jobQueue, dbVars, gateVars, remaining, earned>>

\* finish, when the last zone has asked for its saves: GameDB::Shutdown takes
\* no more tasks and runs those it has.
Finish ==
  /\ phase = "stopping"
  /\ remaining = 0
  /\ dbOpen
  /\ dbOpen' = FALSE
  /\ UNCHANGED <<zoneVars, netQueue, jobQueue, row, dbQueue, gateVars, mainVars, earned>>

-----------------------------------------------------------------------------
ZoneJob(z) == \/ HandleReadyToSpawn(z)
              \/ HandleDisconnect(z)
              \/ HandleGatewayLost(z)
              \/ CloseZone(z)
              \/ ClearForShutdown(z)

Play(z) == \/ \E p \in Players : \/ EarnExp(z, p)
                                 \/ MonsterKills(z, p)
                                 \/ HandleRevive(z, p)
                                 \/ \E dest \in Zones : HandlePortal(z, p, dest)
           \/ \E slice \in Slices : AutoSaveTick(z, slice)

Gateway(s) == \/ SelectCharacter(s)
              \/ RouteReady(s)
              \/ LeaveCompleted(s)
              \/ CloseSession(s)

DbCallback(z) == SpawnLoaded(z) \/ PortalSaved(z)

Next == \/ \E z \in Zones : ZoneJob(z) \/ DbCallback(z) \/ Play(z)
        \/ \E p \in Players : RunTask(p)
        \/ \E s \in Sessions : Gateway(s)
        \/ LoseGateway
        \/ Signal
        \/ Finish

Safety == Init /\ [][Next]_vars

\* A zone runs every job posted to it (module JobQueue), a database worker
\* every task, and the io thread the posted finish.  Players, monsters, clients
\* and signals owe nothing.
Fairness == /\ \A z \in Zones : WF_vars(ZoneJob(z)) /\ WF_vars(DbCallback(z))
            /\ \A p \in Players : WF_vars(RunTask(p))
            /\ WF_vars(Finish)

Spec == Safety /\ Fairness

-----------------------------------------------------------------------------
\* The types of the variables.
TypeOK ==
  /\ players \in [Zones -> [Players -> Char \cup {NotHere}]]
  /\ sessionToPlayer \in [Zones -> [Sessions -> Players \cup {NoPlayer}]]
  /\ spawnPending \in [Zones -> SUBSET Sessions]
  /\ portalPending \in [Zones -> SUBSET Players]
  /\ closed \in [Zones -> BOOLEAN]
  /\ netQueue \in [Zones -> Seq(NetJob)]
  /\ jobQueue \in [Zones -> Seq(DbJob)]
  /\ row \in [Players -> [now : State, zone : Zones]]
  /\ dbQueue \in [Players -> Seq(Task)]
  /\ dbOpen \in BOOLEAN
  /\ gate \in [Sessions -> {"new", "play", "gone"}]
  /\ route \in [Sessions -> Zones \cup {NoZone}]
  /\ mayReady \in [Sessions -> 0..MaxReady]
  /\ leaveAck \in [Sessions -> Zones \cup {NoZone}]
  /\ phase \in {"up", "stopping"}
  /\ remaining \in Int
  /\ earned \in [Players -> 0..MaxExp]

\* players_ and sessionToPlayer_ always hold the same characters, each under
\* its own session, through entries, departures, portals and clearing.
SameCharacters ==
  \A z \in Zones :
    /\ \A p \in Players :
         Here(z, p) => sessionToPlayer[z][players[z][p].sid] = p
    /\ \A s \in Sessions :
         sessionToPlayer[z][s] # NoPlayer =>
           /\ Here(z, sessionToPlayer[z][s])
           /\ players[z][sessionToPlayer[z][s]].sid = s

\* A session never loads a second character while it plays one.
LoadingIsNotPlaying ==
  \A z \in Zones, s \in Sessions :
    s \in spawnPending[z] => sessionToPlayer[z][s] = NoPlayer

\* A packet of, or a clearing that covers, session s still on its way to zone z.
Expected(z, s) ==
  \E i \in DOMAIN netQueue[z] :
    netQueue[z][i] \in {Net("ready", s), Net("bye", s)} \/ netQueue[z][i].kind = "clear"

\* No ghosts: once a session is gone and the zones have handled its disconnect,
\* no zone has its character, or a load that could still bring it in, although
\* the disconnect may overtake the load, the portal save and their callbacks.
NoGhost ==
  \A s \in Sessions, z \in Zones :
    gate[s] = "gone" /\ ~Expected(z, s) =>
      sessionToPlayer[z][s] = NoPlayer /\ s \notin spawnPending[z]

\* A character never enters a zone in which its portal save is still awaited:
\* the save and a new load have the same key, so the load comes second.
NoEntryDuringPortalSave ==
  [][\A z \in Zones, p \in Players :
       ~Here(z, p) /\ Here(z, p)' => p \notin portalPending[z]]_vars

\* A character is never in two zones.
OneBody ==
  \A p \in Players, y, z \in Zones : Here(y, p) /\ Here(z, p) => y = z

\* A character enters the zone its row says, at a position saved for that zone.
EntersItsZone ==
  [][\A z \in Zones, p \in Players :
       ~Here(z, p) /\ Here(z, p)' => row[p].zone = z]_vars

\* A row with exp will end with the exp `last' once tasks q have run: the last save
\* decides.
EndsWith(q, exp, last) ==
  LET saves == {i \in DOMAIN q : q[i].kind # "load"} IN
    IF saves = {} THEN last = exp
    ELSE \E i \in saves : q[i].now.exp = last /\ \A k \in saves : k <= i

\* Exp is never rolled back: a character in a zone has all it has earned, and
\* when it is in none the database has, or has been asked to write, all of it.
NoExpLost ==
  \A p \in Players :
    /\ \A z \in Zones : Here(z, p) => players[z][p].now.exp = earned[p]
    /\ (\A z \in Zones : ~Here(z, p)) => EndsWith(dbQueue[p], row[p].now.exp, earned[p])

\* When GameDB closes, no character is left in the world and none can come in,
\* so what has been pushed is everything.
NothingAfterShutdown ==
  ~dbOpen => \A z \in Zones : /\ spawnPending[z] = {}
                              /\ \A p \in Players : ~Here(z, p)

\* Every load and every portal save is answered, whatever happens meanwhile, so
\* no session is refused READY and no character is frozen forever.
EverythingAnswered ==
  /\ \A z \in Zones, s \in Sessions : s \in spawnPending[z] ~> s \notin spawnPending[z]
  /\ \A z \in Zones, p \in Players : p \in portalPending[z] ~> p \notin portalPending[z]

\* A signal ends with every zone cleared and every save written.
ShutdownCompletes ==
  phase = "stopping" ~> ~dbOpen /\ \A p \in Players : dbQueue[p] = <<>>

-----------------------------------------------------------------------------
\* What comments of the code say of it.

\* Account.cpp:186 "-> Zone told -> saved -> binding released": a session never
\* plays a character that a zone still holds for another session.
BindingReleasedAfterSave ==
  \A s \in Sessions, z \in Zones :
    gate[s] = "play" /\ Here(z, PlayerOf[s]) => players[z][PlayerOf[s]].sid = s

\* Zone.cpp:263 "the portal save is the final state", which is why no other save is
\* made meanwhile: the save that was skipped is not missed afterwards.
SkippedSaveIsCovered ==
  \A p \in Players :
    (\A z \in Zones : ~Here(z, p) /\ p \notin portalPending[z]) /\ dbQueue[p] = <<>>
      => row[p].now.exp = earned[p]
=============================================================================
