# A verification of the SuGwonPark game server

TLA+ modules, TLC configurations and TLAPS proofs for the C++ server under
`src/server`: a gateway that owns the client connections, zone servers that run the
game world, and the libraries both stand on (job queues, a work-stealing pool, a
database pool).

The repository has no specification of its own. Its documents (`메모장.txt`,
`작업 예정 목록.txt`) are short notes, so the reference is the code with its comments.
`PROJECT.json` maps every definition to the lines it translates.

To repeat the checks, in this directory:

    tlc -workers 2 -config MCZoneLife.cfg MCZoneLife     # a run
    tlapm ZoneLifeProofs.tla                             # a proof

---

## 1. Inventory

    clients ── TCP ──  gateway  ── TCP ──  zone server ── zones ── worker pool
                          │                     │
                     account tasks         load / save tasks
                          └──── database pools ─┘──── MySQL

Two processes talk over one TCP connection per zone server: client packets wrapped with
the sessionID go down, packets for one or many clients come up. Within the zone server,
network threads and database threads post *jobs* to zones, and the jobs of one zone run
one at a time on the worker pool. Database work is pushed as tasks; a task posts its
result back to the zone as a job. There is no other shared state between a zone and the
rest.

| Component | State | Operations | Interacts with | What is hard | What makes it correct |
|---|---|---|---|---|---|
| Job serializer (`JobQueue.h`, `JobSerializer.h`) | `jobs_`, `lock_`, `isExecuting_` | `Push`, `Post`, `Execute` | pool closures; all zones inherit it | a push between "queue empty" and "flag cleared" | one job of a zone at a time, in order, none forgotten |
| Worker pool (`WorkStealingThreadPool.h`, `WorkStealingQueue.h`) | deques, `pending_`, `sleepers_`, `isRunning_` | `Post`, `TryGetJob`, sleep, `Stop` | threads, condition variable | lost wakeups, steal before count, stop against sleep | every closure runs once; all sleep only when nothing waits; `Stop` returns |
| Database pool (`DBThreadPool.cpp`) | a queue and a MySQL session per worker, `stop` | `PushTask` with and without key, `WorkerLoop`, destructor | MySQL | session dies, server away, stop while away | tasks of one key in order; nothing left behind while connected; destructor returns |
| Zones: life of a character (`Zone.cpp`) | `players_`, `sessionToPlayer_`, `spawnPending_`, `portalPending_`, `closed_` | READY, load, `Enter`, `Leave`, portal, disconnect, gateway lost, autosave, shutdown | gateway session, database, other zones through the row | answers that come after a disconnect; portal saves; shutdown | no ghosts, one body, nothing earned is lost |
| Zones: view (`Zone.cpp`, `AoiGrid.h`) | two grids, what every client was told | `OnPlayerCellChanged`, spawn and despawn everywhere | clients | many handlers, each adding its part | clients show exactly what is near |
| Zones: combat (`Zone.cpp`, `Monster.h`, `Player.cpp`) | monsters' state, hp, target, place; players' hp | tick, attack, skill, revive, respawn | view, life | tick against packets, targets that are gone | one reward per kill, monsters stay on their ground |
| Gateway sessions (`ClientProxySession.cpp`, `SessionManager.cpp`) | registered sessions, account bindings, session state, strand | accept, read, route, `Close`, `TryBindUser` | accounts, zone connections | logins on database threads against closes on the network thread | one session per account; every end is told to the zone |
| Gateway zones (`ZoneManager.cpp`, `ZoneServerSession.cpp`) | which connection serves which zone | handshake, routing, loss of a zone server | sessions | a zone server that reconnects before its old connection is closed | sessions of lost zones are closed |
| Accounts (`Account.cpp`) | none | login, create, select, list | database pool without keys | a result that arrives after the session has changed | refused logins lock nobody out |
| Zone server main (`Main_Zone.cpp`) | zones left to save | tick timer, signals | zones, database | shutdown over several asynchronous steps | everything saved, then the end |
| Gateway connection of a zone server (`GatewaySession.cpp`) | `connGen_`, `isConnected_`, `sendQueue_`, socket | connect, retry, handshake, send, read, loss | zones, gateway | handlers of an old connection that run late, two errors of one connection, a gateway that restarts and counts sessionIDs from 1 again | one attempt or one connection; the handshake first; nothing of an old session reaches a new client |
| Player numbers (`Player.cpp`) | hp, mp, move budget, cooldowns | move, spend, regenerate | combat | boundaries; refill and cap of the budget | no player outruns the limit, no honest one is corrected |
| Bot client (`Bot.cpp`) | its own position and life | move, ask to revive, take corrections | zone, over a delayed connection | both sides act on what the other no longer holds | they agree once nothing is on its way |
| Sending (`SendBufferManager.cpp`, `SendBuffer.cpp`, `ClientProxySession.cpp`) | chunks, pool, send queue and its byte count | `Open`, `Close`, `Send`, `DoWrite`, `Close` of a session | every thread that sends | buffers shared by sessions, chunks reused, closing from inside a send | no byte is overwritten; the queue is bounded; a closed session is released |
| Templates (`Template/`), framing of packets, utilities, Redis stub | | | | | see "not modelled" |

`PROJECT.json` lists all 23 components with their files and status, and the hazards of
the code with the properties that cover them.

## 2. Plan

Order: what everything else relies on first, then the behaviour that loses players'
data when it is wrong.

1. `JobQueue`, `Serializer` - done: justifies "a job of a zone is one step" for 4, 6, 7.
2. `WorkerPool`, `Executor` - done: what `JobQueue` assumes of the pool.
3. `DBThreadPool` - done: justifies "one task queue per player" for 4.
4. `ZoneLife` - done: load, portal, save, disconnect, shutdown.
5. `GatewaySessions` - done: logins, bindings, routing, loss of zone servers.
6. `ZoneView` - done.
7. `ZoneCombat` - done.
8. `GatewayLink` - done: the zone server's connection over restarts of the gateway.
9. `SendPath` - done: send buffers, chunks and the send queue of a client.
10. `PlayerMoves` - done: the budget of `TryMove` against a bot behind a slow connection.
11. `PacketStream`: the receive loops that cut a stream into packets.
12. Tables: the weighted choice of a reward against its definition; levels; cooldowns.

Proofs, in order of worth, are done for every safety property that a run checks: the
serializer and the pool's executor (with their refinements), the database pool as a
serializer per key, `ZoneLife`, `GatewaySessions`, `ZoneView`, `ZoneCombat`,
`PlayerMoves`, `SendPath`, and the link between the two processes. `PacketStream` and the
tables are the next to model.

## 3. The modules and the code

`MCx.tla` extends module `x` and defines the values of its constants; `MCx*.cfg` are
its runs. The proofs are in eight modules:

| Proof module | Of |
|---|---|
| `JobSystemProofs` | `WorkerPool`, and `JobQueue` by instance (`Q`) |
| `ClientProofs` | what clients are sent: `SendPath`, and `ZoneView` by instance (`V`) |
| `GatewayProofs` | `GatewaySessions` |
| `ZoneLifeProofs`, `ZoneCombatProofs`, `DBThreadPoolProofs`, `GatewayLinkProofs`, `PlayerMovesProofs` | the module of that name |

A theorem about an instance has what the instanced module assumes of its constants
(`JobQueueConstants`, `ZoneViewConstants`) as its hypothesis; the module's ASSUME is the
same formula.

**JobQueue** (`JobQueue.h`, `JobSerializer.h`). Threads at the granularity of the code:
`Push` under `lock_`, then `PostExecute`, which gives the pool a closure; a worker's
`Execute` is split at the exchange of `isExecuting_`, the swap of the queue under the
lock, each job, and the clearing of the flag under the lock. The pool is the number of
closures it holds. **Serializer** is what zones rely on: jobs run one at a time, once,
in the order of their pushes, and all of them. `JobQueue` implements it under the
mapping `queue <- the jobs of the batch under way followed by jobs_`.

**WorkerPool** (`WorkStealingThreadPool.h`, `WorkStealingQueue.h`). One step per atomic
operation or critical section: push on a deque, count, look for sleepers, notify; take
from the back of one's own deque or steal from the front of the others, one deque after
the other; lock, count as sleeper, test, wait, wake. **Executor** is its promise: a
closure is run by one worker at most once, and they do not all stand still while
closures wait, as long as nobody stops the pool.

**DBThreadPool** (`DBThreadPool.cpp`). A worker waits, takes a task, pings an idle
session, connects until it works or the pool stops, calls the task, and after an error
pings again. MySQL and each session fail at any moment.

**ZoneLife** (`Zone.cpp`, `GameDB.cpp`, `Main_Zone.cpp`). Variables carry the names of
the members. A zone has two queues, `netQueue` for jobs of the network threads and
`jobQueue` for those of database threads; the code has one FIFO for both, whose order is
some interleaving of the two, so the model has all of the code's behaviours and a few
more. A database task runs in one step at the head of its player's queue and posts its
job in a second step (`DbCallback` is the job, run as in `Zone::Post`). The gateway is
reduced to what zones see of it: sessions that select a character, are routed, ask for
READY, and vanish.

**ZoneView** and **ZoneScene** (`Zone.cpp`, `AoiGrid.h`). The scene is who is where, by
themselves and by the grids, and what the clients were told; `ZoneView` has the handlers.
A position is the cell it lies in. `view[p][o]`
counts the SPAWNs minus the DESPAWNs that p's client was sent about o, so that one too
many is seen as well as one too few. When a player leaves, its client drops the scene.
Recipients of `BroadcastNear` are the players of the 3x3 cells, hence exact when view
and grids are.

**ZoneCombat** (`Zone.cpp`, `Monster.h`, `Player.cpp`, `AoiGrid.h`). A packet's handler
is a step; a tick is a step per monster, between `StartTick` and `EndTick`, with no
other job in between, as in `Update`. The map is an integer line (negative coordinates
included), the distance its absolute difference. Cooldown, respawn and regeneration
times are nondeterministic. A step is any length from 1 to `MaxStep`
(`moveSpeed * dt`, `dt` at most `MAX_TICK_DT`). Mp is left out, so a cast may always be
refused. `rewarded` is a history variable that counts `GiveReward`s since the monster's
last respawn. As in the code, the nearest player that a monster turns to when its target
is dead does not become its target: when the old target is revived, it is chased again.

**GatewaySessions** (`ClientProxySession.cpp`, `SessionManager.cpp`, `ZoneManager.cpp`,
`ZoneServerSession.cpp`, `Account.cpp`). `Main.cpp` runs the `io_context` on one thread,
so a network handler is one step, except where a database task can come between two of
its calls (`io` says that a handler is half done). `strand[s]` holds the handlers and
posted jobs of a session in order. Account tasks run on database threads, a step per
shared object they touch. A zone server is `inside`, the sessions whose characters its
zones hold, with the two directions of its connection.

**GatewayLink** (`GatewaySession.cpp`, with `Zone.cpp` and `ZoneServerSession.cpp` as
far as they are its ends). The session's handlers run one after the other on its strand;
an asynchronous operation (resolve, connect, read, write, timer) that completes puts its
handler there, named by the `connGen_` it was started under, which the code compares
first (`Stale`). `OnConnected` is two steps, because `isConnected_` is up before the
handshake is posted and another thread may send in between; `Send` is two steps for the
same reason (flag, then post). A connection is named by its generation. A client is
named for good by its sessionID and the connection it came in over (`who`); packets and
characters carry both, so that the model can tell the session of today from an older one
of the same number. The zone is reduced to its jobs, loads and `sessionToPlayer_`; the
gateway to what it has read, and it crashes, starts again and counts from 1.

**SendPath** (`SendBufferManager.cpp`, `SendBuffer.cpp`, `ClientProxySession.cpp`).
A thread takes a chunk (`Pop`), cuts a buffer at `usedSize_` and fills it (`Make`), and
hands it to one or several sessions (`Send`). A buffer refers to its chunk; the chunk is
pushed back by its deleter when no thread and no live buffer refers to it (`Push`, which
may happen any time later, never earlier). A session has a strand of posted sends and the
job of `Close`, a queue with its byte count, operations under way and a socket that the
client may break. Memory is counted in units; a packet is where it lies.

**PlayerMoves** (`Player.cpp`, `Zone.cpp`, `Bot.cpp`). One player: the zone's position,
life and budget; the bot's; and the packets between them, in order, each at most
`MaxDelay` ticks old on its way up. `honest` chooses between the bot and a client that sends
anything, NaN coordinates included. A tick of time refills the budget by
`MAX_MOVE_SPEED` up to the cap of a second. `excess` is a history variable: the largest
amount by which the way walked in any stretch of time that ends now exceeds speed times
time.

How they compose: `JobQueue` implements `Serializer`, which is what makes a zone's
handler one step in `ZoneLife`, `ZoneView` and `ZoneCombat`; `WorkerPool` implements
`Executor`, which is what `JobQueue` assumes of its closures; `KeyedInOrder` of
`DBThreadPool` is the queue per player of `ZoneLife`; `NoEntryDuringPortalSave` of
`ZoneLife` is a guard of `Enter` in `ZoneCombat`; `inside` of `GatewaySessions` is
`sessionToPlayer` of `ZoneLife` without its details; the `clear` jobs of `GatewayLink` are
`SaveAllAndClear` of `ZoneLife`, which has the saves; `OwnCharacter` of `GatewayLink` is
why the other modules may give every session a number of its own; a `Send` anywhere is
`SendPath`; an accepted move of `PlayerMoves` is a free one in `ZoneView` and
`ZoneCombat`.

## 4. The runs

Times are of two TLC workers.

| Run | Instance | Shows |
|---|---|---|
| `job_queue` | 2 workers, 2 posters, 2 jobs each | `ImplementsSerializer`: `Serializer` with its fairness |
| `worker_pool` | 2 workers, a poster of 2 closures, `Stop` at any time, spurious wakeups; 30,000 states | `PendingIsExact`; `NoLostWakeup`; `ImplementsExecutor`; `StopReturns` |
| `db_pool` | 2 workers, 2 tasks with one key and 2 in turn; 88,000 states | `KeyedInOrder`; `LeavesNothing`; `TasksAreCalled` once MySQL stays up; `DestructorReturns` whatever MySQL does |
| `zone_life` | 2 zones, a character, two sessions of its owner after or over one another, an autosave slice, 1 exp; loads may fail; 144,000 states | `NoGhost`, `OneBody`, `NoExpLost`, `NothingAfterShutdown`, `EntersItsZone` |
| `zone_live` | 1 zone, two sessions, READY twice, loads and portal saves may fail; 78,000 states | `NoEntryDuringPortalSave`; `EverythingAnswered`, `ShutdownCompletes` |
| `gateway` | 2 clients of one account, 2 zones, a zone server that reconnects with one zone more; 1,060,000 states with symmetry | `ZoneIsTold`, `EntersAlone`, `ClosedWillUnregister` |
| `zone_view` | 2 players, a monster, 4 by 3 cells; 32,000 states with symmetry | `GridsAreExact`, `ViewIsExact` |
| `zone_combat` | 2 players, 2 monsters, 5 positions, 2 skills; 306,000 states | `KilledOnce`, `KeepsItsGround`, `NearestIsChased`, `DieByMonsters`, `CalmsDown` |
| `link` | 3 attempts to connect, 2 sessionIDs, 2 crashes or breaks, 2 data packets on their way; 556,000 states | `TypeOK`, `LinkIsDriven`, `HandshakeFirst`, `OwnCharacter`, `Registers` |
| `send_path` | 2 threads, 2 sessions of which one may leave, 3 chunks of 2 units, packets of 1 or 2, 2 buffers alive, a queue of 2 units; 642,000 states with symmetry | `BytesIntact`, `QueueIsBounded`, `ClosedIsReleased` |
| `client_moves` | a bot or any client, 5 positions, delay up to a tick, a cap of 2 ticks; 188,000 states | `SpeedBounded`, `HonestIsBelieved`, `AgreeWhenQuiet`, `Revives` |

The type invariants of the other modules and `MutualExclusion`, `NoStrandedJob`,
`SameCharacters`, `LoadingIsNotPlaying` and `RegisteredAreBound` are proved (section 5)
and not run any more; their definitions are in the modules.

One run shows that the code does not do what a comment in it says, and three more
configurations do the same when they are run by hand:

| Run or configuration | The comment | What happens |
|---|---|---|
| `zone_unbind` (`MCZoneLifeUnbound.cfg`, property `BindingReleasedAfterSave`) | `Account.cpp:186`: zone told, then saved, then the binding released | `ClientProxySession::Close` releases the binding first (line 36), then tells the zone (39), which saves later still. A new login plays a character that a zone still holds for the old session |
| `MCZoneLifeSkippedSave.cfg`, `SkippedSaveIsCovered` | `Zone.cpp:263`: the portal save is the final state | A disconnect during a portal save makes no save of its own; when the portal save fails, what was earned since the last save is gone |
| `MCGatewaySessionsOrphan.cfg`, `OrphansAreClosed` | `ZoneServerSession.cpp:38`: clients of a lost zone server are disconnected | A session whose `SelectCharacter` has picked a channel of that server and is not InGame yet is not collected; it stays connected without a zone |
| `MCDBThreadPoolThrown.cfg`, `NoTaskThrownAway` | `DBThreadPool.cpp:76`: tasks are not thrown away | A task called on a session that has died within the last 30 seconds throws and is not repeated |

Two more things the models show, that contradict no comment:

- `GatewaySession.cpp:174-181`: a packet whose read had completed when a write found the
  connection lost is still handled; only the next read looks at `isConnected_`. A READY
  handled then queues its load behind the clearing of the zone, the character enters and
  stays for a session that no longer exists, and blocks its sessionID for a client of the
  restarted gateway. Being inside, it may also be sent something as soon as the next
  connection is up, before the handshake is posted (`GatewaySession.cpp:61-71`); the
  gateway closes a connection whose first packet is not a handshake
  (`ZoneServerSession.cpp:93-107`). `late` is the set of these clients; `HandshakeFirst`
  and `OwnCharacter` except them and nothing else.
- A bot asks to revive every 3 seconds until it hears of it. When the answer takes
  longer, a second request is on its way while the player revives, and if it dies again
  that request revives it before the client knows of the death; client and zone may then differ about moves sent in
  between, and an honest bot may be corrected. `overtaken` records it; `HonestIsBelieved`
  and `AgreeWhenQuiet` except it.

### Assumptions of the passing runs

They are constants, so that they can be changed and the consequence seen. A theorem that
needs one of them has it as its hypothesis (section 5).

- `SelectWhileLeaving = FALSE` (`zone_life`): a character is selected only when no zone
  holds it for an older session and its saves are written, the order `Account.cpp:186`
  describes. `zone_unbind` shows that the code does not keep it; with `TRUE` and two
  zones `OneBody`, `NoExpLost` and `EntersItsZone` fail, because `SelectCharacter` reads
  `zoneID` by an un-keyed task (`Account.cpp:267`) that can overtake the portal save.
  So the properties of `zone_life` say: *if* the order is repaired, nothing else is
  wrong. `zone_live` uses `TRUE`.
- `MaxReady = 1` (`zone_life`): the client sends one READY for each order to load a map,
  as the bot client does. A second one that reaches the old zone between the end of its
  portal job and the gateway's ZONE_LEAVE_COMPLETED loads the character there again, and
  `EntersItsZone` fails. `zone_live` has 2.
- `FailKinds = {"load"}` (`zone_life`): saves succeed. A failed portal save is
  `zone_skipped_save`; a failed autosave is not repeated before the next change, as
  `ConsumeChanged` has taken the state for saved (`Zone.cpp:904`).
- `ReadsAfterClose = FALSE` (`gateway`): a read that had completed when `Close` ran is
  not handled after it. With `TRUE`, `ZoneIsTold` fails: `RoutePacket` looks at the state
  but not at the connection (`ClientProxySession.cpp:149`) and forwards a READY after the
  disconnect.
- `SendersFinish = TRUE`, `LoadsFinish = TRUE` (`link`): `RECONNECT_DELAY_SEC` outlasts
  every `Send` that has read the flag, every queued job of a zone and every load. Nothing
  in the code enforces this. Without the first, a packet made for an old session can be
  posted to the new connection: `LinkIsDriven`, `HandshakeFirst` and `OwnCharacter` fail;
  without the second `HandshakeFirst` and `OwnCharacter` fail (an old load enters under
  the number of a new client), `LinkIsDriven` does not.
- Elsewhere a sessionID is never used twice; `OwnCharacter` is the reason.
- `PlayerMovesAssumption`: a bot is no faster than the limit, and what it walks while a packet
  travels stays below the cap. `client_moves` takes the boundary,
  `Step * (MaxDelay + 1) = Cap`. Longer delays than a second's worth of budget do correct
  honest clients.

### Bounds

The bounds are constants named in the modules: `MaxPosts`, `MaxTasks`, `MaxNet`,
`MaxReady`, `MaxExp`, `MaxRowHp`, `MaxGen`, `MaxSessions`, `MaxFaults`, `MaxQueue`, `MaxBuffers`,
`Chunks`, `MaxDown`, `MaxUp`. They stop sources of work, never what is under way.
The interesting case needs two of something: two jobs and two workers for a push during
a batch and a second closure that finds the flag set; two closures and two workers for a
steal before the count while the other one goes to sleep; two keyed and two other tasks
for a worker that mixes both; two sessions of one character for every race of an old
session with a new one; two zones for a portal and its way back; three network jobs for
READY, disconnect and clear in one queue. Three
attempts leave room for a crash, a failed attempt and a second connection that gives
sessionID 1 again while the first one's handlers still wait; the second sessionID is for a
client beside one that is gone. Two buffers of two sizes and
three chunks are a buffer shared by both sessions in one chunk, one in the next, and a chunk that
goes back and is cut anew; a queue of 2 units is full with one large or two small
packets. `client_moves` also passes with `MaxDown = 3`, and with a cap of 3 ticks and a delay of
2. Four columns of cells are one more than a
player sees, three rows are what it sees. In `zone_combat` the homes of the monsters lie outside
the players' positions on either side of 0, the leash is shorter than the way to some
players, a player can be loaded dead, with `maxHp` or above it, one skill hits both
monsters and costs hp, the other one hits around its target. Every property has a
mutant of the code in the modules ("Bug: ...") that violates it within these bounds.

`CHECK_DEADLOCK FALSE` stands, in the runs that have it, where the world may simply go idle: all sessions gone, the
bounded work done, the pool stopped, the server shut down.

### Fairness

- `JobQueue`: posters finish `Post`, workers go on (the OS schedules threads).
- `WorkerPool`: the same, and strong fairness where a step needs a mutex that others take
  and release. Nobody owes a push, a stop or a spurious wakeup.
- `DBThreadPool`: workers go on; a destructor that has begun goes on. Neither MySQL's
  return nor a task is assumed: `TasksAreCalled` is conditional on MySQL staying up.
- `ZoneLife`: zone jobs run (`Serializer`, `Executor`), tasks are called
  (`TasksAreCalled`), and the finishing job of the shutdown runs. Clients, timers and
  signals owe nothing.
- `ZoneCombat`: ticks are requested by the timer and run; every monster has its turn in
  each. A dead monster is asked again tick after tick, so strong fairness says that its
  respawn time passes.
- `GatewayLink`: asynchronous operations complete, the strand and the zone's jobs run,
  the gateway reads, and somebody starts it again after a crash. `Registers` may give up
  only at the bound on attempts.
- `PlayerMoves`: time passes, packets arrive, the bot's timer fires. Monsters owe nothing.
- `GatewaySessions`, `ZoneView` and `SendPath` have safety properties only.

## 5. The proofs

TLAPS proves these for all values of the constants, from the named assumptions of each
module only (`JobQueueAssumption`, `ZoneLifeAssumption`, ...: types of constants, finite
sets where a cardinality is used, distinct "none" values). Constants for which a passing
run assumes something (`SelectWhileLeaving`, `ReadsAfterClose`, `MaxReady`, `FailKinds`)
are arbitrary, unless a theorem says otherwise after ASSUME:

| Theorem | Hypothesis | Without it |
|---|---|---|
| `NoGhostLeft`, `NoEntryWhileSaved` | `RouteIsCertain`: one READY per order, or one zone | a second READY can reach a zone that the session has left |
| `OneBodyOnly`, `EntersTheRightZone` | `OneAtATime`: one READY per order, `SelectWhileLeaving = FALSE` | the runs fail, see section 4 |
| `NothingEarnedIsLost` | `OneAtATime`, and only loads fail | a save that fails is not repeated |
| `EndIsTold`, `ComesInAlone`, `ComesInAloneHere` | `ReadsAfterClose = FALSE` | a READY can follow the disconnect |
| `ComesInAlone` | one zone server | see **GatewayProofs** below |
| `Drives` | `SendersFinish = TRUE` | TLC finds `LinkIsDriven` violated |
| `GreetsFirst`, `NobodyElses` | `SendersFinish = TRUE`, `LoadsFinish = TRUE` | without either, TLC finds both properties violated |

Everything else, the shutdown of the zones included, has none.

**JobSystemProofs, `JobQueue`.** Any number of workers, posters and jobs. The invariant says that the
flag is set exactly while one worker is past the exchange (`FlagHeld`), that `lock_` is
held across steps only by a worker that has found the queue empty, and nothing is pushed
meanwhile (`LockHeld`), and that only a worker with a batch has jobs (`BatchHeld`).
Mutual exclusion and no stranded job need all three: the worker that clears the flag must know that the
queue is still empty. With it `SerializerImplemented` maps each step to a step of
`Serializer` or a stutter: `Push` appends, the end of a job removes the head.

**JobSystemProofs, `WorkerPool`.** Any number of workers, posters and closures.
`PendingExact` counts the pairs of a deque and a position (`Places`); the proof shows what
each push, pop and steal does to that number. `WakeupNotLost` is not inductive: between a
worker's look at `pending_` and its wait a poster may push. The invariant therefore counts
the posters inside `Post` with the workers that are awake (`NobodyForgotten`), and says of
a worker that has seen `pending_` at zero, with `sleepMutex_` in its hand, that what is
queued belongs to posters that have still to pass that mutex (`SleepsOnPosts`); that
`sleepers_` is the number of sleepers (`Counted`) makes a poster that finds none skip the
mutex rightly. `ExecutorImplemented` maps each step to a step of `Executor` or a stutter.
That a closure is never taken twice rests on `QueuedOnce` (a closure is in one place of one
deque, and was posted) with `HoldsJob`.

**ZoneLifeProofs.** Any number of zones, characters and sessions. The proofs are layers,
each an inductive invariant on top of those before.

1. *Maps* (`IInv`). `SameCharacters` (the two maps of players agree) is not inductive
   alone: `Enter` writes `sessionToPlayer_[sid]` and would overwrite an entry if that
   session played another character; that a session does not play while it loads is
   `LoadingIsNotPlaying`.
2. *Shutdown* (`ShutdownInv`). `remaining` is the number of zones whose `clearDone` is
   still to come; the job that closes a zone is before it in the zone's queue; a closed
   zone that is clear stays clear, because a closed zone starts no load and a load under
   way is forgotten. So the callback that brings `remaining` to 0 finds all zones clear.
3. *Sessions* (`SessionInv`). A session that plays is in a zone, loads or has a READY only
   where the gateway forwards its packets (`Routed`); when it is gone, whatever a zone still
   has of it has its disconnect, or the clearing, ahead (`EndsFollow`); the permission to
   be READY is in one place: with the client, in a zone's queue as a READY, used up by a
   zone, or on its way back with ZONE_LEAVE_COMPLETED (`OnePermission`). A second READY for
   one order can bring a session back into the zone it has left, where its disconnect never
   comes, hence `RouteIsCertain`.
4. *Bodies* (`BodyInv`). Zones, tasks and answers pair a session with its own character
   (`Own`), and of the sessions of one character at most one plays or has something in a
   zone (`OneSession`), if a character is selected when nothing of the old session is left.
5. *Portal saves* (`PortalInv`). A portal save is one task or one answer, the last of its
   character's queue, and one zone waits for it, in which the character stands still.
6. *Rows* (`RowInv`). The row's zone agrees with the queued saves, the loads' answers,
   the zone the character stands in and the order the client will be READY for.
7. *Turns, loads, order* (`OrdersInv`). What it takes to show `NoEntryDuringPortalSave`
   without `OneAtATime`: within a zone the end of one session comes before the READY of
   the next, and its own READYs before its end (`TurnInv`, `EndInv`); a session has one load in a zone, whose answer, once
   forgotten, never counts again (`LoadInv`); an awaited portal save stands before every
   load of its character, in the task queue or in the zone's queue (`OrderInv`). Then
   the answer to the save comes first, whichever session loads.
8. *Exp* (`ExpInv`). Whoever is in a zone has all that was earned (`HasEarned`); whoever is
   in none has it in the last queued save or in the row (`Secured`); a load that counts is
   the last task of its character (`LoadsLast`) and its answer has read everything
   (`LoadsRead`).

**GatewayProofs.** Any number of clients, accounts and zone servers.
`RegisteredAreBound` needs that a login between `TryBindUser` and `SetUserUID` holds its
binding already (`BoundHolds`) and that nothing has happened to a session before it is
accepted (`NewIsFresh`); the evicting step `Unregister` removes a binding only when it is
its own. `EndIsTold` and `ComesInAlone` rest on one more invariant (`PInv`). The right to
enter a zone is one token per session: the client may be READY (`mayReady`), a READY is in
the strand (`Asked`), on the connection (`IsSent`), the session is inside (`IsInside`), has
left, and may be READY again; the token is in one place at a time. A disconnect goes to the
connection by which the session went in, behind its READY, so it is told last. When a
session of an account is routed, the sessions before it are closed and their ends are on
the connection already; the ends come first where both use the same zone server
(`ComesInAloneHere`). With several zone servers the new READY can reach server B before
the old session's disconnect reaches server A, so `ComesInAlone` is about one server.
`NobodyLockedOut` says that a registered session whose connection flag is
cleared has the job of `Close` ahead, whoever cleared the flag, so that its account will
be released.

**ClientProofs, `ZoneView`.** Any finite or infinite map, any number of players and monsters. The
invariant is exact grids with exact views. The main lemma (`CellChangedIsExact`) is about `OnPlayerCellChanged`: SPAWN to
the new cells that were not old, DESPAWN to the old that are not new, both ways, and
nothing for the rest; the others follow from it and from the symmetry of being near.

**ZoneCombatProofs.** Any line map, cell size, leash, players, monsters and skills. The
invariant is the types with `KilledOnce` and `KeepsItsGround`: what may be hit is not dead and so not
rewarded yet; what chases is within its leash before its step. `NearestChased` rests on
`RangeIsCovered`: flooring division is monotone, so the cells that the two ends of a
range lie in enclose the cell of whatever is in range. `MonstersKill` goes through all
steps that write hp.

**PlayerMovesProofs.** Any map, speed, cap, delays and client. `SpeedBounded` follows from
`BudgetHolds`: what was walked too much and what the refilled budget still allows never
exceed the cap together. An accepted move takes from one what it adds to the other, a refused
move only writes the refill down, and a tick gives the budget no more than it forgives.
Deaths and revivals change neither. `HonestNeverCorrected` and `QuietAgreement` rest on
`HInv`: what a client is still to be told of its life ends with the truth (`Told`); the
moves of an honest one that are on their way lead, step by step, from where the zone has it
to where it is (`Trail`), and each finds the budget of the ticks it has travelled and of
one more (`Affordable`), so nothing is put back. Only a request to revive that was
overtaken by an answer breaks this, and sets `overtaken`.

**ClientProofs, `SendPath`.** Any number of threads, sessions and chunks, any sizes. `BytesIntact`
needs `CutBelow`: every live buffer ends at or below the `usedSize_` of a chunk that
exists. Only `Make` brings a buffer to life, at `usedSize_`, and only `Pop` and `Push` move chunks;
for every other step `LetGo` says that what lets buffers go disturbs nothing.
`ClosedIsReleased` needs that the job of `Close` is posted only with the flag down and
that an unregistered session is not connected, and that a write runs only while
something is queued. `QueueIsBounded` counts the bytes of a queue as the set of pairs of
a packet and one of its units (`Queued`); the proof shows that `queuedBytes` is its
cardinality, through every append and removal.

**DBThreadPoolProofs.** Any number of workers, keys and tasks, any failures.
`LeavesNothing` needs that nobody pushes once a worker was asked to stop (a queue found
empty stays empty) and that a worker between connecting and retrying has no session.
`KeysStayInOrder` maps each step to a step of `Serializer` for every key, or to a stutter.
The tasks of a key in a queue are picked by rank (`OfKey`: the n-th is the one with n - 1
before it), and the lemmas are what an append and a removal of the head do to them
(`OfKeyAppend`, `OfKeyTail`); that a rank below the number of tasks belongs to exactly one
is a counting argument (`RankOnto`).

**GatewayLinkProofs.** Any number of attempts, sessionIDs, faults and packets. The
invariant is built in layers again.

1. *Who drives* (`LinkInv`; theorem `Base`, without hypothesis). `Waiting(kind, gen)`
   counts the operations of a kind under way and their handlers in the strand. Of today's
   connection there is one attempt while the link is down and one read while it is up,
   at most one write, and while an attempt runs no read is left that could find a second
   loss (`Driven`); of earlier ones there is no timer, of later ones nothing
   (`OtherGens`). The handlers that run late start nothing, which is what the comparison
   with `connGen_` is for.
2. *Senders* (`SendersDone`). A `Send` that has read the flag is posted before the timer
   expires, and posted packets are handled before the timer's handler (`Before`), so an
   attempt begins with an empty queue; then the write is pending exactly when the queue is not empty. That
   gives `Drives`.
3. *Ends* (`Ends`). The gateway's end of a connection is alive only while it is today's
   and the socket is open; a read or write of today that failed means that the other end
   is gone; a gateway knows clients of the connection of today only.
4. *Emptiness* (`Empty`, `OfNow`, `Emptying`). While the link is down, each READY in the
   queue of jobs has a clearing behind it or is late, and once the zone is cleared no
   load's answer lets anyone but the late ones in (`ClearedOf`); when the timer expires,
   jobs and loads are done, so the late ones are all that is left (`AllLate`), and stays
   so until the handshake has been read (`Settled`). Hence every client and packet in the
   zone server is of today's connection, or late (`OfNow`).

`Agreement` is all of them together; `GreetsFirst` reads off `Empty` what can come before
the handshake, and `NobodyElses` follows from `OfNow` and `Ends`.

Only model-checked: all liveness, the fairness of the refinements included
(`ImplementsSerializer` and `ImplementsExecutor` are proved as far as their safety goes),
because fairness and ENABLED are beyond the prover. Every invariant and action property
that a run checks has a theorem. What a recursive definition of a sum or a filter computes for every input
needs induction over data, which the prover lacks; `EndsWith`, `Queued` and `OfKey` are
therefore stated with sets, positions and cardinalities.

## 6. Not modelled, and what the models leave out

- Bytes: layouts of packets, the receive loops that cut a stream into packets
  (`ClientProxySession.cpp:50`, `GatewaySession.cpp:185`), the split of long spawn lists
  over packets (a list that is too large for a buffer is dropped by `MakeList`). The
  receive loops are planned.
- The end of a thread, which releases its chunk: threads last as long as the process. A
  chunk that cannot be allocated. The send queues between
  gateway and zone server have no limit in the code either; `MaxQueue` bounds the one that is
  modelled.
- Cooldown times, mp, levels, the weighted reward. `ZoneView` and `ZoneCombat` accept or
  refuse a move freely; `PlayerMoves` has the budget.
- Login, fights and statistics of the bot.
- `maxHp_` and `maxMp_` of a player are placeholders in the code (1 and 0, `Player.h:14`)
  that nothing replaces, so `Regen` brings every player down to 1 hp. `ZoneCombat`
  takes `maxHp_` as a constant, smaller than the hp a character may be loaded with, and
  states only that nobody dies of it.
- A monster may kill a player whose portal save is already queued
  (`MonsterAttack`, `Zone.cpp:644`, does not look at `portalPending_`); the row says
  alive. No comment or test says otherwise.
- A shutdown while MySQL is away discards what is queued
  (`DBThreadPool.cpp:80`, called from `GameDB::Shutdown`). `LeavesNothing` has exactly
  this exception.
- Jobs still in the worker pool when it is stopped are dropped, and an owner takes its
  newest closure first; `Executor` promises neither.
- One process hosts all zones in `ZoneLife`; several zone servers appear in
  `GatewaySessions` only.
- Tables and their loading, configuration, Redis (a stub), the SQL of stored procedures,
  password hashing, game data: constants, pure functions, libraries or tools.
- Atomics are sequentially consistent, as the code's default order is.
