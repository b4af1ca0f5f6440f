--------------------------- MODULE ZoneLifeProofs ---------------------------
(***************************************************************************)
(* Proofs about ZoneLife, for any number of zones, characters and          *)
(* sessions. One invariant stands on the other: SameCharacters needs       *)
(* LoadingIsNotPlaying (IInv); what is left of a shutdown is counted by    *)
(* the zones whose clearing is still to come (ShutdownInv); a session is   *)
(* where its packets go, and its end follows its READY (SessionInv); a     *)
(* character belongs to the session that plays it (Own), to one at a time  *)
(* (BodyInv); a portal save is one task or one answer, for the zone that   *)
(* waits (PortalInv); the row of a character names the zone it is in or is *)
(* ordered to (RowInv); in each zone the sessions of one character take    *)
(* turns, and a load answers once (OrdersInv); and what was earned is in   *)
(* memory, in a queued save or in the row (ExpInv).                        *)
(***************************************************************************)
EXTENDS ZoneLife, FiniteSetTheorems, TLAPS

IInv == TypeOK /\ SameCharacters /\ LoadingIsNotPlaying

-----------------------------------------------------------------------------
\* Types of what the helpers return.

\* Changing one value of a function of two arguments keeps its type.
LEMMA Update2Type ==
  ASSUME NEW A, NEW B, NEW T, NEW f \in [A -> [B -> T]],
         NEW a \in A, NEW b \in B, NEW t \in T
  PROVE  [f EXCEPT ![a][b] = t] \in [A -> [B -> T]]
OBVIOUS

\* A save of a character that is in the zone is a task.
LEMMA SaveTaskType ==
  ASSUME TypeOK, NEW z \in Zones, NEW p \in Players, Here(z, p),
         NEW kind \in TaskKinds \ {"load"}, NEW to \in Zones
  PROVE  SaveTask(kind, z, p, to) \in Task
BY DEF TypeOK, SaveTask, Task, Here, Char

\* Pushing a task leaves task queues.
LEMMA PushTaskType ==
  ASSUME TypeOK, NEW p \in Players, NEW task \in Task
  PROVE  PushTask(dbQueue, p, task) \in [Players -> Seq(Task)]
BY DEF TypeOK, PushTask

\* Taking a job from the network leaves network queues, and the job is one.
LEMMA NextNetType ==
  ASSUME TypeOK, NEW z \in Zones, NEW kind, NextNet(z, kind)
  PROVE  /\ netQueue' \in [Zones -> Seq(NetJob)]
         /\ Head(netQueue[z]) \in NetJob
BY DEF TypeOK, NextNet

\* Likewise for jobs from the database.
LEMMA NextJobType ==
  ASSUME TypeOK, NEW z \in Zones, NEW kind, NextJob(z, kind)
  PROVE  /\ jobQueue' \in [Zones -> Seq(DbJob)]
         /\ Head(jobQueue[z]) \in DbJob
         /\ Head(jobQueue[z]).kind = kind
BY DEF TypeOK, NextJob

\* The player and its session go together.
LEMMA LeaveType ==
  ASSUME TypeOK, NEW z \in Zones, NEW p \in Players, Here(z, p), Leave(z, p)
  PROVE  /\ players' \in [Zones -> [Players -> Char \cup {NotHere}]]
         /\ sessionToPlayer' \in [Zones -> [Sessions -> Players \cup {NoPlayer}]]
BY DEF TypeOK, Leave, Here, Char

\* Clearing a zone keeps the types.
LEMMA SaveAllType ==
  ASSUME TypeOK, NEW z \in Zones, SaveAllAndClear(z)
  PROVE  /\ players' \in [Zones -> [Players -> Char \cup {NotHere}]]
         /\ sessionToPlayer' \in [Zones -> [Sessions -> Players \cup {NoPlayer}]]
         /\ spawnPending' \in [Zones -> SUBSET Sessions]
         /\ dbQueue' \in [Players -> Seq(Task)]
<1>1. \A p \in Players : NeedsSave(z, p) => SaveTask("save", z, p, z) \in Task
  BY SaveTaskType DEF NeedsSave, TaskKinds
<1>2. QED
  BY <1>1 DEF TypeOK, SaveAllAndClear
-----------------------------------------------------------------------------
\* Every zone job, game action, database step and gateway step keeps the types.

LEMMA ZoneJobType ==
  ASSUME TypeOK, SameCharacters, NEW z \in Zones, ZoneJob(z)
  PROVE  TypeOK'
<1>1. CASE HandleReadyToSpawn(z)
  <2> DEFINE s == Head(netQueue[z]).s
  <2>1. netQueue' \in [Zones -> Seq(NetJob)] /\ s \in Sessions
    BY <1>1, NextNetType DEF HandleReadyToSpawn, NextNet, NetJob
  <2>2. [kind |-> "load", z |-> z, s |-> s] \in Task
    BY <2>1 DEF Task
  <2>3. PlayerOf[s] \in Players
    BY <2>1, ZoneLifeAssumption
  <2>4. PushTask(dbQueue, PlayerOf[s], [kind |-> "load", z |-> z, s |-> s])
          \in [Players -> Seq(Task)]
    BY <2>2, <2>3, PushTaskType
  <2> HIDE DEF s
  <2>5. dbQueue' \in [Players -> Seq(Task)]
    BY <1>1, <2>4 DEF HandleReadyToSpawn, s, TypeOK
  <2>6. spawnPending' \in [Zones -> SUBSET Sessions]
    <3>1. \/ spawnPending' = [spawnPending EXCEPT ![z] = @ \cup {s}]
          \/ spawnPending' = spawnPending
      BY <1>1 DEF HandleReadyToSpawn, s
    <3>2. spawnPending[z] \cup {s} \in SUBSET Sessions
      BY <2>1 DEF TypeOK
    <3>3. QED
      BY <3>1, <3>2 DEF TypeOK
  <2>7. QED
    BY <1>1, <2>1, <2>5, <2>6 DEF HandleReadyToSpawn, TypeOK, gateVars, mainVars
<1>2. CASE HandleDisconnect(z)
  <2> DEFINE s == Head(netQueue[z]).s
             p == sessionToPlayer[z][s]
  <2>1. netQueue' \in [Zones -> Seq(NetJob)] /\ s \in Sessions
    BY <1>2, NextNetType DEF HandleDisconnect, NextNet, NetJob
  <2>2. p \in Players \cup {NoPlayer}
    BY <2>1 DEF TypeOK
  <2> HIDE DEF s
  <2>3. spawnPending' \in [Zones -> SUBSET Sessions]
    BY <1>2 DEF HandleDisconnect, TypeOK
  <2>4. /\ players' \in [Zones -> [Players -> Char \cup {NotHere}]]
        /\ sessionToPlayer' \in [Zones -> [Sessions -> Players \cup {NoPlayer}]]
        /\ dbQueue' \in [Players -> Seq(Task)]
    <3>1. CASE p = NoPlayer
      BY <1>2, <3>1, ZoneLifeAssumption DEF HandleDisconnect, s, TypeOK
    <3>2. CASE p # NoPlayer
      <4>1. p \in Players /\ Here(z, p) /\ Leave(z, p)
        BY <1>2, <2>1, <2>2, <3>2 DEF HandleDisconnect, s, SameCharacters
      <4>2. PushTask(dbQueue, p, SaveTask("save", z, p, z)) \in [Players -> Seq(Task)]
        BY <4>1, SaveTaskType, PushTaskType DEF TaskKinds
      <4>3. dbQueue' = (IF NeedsSave(z, p)
                        THEN PushTask(dbQueue, p, SaveTask("save", z, p, z))
                        ELSE dbQueue)
        BY <1>2, <3>2 DEF HandleDisconnect, s
      <4>4. dbQueue' \in [Players -> Seq(Task)]
        BY <4>2, <4>3 DEF TypeOK
      <4>5. QED
        BY <4>1, <4>4, LeaveType
    <3>3. QED
      BY <3>1, <3>2
  <2>5. QED
    BY <1>2, <2>1, <2>3, <2>4 DEF HandleDisconnect, TypeOK, gateVars, mainVars
<1>3. CASE HandleGatewayLost(z)
  BY <1>3, NextNetType, SaveAllType
  DEF HandleGatewayLost, SaveAllAndClear, TypeOK, gateVars, mainVars
<1>4. CASE CloseZone(z)
  BY <1>4, NextNetType DEF CloseZone, TypeOK, dbVars, gateVars, mainVars
<1>5. CASE ClearForShutdown(z)
  <2>1. NextNet(z, "clearDone") /\ SaveAllAndClear(z)
    BY <1>5 DEF ClearForShutdown
  <2>2. /\ UNCHANGED <<portalPending, closed, jobQueue, row, dbOpen, gateVars,
                       earned, phase>>
        /\ remaining' \in Int
    BY <1>5, <2>1 DEF ClearForShutdown, SaveAllAndClear, TypeOK
  <2>3. QED
    BY <2>1, <2>2, NextNetType, SaveAllType DEF TypeOK, gateVars
<1>6. QED
  BY <1>1, <1>2, <1>3, <1>4, <1>5 DEF ZoneJob

LEMMA DbCallbackType ==
  ASSUME TypeOK, NEW z \in Zones, DbCallback(z)
  PROVE  TypeOK'
<1> DEFINE job == Head(jobQueue[z])
<1>1. CASE SpawnLoaded(z)
  <2>1. /\ jobQueue' \in [Zones -> Seq(DbJob)]
        /\ job.s \in Sessions /\ job.p \in Players /\ job.now \in State
    BY <1>1, NextJobType DEF SpawnLoaded, DbJob
  <2>2. [sid |-> job.s, now |-> job.now, lastSaved |-> job.now] \in Char
    BY <2>1 DEF Char
  <2> HIDE DEF job
  <2>3. spawnPending' \in [Zones -> SUBSET Sessions]
    BY <1>1 DEF SpawnLoaded, TypeOK
  <2>4. \/ /\ players' = [players EXCEPT ![z][job.p] =
                            [sid |-> job.s, now |-> job.now, lastSaved |-> job.now]]
           /\ sessionToPlayer' = [sessionToPlayer EXCEPT ![z][job.s] = job.p]
        \/ UNCHANGED <<players, sessionToPlayer>>
    BY <1>1 DEF SpawnLoaded, job
  <2>5. /\ players' \in [Zones -> [Players -> Char \cup {NotHere}]]
        /\ sessionToPlayer' \in [Zones -> [Sessions -> Players \cup {NoPlayer}]]
    <3>1. /\ players \in [Zones -> [Players -> Char \cup {NotHere}]]
          /\ sessionToPlayer \in [Zones -> [Sessions -> Players \cup {NoPlayer}]]
      BY DEF TypeOK
    <3>2. CASE UNCHANGED <<players, sessionToPlayer>>
      BY <3>1, <3>2
    <3>3. CASE ~UNCHANGED <<players, sessionToPlayer>>
      <4>1. /\ players' = [players EXCEPT ![z][job.p] =
                             [sid |-> job.s, now |-> job.now, lastSaved |-> job.now]]
            /\ sessionToPlayer' = [sessionToPlayer EXCEPT ![z][job.s] = job.p]
        BY <2>4, <3>3
      <4>2. job.p \in Players \cup {NoPlayer}
        BY <2>1
      <4>3. QED
        BY <2>1, <2>2, <3>1, <4>1, <4>2, Update2Type
    <3>4. QED
      BY <3>2, <3>3
  <2>6. QED
    BY <1>1, <2>1, <2>3, <2>5 DEF SpawnLoaded, TypeOK, dbVars, gateVars, mainVars
<1>2. CASE PortalSaved(z)
  <2>1. /\ jobQueue' \in [Zones -> Seq(DbJob)]
        /\ job.s \in Sessions /\ job.p \in Players /\ job.to \in Zones
    BY <1>2, NextJobType DEF PortalSaved, DbJob
  <2> HIDE DEF job
  <2>2. portalPending' \in [Zones -> SUBSET Players]
    BY <1>2 DEF PortalSaved, TypeOK
  <2>3. /\ players' \in [Zones -> [Players -> Char \cup {NotHere}]]
        /\ sessionToPlayer' \in [Zones -> [Sessions -> Players \cup {NoPlayer}]]
        /\ leaveAck' \in [Sessions -> Zones \cup {NoZone}]
    <3>1. CASE PortalLeaves(z, job)
      <4>1. /\ Here(z, job.p) /\ Leave(z, job.p)
            /\ leaveAck' = [leaveAck EXCEPT ![job.s] = job.to]
        BY <1>2, <3>1 DEF PortalSaved, PortalLeaves, job
      <4>2. QED
        BY <2>1, <4>1, LeaveType DEF TypeOK
    <3>2. CASE ~PortalLeaves(z, job)
      BY <1>2, <3>2 DEF PortalSaved, TypeOK, job
    <3>3. QED
      BY <3>1, <3>2
  <2>4. QED
    BY <1>2, <2>1, <2>2, <2>3 DEF PortalSaved, TypeOK, dbVars, mainVars
<1>3. QED
  BY <1>1, <1>2 DEF DbCallback

LEMMA PlayType ==
  ASSUME TypeOK, NEW z \in Zones, Play(z)
  PROVE  TypeOK'
<1> USE DEF vars, dbVars, gateVars, mainVars
<1>1. ASSUME NEW p \in Players, EarnExp(z, p)
      PROVE  TypeOK'
  <2>1. players[z][p] \in Char
    BY <1>1 DEF EarnExp, CanAct, Here, TypeOK
  <2>2. players[z][p].now.exp + 1 \in 0..MaxExp
    BY <1>1, <2>1, ZoneLifeAssumption DEF EarnExp, Char, State
  <2> DEFINE c == [players[z][p] EXCEPT !.now.exp = @ + 1]
  <2>3. c \in Char
    BY <2>1, <2>2 DEF Char, State
  <2>4. players' = [players EXCEPT ![z][p] = c]
    BY <1>1 DEF EarnExp
  <2> HIDE DEF c
  <2>5. players' \in [Zones -> [Players -> Char \cup {NotHere}]]
    BY <2>3, <2>4, Update2Type DEF TypeOK
  <2>6. earned' \in [Players -> 0..MaxExp]
    BY <1>1, <2>2 DEF EarnExp, TypeOK
  <2>7. QED
    BY <1>1, <2>5, <2>6 DEF EarnExp, TypeOK
<1>2. ASSUME NEW p \in Players, MonsterKills(z, p) \/ HandleRevive(z, p)
      PROVE  TypeOK'
  <2>1. PICK up \in BOOLEAN : players' = [players EXCEPT ![z][p].now.alive = up]
    BY <1>2 DEF MonsterKills, HandleRevive
  <2>2. players[z][p] \in Char
    BY <1>2 DEF MonsterKills, HandleRevive, Here, TypeOK
  <2>3. [players[z][p] EXCEPT !.now.alive = up] \in Char
    BY <2>2 DEF Char, State
  <2>4. players' \in [Zones -> [Players -> Char \cup {NotHere}]]
    BY <2>1, <2>3 DEF TypeOK
  <2>5. QED
    BY <1>2, <2>4 DEF MonsterKills, HandleRevive, TypeOK
<1>3. ASSUME NEW p \in Players, NEW dest \in Zones, HandlePortal(z, p, dest)
      PROVE  TypeOK'
  <2>1. SaveTask("portal", z, p, dest) \in Task
    BY <1>3, SaveTaskType DEF HandlePortal, CanAct, TaskKinds
  <2>2. dbQueue' \in [Players -> Seq(Task)]
    BY <1>3, <2>1, PushTaskType DEF HandlePortal
  <2>3. portalPending' \in [Zones -> SUBSET Players]
    BY <1>3 DEF HandlePortal, TypeOK
  <2>4. QED
    BY <1>3, <2>2, <2>3 DEF HandlePortal, TypeOK
<1>4. ASSUME NEW slice \in Slices, AutoSaveTick(z, slice)
      PROVE  TypeOK'
  <2>1. \A p \in Players : AutoSaves(z, p, slice) =>
          /\ SaveTask("auto", z, p, z) \in Task
          /\ [players[z][p] EXCEPT !.lastSaved = players[z][p].now] \in Char
    <3>1. SUFFICES ASSUME NEW p \in Players, AutoSaves(z, p, slice)
                   PROVE  /\ SaveTask("auto", z, p, z) \in Task
                          /\ [players[z][p] EXCEPT !.lastSaved = players[z][p].now] \in Char
      OBVIOUS
    <3>2. players[z][p] \in Char
      BY <3>1 DEF AutoSaves, Here, TypeOK
    <3>3. QED
      BY <3>1, <3>2, SaveTaskType DEF AutoSaves, TaskKinds, Char
  <2>2. players' \in [Zones -> [Players -> Char \cup {NotHere}]]
    BY SMTT(20), <1>4, <2>1 DEF AutoSaveTick, TypeOK
  <2>3. dbQueue' \in [Players -> Seq(Task)]
    BY <1>4, <2>1 DEF AutoSaveTick, TypeOK
  <2>4. QED
    BY <1>4, <2>2, <2>3 DEF AutoSaveTick, TypeOK
<1>5. QED
  BY <1>1, <1>2, <1>3, <1>4 DEF Play

LEMMA RunTaskType ==
  ASSUME TypeOK, NEW p \in Players, RunTask(p)
  PROVE  TypeOK'
<1> DEFINE task == NextTask(p)
<1>1. /\ task \in Task
      /\ [dbQueue EXCEPT ![p] = OtherTasks(p)] \in [Players -> Seq(Task)]
  BY DEF RunTask, NextTask, OtherTasks, TypeOK
<1>2. PICK ok \in BOOLEAN :
        /\ row' = IF ok /\ task.kind # "load"
                  THEN [row EXCEPT ![p] = [now |-> task.now, zone |-> task.to]]
                  ELSE row
        /\ jobQueue' = [jobQueue EXCEPT ![task.z] = @ \o Callback(p, task, ok)]
        /\ dbQueue' = [dbQueue EXCEPT ![p] = OtherTasks(p)]
  BY DEF RunTask
<1> HIDE DEF task
<1>3. row' \in [Players -> [now : State, zone : Zones]]
  BY <1>1, <1>2 DEF Task, TaskKinds, TypeOK
<1>4. Callback(p, task, ok) \in Seq(DbJob)
  <2>1. row[p].now \in State
    BY DEF TypeOK
  <2>2. CASE task.kind = "load"
    <3>1. [kind |-> "spawned", s |-> task.s, p |-> p, ok |-> ok, now |-> row[p].now] \in DbJob
      BY <1>1, <2>1 DEF Task, DbJob
    <3>2. QED
      BY <2>2, <3>1 DEF Callback
  <2>3. CASE task.kind = "portal"
    <3>1. [kind |-> "portalDone", s |-> task.s, p |-> p, ok |-> ok, to |-> task.to] \in DbJob
      BY <1>1, <2>3 DEF Task, DbJob
    <3>2. QED
      BY <2>3, <3>1 DEF Callback
  <2>4. CASE task.kind \notin {"load", "portal"}
    BY <2>4 DEF Callback
  <2>5. QED
    BY <2>2, <2>3, <2>4
<1>5. task.z \in Zones
  BY <1>1 DEF Task
<1>6. jobQueue[task.z] \o Callback(p, task, ok) \in Seq(DbJob)
  BY <1>4, <1>5 DEF TypeOK
<1>7. jobQueue' \in [Zones -> Seq(DbJob)]
  BY <1>2, <1>6 DEF TypeOK
<1>8. QED
  BY <1>1, <1>2, <1>3, <1>7 DEF RunTask, TypeOK, zoneVars, gateVars, mainVars

\* A message for one queue of many, or for none of them.
LEMMA QueueType ==
  ASSUME NEW A, NEW T, NEW q \in [A -> Seq(T)], NEW a, NEW t \in T
  PROVE  [q EXCEPT ![a] = Append(@, t)] \in [A -> Seq(T)]
<1>1. CASE a \in A
  <2>1. Append(q[a], t) \in Seq(T)
    BY <1>1
  <2>2. QED
    BY <2>1
<1>2. CASE a \notin A
  BY <1>2
<1>3. QED
  BY <1>1, <1>2

\* The number of READYs a client may send.
LEMMA ReadyType == MaxReady \in 0..MaxReady
BY ZoneLifeAssumption

LEMMA GatewayType ==
  ASSUME TypeOK, NEW s \in Sessions, Gateway(s)
  PROVE  TypeOK'
<1>1. CASE SelectCharacter(s)
  <2>1. gate' \in [Sessions -> {"new", "play", "gone"}]
    BY <1>1 DEF SelectCharacter, TypeOK
  <2>2. row[PlayerOf[s]].zone \in Zones
    BY ZoneLifeAssumption DEF TypeOK
  <2>3. route' \in [Sessions -> Zones \cup {NoZone}]
    BY <1>1, <2>2 DEF SelectCharacter, TypeOK
  <2>4. mayReady' \in [Sessions -> 0..MaxReady]
    BY <1>1, ReadyType DEF SelectCharacter, TypeOK
  <2>5. QED
    BY <1>1, <2>1, <2>3, <2>4 DEF SelectCharacter, TypeOK, zoneVars, dbVars, mainVars
<1>2. CASE RouteReady(s)
  <2>1. Net("ready", s) \in NetJob
    BY DEF Net, NetJob
  <2>2. netQueue' \in [Zones -> Seq(NetJob)]
    BY <1>2, <2>1, QueueType DEF RouteReady, TypeOK
  <2>3. mayReady' \in [Sessions -> 0..MaxReady]
    BY <1>2, ZoneLifeAssumption DEF RouteReady, TypeOK
  <2>4. QED
    BY <1>2, <2>2, <2>3 DEF RouteReady, TypeOK, zoneVars, dbVars, mainVars
<1>3. CASE LeaveCompleted(s)
  <2>1. leaveAck' \in [Sessions -> Zones \cup {NoZone}]
    BY <1>3 DEF LeaveCompleted, TypeOK
  <2>2. route' \in [Sessions -> Zones \cup {NoZone}]
    <3>1. leaveAck[s] \in Zones \cup {NoZone}
      BY DEF TypeOK
    <3>2. QED
      BY <1>3, <3>1 DEF LeaveCompleted, TypeOK
  <2>3. mayReady' \in [Sessions -> 0..MaxReady]
    BY <1>3, ReadyType DEF LeaveCompleted, TypeOK
  <2>4. QED
    BY <1>3, <2>1, <2>2, <2>3 DEF LeaveCompleted, TypeOK, zoneVars, dbVars, mainVars
<1>4. CASE CloseSession(s)
  <2>1. Net("bye", s) \in NetJob
    BY DEF Net, NetJob
  <2>2. netQueue' \in [Zones -> Seq(NetJob)]
    BY <1>4, <2>1, QueueType DEF CloseSession, TypeOK
  <2>3. gate' \in [Sessions -> {"new", "play", "gone"}]
    BY <1>4 DEF CloseSession, TypeOK
  <2>4. QED
    BY <1>4, <2>2, <2>3 DEF CloseSession, TypeOK, zoneVars, dbVars, mainVars
<1>5. QED
  BY <1>1, <1>2, <1>3, <1>4 DEF Gateway

LEMMA GatewayLostType ==
  ASSUME TypeOK, LoseGateway
  PROVE  TypeOK'
<1>1. netQueue' \in [Zones -> Seq(NetJob)]
  <2>1. PICK lost \in [Zones -> 0..(MaxNet + Cardinality(Sessions))] :
          /\ \A z \in Zones : lost[z] <= Len(netQueue[z])
          /\ netQueue' = [z \in Zones |->
                            Append(SubSeq(netQueue[z], 1, Len(netQueue[z]) - lost[z]),
                                   Net("clear", NoSession))]
    BY DEF LoseGateway
  <2>2. QED
    BY <2>1 DEF TypeOK, Net, NetJob
<1>2. QED
  BY <1>1 DEF LoseGateway, TypeOK, zoneVars, dbVars, mainVars

LEMMA ShutdownType ==
  ASSUME TypeOK, Signal \/ Finish
  PROVE  TypeOK'
<1>1. CASE Signal
  <2>1. <<Net("close", NoSession), Net("clearDone", NoSession)>> \in Seq(NetJob)
    BY DEF Net, NetJob
  <2>2. netQueue' \in [Zones -> Seq(NetJob)]
    BY <1>1, <2>1 DEF Signal, TypeOK
  <2>3. QED
    BY <1>1, <2>2 DEF Signal, TypeOK, zoneVars, dbVars, gateVars
<1>2. CASE Finish
  BY <1>2 DEF Finish, TypeOK, zoneVars, gateVars, mainVars
<1>3. QED
  BY <1>1, <1>2
-----------------------------------------------------------------------------
\* The two maps of a zone.  All steps but five leave them alone.

\* Entering: the session of a load under way plays nobody, the character is
\* not in the zone.
LEMMA EnterInvariant ==
  ASSUME IInv, NEW z \in Zones, SpawnLoaded(z)
  PROVE  SameCharacters' /\ LoadingIsNotPlaying'
<1> DEFINE job == Head(jobQueue[z])
<1>1. /\ job.s \in Sessions /\ job.p \in Players /\ job.now \in State
      /\ spawnPending' = [spawnPending EXCEPT ![z] = @ \ {job.s}]
  BY NextJobType DEF IInv, SpawnLoaded, DbJob
<1>2. \/ /\ job.s \in spawnPending[z]
         /\ ~Here(z, job.p)
         /\ players' = [players EXCEPT ![z][job.p] =
                          [sid |-> job.s, now |-> job.now, lastSaved |-> job.now]]
         /\ sessionToPlayer' = [sessionToPlayer EXCEPT ![z][job.s] = job.p]
      \/ UNCHANGED <<players, sessionToPlayer>>
  BY DEF SpawnLoaded
<1> HIDE DEF job
<1>3. CASE UNCHANGED <<players, sessionToPlayer>>
  BY <1>1, <1>3 DEF IInv, TypeOK, SameCharacters, LoadingIsNotPlaying, Here
<1>4. CASE ~UNCHANGED <<players, sessionToPlayer>>
  <2>1. sessionToPlayer[z][job.s] = NoPlayer
    BY <1>1, <1>2, <1>4 DEF IInv, LoadingIsNotPlaying
  <2>2. job.p # NoPlayer
    BY <1>1, ZoneLifeAssumption
  <2>3. /\ players' = [players EXCEPT ![z][job.p] =
                          [sid |-> job.s, now |-> job.now, lastSaved |-> job.now]]
        /\ sessionToPlayer' = [sessionToPlayer EXCEPT ![z][job.s] = job.p]
        /\ ~Here(z, job.p)
    BY <1>2, <1>4
  <2>4. [sid |-> job.s, now |-> job.now, lastSaved |-> job.now] # NotHere
    BY <1>1, NotHereAssumption DEF Char
  <2>5. SameCharacters'
    <3>1. ASSUME NEW y \in Zones, NEW q \in Players, Here(y, q)'
          PROVE  sessionToPlayer'[y][players'[y][q].sid] = q
      <4>1. CASE y = z /\ q = job.p
        BY <1>1, <2>3, <4>1 DEF IInv, TypeOK
      <4>2. CASE ~(y = z /\ q = job.p)
        <5>1. Here(y, q) /\ players'[y][q] = players[y][q]
          BY <1>1, <2>3, <3>1, <4>2 DEF IInv, TypeOK, Here
        <5>2. players[y][q].sid \in Sessions /\ sessionToPlayer[y][players[y][q].sid] = q
          BY <5>1 DEF IInv, TypeOK, SameCharacters, Here, Char
        <5>3. q # NoPlayer
          BY ZoneLifeAssumption
        <5>4. ~(y = z /\ players[y][q].sid = job.s)
          BY <2>1, <5>2, <5>3
        <5>5. QED
          BY <1>1, <2>3, <5>1, <5>2, <5>4 DEF IInv, TypeOK
      <4>3. QED
        BY <4>1, <4>2
    <3>2. ASSUME NEW y \in Zones, NEW s \in Sessions, sessionToPlayer'[y][s] # NoPlayer
          PROVE  /\ Here(y, sessionToPlayer[y][s])'
                 /\ players'[y][sessionToPlayer'[y][s]].sid = s
      <4>1. CASE y = z /\ s = job.s
        BY <1>1, <2>3, <2>4, <4>1 DEF IInv, TypeOK, Here
      <4>2. CASE ~(y = z /\ s = job.s)
        <5>1. sessionToPlayer'[y][s] = sessionToPlayer[y][s]
          BY <1>1, <2>3, <4>2 DEF IInv, TypeOK
        <5>2. /\ sessionToPlayer[y][s] \in Players
              /\ Here(y, sessionToPlayer[y][s])
              /\ players[y][sessionToPlayer[y][s]].sid = s
          BY <3>2, <5>1 DEF IInv, TypeOK, SameCharacters
        <5>3. ~(y = z /\ sessionToPlayer[y][s] = job.p)
          BY <2>3, <5>2
        <5>4. QED
          BY <1>1, <2>3, <5>1, <5>2, <5>3 DEF IInv, TypeOK, Here
      <4>3. QED
        BY <4>1, <4>2
    <3>3. QED
      BY <3>1, <3>2 DEF SameCharacters, Here
  <2>6. LoadingIsNotPlaying'
    BY <1>1, <2>3 DEF IInv, TypeOK, LoadingIsNotPlaying
  <2>7. QED
    BY <2>5, <2>6
<1>5. QED
  BY <1>3, <1>4

\* Leaving: the character and its own session go together.
LEMMA LeaveInvariant ==
  ASSUME IInv, NEW z \in Zones, NEW p \in Players, Here(z, p), Leave(z, p),
         spawnPending' \in [Zones -> SUBSET Sessions],
         \A y \in Zones : spawnPending'[y] \subseteq spawnPending[y]
  PROVE  SameCharacters' /\ LoadingIsNotPlaying'
<1> DEFINE sid == players[z][p].sid
<1>1. /\ players' = [players EXCEPT ![z][p] = NotHere]
      /\ sessionToPlayer' = [sessionToPlayer EXCEPT ![z][sid] = NoPlayer]
  BY DEF Leave
<1>2. sid \in Sessions /\ sessionToPlayer[z][sid] = p
  BY DEF IInv, TypeOK, SameCharacters, Here, Char
<1> HIDE DEF sid
<1>3. \A q \in Players : q # p /\ Here(z, q) => players[z][q].sid # sid
  BY <1>2 DEF IInv, SameCharacters
<1>4. \A s \in Sessions : s # sid => sessionToPlayer[z][s] # p
  BY <1>2, ZoneLifeAssumption DEF IInv, SameCharacters, sid
<1>5. \A y \in Zones, q \in Players : Here(y, q)' =>
         /\ Here(y, q) /\ players'[y][q] = players[y][q]
         /\ ~(y = z /\ q = p)
  BY <1>1 DEF IInv, TypeOK, Here
<1>6. \A y \in Zones, s \in Sessions : sessionToPlayer'[y][s] # NoPlayer =>
         /\ sessionToPlayer'[y][s] = sessionToPlayer[y][s]
         /\ ~(y = z /\ s = sid)
  BY <1>1, <1>2 DEF IInv, TypeOK
<1>7. SameCharacters'
  <2>1. ASSUME NEW y \in Zones, NEW q \in Players, Here(y, q)'
        PROVE  sessionToPlayer'[y][players'[y][q].sid] = q
    BY <1>1, <1>3, <1>5, <2>1 DEF IInv, TypeOK, SameCharacters, Here, Char
  <2>2. ASSUME NEW y \in Zones, NEW s \in Sessions, sessionToPlayer'[y][s] # NoPlayer
        PROVE  /\ Here(y, sessionToPlayer[y][s])'
               /\ players'[y][sessionToPlayer'[y][s]].sid = s
    BY <1>1, <1>4, <1>6, <2>2 DEF IInv, TypeOK, SameCharacters, Here
  <2>3. QED
    BY <2>1, <2>2 DEF SameCharacters, Here
<1>8. LoadingIsNotPlaying'
  BY <1>6 DEF IInv, LoadingIsNotPlaying
<1>9. QED
  BY <1>7, <1>8

\* Clearing a zone: both maps and the loads are empty.
LEMMA ClearInvariant ==
  ASSUME IInv, NEW z \in Zones, SaveAllAndClear(z)
  PROVE  SameCharacters' /\ LoadingIsNotPlaying'
<1>1. /\ players' = [players EXCEPT ![z] = [p \in Players |-> NotHere]]
      /\ sessionToPlayer' = [sessionToPlayer EXCEPT ![z] = [s \in Sessions |-> NoPlayer]]
      /\ spawnPending' = [spawnPending EXCEPT ![z] = {}]
  BY DEF SaveAllAndClear
<1>2. SameCharacters'
  BY <1>1 DEF IInv, TypeOK, SameCharacters, Here
<1>3. LoadingIsNotPlaying'
  BY <1>1 DEF IInv, TypeOK, LoadingIsNotPlaying
<1>4. QED
  BY <1>2, <1>3

\* Playing and saving changes what a character is, never who is in the zone.
SameMembers ==
  /\ UNCHANGED <<sessionToPlayer, spawnPending>>
  /\ \A y \in Zones, p \in Players :
       /\ Here(y, p)' <=> Here(y, p)
       /\ Here(y, p) => players'[y][p].sid = players[y][p].sid

LEMMA ChangeMembers ==
  ASSUME TypeOK, NEW z \in Zones, NEW p \in Players, Here(z, p),
         NEW c \in Char, c.sid = players[z][p].sid,
         players' = [players EXCEPT ![z][p] = c],
         UNCHANGED <<sessionToPlayer, spawnPending>>
  PROVE  SameMembers
BY NotHereAssumption DEF TypeOK, SameMembers, Here

LEMMA SameMembersInvariant ==
  ASSUME IInv, SameMembers
  PROVE  SameCharacters' /\ LoadingIsNotPlaying'
<1>1. SameCharacters'
  <2>1. ASSUME NEW y \in Zones, NEW p \in Players, Here(y, p)'
        PROVE  sessionToPlayer'[y][players'[y][p].sid] = p
    BY <2>1 DEF IInv, SameMembers, SameCharacters
  <2>2. ASSUME NEW y \in Zones, NEW s \in Sessions, sessionToPlayer'[y][s] # NoPlayer
        PROVE  /\ Here(y, sessionToPlayer[y][s])'
               /\ players'[y][sessionToPlayer'[y][s]].sid = s
    <3>1. /\ sessionToPlayer'[y][s] = sessionToPlayer[y][s]
          /\ sessionToPlayer[y][s] \in Players
          /\ Here(y, sessionToPlayer[y][s])
          /\ players[y][sessionToPlayer[y][s]].sid = s
      BY <2>2 DEF IInv, TypeOK, SameMembers, SameCharacters
    <3>2. /\ players'[y][sessionToPlayer[y][s]].sid = s
          /\ players'[y][sessionToPlayer[y][s]] # NotHere
      BY <3>1 DEF SameMembers, Here
    <3>3. QED
      BY <2>2, <3>1, <3>2 DEF SameMembers, Here
  <2>3. QED
    BY <2>1, <2>2 DEF SameCharacters, Here
<1>2. LoadingIsNotPlaying'
  BY DEF IInv, SameMembers, LoadingIsNotPlaying
<1>3. QED
  BY <1>1, <1>2

LEMMA PlayMembers ==
  ASSUME TypeOK, NEW z \in Zones, Play(z)
  PROVE  SameMembers
<1>1. ASSUME NEW p \in Players, EarnExp(z, p) \/ MonsterKills(z, p) \/ HandleRevive(z, p)
      PROVE  SameMembers
  <2>1. /\ Here(z, p)
        /\ UNCHANGED <<sessionToPlayer, spawnPending>>
        /\ players[z][p] \in Char
    BY <1>1 DEF EarnExp, MonsterKills, HandleRevive, CanAct, Here, TypeOK
  <2>2. CASE EarnExp(z, p)
    <3> DEFINE c == [players[z][p] EXCEPT !.now.exp = @ + 1]
    <3>1. players' = [players EXCEPT ![z][p] = c]
      BY <2>2 DEF EarnExp
    <3>2. c \in Char /\ c.sid = players[z][p].sid
      BY <2>1, <2>2, ZoneLifeAssumption DEF EarnExp, Char, State
    <3> HIDE DEF c
    <3>3. QED
      BY <2>1, <3>1, <3>2, ChangeMembers
  <2>3. CASE MonsterKills(z, p) \/ HandleRevive(z, p)
    <3>1. PICK up \in BOOLEAN : players' = [players EXCEPT ![z][p].now.alive = up]
      BY <2>3 DEF MonsterKills, HandleRevive
    <3> DEFINE c == [players[z][p] EXCEPT !.now.alive = up]
    <3>2. players' = [players EXCEPT ![z][p] = c]
      BY <3>1
    <3>3. c \in Char /\ c.sid = players[z][p].sid
      BY <2>1 DEF Char, State
    <3> HIDE DEF c
    <3>4. QED
      BY <2>1, <3>2, <3>3, ChangeMembers
  <2>4. QED
    BY <1>1, <2>2, <2>3
<1>2. ASSUME NEW p \in Players, NEW dest \in Zones, HandlePortal(z, p, dest)
      PROVE  SameMembers
  BY <1>2 DEF HandlePortal, SameMembers, Here
<1>3. ASSUME NEW slice \in Slices, AutoSaveTick(z, slice)
      PROVE  SameMembers
  <2>1. \A p \in Players : AutoSaves(z, p, slice) =>
          LET c == [players[z][p] EXCEPT !.lastSaved = players[z][p].now]
          IN  c # NotHere /\ c.sid = players[z][p].sid
    <3>1. SUFFICES ASSUME NEW p \in Players, players[z][p] \in Char
                   PROVE  LET c == [players[z][p] EXCEPT !.lastSaved = players[z][p].now]
                          IN  c # NotHere /\ c.sid = players[z][p].sid
      BY DEF AutoSaves, Here, TypeOK
    <3>2. [players[z][p] EXCEPT !.lastSaved = players[z][p].now] \in Char
      BY <3>1 DEF Char
    <3>3. QED
      BY <3>1, <3>2, NotHereAssumption DEF Char
  <2>2. /\ UNCHANGED <<sessionToPlayer, spawnPending>>
        /\ players' = [players EXCEPT ![z] = [p \in Players |->
                         IF AutoSaves(z, p, slice)
                         THEN [players[z][p] EXCEPT !.lastSaved = players[z][p].now]
                         ELSE players[z][p]]]
    BY <1>3 DEF AutoSaveTick
  <2>3. \A p \in Players : AutoSaves(z, p, slice) => Here(z, p)
    BY DEF AutoSaves
  <2>4. QED
    BY <2>1, <2>2, <2>3 DEF TypeOK, SameMembers, Here
<1>4. QED
  BY <1>1, <1>2, <1>3 DEF Play
-----------------------------------------------------------------------------
LEMMA InitInvariant == Init => IInv
<1> SUFFICES ASSUME Init PROVE IInv
  OBVIOUS
<1>1. TypeOK
  BY ZoneLifeAssumption, FS_CardinalityType DEF Init, TypeOK, State
<1>2. SameCharacters /\ LoadingIsNotPlaying
  BY DEF Init, SameCharacters, LoadingIsNotPlaying, Here
<1>3. QED
  BY <1>1, <1>2 DEF IInv

LEMMA ZoneJobInvariant ==
  ASSUME IInv, NEW z \in Zones, ZoneJob(z)
  PROVE  SameCharacters' /\ LoadingIsNotPlaying'
<1>1. CASE HandleReadyToSpawn(z)
  <2>1. UNCHANGED <<players, sessionToPlayer>>
    BY <1>1 DEF HandleReadyToSpawn
  <2>2. SameCharacters'
    BY <2>1 DEF IInv, SameCharacters, Here
  <2>3. LoadingIsNotPlaying'
    <3>1. \/ UNCHANGED spawnPending
          \/ \E t : /\ sessionToPlayer[z][t] = NoPlayer
                    /\ spawnPending' = [spawnPending EXCEPT ![z] = @ \cup {t}]
      BY <1>1 DEF HandleReadyToSpawn, StartsLoad
    <3>2. \A y \in Zones, s \in Sessions :
            s \in spawnPending'[y] =>
              s \in spawnPending[y] \/ sessionToPlayer[y][s] = NoPlayer
      <4>1. CASE UNCHANGED spawnPending
        BY <4>1
      <4>2. CASE ~UNCHANGED spawnPending
        <5>1. PICK t : /\ sessionToPlayer[z][t] = NoPlayer
                       /\ spawnPending' = [spawnPending EXCEPT ![z] = @ \cup {t}]
          BY <3>1, <4>2
        <5>2. \A y \in Zones : spawnPending'[y] =
                IF y = z THEN spawnPending[y] \cup {t} ELSE spawnPending[y]
          BY <5>1 DEF IInv, TypeOK
        <5>3. QED
          BY <5>1, <5>2
      <4>3. QED
        BY <4>1, <4>2
    <3>3. QED
      BY <2>1, <3>2 DEF IInv, LoadingIsNotPlaying
  <2>4. QED
    BY <2>2, <2>3
<1>2. CASE HandleDisconnect(z)
  <2> DEFINE s == Head(netQueue[z]).s
             p == sessionToPlayer[z][s]
  <2>1. s \in Sessions /\ p \in Players \cup {NoPlayer}
    <3>1. s \in Sessions
      BY <1>2, NextNetType DEF HandleDisconnect, NextNet, NetJob, IInv
    <3>2. QED
      BY <3>1 DEF IInv, TypeOK
  <2>2. /\ spawnPending' = [spawnPending EXCEPT ![z] = @ \ {s}]
        /\ \/ p # NoPlayer /\ Leave(z, p)
           \/ UNCHANGED <<players, sessionToPlayer>>
    BY <1>2 DEF HandleDisconnect
  <2>3. /\ spawnPending' \in [Zones -> SUBSET Sessions]
        /\ \A y \in Zones : spawnPending'[y] \subseteq spawnPending[y]
    BY <2>2 DEF IInv, TypeOK
  <2>4. CASE p # NoPlayer /\ Leave(z, p)
    <3>1. p \in Players /\ Here(z, p)
      BY <2>1, <2>4 DEF IInv, SameCharacters
    <3>2. QED
      BY <2>3, <2>4, <3>1, LeaveInvariant
  <2>5. CASE UNCHANGED <<players, sessionToPlayer>>
    BY <2>3, <2>5 DEF IInv, SameCharacters, LoadingIsNotPlaying, Here
  <2>6. QED
    BY <2>2, <2>4, <2>5
<1>3. CASE HandleGatewayLost(z) \/ ClearForShutdown(z)
  BY <1>3, ClearInvariant DEF HandleGatewayLost, ClearForShutdown
<1>4. CASE CloseZone(z)
  BY <1>4, SameMembersInvariant DEF CloseZone, SameMembers, Here
<1>5. QED
  BY <1>1, <1>2, <1>3, <1>4 DEF ZoneJob

\* A portal save that succeeded takes its own character out.
LEMMA PortalInvariant ==
  ASSUME IInv, NEW z \in Zones, PortalSaved(z)
  PROVE  SameCharacters' /\ LoadingIsNotPlaying'
<1> DEFINE job == Head(jobQueue[z])
<1>1. job.p \in Players /\ UNCHANGED spawnPending
  BY NextJobType DEF IInv, PortalSaved, DbJob
<1>2. CASE PortalLeaves(z, job)
  <2>1. Here(z, job.p) /\ Leave(z, job.p)
    BY <1>2 DEF PortalSaved, PortalLeaves
  <2>2. /\ spawnPending' \in [Zones -> SUBSET Sessions]
        /\ \A y \in Zones : spawnPending'[y] \subseteq spawnPending[y]
    BY <1>1 DEF IInv, TypeOK
  <2>3. QED
    BY <1>1, <2>1, <2>2, LeaveInvariant
<1>3. CASE ~PortalLeaves(z, job)
  BY <1>1, <1>3, SameMembersInvariant DEF PortalSaved, SameMembers, Here
<1>4. QED
  BY <1>2, <1>3

LEMMA StepInvariant == IInv /\ [Next]_vars => IInv'
<1> SUFFICES ASSUME IInv, [Next]_vars PROVE IInv'
  OBVIOUS
<1>1. TypeOK /\ SameCharacters
  BY DEF IInv
<1>2. ASSUME NEW z \in Zones, ZoneJob(z) PROVE IInv'
  BY <1>1, <1>2, ZoneJobType, ZoneJobInvariant DEF IInv
<1>3. ASSUME NEW z \in Zones, DbCallback(z) PROVE IInv'
  BY <1>1, <1>3, DbCallbackType, EnterInvariant, PortalInvariant DEF IInv, DbCallback
<1>4. ASSUME NEW z \in Zones, Play(z) PROVE IInv'
  BY <1>1, <1>4, PlayType, PlayMembers, SameMembersInvariant DEF IInv
<1>5. ASSUME NEW p \in Players, RunTask(p) PROVE IInv'
  <2>1. SameMembers
    BY <1>5 DEF RunTask, zoneVars, SameMembers, Here
  <2>2. QED
    BY <1>1, <1>5, <2>1, RunTaskType, SameMembersInvariant DEF IInv
<1>6. ASSUME NEW s \in Sessions, Gateway(s) PROVE IInv'
  <2>1. SameMembers
    BY <1>6 DEF Gateway, SelectCharacter, RouteReady, LeaveCompleted, CloseSession,
                zoneVars, SameMembers, Here
  <2>2. QED
    BY <1>1, <1>6, <2>1, GatewayType, SameMembersInvariant DEF IInv
<1>7. CASE LoseGateway
  <2>1. SameMembers
    BY <1>7 DEF LoseGateway, zoneVars, SameMembers, Here
  <2>2. QED
    BY <1>1, <1>7, <2>1, GatewayLostType, SameMembersInvariant DEF IInv
<1>8. CASE Signal \/ Finish
  <2>1. SameMembers
    BY <1>8 DEF Signal, Finish, zoneVars, SameMembers, Here
  <2>2. QED
    BY <1>1, <1>8, <2>1, ShutdownType, SameMembersInvariant DEF IInv
<1>9. CASE UNCHANGED vars
  BY <1>9 DEF vars, zoneVars, dbVars, gateVars, mainVars, IInv, TypeOK,
              SameCharacters, LoadingIsNotPlaying, Here
<1>10. QED
  BY <1>2, <1>3, <1>4, <1>5, <1>6, <1>7, <1>8, <1>9 DEF Next

\* The inductive invariant holds in every reachable state.
THEOREM Invariance == Safety => []IInv
<1>1. Init => IInv
  BY InitInvariant
<1>2. IInv /\ [Next]_vars => IInv'
  BY StepInvariant
<1>3. QED
  BY <1>1, <1>2, PTL DEF Safety

\* The variables keep their types, for any number of zones, characters and
\* sessions.
THEOREM TypeCorrect == Safety => []TypeOK
<1>1. IInv => TypeOK
  BY DEF IInv
<1>2. QED
  BY <1>1, Invariance, PTL

\* players_ and sessionToPlayer_ of every zone always hold the same characters
\* (Zone.cpp: every handler that changes one changes the other).
THEOREM MapsAgree == Safety => []SameCharacters
<1>1. IInv => SameCharacters
  BY DEF IInv
<1>2. QED
  BY <1>1, Invariance, PTL

\* No session of a zone loads a character while it plays one.
THEOREM NoSecondLoad == Safety => []LoadingIsNotPlaying
<1>1. IInv => LoadingIsNotPlaying
  BY DEF IInv
<1>2. QED
  BY <1>1, Invariance, PTL

-----------------------------------------------------------------------------
\* Queues of jobs from the network, taken at the front, extended at the back and cut
\* at the back (LoseGateway).

\* Job j waits in q.
Has(q, j) == \E i \in DOMAIN q : q[i] = j

\* Some job of that kind waits in q.
HasKind(q, kind) == \E i \in DOMAIN q : q[i].kind = kind

\* A job that ends whatever session s has in the zone.
IsEnd(j, s) == j = Net("bye", s) \/ j.kind = "clear"
EndWaits(q, s) == \E i \in DOMAIN q : IsEnd(q[i], s)

\* Every READY of s has an end of s behind it.
EndsReady(q, s) ==
  \A i \in DOMAIN q : q[i] = Net("ready", s) => \E j \in DOMAIN q : i < j /\ IsEnd(q[j], s)

\* READY of s waits at most once.
OneReady(q, s) ==
  \A i, j \in DOMAIN q : q[i] = Net("ready", s) /\ q[j] = Net("ready", s) => i = j

\* The second job of Zone::Shutdown waits at most once.
OneClearing(q) ==
  \A i, j \in DOMAIN q : q[i].kind = "clearDone" /\ q[j].kind = "clearDone" => i = j

\* The first job of Zone::Shutdown comes before the second one, or has been done.
ClosesFirst(q, done) ==
  \A j \in DOMAIN q : q[j].kind = "clearDone" =>
    done \/ \E i \in DOMAIN q : i < j /\ q[i].kind = "close"

LEMMA QueueFacts ==
  ASSUME NEW q \in Seq(NetJob)
  PROVE  /\ Len(q) \in Nat /\ DOMAIN q = 1..Len(q)
         /\ \A i \in DOMAIN q : q[i] \in NetJob
OBVIOUS

LEMMA TailFacts ==
  ASSUME NEW q \in Seq(NetJob), q # <<>>
  PROVE  /\ Len(q) \in Nat \ {0} /\ DOMAIN q = 1..Len(q)
         /\ Head(q) = q[1] /\ Head(q) \in NetJob
         /\ Tail(q) \in Seq(NetJob)
         /\ DOMAIN Tail(q) = 1..(Len(q) - 1)
         /\ \A i \in 1..(Len(q) - 1) : Tail(q)[i] = q[i + 1]
OBVIOUS

LEMMA AppendFacts ==
  ASSUME NEW q \in Seq(NetJob), NEW j \in NetJob
  PROVE  /\ Append(q, j) \in Seq(NetJob)
         /\ Len(q) \in Nat /\ DOMAIN q = 1..Len(q)
         /\ DOMAIN Append(q, j) = 1..(Len(q) + 1)
         /\ \A i \in 1..Len(q) : Append(q, j)[i] = q[i]
         /\ Append(q, j)[Len(q) + 1] = j
OBVIOUS

\* Taking a job moves every other one a place forward.
LEMMA TailShift ==
  ASSUME NEW q \in Seq(NetJob), q # <<>>
  PROVE  LET r == Tail(q)
         IN  /\ 1 \in DOMAIN q /\ Head(q) = q[1]
             /\ \A i \in DOMAIN r : i \in Int /\ i + 1 \in DOMAIN q /\ i + 1 # 1 /\ r[i] = q[i + 1]
             /\ \A i \in DOMAIN q :
                  i \in Int /\ (i = 1 \/ (i > 1 /\ i - 1 \in DOMAIN r /\ r[i - 1] = q[i]))
<1>1. /\ Len(q) \in Nat \ {0} /\ DOMAIN q = 1..Len(q) /\ Head(q) = q[1]
      /\ DOMAIN Tail(q) = 1..(Len(q) - 1)
      /\ \A i \in 1..(Len(q) - 1) : Tail(q)[i] = q[i + 1]
  BY TailFacts
<1> DEFINE r == Tail(q)
           n == Len(q)
<1> HIDE DEF r, n
<1>2. \A i \in DOMAIN r : i \in Int /\ i + 1 \in DOMAIN q /\ i + 1 # 1 /\ r[i] = q[i + 1]
  BY <1>1 DEF r, n
<1>3. \A i \in DOMAIN q : i \in Int /\ (i = 1 \/ (i > 1 /\ i - 1 \in DOMAIN r /\ r[i - 1] = q[i]))
  <2>1. ASSUME NEW i \in DOMAIN q
        PROVE  i \in Int /\ (i = 1 \/ (i > 1 /\ i - 1 \in DOMAIN r /\ r[i - 1] = q[i]))
    <3>1. CASE i = 1
      BY <3>1
    <3>2. CASE i # 1
      <4>1. i \in Int /\ i > 1 /\ i - 1 \in 1..(n - 1) /\ (i - 1) + 1 = i
        BY <1>1, <2>1, <3>2 DEF n
      <4> QED
        BY <1>1, <4>1 DEF r, n
    <3> QED
      BY <3>1, <3>2
  <2> QED
    BY <2>1
<1>4. 1 \in DOMAIN q
  BY <1>1
<1> QED
  BY <1>1, <1>2, <1>3, <1>4 DEF r

\* What waits once the first job is taken.
LEMMA TakeHas ==
  ASSUME NEW q \in Seq(NetJob), q # <<>>
  PROVE  /\ \A j : Has(Tail(q), j) => Has(q, j)
         /\ \A j : Has(q, j) => Head(q) = j \/ Has(Tail(q), j)
         /\ \A k : HasKind(Tail(q), k) => HasKind(q, k)
         /\ \A k : HasKind(q, k) => Head(q).kind = k \/ HasKind(Tail(q), k)
         /\ \A s : EndWaits(q, s) => IsEnd(Head(q), s) \/ EndWaits(Tail(q), s)
<1> DEFINE r == Tail(q)
<1>1. Head(q) = q[1]
  BY TailShift
<1>2. \A i \in DOMAIN r : i + 1 \in DOMAIN q /\ r[i] = q[i + 1]
  BY TailShift
<1>3. \A i \in DOMAIN q : i = 1 \/ (i - 1 \in DOMAIN r /\ r[i - 1] = q[i])
  BY TailShift
<1> HIDE DEF r
<1>4. /\ \A j : Has(r, j) => Has(q, j)
      /\ \A k : HasKind(r, k) => HasKind(q, k)
  BY <1>2 DEF Has, HasKind
<1>5. /\ \A j : Has(q, j) => Head(q) = j \/ Has(r, j)
      /\ \A k : HasKind(q, k) => Head(q).kind = k \/ HasKind(r, k)
      /\ \A s : EndWaits(q, s) => IsEnd(Head(q), s) \/ EndWaits(r, s)
  BY <1>1, <1>3 DEF Has, HasKind, EndWaits
<1> QED
  BY <1>4, <1>5 DEF r

LEMMA TakeOrder ==
  ASSUME NEW q \in Seq(NetJob), q # <<>>
  PROVE  /\ \A s : EndsReady(q, s) => EndsReady(Tail(q), s)
         /\ \A s : EndsReady(q, s) /\ Head(q) = Net("ready", s) => EndWaits(Tail(q), s)
         /\ \A s : OneReady(q, s) => /\ OneReady(Tail(q), s)
                                     /\ Head(q) = Net("ready", s) => ~Has(Tail(q), Net("ready", s))
         /\ OneClearing(q) => /\ OneClearing(Tail(q))
                              /\ Head(q).kind = "clearDone" => ~HasKind(Tail(q), "clearDone")
<1> DEFINE r == Tail(q)
<1>1. Head(q) = q[1]
  BY TailShift
<1>2. \A i \in DOMAIN r : i \in Int /\ i + 1 \in DOMAIN q /\ i + 1 # 1 /\ r[i] = q[i + 1]
  BY TailShift
<1>3. \A i \in DOMAIN q : i \in Int /\ (i = 1 \/ (i > 1 /\ i - 1 \in DOMAIN r /\ r[i - 1] = q[i]))
  BY TailShift
<1>4. 1 \in DOMAIN q
  BY TailShift
<1> HIDE DEF r
<1>5. ASSUME NEW s
      PROVE  /\ EndsReady(q, s) => EndsReady(r, s)
             /\ EndsReady(q, s) /\ Head(q) = Net("ready", s) => EndWaits(r, s)
             /\ OneReady(q, s) => /\ OneReady(r, s)
                                  /\ Head(q) = Net("ready", s) => ~Has(r, Net("ready", s))
  <2>1. ASSUME EndsReady(q, s), NEW i \in DOMAIN r, r[i] = Net("ready", s)
        PROVE  \E j \in DOMAIN r : i < j /\ IsEnd(r[j], s)
    <3>1. PICK j \in DOMAIN q : i + 1 < j /\ IsEnd(q[j], s)
      BY <1>2, <2>1 DEF EndsReady
    <3>2. j # 1 /\ i < j - 1
      BY <1>2, <1>3, <3>1
    <3> QED
      BY <1>3, <3>1, <3>2
  <2>2. ASSUME EndsReady(q, s), Head(q) = Net("ready", s)
        PROVE  EndWaits(r, s)
    <3>1. PICK j \in DOMAIN q : 1 < j /\ IsEnd(q[j], s)
      BY <1>1, <1>4, <2>2 DEF EndsReady
    <3> QED
      BY <1>3, <3>1 DEF EndWaits
  <2>3. ASSUME OneReady(q, s), NEW i \in DOMAIN r, NEW j \in DOMAIN r,
               r[i] = Net("ready", s), r[j] = Net("ready", s)
        PROVE  i = j
    <3>1. i + 1 = j + 1
      BY <1>2, <2>3 DEF OneReady
    <3> QED
      BY <1>2, <3>1
  <2>4. ASSUME OneReady(q, s), Head(q) = Net("ready", s), Has(r, Net("ready", s))
        PROVE  FALSE
    <3>1. PICK i \in DOMAIN r : r[i] = Net("ready", s)
      BY <2>4 DEF Has
    <3> QED
      BY <1>1, <1>2, <1>4, <2>4, <3>1 DEF OneReady
  <2> QED
    BY <2>1, <2>2, <2>3, <2>4 DEF EndsReady, OneReady
<1>6. OneClearing(q) => /\ OneClearing(r)
                        /\ Head(q).kind = "clearDone" => ~HasKind(r, "clearDone")
  <2>1. ASSUME OneClearing(q), NEW i \in DOMAIN r, NEW j \in DOMAIN r,
               r[i].kind = "clearDone", r[j].kind = "clearDone"
        PROVE  i = j
    <3>1. i + 1 = j + 1
      BY <1>2, <2>1 DEF OneClearing
    <3> QED
      BY <1>2, <3>1
  <2>2. ASSUME OneClearing(q), Head(q).kind = "clearDone", HasKind(r, "clearDone")
        PROVE  FALSE
    <3>1. PICK i \in DOMAIN r : r[i].kind = "clearDone"
      BY <2>2 DEF HasKind
    <3> QED
      BY <1>1, <1>2, <1>4, <2>2, <3>1 DEF OneClearing
  <2> QED
    BY <2>1, <2>2 DEF OneClearing
<1> QED
  BY <1>5, <1>6 DEF r

LEMMA TakeCloses ==
  ASSUME NEW q \in Seq(NetJob), q # <<>>, NEW done \in BOOLEAN, ClosesFirst(q, done)
  PROVE  /\ Head(q).kind # "close" => ClosesFirst(Tail(q), done)
         /\ Head(q).kind = "clearDone" => done
<1> DEFINE r == Tail(q)
<1>1. Head(q) = q[1]
  BY TailShift
<1>2. \A i \in DOMAIN r : i \in Int /\ i + 1 \in DOMAIN q /\ i + 1 # 1 /\ r[i] = q[i + 1]
  BY TailShift
<1>3. \A i \in DOMAIN q : i \in Int /\ (i = 1 \/ (i > 1 /\ i - 1 \in DOMAIN r /\ r[i - 1] = q[i]))
  BY TailShift
<1>4. 1 \in DOMAIN q
  BY TailShift
<1> HIDE DEF r
<1>5. ASSUME Head(q).kind # "close", NEW j \in DOMAIN r, r[j].kind = "clearDone", ~done
      PROVE  \E i \in DOMAIN r : i < j /\ r[i].kind = "close"
  <2>1. PICK i \in DOMAIN q : i < j + 1 /\ q[i].kind = "close"
    BY <1>2, <1>5 DEF ClosesFirst
  <2>2. i # 1
    BY <1>1, <1>5, <2>1
  <2>3. i - 1 < j
    BY <1>2, <1>3, <2>1
  <2> QED
    BY <1>3, <2>1, <2>2, <2>3
<1>6. ASSUME Head(q).kind = "clearDone", ~done
      PROVE  FALSE
  <2>1. PICK i \in DOMAIN q : i < 1 /\ q[i].kind = "close"
    BY <1>1, <1>4, <1>6 DEF ClosesFirst
  <2> QED
    BY <1>3, <2>1
<1> QED
  BY <1>5, <1>6 DEF ClosesFirst, r

\* What waits once a job is posted.
LEMMA PostHas ==
  ASSUME NEW q \in Seq(NetJob), NEW e \in NetJob
  PROVE  /\ \A j : Has(Append(q, e), j) <=> Has(q, j) \/ e = j
         /\ \A k : HasKind(Append(q, e), k) <=> HasKind(q, k) \/ e.kind = k
         /\ \A s : EndWaits(Append(q, e), s) <=> EndWaits(q, s) \/ IsEnd(e, s)
<1>1. /\ Len(q) \in Nat /\ DOMAIN q = 1..Len(q)
      /\ DOMAIN Append(q, e) = 1..(Len(q) + 1)
      /\ \A i \in 1..Len(q) : Append(q, e)[i] = q[i]
      /\ Append(q, e)[Len(q) + 1] = e
  BY AppendFacts
<1> DEFINE r == Append(q, e)
           n == Len(q)
<1> HIDE DEF r, n
<1>2. \A i \in DOMAIN q : i \in DOMAIN r /\ r[i] = q[i]
  BY <1>1 DEF r, n
<1>3. n + 1 \in DOMAIN r /\ r[n + 1] = e
  BY <1>1 DEF r, n
<1>4. \A i \in DOMAIN r : i = n + 1 \/ (i \in DOMAIN q /\ r[i] = q[i])
  BY <1>1 DEF r, n
<1>5. /\ \A j : Has(r, j) <=> Has(q, j) \/ e = j
      /\ \A k : HasKind(r, k) <=> HasKind(q, k) \/ e.kind = k
      /\ \A s : EndWaits(r, s) <=> EndWaits(q, s) \/ IsEnd(e, s)
  BY <1>2, <1>3, <1>4 DEF Has, HasKind, EndWaits
<1> QED
  BY <1>5 DEF r

LEMMA PostOrder ==
  ASSUME NEW q \in Seq(NetJob), NEW e \in NetJob
  PROVE  /\ \A s : IsEnd(e, s) => EndsReady(Append(q, e), s)
         /\ \A s : EndsReady(q, s) /\ e # Net("ready", s) => EndsReady(Append(q, e), s)
         /\ \A s : OneReady(q, s) /\ (e = Net("ready", s) => ~Has(q, e)) => OneReady(Append(q, e), s)
         /\ OneClearing(q) /\ (e.kind = "clearDone" => ~HasKind(q, "clearDone"))
              => OneClearing(Append(q, e))
         /\ \A done \in BOOLEAN :
              ClosesFirst(q, done) /\ (e.kind = "clearDone" => done \/ HasKind(q, "close"))
                => ClosesFirst(Append(q, e), done)
<1>1. /\ Len(q) \in Nat /\ DOMAIN q = 1..Len(q)
      /\ DOMAIN Append(q, e) = 1..(Len(q) + 1)
      /\ \A i \in 1..Len(q) : Append(q, e)[i] = q[i]
      /\ Append(q, e)[Len(q) + 1] = e
  BY AppendFacts
<1> DEFINE r == Append(q, e)
           n == Len(q)
<1> HIDE DEF r, n
<1>2. \A i \in DOMAIN q : i \in DOMAIN r /\ r[i] = q[i] /\ i < n + 1
  BY <1>1 DEF r, n
<1>3. n + 1 \in DOMAIN r /\ r[n + 1] = e
  BY <1>1 DEF r, n
<1>4. \A i \in DOMAIN r : i = n + 1 \/ (i \in DOMAIN q /\ r[i] = q[i])
  BY <1>1 DEF r, n
<1>5. ASSUME NEW s
      PROVE  /\ IsEnd(e, s) => EndsReady(r, s)
             /\ EndsReady(q, s) /\ e # Net("ready", s) => EndsReady(r, s)
             /\ OneReady(q, s) /\ (e = Net("ready", s) => ~Has(q, e)) => OneReady(r, s)
  <2>1. IsEnd(e, s) => e # Net("ready", s)
    BY DEF IsEnd, Net
  <2>2. ASSUME IsEnd(e, s), NEW i \in DOMAIN r, r[i] = Net("ready", s)
        PROVE  \E j \in DOMAIN r : i < j /\ IsEnd(r[j], s)
    BY <1>2, <1>3, <1>4, <2>1, <2>2
  <2>3. ASSUME EndsReady(q, s), e # Net("ready", s), NEW i \in DOMAIN r, r[i] = Net("ready", s)
        PROVE  \E j \in DOMAIN r : i < j /\ IsEnd(r[j], s)
    BY <1>2, <1>3, <1>4, <2>3 DEF EndsReady
  <2>4. OneReady(q, s) /\ (e = Net("ready", s) => ~Has(q, e)) => OneReady(r, s)
    BY <1>3, <1>4 DEF OneReady, Has
  <2> QED
    BY <2>2, <2>3, <2>4 DEF EndsReady
<1>6. OneClearing(q) /\ (e.kind = "clearDone" => ~HasKind(q, "clearDone")) => OneClearing(r)
  BY <1>3, <1>4 DEF OneClearing, HasKind
<1>7. ASSUME NEW done \in BOOLEAN, ClosesFirst(q, done),
             e.kind = "clearDone" => done \/ HasKind(q, "close")
      PROVE  ClosesFirst(r, done)
  <2>1. ASSUME NEW j \in DOMAIN r, r[j].kind = "clearDone", ~done
        PROVE  \E i \in DOMAIN r : i < j /\ r[i].kind = "close"
    <3>1. CASE j \in DOMAIN q
      BY <1>2, <1>4, <1>7, <2>1, <3>1 DEF ClosesFirst
    <3>2. CASE j = n + 1
      BY <1>2, <1>3, <1>7, <2>1, <3>2 DEF HasKind
    <3> QED
      BY <1>4, <3>1, <3>2
  <2> QED
    BY <2>1 DEF ClosesFirst
<1> QED
  BY <1>5, <1>6, <1>7 DEF r

\* What is left of a queue that loses packets of clients at its end.
LEMMA CutFacts ==
  ASSUME NEW q \in Seq(NetJob), NEW k \in 0..Len(q),
         \A i \in (k + 1)..Len(q) : q[i].kind \in {"ready", "bye"}
  PROVE  LET r == SubSeq(q, 1, k)
         IN  /\ r \in Seq(NetJob)
             /\ \A j : Has(r, j) => Has(q, j)
             /\ \A kind \in {"close", "clear", "clearDone"} : HasKind(r, kind) <=> HasKind(q, kind)
             /\ \A s : OneReady(q, s) => OneReady(r, s)
             /\ OneClearing(q) => OneClearing(r)
             /\ \A done \in BOOLEAN : ClosesFirst(q, done) => ClosesFirst(r, done)
<1> DEFINE r == SubSeq(q, 1, k)
<1>1. Len(q) \in Nat /\ DOMAIN q = 1..Len(q) /\ \A i \in DOMAIN q : q[i] \in NetJob
  OBVIOUS
<1>2. /\ r \in Seq(NetJob) /\ DOMAIN r = 1..k
      /\ \A i \in 1..k : r[i] = q[i]
  BY <1>1
<1> HIDE DEF r
<1>3. \A i \in DOMAIN r : i \in DOMAIN q /\ r[i] = q[i]
  BY <1>1, <1>2
<1>4. \A i \in DOMAIN q : q[i].kind \in {"close", "clear", "clearDone"} => i \in DOMAIN r /\ r[i] = q[i]
  <2>1. ASSUME NEW i \in DOMAIN q, q[i].kind \in {"close", "clear", "clearDone"}, i \notin 1..k
        PROVE  FALSE
    <3>1. i \in (k + 1)..Len(q)
      BY <1>1, <2>1
    <3> QED
      BY <2>1, <3>1
  <2> QED
    BY <1>2, <2>1
<1>5. \A kind \in {"close", "clear", "clearDone"} : HasKind(r, kind) <=> HasKind(q, kind)
  BY <1>3, <1>4 DEF HasKind
<1>6. \A s : OneReady(q, s) => OneReady(r, s)
  BY <1>3 DEF OneReady
<1>7. OneClearing(q) => OneClearing(r)
  BY <1>3 DEF OneClearing
<1>8. \A done \in BOOLEAN : ClosesFirst(q, done) => ClosesFirst(r, done)
  BY <1>3, <1>4 DEF ClosesFirst
<1>9. \A j : Has(r, j) => Has(q, j)
  BY <1>3 DEF Has
<1> QED
  BY <1>2, <1>5, <1>6, <1>7, <1>8, <1>9 DEF r

-----------------------------------------------------------------------------
\* Orderly shutdown.

\* Zones whose second job of Zone::Shutdown is still to run.
Uncleared == {z \in Zones : HasKind(netQueue[z], "clearDone")}

\* Nobody is in zone z, and no load can bring anybody in.
Cleared(z) == closed[z] /\ spawnPending[z] = {} /\ \A p \in Players : ~Here(z, p)

\* remaining counts the zones that are not cleared; a zone is closed before it is
\* cleared, so that it stays clear.
ShutdownInv ==
  /\ phase = "up" => dbOpen /\ Uncleared = {}
  /\ remaining = IF phase = "up" THEN Cardinality(Zones) ELSE Cardinality(Uncleared)
  /\ \A z \in Zones : OneClearing(netQueue[z]) /\ ClosesFirst(netQueue[z], closed[z])
  /\ phase = "stopping" => \A z \in Zones \ Uncleared : Cleared(z)
  /\ ~dbOpen => phase = "stopping" /\ remaining = 0

LEMMA InitShutdown == Init => ShutdownInv
BY DEF Init, ShutdownInv, Uncleared, HasKind, OneClearing, ClosesFirst

\* What a step makes of a zone that is closed: nothing comes in that was not coming.
ClosedStaysClear ==
  /\ UNCHANGED closed
  /\ \A z \in Zones : closed[z] =>
       /\ spawnPending'[z] \subseteq spawnPending[z]
       /\ \A p \in Players : Here(z, p)' => Here(z, p) \/ spawnPending[z] # {}

\* What a step makes of the jobs of Zone::Shutdown that wait: nothing.
ShutdownWaits ==
  \A z \in Zones :
    /\ HasKind(netQueue'[z], "clearDone") <=> HasKind(netQueue[z], "clearDone")
    /\ OneClearing(netQueue'[z]) /\ ClosesFirst(netQueue'[z], closed[z])

LEMMA KeepsShutdown ==
  ASSUME ShutdownInv, ClosedStaysClear, ShutdownWaits, UNCHANGED <<dbOpen, mainVars>>
  PROVE  ShutdownInv'
<1>1. Uncleared' = Uncleared
  BY DEF ShutdownWaits, Uncleared
<1>2. \A z \in Zones : Cleared(z) => Cleared(z)'
  BY DEF ClosedStaysClear, Cleared
<1> QED
  BY <1>1, <1>2 DEF ShutdownInv, ShutdownWaits, ClosedStaysClear, mainVars

LEMMA SameNetWaits ==
  ASSUME ShutdownInv, UNCHANGED netQueue
  PROVE  ShutdownWaits
  BY DEF ShutdownInv, ShutdownWaits

LEMMA TakeWaits ==
  ASSUME TypeOK, ShutdownInv, NEW z \in Zones, netQueue[z] # <<>>,
         Head(netQueue[z]).kind \notin {"close", "clearDone"},
         netQueue' = [netQueue EXCEPT ![z] = Tail(@)]
  PROVE  ShutdownWaits
<1>1. netQueue[z] \in Seq(NetJob) /\ closed[z] \in BOOLEAN
  BY DEF TypeOK
<1>2. netQueue'[z] = Tail(netQueue[z]) /\ \A y \in Zones : y # z => netQueue'[y] = netQueue[y]
  BY DEF TypeOK
<1>3. /\ HasKind(Tail(netQueue[z]), "clearDone") <=> HasKind(netQueue[z], "clearDone")
  BY <1>1, TakeHas
<1>4. OneClearing(netQueue[z]) /\ ClosesFirst(netQueue[z], closed[z])
  BY DEF ShutdownInv
<1>5. OneClearing(Tail(netQueue[z]))
  BY <1>1, <1>4, TakeOrder
<1>6. ClosesFirst(Tail(netQueue[z]), closed[z])
  BY <1>1, <1>4, TakeCloses
<1> QED
  BY <1>2, <1>3, <1>5, <1>6 DEF ShutdownInv, ShutdownWaits

LEMMA PostWaits ==
  ASSUME TypeOK, ShutdownInv, NEW z \in Zones, NEW e \in NetJob, e.kind # "clearDone",
         netQueue' = [netQueue EXCEPT ![z] = Append(@, e)]
  PROVE  ShutdownWaits
<1>1. netQueue[z] \in Seq(NetJob) /\ closed[z] \in BOOLEAN
  BY DEF TypeOK
<1>2. /\ netQueue'[z] = Append(netQueue[z], e)
      /\ \A y \in Zones : y # z => netQueue'[y] = netQueue[y]
  BY DEF TypeOK
<1>3. HasKind(Append(netQueue[z], e), "clearDone") <=> HasKind(netQueue[z], "clearDone")
  BY <1>1, PostHas
<1>4. OneClearing(netQueue[z]) /\ ClosesFirst(netQueue[z], closed[z])
  BY DEF ShutdownInv
<1>5. OneClearing(Append(netQueue[z], e)) /\ ClosesFirst(Append(netQueue[z], e), closed[z])
  BY <1>1, <1>4, PostOrder
<1> QED
  BY <1>2, <1>3, <1>5 DEF ShutdownInv, ShutdownWaits

\* The queues once the gateway is lost.
LEMMA LostQueue ==
  ASSUME TypeOK, LoseGateway, NEW z \in Zones
  PROVE  \E k \in 0..Len(netQueue[z]) :
           /\ \A i \in (k + 1)..Len(netQueue[z]) : netQueue[z][i].kind \in {"ready", "bye"}
           /\ netQueue'[z] = Append(SubSeq(netQueue[z], 1, k), Net("clear", NoSession))
<1>1. PICK lost \in [Zones -> 0..(MaxNet + Cardinality(Sessions))] :
        /\ \A y \in Zones :
             /\ lost[y] <= Len(netQueue[y])
             /\ \A i \in (Len(netQueue[y]) - lost[y] + 1)..Len(netQueue[y]) :
                  netQueue[y][i].kind \in {"ready", "bye"}
        /\ netQueue' = [y \in Zones |->
                          Append(SubSeq(netQueue[y], 1, Len(netQueue[y]) - lost[y]),
                                 Net("clear", NoSession))]
  BY DEF LoseGateway
<1>2. lost[z] \in Int /\ lost[z] >= 0 /\ lost[z] <= Len(netQueue[z]) /\ Len(netQueue[z]) \in Nat
  <2>1. lost[z] \in 0..(MaxNet + Cardinality(Sessions))
    BY <1>1
  <2>2. lost[z] \in Int /\ lost[z] >= 0
    BY <2>1
  <2> QED
    BY <1>1, <2>2 DEF TypeOK
<1>3. PICK k \in 0..Len(netQueue[z]) : k = Len(netQueue[z]) - lost[z]
  BY <1>2
<1> QED
  BY <1>1, <1>3

LEMMA LostWaits ==
  ASSUME TypeOK, ShutdownInv, LoseGateway
  PROVE  ShutdownWaits
<1> SUFFICES ASSUME NEW z \in Zones
             PROVE  /\ HasKind(netQueue'[z], "clearDone") <=> HasKind(netQueue[z], "clearDone")
                    /\ OneClearing(netQueue'[z]) /\ ClosesFirst(netQueue'[z], closed[z])
  BY DEF ShutdownWaits
<1>1. netQueue[z] \in Seq(NetJob) /\ closed[z] \in BOOLEAN
  BY DEF TypeOK
<1>2. PICK k \in 0..Len(netQueue[z]) :
        /\ \A i \in (k + 1)..Len(netQueue[z]) : netQueue[z][i].kind \in {"ready", "bye"}
        /\ netQueue'[z] = Append(SubSeq(netQueue[z], 1, k), Net("clear", NoSession))
  BY LostQueue
<1> DEFINE r == SubSeq(netQueue[z], 1, k)
<1>3. OneClearing(netQueue[z]) /\ ClosesFirst(netQueue[z], closed[z])
  BY DEF ShutdownInv
<1>4. /\ r \in Seq(NetJob)
      /\ HasKind(r, "clearDone") <=> HasKind(netQueue[z], "clearDone")
      /\ OneClearing(r) /\ ClosesFirst(r, closed[z])
  BY <1>1, <1>2, <1>3, CutFacts
<1>5. Net("clear", NoSession) \in NetJob /\ Net("clear", NoSession).kind = "clear"
  BY DEF Net, NetJob
<1> HIDE DEF r
<1>6. /\ HasKind(Append(r, Net("clear", NoSession)), "clearDone") <=> HasKind(r, "clearDone")
      /\ OneClearing(Append(r, Net("clear", NoSession)))
      /\ ClosesFirst(Append(r, Net("clear", NoSession)), closed[z])
  BY <1>1, <1>4, <1>5, PostHas, PostOrder
<1> QED
  BY <1>2, <1>4, <1>6 DEF r

LEMMA MembersStayClear ==
  ASSUME SameMembers, UNCHANGED closed
  PROVE  ClosedStaysClear
BY DEF SameMembers, ClosedStaysClear

\* Leaving and clearing: nobody comes in.
LEMMA LeaveHere ==
  ASSUME TypeOK, NEW z \in Zones, NEW p \in Players, Leave(z, p)
  PROVE  \A y \in Zones, q \in Players : Here(y, q)' => Here(y, q)
BY DEF TypeOK, Leave, Here

LEMMA ClearHere ==
  ASSUME TypeOK, NEW z \in Zones, SaveAllAndClear(z)
  PROVE  /\ \A y \in Zones, q \in Players : Here(y, q)' => Here(y, q) /\ y # z
         /\ \A y \in Zones : spawnPending'[y] \subseteq spawnPending[y]
         /\ spawnPending'[z] = {}
         /\ UNCHANGED <<closed, dbOpen>>
BY DEF TypeOK, SaveAllAndClear, Here

LEMMA ZoneJobClosed ==
  ASSUME IInv, NEW z \in Zones,
         HandleReadyToSpawn(z) \/ HandleDisconnect(z) \/ HandleGatewayLost(z)
  PROVE  ClosedStaysClear
<1>1. CASE HandleReadyToSpawn(z)
  <2>1. \A y \in Zones : closed[y] => spawnPending'[y] = spawnPending[y]
    BY <1>1 DEF HandleReadyToSpawn, StartsLoad, IInv, TypeOK
  <2> QED
    BY <1>1, <2>1 DEF HandleReadyToSpawn, ClosedStaysClear, Here
<1>2. CASE HandleDisconnect(z)
  <2> DEFINE s == Head(netQueue[z]).s
             p == sessionToPlayer[z][s]
  <2>1. s \in Sessions /\ p \in Players \cup {NoPlayer}
    <3>1. s \in Sessions
      BY <1>2, NextNetType DEF HandleDisconnect, NextNet, NetJob, IInv
    <3> QED
      BY <3>1 DEF IInv, TypeOK
  <2>2. /\ spawnPending' = [spawnPending EXCEPT ![z] = @ \ {s}] /\ UNCHANGED closed
        /\ (p # NoPlayer /\ Leave(z, p)) \/ UNCHANGED players
    BY <1>2 DEF HandleDisconnect
  <2>3. \A y \in Zones : spawnPending'[y] \subseteq spawnPending[y]
    BY <2>2 DEF IInv, TypeOK
  <2>4. CASE p # NoPlayer /\ Leave(z, p)
    BY <2>1, <2>2, <2>3, <2>4, LeaveHere DEF IInv, ClosedStaysClear
  <2>5. CASE UNCHANGED players
    BY <2>2, <2>3, <2>5 DEF ClosedStaysClear, Here
  <2> QED
    BY <2>2, <2>4, <2>5
<1>3. CASE HandleGatewayLost(z)
  BY <1>3, ClearHere DEF HandleGatewayLost, ClosedStaysClear, IInv
<1> QED
  BY <1>1, <1>2, <1>3

LEMMA DbCallbackClosed ==
  ASSUME IInv, NEW z \in Zones, DbCallback(z)
  PROVE  ClosedStaysClear
<1> DEFINE job == Head(jobQueue[z])
<1>1. CASE SpawnLoaded(z)
  <2>1. /\ spawnPending' = [spawnPending EXCEPT ![z] = @ \ {job.s}] /\ UNCHANGED closed
        /\ \/ UNCHANGED players
           \/ /\ job.s \in spawnPending[z]
              /\ players' = [players EXCEPT ![z][job.p] =
                               [sid |-> job.s, now |-> job.now, lastSaved |-> job.now]]
    BY <1>1 DEF SpawnLoaded
  <2> HIDE DEF job
  <2>2. \A y \in Zones : spawnPending'[y] \subseteq spawnPending[y]
    BY <2>1 DEF IInv, TypeOK
  <2>3. ASSUME NEW y \in Zones, NEW p \in Players, Here(y, p)'
        PROVE  Here(y, p) \/ spawnPending[y] # {}
    BY <2>1, <2>3 DEF IInv, TypeOK, Here
  <2> QED
    BY <2>1, <2>2, <2>3 DEF ClosedStaysClear
<1>2. CASE PortalSaved(z)
  <2>1. job.p \in Players /\ UNCHANGED <<spawnPending, closed>>
    BY <1>2, NextJobType DEF IInv, PortalSaved, DbJob
  <2>2. Leave(z, job.p) \/ UNCHANGED players
    BY <1>2 DEF PortalSaved
  <2> HIDE DEF job
  <2>3. \A y \in Zones, q \in Players : Here(y, q)' => Here(y, q)
    BY <2>1, <2>2, LeaveHere DEF IInv, Here
  <2> QED
    BY <2>1, <2>3 DEF ClosedStaysClear
<1> QED
  BY <1>1, <1>2 DEF DbCallback

LEMMA CloseZoneShutdown ==
  ASSUME TypeOK, ShutdownInv, NEW z \in Zones, CloseZone(z)
  PROVE  ShutdownInv'
<1>1. /\ netQueue[z] \in Seq(NetJob) /\ netQueue[z] # <<>>
      /\ Head(netQueue[z]).kind = "close"
      /\ netQueue'[z] = Tail(netQueue[z])
      /\ \A y \in Zones : y # z => netQueue'[y] = netQueue[y] /\ closed'[y] = closed[y]
      /\ closed'[z] = TRUE
      /\ UNCHANGED <<players, spawnPending, dbOpen, mainVars>>
  BY DEF CloseZone, NextNet, dbVars, TypeOK
<1>2. HasKind(Tail(netQueue[z]), "clearDone") <=> HasKind(netQueue[z], "clearDone")
  BY <1>1, TakeHas
<1>3. Uncleared' = Uncleared
  BY <1>1, <1>2 DEF Uncleared
<1>4. OneClearing(Tail(netQueue[z]))
  BY <1>1, TakeOrder DEF ShutdownInv
<1>5. ClosesFirst(Tail(netQueue[z]), TRUE)
  BY DEF ClosesFirst
<1>6. \A y \in Zones : Cleared(y) => Cleared(y)'
  BY <1>1 DEF Cleared, Here
<1>7. \A y \in Zones : OneClearing(netQueue'[y]) /\ ClosesFirst(netQueue'[y], closed'[y])
  BY <1>1, <1>4, <1>5 DEF ShutdownInv
<1> QED
  BY <1>1, <1>3, <1>6, <1>7 DEF ShutdownInv, mainVars

LEMMA ClearForShutdownCounts ==
  ASSUME TypeOK, ShutdownInv, NEW z \in Zones, ClearForShutdown(z)
  PROVE  ShutdownInv'
<1>1. /\ netQueue[z] \in Seq(NetJob) /\ netQueue[z] # <<>>
      /\ Head(netQueue[z]).kind = "clearDone"
      /\ netQueue'[z] = Tail(netQueue[z])
      /\ \A y \in Zones : y # z => netQueue'[y] = netQueue[y]
      /\ SaveAllAndClear(z) /\ remaining' = remaining - 1 /\ UNCHANGED phase
  BY DEF ClearForShutdown, NextNet, TypeOK
<1>2. /\ \A y \in Zones, q \in Players : Here(y, q)' => Here(y, q) /\ y # z
      /\ \A y \in Zones : spawnPending'[y] \subseteq spawnPending[y]
      /\ spawnPending'[z] = {}
      /\ UNCHANGED <<closed, dbOpen>>
  BY <1>1, ClearHere
<1>3. 1 \in DOMAIN netQueue[z] /\ Head(netQueue[z]) = netQueue[z][1]
  BY <1>1, TailShift
<1>4. z \in Uncleared
  BY <1>1, <1>3 DEF Uncleared, HasKind
<1>5. phase = "stopping"
  BY <1>4 DEF ShutdownInv, TypeOK
<1>6. ~HasKind(Tail(netQueue[z]), "clearDone") /\ OneClearing(Tail(netQueue[z]))
  BY <1>1, TakeOrder DEF ShutdownInv
<1>7. closed[z]
  <2>1. ClosesFirst(netQueue[z], closed[z]) /\ closed[z] \in BOOLEAN
    BY DEF ShutdownInv, TypeOK
  <2> QED
    BY <1>1, <2>1, TakeCloses
<1>8. ClosesFirst(Tail(netQueue[z]), closed[z])
  BY <1>7 DEF ClosesFirst
<1>9. Uncleared' = Uncleared \ {z}
  BY <1>1, <1>6 DEF Uncleared
<1>10. IsFiniteSet(Uncleared)
  BY ZoneLifeAssumption, FS_Subset DEF Uncleared
<1>11. Cardinality(Uncleared') = Cardinality(Uncleared) - 1
  BY <1>4, <1>9, <1>10, FS_RemoveElement
<1>12. remaining' = Cardinality(Uncleared')
  BY <1>1, <1>5, <1>11 DEF ShutdownInv
<1>13. \A y \in Zones : Cleared(y) => Cleared(y)'
  BY <1>2 DEF Cleared
<1>14. Cleared(z)'
  BY <1>2, <1>7 DEF Cleared
<1>15. \A y \in Zones \ Uncleared' : Cleared(y)'
  BY <1>5, <1>9, <1>13, <1>14 DEF ShutdownInv
<1>16. dbOpen'
  <2>1. Cardinality(Uncleared) # 0
    BY <1>4, <1>10, FS_EmptySet
  <2> QED
    BY <1>2, <1>5, <2>1 DEF ShutdownInv
<1>17. \A y \in Zones : OneClearing(netQueue'[y]) /\ ClosesFirst(netQueue'[y], closed'[y])
  BY <1>1, <1>2, <1>6, <1>8 DEF ShutdownInv
<1> QED
  BY <1>1, <1>5, <1>12, <1>15, <1>16, <1>17 DEF ShutdownInv

LEMMA SignalShutdown ==
  ASSUME TypeOK, ShutdownInv, Signal
  PROVE  ShutdownInv'
<1> DEFINE two == <<Net("close", NoSession), Net("clearDone", NoSession)>>
           first == Net("close", NoSession)
           second == Net("clearDone", NoSession)
<1>1. /\ phase = "up" /\ phase' = "stopping" /\ dbOpen /\ Uncleared = {}
      /\ netQueue' = [z \in Zones |-> netQueue[z] \o two]
      /\ UNCHANGED <<closed, dbOpen, remaining>>
      /\ remaining = Cardinality(Zones)
  BY DEF Signal, ShutdownInv, dbVars, zoneVars
<1>2. first \in NetJob /\ second \in NetJob /\ first.kind = "close" /\ second.kind = "clearDone"
  BY DEF Net, NetJob
<1>3. \A q \in Seq(NetJob) : q \o two = Append(Append(q, first), second)
  BY <1>2
<1> HIDE DEF two, first, second
<1>4. ASSUME NEW z \in Zones
      PROVE  /\ HasKind(netQueue'[z], "clearDone")
             /\ OneClearing(netQueue'[z]) /\ ClosesFirst(netQueue'[z], closed'[z])
  <2>1. /\ netQueue[z] \in Seq(NetJob) /\ closed[z] \in BOOLEAN
        /\ ~HasKind(netQueue[z], "clearDone")
        /\ OneClearing(netQueue[z]) /\ ClosesFirst(netQueue[z], closed[z])
    BY <1>1 DEF ShutdownInv, TypeOK, Uncleared
  <2>2. PICK q \in Seq(NetJob) : q = Append(netQueue[z], first)
    <3>1. Append(netQueue[z], first) \in Seq(NetJob)
      BY <1>2, <2>1, AppendFacts
    <3> QED
      BY <3>1
  <2>3. ~HasKind(q, "clearDone") /\ HasKind(q, "close")
    BY <1>2, <2>1, <2>2, PostHas
  <2>4. OneClearing(q) /\ ClosesFirst(q, closed[z])
    BY <1>2, <2>1, <2>2, PostOrder
  <2>5. netQueue'[z] = Append(q, second)
    BY <1>1, <1>3, <2>1, <2>2
  <2>6. HasKind(Append(q, second), "clearDone")
    BY <1>2, PostHas
  <2>7. OneClearing(Append(q, second)) /\ ClosesFirst(Append(q, second), closed[z])
    BY <1>2, <2>1, <2>3, <2>4, PostOrder
  <2> QED
    BY <1>1, <2>5, <2>6, <2>7
<1>5. Uncleared' = Zones
  BY <1>4 DEF Uncleared
<1> QED
  BY <1>1, <1>4, <1>5 DEF ShutdownInv

LEMMA TakenBy ==
  ASSUME TypeOK, NEW z \in Zones, NEW kind, NextNet(z, kind)
  PROVE  /\ netQueue[z] \in Seq(NetJob) /\ netQueue[z] # <<>>
         /\ Head(netQueue[z]).kind = kind
         /\ netQueue' = [netQueue EXCEPT ![z] = Tail(@)]
BY DEF NextNet, TypeOK

LEMMA ShutdownStep ==
  ASSUME IInv, ShutdownInv, [Next]_vars
  PROVE  ShutdownInv'
<1>1. TypeOK
  BY DEF IInv
<1>2. ASSUME NEW z \in Zones, ZoneJob(z)
      PROVE  ShutdownInv'
  <2>1. CASE HandleReadyToSpawn(z) \/ HandleDisconnect(z) \/ HandleGatewayLost(z)
    <3>1. \E kind \in {"ready", "bye", "clear"} : NextNet(z, kind)
      BY <2>1 DEF HandleReadyToSpawn, HandleDisconnect, HandleGatewayLost
    <3>2. ShutdownWaits
      BY <1>1, <3>1, TakenBy, TakeWaits
    <3>3. UNCHANGED <<dbOpen, mainVars>>
      BY <2>1 DEF HandleReadyToSpawn, HandleDisconnect, HandleGatewayLost, SaveAllAndClear
    <3> QED
      BY <2>1, <3>2, <3>3, ZoneJobClosed, KeepsShutdown
  <2>2. CASE CloseZone(z)
    BY <1>1, <2>2, CloseZoneShutdown
  <2>3. CASE ClearForShutdown(z)
    BY <1>1, <2>3, ClearForShutdownCounts
  <2> QED
    BY <1>2, <2>1, <2>2, <2>3 DEF ZoneJob
<1>3. ASSUME NEW z \in Zones, DbCallback(z)
      PROVE  ShutdownInv'
  <2>1. UNCHANGED <<netQueue, dbOpen, mainVars>>
    BY <1>3 DEF DbCallback, SpawnLoaded, PortalSaved, dbVars
  <2> QED
    BY <1>3, <2>1, DbCallbackClosed, SameNetWaits, KeepsShutdown
<1>4. ASSUME NEW z \in Zones, Play(z)
      PROVE  ShutdownInv'
  <2>1. UNCHANGED <<closed, netQueue, dbOpen, mainVars>>
    BY <1>4 DEF Play, EarnExp, MonsterKills, HandleRevive, HandlePortal, AutoSaveTick, dbVars
  <2> QED
    BY <1>1, <1>4, <2>1, PlayMembers, MembersStayClear, SameNetWaits, KeepsShutdown
<1>5. ASSUME UNCHANGED <<zoneVars, netQueue, dbOpen, mainVars>>
      PROVE  ShutdownInv'
  <2>1. SameMembers /\ UNCHANGED closed
    BY <1>5 DEF zoneVars, SameMembers, Here
  <2> QED
    BY <1>5, <2>1, MembersStayClear, SameNetWaits, KeepsShutdown
<1>6. ASSUME NEW z \in Zones, NEW s \in Sessions, NEW kind \in {"ready", "bye"},
             netQueue' = [netQueue EXCEPT ![z] = Append(@, Net(kind, s))],
             UNCHANGED <<zoneVars, dbOpen, mainVars>>
      PROVE  ShutdownInv'
  <2>1. Net(kind, s) \in NetJob /\ Net(kind, s).kind # "clearDone"
    BY DEF Net, NetJob
  <2>2. ShutdownWaits
    BY <1>1, <1>6, <2>1, PostWaits
  <2>3. SameMembers /\ UNCHANGED closed
    BY <1>6 DEF zoneVars, SameMembers, Here
  <2> QED
    BY <1>6, <2>2, <2>3, MembersStayClear, KeepsShutdown
<1>7. ASSUME NEW s \in Sessions, Gateway(s)
      PROVE  ShutdownInv'
  <2>1. CASE SelectCharacter(s) \/ LeaveCompleted(s)
    BY <1>5, <2>1 DEF SelectCharacter, LeaveCompleted, dbVars
  <2>2. CASE RouteReady(s) \/ CloseSession(s)
    <3>1. /\ UNCHANGED <<zoneVars, dbOpen, mainVars>>
          /\ \E kind \in {"ready", "bye"} :
               netQueue' = [netQueue EXCEPT ![route[s]] = Append(@, Net(kind, s))]
      BY <2>2 DEF RouteReady, CloseSession, dbVars
    <3>2. CASE route[s] \in Zones
      BY <1>6, <3>1, <3>2
    <3>3. CASE route[s] \notin Zones
      <4>1. UNCHANGED netQueue
        BY <1>1, <3>1, <3>3 DEF TypeOK
      <4> QED
        BY <1>5, <3>1, <4>1
    <3> QED
      BY <3>2, <3>3
  <2> QED
    BY <1>7, <2>1, <2>2 DEF Gateway
<1>8. ASSUME LoseGateway
      PROVE  ShutdownInv'
  <2>1. SameMembers /\ UNCHANGED <<closed, dbOpen, mainVars>>
    BY <1>8 DEF LoseGateway, zoneVars, dbVars, SameMembers, Here
  <2> QED
    BY <1>1, <1>8, <2>1, LostWaits, MembersStayClear, KeepsShutdown
<1>9. ASSUME Finish
      PROVE  ShutdownInv'
  <2>1. /\ UNCHANGED <<zoneVars, netQueue, mainVars>>
        /\ phase = "stopping" /\ remaining = 0
    BY <1>9 DEF Finish
  <2> QED
    BY <2>1 DEF ShutdownInv, Uncleared, Cleared, Here, zoneVars, mainVars
<1>10. ASSUME NEW p \in Players, RunTask(p)
       PROVE  ShutdownInv'
  BY <1>5, <1>10 DEF RunTask
<1>11. CASE UNCHANGED vars
  BY <1>5, <1>11 DEF vars, dbVars
<1> QED
  BY <1>1, <1>2, <1>3, <1>4, <1>7, <1>8, <1>9, <1>10, <1>11, SignalShutdown DEF Next

\* When GameDB closes every zone is closed and clear, for any number of zones and
\* whatever was under way when the signal came, so nothing is pushed to it that it would
\* drop (Zone::Shutdown, Main_Zone.cpp: remaining, finish).
THEOREM NothingLeftAtShutdown == Safety => []NothingAfterShutdown
<1>2. IInv /\ ShutdownInv => NothingAfterShutdown
  <2> SUFFICES ASSUME ShutdownInv, ~dbOpen
               PROVE  \A z \in Zones : Cleared(z)
    BY DEF NothingAfterShutdown, Cleared
  <2>1. phase = "stopping" /\ Cardinality(Uncleared) = 0
    BY DEF ShutdownInv
  <2>2. IsFiniteSet(Uncleared)
    BY ZoneLifeAssumption, FS_Subset DEF Uncleared
  <2>3. Uncleared = {}
    BY <2>1, <2>2, FS_EmptySet
  <2> QED
    BY <2>1, <2>3 DEF ShutdownInv
<1>3. Init => IInv /\ ShutdownInv
  BY InitInvariant, InitShutdown
<1>4. IInv /\ ShutdownInv /\ [Next]_vars => (IInv /\ ShutdownInv)'
  BY StepInvariant, ShutdownStep
<1> QED
  BY <1>2, <1>3, <1>4, PTL DEF Safety

-----------------------------------------------------------------------------
\* Sessions: what the gateway knows of a session, and what a zone has of it.

\* Zone z has session s in it or loads its character; or READY of s waits.
In(z, s) == s \in spawnPending[z] \/ sessionToPlayer[z][s] # NoPlayer
Coming(z, s) == Has(netQueue[z], Net("ready", s))
At(z, s) == In(z, s) \/ Coming(z, s)

\* Nothing is anywhere of a session that has not selected a character.
NotBegun ==
  \A s \in Sessions : gate[s] = "new" =>
    mayReady[s] = 0 /\ leaveAck[s] = NoZone /\ \A z \in Zones : ~At(z, s)

\* A session that plays is only where its packets are forwarded to.
Routed ==
  \A s \in Sessions : gate[s] = "play" =>
    route[s] \in Zones /\ \A z \in Zones : At(z, s) => route[s] = z

\* What a zone has of a session that is gone has an end ahead: its disconnect, or the
\* loss of the gateway.
EndsFollow ==
  \A s \in Sessions, z \in Zones : gate[s] = "gone" =>
    /\ In(z, s) => EndWaits(netQueue[z], s)
    /\ EndsReady(netQueue[z], s)

\* One permission to be READY goes round: the client has it, it waits as a READY, it is
\* used up by a zone, or it is on its way back with ZONE_LEAVE_COMPLETED.
OnePermission ==
  \A s \in Sessions :
    /\ \A y, z \in Zones : At(y, s) /\ At(z, s) => y = z
    /\ \A z \in Zones : /\ At(z, s) => mayReady[s] = 0 /\ leaveAck[s] = NoZone
                        /\ OneReady(netQueue[z], s)
                        /\ Coming(z, s) => ~In(z, s)
    /\ mayReady[s] = 0 \/ leaveAck[s] = NoZone

\* Without OnePermission a second READY for one order brings a session back into the
\* zone it left, while its packets go to the next one.
SessionInv ==
  NotBegun /\ Routed /\ EndsFollow /\ (MaxReady <= 1 => OnePermission)

\* The READYs a client sends cannot bring it where its packets do not go.
RouteIsCertain == MaxReady <= 1 \/ \A y, z \in Zones : y = z

LEMMA InitSession == Init => SessionInv
BY DEF Init, SessionInv, NotBegun, Routed, EndsFollow, OnePermission, At, In, Coming, Has,
       OneReady

\* A step of a zone that takes no job from the network: nobody comes in.
ZoneStep ==
  /\ UNCHANGED <<netQueue, gate, route, mayReady>>
  /\ \A z \in Zones, s \in Sessions : In(z, s)' => In(z, s)

\* A zone takes a job: READY may bring its session in, an end takes it out.
Takes(z) ==
  /\ netQueue[z] # <<>>
  /\ netQueue' = [netQueue EXCEPT ![z] = Tail(@)]
  /\ UNCHANGED gateVars
  /\ \A y \in Zones, s \in Sessions :
       In(y, s)' => In(y, s) \/ (y = z /\ Head(netQueue[z]) = Net("ready", s))
  /\ \A s \in Sessions : IsEnd(Head(netQueue[z]), s) => ~In(z, s)'

\* A job e is posted to zone z, and who is in a zone stays.
Posts(z, e) ==
  /\ netQueue' = [netQueue EXCEPT ![z] = Append(@, e)]
  /\ UNCHANGED zoneVars

LEMMA LeaveSession ==
  ASSUME IInv, NEW z \in Zones, NEW p \in Players, Here(z, p), Leave(z, p),
         NEW sid \in Sessions, sid = players[z][p].sid,
         \A y \in Zones : spawnPending'[y] \subseteq spawnPending[y]
  PROVE  /\ \A y \in Zones, s \in Sessions : In(y, s)' => In(y, s)
         /\ ~In(z, sid)'
         /\ sessionToPlayer[z][sid] = p
<1>1. sessionToPlayer[z][sid] = p /\ p # NoPlayer
  BY ZoneLifeAssumption DEF IInv, SameCharacters
<1>2. sessionToPlayer' = [sessionToPlayer EXCEPT ![z][sid] = NoPlayer]
  BY DEF Leave
<1>3. sid \notin spawnPending[z]
  BY <1>1 DEF IInv, LoadingIsNotPlaying
<1>4. /\ sessionToPlayer'[z][sid] = NoPlayer
      /\ \A y \in Zones, s \in Sessions :
           sessionToPlayer'[y][s] # NoPlayer => sessionToPlayer[y][s] # NoPlayer
  BY <1>1, <1>2 DEF IInv, TypeOK
<1> QED
  BY <1>1, <1>3, <1>4 DEF In

LEMMA ReadyTakes ==
  ASSUME IInv, NEW z \in Zones, HandleReadyToSpawn(z)
  PROVE  Takes(z)
<1>1. netQueue[z] # <<>> /\ netQueue' = [netQueue EXCEPT ![z] = Tail(@)]
  BY DEF HandleReadyToSpawn, NextNet
<1>2. Head(netQueue[z]) \in NetJob /\ Head(netQueue[z]).kind = "ready"
  BY NextNetType DEF HandleReadyToSpawn, NextNet, IInv
<1>3. Head(netQueue[z]) = Net("ready", Head(netQueue[z]).s)
  BY <1>2 DEF Net, NetJob
<1>4. /\ UNCHANGED <<sessionToPlayer, gateVars>>
      /\ \/ spawnPending' = [spawnPending EXCEPT ![z] = @ \cup {Head(netQueue[z]).s}]
         \/ UNCHANGED spawnPending
  BY DEF HandleReadyToSpawn
<1>5. \A y \in Zones, s \in Sessions :
        In(y, s)' => In(y, s) \/ (y = z /\ Head(netQueue[z]) = Net("ready", s))
  BY <1>3, <1>4 DEF In, IInv, TypeOK
<1>6. \A s : ~IsEnd(Head(netQueue[z]), s)
  BY <1>2 DEF IsEnd, Net
<1> QED
  BY <1>1, <1>4, <1>5, <1>6 DEF Takes

LEMMA DisconnectTakes ==
  ASSUME IInv, NEW z \in Zones, HandleDisconnect(z)
  PROVE  Takes(z)
<1>1. netQueue[z] # <<>> /\ netQueue' = [netQueue EXCEPT ![z] = Tail(@)]
  BY DEF HandleDisconnect, NextNet
<1>2. Head(netQueue[z]) \in NetJob /\ Head(netQueue[z]).kind = "bye"
  BY NextNetType DEF HandleDisconnect, NextNet, IInv
<1>3. PICK s \in Sessions : s = Head(netQueue[z]).s
  BY <1>2 DEF NetJob
<1>4. \A t : IsEnd(Head(netQueue[z]), t) => t = s
  BY <1>2, <1>3 DEF IsEnd, Net
<1>5. PICK p \in Players \cup {NoPlayer} : p = sessionToPlayer[z][s]
  BY <1>3 DEF IInv, TypeOK
<1>6. /\ spawnPending' = [spawnPending EXCEPT ![z] = @ \ {s}]
      /\ UNCHANGED gateVars
      /\ \/ p # NoPlayer /\ Leave(z, p)
         \/ p = NoPlayer /\ UNCHANGED sessionToPlayer
  BY <1>3, <1>5 DEF HandleDisconnect
<1>7. s \notin spawnPending'[z] /\ \A y \in Zones : spawnPending'[y] \subseteq spawnPending[y]
  BY <1>6 DEF IInv, TypeOK
<1>8. CASE p # NoPlayer /\ Leave(z, p)
  <2>1. Here(z, p) /\ players[z][p].sid = s /\ p \in Players
    BY <1>5, <1>8 DEF IInv, SameCharacters
  <2>2. /\ \A y \in Zones, t \in Sessions : In(y, t)' => In(y, t)
        /\ ~In(z, s)'
    BY <1>7, <1>8, <2>1, LeaveSession
  <2> QED
    BY <1>1, <1>4, <1>6, <2>2 DEF Takes
<1>9. CASE p = NoPlayer /\ UNCHANGED sessionToPlayer
  <2>1. /\ \A y \in Zones, t \in Sessions : In(y, t)' => In(y, t)
        /\ ~In(z, s)'
    BY <1>5, <1>7, <1>9 DEF In
  <2> QED
    BY <1>1, <1>4, <1>6, <2>1 DEF Takes
<1> QED
  BY <1>6, <1>8, <1>9

LEMMA OtherJobTakes ==
  ASSUME IInv, NEW z \in Zones, HandleGatewayLost(z) \/ CloseZone(z) \/ ClearForShutdown(z)
  PROVE  Takes(z)
<1>1. PICK kind \in {"clear", "close", "clearDone"} : NextNet(z, kind)
  BY DEF HandleGatewayLost, CloseZone, ClearForShutdown
<1>2. /\ netQueue[z] # <<>> /\ netQueue' = [netQueue EXCEPT ![z] = Tail(@)]
      /\ Head(netQueue[z]).kind = kind
  BY <1>1 DEF NextNet
<1>3. UNCHANGED gateVars
  BY DEF HandleGatewayLost, CloseZone, ClearForShutdown, SaveAllAndClear
<1>4. CASE SaveAllAndClear(z)
  <2>1. \A y \in Zones, s \in Sessions : In(y, s)' => In(y, s) /\ y # z
    BY <1>4 DEF SaveAllAndClear, In, IInv, TypeOK
  <2> QED
    BY <1>2, <1>3, <2>1 DEF Takes
<1>5. CASE CloseZone(z)
  <2>1. UNCHANGED <<spawnPending, sessionToPlayer>> /\ Head(netQueue[z]).kind = "close"
    BY <1>5 DEF CloseZone, NextNet
  <2>2. \A s : ~IsEnd(Head(netQueue[z]), s)
    BY <2>1 DEF IsEnd, Net
  <2> QED
    BY <1>2, <1>3, <2>1, <2>2 DEF Takes, In
<1> QED
  BY <1>4, <1>5 DEF HandleGatewayLost, ClearForShutdown

LEMMA SpawnStays ==
  ASSUME IInv, NEW z \in Zones, SpawnLoaded(z)
  PROVE  ZoneStep /\ UNCHANGED leaveAck
<1> DEFINE job == Head(jobQueue[z])
<1>1. /\ UNCHANGED <<netQueue, gateVars>>
      /\ spawnPending' = [spawnPending EXCEPT ![z] = @ \ {job.s}]
      /\ \/ UNCHANGED sessionToPlayer
         \/ /\ job.s \in spawnPending[z]
            /\ sessionToPlayer' = [sessionToPlayer EXCEPT ![z][job.s] = job.p]
  BY DEF SpawnLoaded
<1> HIDE DEF job
<1>2. \A y \in Zones : spawnPending'[y] \subseteq spawnPending[y]
  BY <1>1 DEF IInv, TypeOK
<1>3. ASSUME NEW y \in Zones, NEW s \in Sessions, In(y, s)'
      PROVE  In(y, s)
  BY <1>1, <1>2, <1>3 DEF In, IInv, TypeOK
<1> QED
  BY <1>1, <1>3 DEF ZoneStep, gateVars

\* Who leaves through a portal is told of to the gateway, and is out.
LEMMA PortalStays ==
  ASSUME IInv, NEW z \in Zones, PortalSaved(z)
  PROVE  /\ ZoneStep
         /\ \/ UNCHANGED leaveAck
            \/ \E s \in Sessions, to \in Zones :
                 In(z, s) /\ ~In(z, s)' /\ leaveAck' = [leaveAck EXCEPT ![s] = to]
<1>1. PICK job \in DbJob : job = Head(jobQueue[z]) /\ job.kind = "portalDone"
  BY NextJobType DEF IInv, PortalSaved
<1>2. /\ UNCHANGED <<netQueue, gate, route, mayReady, spawnPending>>
      /\ \/ /\ PortalLeaves(z, job)
            /\ Leave(z, job.p)
            /\ leaveAck' = [leaveAck EXCEPT ![job.s] = job.to]
         \/ UNCHANGED <<players, sessionToPlayer, leaveAck>>
  BY <1>1 DEF PortalSaved
<1>3. job.p \in Players /\ job.s \in Sessions /\ job.to \in Zones
  BY <1>1 DEF DbJob
<1>4. CASE PortalLeaves(z, job) /\ Leave(z, job.p) /\ leaveAck' = [leaveAck EXCEPT ![job.s] = job.to]
  <2>1. Here(z, job.p) /\ players[z][job.p].sid = job.s
    BY <1>4 DEF PortalLeaves
  <2>2. /\ \A y \in Zones, s \in Sessions : In(y, s)' => In(y, s)
        /\ ~In(z, job.s)' /\ sessionToPlayer[z][job.s] = job.p
    BY <1>2, <1>3, <1>4, <2>1, LeaveSession
  <2>3. In(z, job.s)
    BY <1>3, <2>2, ZoneLifeAssumption DEF In
  <2> QED
    BY <1>2, <1>3, <1>4, <2>2, <2>3 DEF ZoneStep
<1>5. CASE UNCHANGED <<players, sessionToPlayer, leaveAck>>
  BY <1>2, <1>5 DEF ZoneStep, In
<1> QED
  BY <1>2, <1>4, <1>5

LEMMA StaysSession ==
  ASSUME SessionInv, ZoneStep, UNCHANGED leaveAck
  PROVE  SessionInv'
<1>1. \A z \in Zones, s \in Sessions : /\ At(z, s)' => At(z, s)
                                       /\ Coming(z, s)' <=> Coming(z, s)
  BY DEF ZoneStep, At, Coming
<1>2. NotBegun' /\ Routed'
  BY <1>1 DEF SessionInv, NotBegun, Routed, ZoneStep
<1>3. EndsFollow'
  BY DEF SessionInv, EndsFollow, ZoneStep
<1>4. OnePermission => OnePermission'
  BY <1>1 DEF OnePermission, ZoneStep
<1> QED
  BY <1>2, <1>3, <1>4 DEF SessionInv

LEMMA LeavesSession ==
  ASSUME TypeOK, SessionInv, ZoneStep, NEW z \in Zones, NEW s \in Sessions, NEW to \in Zones,
         In(z, s), ~In(z, s)', leaveAck' = [leaveAck EXCEPT ![s] = to]
  PROVE  SessionInv'
<1>1. /\ leaveAck'[s] = to /\ \A t \in Sessions : t # s => leaveAck'[t] = leaveAck[t]
      /\ At(z, s)
  BY DEF TypeOK, At
<1>2. \A y \in Zones, t \in Sessions : /\ At(y, t)' => At(y, t)
                                       /\ Coming(y, t)' <=> Coming(y, t)
  BY DEF ZoneStep, At, Coming
<1>3. gate[s] # "new"
  BY <1>1 DEF SessionInv, NotBegun
<1>4. NotBegun' /\ Routed'
  BY <1>1, <1>2, <1>3 DEF SessionInv, NotBegun, Routed, ZoneStep
<1>5. EndsFollow'
  BY DEF SessionInv, EndsFollow, ZoneStep
<1>6. OnePermission => OnePermission'
  <2> SUFFICES ASSUME OnePermission PROVE OnePermission'
    OBVIOUS
  <2>1. mayReady[s] = 0 /\ ~Coming(z, s)
    BY <1>1 DEF OnePermission
  <2>2. \A y \in Zones : ~At(y, s)'
    <3>1. ASSUME NEW y \in Zones, At(y, s)' PROVE FALSE
      <4>1. y = z
        BY <1>1, <1>2, <3>1 DEF OnePermission
      <4> QED
        BY <1>2, <2>1, <3>1, <4>1 DEF At
    <3> QED
      BY <3>1
  <2> QED
    BY <1>1, <1>2, <2>1, <2>2 DEF OnePermission, ZoneStep
<1> QED
  BY <1>4, <1>5, <1>6 DEF SessionInv

\* A zone takes a job: READY becomes a load, an end takes its session out.
LEMMA TakesSession ==
  ASSUME TypeOK, SessionInv, NEW z \in Zones, Takes(z)
  PROVE  SessionInv'
<1>1. /\ netQueue[z] \in Seq(NetJob) /\ netQueue[z] # <<>>
      /\ netQueue'[z] = Tail(netQueue[z])
      /\ \A y \in Zones : y # z => netQueue'[y] = netQueue[y]
      /\ UNCHANGED <<gate, route, mayReady, leaveAck>>
  BY DEF Takes, TypeOK, gateVars
<1>2. PICK e : e = Head(netQueue[z])
  OBVIOUS
<1>3. /\ \A y \in Zones, s \in Sessions :
           In(y, s)' => In(y, s) \/ (y = z /\ e = Net("ready", s))
      /\ \A s \in Sessions : IsEnd(e, s) => ~In(z, s)'
  BY <1>2 DEF Takes
<1>4. /\ \A j : Has(netQueue'[z], j) => Has(netQueue[z], j)
      /\ \A s : EndWaits(netQueue[z], s) => IsEnd(e, s) \/ EndWaits(netQueue'[z], s)
  BY <1>1, <1>2, TakeHas
<1>5. \A s : /\ EndsReady(netQueue[z], s) => EndsReady(netQueue'[z], s)
             /\ EndsReady(netQueue[z], s) /\ e = Net("ready", s) => EndWaits(netQueue'[z], s)
             /\ OneReady(netQueue[z], s) =>
                  /\ OneReady(netQueue'[z], s)
                  /\ e = Net("ready", s) => ~Has(netQueue'[z], Net("ready", s))
  BY <1>1, <1>2, TakeOrder
<1>6. \A s : e = Net("ready", s) => Coming(z, s)
  <2>1. 1 \in DOMAIN netQueue[z] /\ e = netQueue[z][1]
    BY <1>1, <1>2, TailShift
  <2> QED
    BY <2>1 DEF Coming, Has
<1>7. \A y \in Zones, s \in Sessions : /\ Coming(y, s)' => Coming(y, s)
                                       /\ At(y, s)' => At(y, s)
  <2>1. \A y \in Zones, s \in Sessions : Coming(y, s)' => Coming(y, s)
    BY <1>1, <1>4 DEF Coming
  <2> QED
    BY <1>3, <1>6, <2>1 DEF At
<1>8. NotBegun' /\ Routed'
  BY <1>1, <1>7 DEF SessionInv, NotBegun, Routed
<1>9. EndsFollow'
  <2> SUFFICES ASSUME NEW s \in Sessions, NEW y \in Zones, gate'[s] = "gone"
               PROVE  /\ In(y, s)' => EndWaits(netQueue'[y], s)
                      /\ EndsReady(netQueue'[y], s)
    BY DEF EndsFollow
  <2>1. /\ In(y, s) => EndWaits(netQueue[y], s)
        /\ EndsReady(netQueue[y], s)
    BY <1>1 DEF SessionInv, EndsFollow
  <2>2. CASE y # z
    BY <1>1, <1>3, <2>1, <2>2
  <2>3. CASE y = z
    BY <1>3, <1>4, <1>5, <2>1, <2>3
  <2> QED
    BY <2>2, <2>3
<1>10. OnePermission => OnePermission'
  <2> SUFFICES ASSUME OnePermission, NEW s \in Sessions
               PROVE  /\ \A x, y \in Zones : At(x, s)' /\ At(y, s)' => x = y
                      /\ \A y \in Zones : /\ At(y, s)' => mayReady'[s] = 0 /\ leaveAck'[s] = NoZone
                                          /\ OneReady(netQueue'[y], s)
                                          /\ Coming(y, s)' => ~In(y, s)'
                      /\ mayReady'[s] = 0 \/ leaveAck'[s] = NoZone
    BY DEF OnePermission
  <2>1. ASSUME NEW y \in Zones
        PROVE  OneReady(netQueue'[y], s) /\ (Coming(y, s)' => ~In(y, s)')
    <3>1. OneReady(netQueue[y], s) /\ (Coming(y, s) => ~In(y, s))
      BY DEF OnePermission
    <3>2. CASE y # z
      BY <1>1, <1>3, <1>7, <3>1, <3>2
    <3>3. CASE y = z
      BY <1>3, <1>5, <1>7, <3>1, <3>3 DEF Coming
    <3> QED
      BY <3>2, <3>3
  <2> QED
    BY <1>1, <1>7, <2>1 DEF OnePermission
<1> QED
  BY <1>8, <1>9, <1>10 DEF SessionInv

LEMMA SelectSession ==
  ASSUME TypeOK, SessionInv, NEW s \in Sessions, SelectCharacter(s)
  PROVE  SessionInv'
<1>1. /\ gate[s] = "new" /\ gate'[s] = "play" /\ mayReady'[s] = MaxReady
      /\ route'[s] = row[PlayerOf[s]].zone
      /\ \A t \in Sessions : t # s => /\ gate'[t] = gate[t] /\ mayReady'[t] = mayReady[t]
                                      /\ route'[t] = route[t]
      /\ UNCHANGED <<zoneVars, netQueue, leaveAck>>
  BY DEF SelectCharacter, TypeOK
<1>2. route'[s] \in Zones
  BY <1>1, ZoneLifeAssumption DEF TypeOK
<1>3. \A z \in Zones, t \in Sessions : /\ In(z, t)' <=> In(z, t)
                                       /\ Coming(z, t)' <=> Coming(z, t)
                                       /\ At(z, t)' <=> At(z, t)
  BY <1>1 DEF zoneVars, At, In, Coming
<1>4. leaveAck[s] = NoZone /\ \A z \in Zones : ~At(z, s)
  BY <1>1 DEF SessionInv, NotBegun
<1>5. NotBegun' /\ Routed'
  BY <1>1, <1>2, <1>3, <1>4 DEF SessionInv, NotBegun, Routed
<1>6. EndsFollow'
  BY <1>1, <1>3 DEF SessionInv, EndsFollow
<1>7. OnePermission => OnePermission'
  BY <1>1, <1>3, <1>4 DEF OnePermission
<1> QED
  BY <1>5, <1>6, <1>7 DEF SessionInv

\* What waits once job e is posted to zone z.
LEMMA PostsFacts ==
  ASSUME TypeOK, NEW z \in Zones, NEW e \in NetJob, Posts(z, e)
  PROVE  /\ \A y \in Zones, t \in Sessions :
              /\ In(y, t)' <=> In(y, t)
              /\ Coming(y, t)' <=> Coming(y, t) \/ (y = z /\ e = Net("ready", t))
              /\ EndWaits(netQueue[y], t) => EndWaits(netQueue'[y], t)
              /\ EndsReady(netQueue[y], t) /\ ~(y = z /\ e = Net("ready", t))
                   => EndsReady(netQueue'[y], t)
              /\ OneReady(netQueue[y], t) /\ ~(y = z /\ e = Net("ready", t) /\ Coming(z, t))
                   => OneReady(netQueue'[y], t)
         /\ \A t \in Sessions : IsEnd(e, t) =>
              EndWaits(netQueue'[z], t) /\ EndsReady(netQueue'[z], t)
<1>1. /\ netQueue[z] \in Seq(NetJob)
      /\ netQueue'[z] = Append(netQueue[z], e)
      /\ \A y \in Zones : y # z => netQueue'[y] = netQueue[y]
      /\ UNCHANGED <<spawnPending, sessionToPlayer>>
  BY DEF Posts, TypeOK, zoneVars
<1>2. /\ \A j : Has(netQueue'[z], j) <=> Has(netQueue[z], j) \/ e = j
      /\ \A s : EndWaits(netQueue'[z], s) <=> EndWaits(netQueue[z], s) \/ IsEnd(e, s)
  BY <1>1, PostHas
<1>3. \A s : IsEnd(e, s) => EndsReady(netQueue'[z], s)
  BY <1>1, PostOrder
<1>4. \A s : EndsReady(netQueue[z], s) /\ e # Net("ready", s) => EndsReady(netQueue'[z], s)
  BY <1>1, PostOrder
<1>5. \A s : OneReady(netQueue[z], s) /\ (e = Net("ready", s) => ~Has(netQueue[z], e))
               => OneReady(netQueue'[z], s)
  BY <1>1, PostOrder
<1>6. ASSUME NEW y \in Zones, NEW t \in Sessions
      PROVE  /\ In(y, t)' <=> In(y, t)
             /\ Coming(y, t)' <=> Coming(y, t) \/ (y = z /\ e = Net("ready", t))
             /\ EndWaits(netQueue[y], t) => EndWaits(netQueue'[y], t)
             /\ EndsReady(netQueue[y], t) /\ ~(y = z /\ e = Net("ready", t))
                  => EndsReady(netQueue'[y], t)
             /\ OneReady(netQueue[y], t) /\ ~(y = z /\ e = Net("ready", t) /\ Coming(z, t))
                  => OneReady(netQueue'[y], t)
  <2>1. In(y, t)' <=> In(y, t)
    BY <1>1 DEF In
  <2>2. CASE y # z
    BY <1>1, <2>1, <2>2 DEF Coming
  <2>3. CASE y = z
    BY <1>2, <1>4, <1>5, <2>1, <2>3 DEF Coming
  <2> QED
    BY <2>2, <2>3
<1> QED
  BY <1>2, <1>3, <1>6

LEMMA RouteReadySession ==
  ASSUME TypeOK, SessionInv, NEW s \in Sessions, RouteReady(s)
  PROVE  SessionInv'
<1>1. PICK z \in Zones : z = route[s]
  BY DEF RouteReady, SessionInv, Routed
<1>2. Net("ready", s) \in NetJob /\ \A t : Net("ready", s) = Net("ready", t) => s = t
  BY DEF Net, NetJob
<1>3. /\ gate[s] = "play" /\ mayReady[s] > 0 /\ mayReady'[s] = mayReady[s] - 1
      /\ \A t \in Sessions : t # s => mayReady'[t] = mayReady[t]
      /\ Posts(z, Net("ready", s))
      /\ UNCHANGED <<gate, route, leaveAck>>
  BY <1>1 DEF RouteReady, Posts, TypeOK
<1>4. \A y \in Zones, t \in Sessions :
        /\ In(y, t)' <=> In(y, t)
        /\ Coming(y, t)' <=> Coming(y, t) \/ (y = z /\ s = t)
        /\ EndWaits(netQueue[y], t) => EndWaits(netQueue'[y], t)
        /\ EndsReady(netQueue[y], t) /\ s # t => EndsReady(netQueue'[y], t)
        /\ OneReady(netQueue[y], t) /\ ~(y = z /\ s = t /\ Coming(z, t))
             => OneReady(netQueue'[y], t)
  BY <1>2, <1>3, PostsFacts
<1>5. \A y \in Zones, t \in Sessions : At(y, t)' <=> At(y, t) \/ (y = z /\ s = t)
  BY <1>4 DEF At
<1>6. NotBegun' /\ Routed'
  BY <1>1, <1>3, <1>5 DEF SessionInv, NotBegun, Routed
<1>7. EndsFollow'
  BY <1>3, <1>4 DEF SessionInv, EndsFollow
<1>8. MaxReady <= 1 /\ OnePermission => OnePermission'
  <2> SUFFICES ASSUME MaxReady <= 1, OnePermission PROVE OnePermission'
    OBVIOUS
  <2>1. mayReady[s] = 1 /\ mayReady'[s] = 0
    BY <1>3, ZoneLifeAssumption DEF TypeOK
  <2>2. leaveAck[s] = NoZone /\ \A y \in Zones : ~At(y, s)
    BY <2>1 DEF OnePermission
  <2>3. ~In(z, s) /\ ~Coming(z, s)
    BY <2>2 DEF At
  <2> QED
    BY <1>3, <1>4, <1>5, <2>1, <2>2, <2>3 DEF OnePermission
<1> QED
  BY <1>6, <1>7, <1>8 DEF SessionInv

LEMMA LeaveCompletedSession ==
  ASSUME RouteIsCertain, TypeOK, SessionInv, NEW s \in Sessions, LeaveCompleted(s)
  PROVE  SessionInv'
<1>1. /\ leaveAck[s] # NoZone /\ leaveAck[s] \in Zones /\ leaveAck'[s] = NoZone
      /\ UNCHANGED <<zoneVars, netQueue, gate>>
      /\ \A t \in Sessions : t # s => leaveAck'[t] = leaveAck[t]
  BY DEF LeaveCompleted, TypeOK
<1>2. \A y \in Zones, t \in Sessions : /\ In(y, t)' <=> In(y, t)
                                       /\ Coming(y, t)' <=> Coming(y, t)
                                       /\ At(y, t)' <=> At(y, t)
  BY <1>1 DEF zoneVars, At, In, Coming
<1>3. EndsFollow'
  BY <1>1, <1>2 DEF SessionInv, EndsFollow
<1>4. CASE gate[s] = "play" /\ route' = [route EXCEPT ![s] = leaveAck[s]]
                            /\ mayReady' = [mayReady EXCEPT ![s] = MaxReady]
  <2>1. /\ route'[s] = leaveAck[s]
        /\ \A t \in Sessions : t # s => route'[t] = route[t] /\ mayReady'[t] = mayReady[t]
    BY <1>4 DEF TypeOK
  <2>2. NotBegun'
    BY <1>1, <1>2, <1>4, <2>1 DEF SessionInv, NotBegun
  <2>3. ASSUME NEW z \in Zones, At(z, s)
        PROVE  route'[s] = z
    <3>1. CASE MaxReady <= 1
      BY <1>1, <2>3, <3>1 DEF SessionInv, OnePermission
    <3>2. CASE \A y, x \in Zones : y = x
      BY <1>1, <2>1, <3>2
    <3> QED
      BY <3>1, <3>2 DEF RouteIsCertain
  <2>4. Routed'
    BY <1>1, <1>2, <2>1, <2>3 DEF SessionInv, Routed
  <2>5. OnePermission => OnePermission'
    BY <1>1, <1>2, <2>1 DEF OnePermission
  <2> QED
    BY <1>3, <2>2, <2>4, <2>5 DEF SessionInv
<1>5. CASE UNCHANGED <<route, mayReady>>
  <2>1. NotBegun' /\ Routed'
    BY <1>1, <1>2, <1>5 DEF SessionInv, NotBegun, Routed
  <2>2. OnePermission => OnePermission'
    BY <1>1, <1>2, <1>5 DEF OnePermission
  <2> QED
    BY <1>3, <2>1, <2>2 DEF SessionInv
<1> QED
  BY <1>4, <1>5 DEF LeaveCompleted

LEMMA CloseSessionSession ==
  ASSUME TypeOK, SessionInv, NEW s \in Sessions, CloseSession(s)
  PROVE  SessionInv'
<1>1. PICK z \in Zones : z = route[s]
  BY DEF CloseSession, SessionInv, Routed
<1>2. /\ Net("bye", s) \in NetJob /\ \A t : Net("bye", s) # Net("ready", t)
      /\ IsEnd(Net("bye", s), s)
  BY DEF Net, NetJob, IsEnd
<1>3. /\ gate[s] = "play" /\ gate'[s] = "gone"
      /\ \A t \in Sessions : t # s => gate'[t] = gate[t]
      /\ Posts(z, Net("bye", s))
      /\ UNCHANGED <<route, mayReady, leaveAck>>
  BY <1>1 DEF CloseSession, Posts, TypeOK
<1>4. /\ \A y \in Zones, t \in Sessions :
           /\ In(y, t)' <=> In(y, t)
           /\ Coming(y, t)' <=> Coming(y, t)
           /\ EndWaits(netQueue[y], t) => EndWaits(netQueue'[y], t)
           /\ EndsReady(netQueue[y], t) => EndsReady(netQueue'[y], t)
           /\ OneReady(netQueue[y], t) => OneReady(netQueue'[y], t)
      /\ EndWaits(netQueue'[z], s) /\ EndsReady(netQueue'[z], s)
  BY <1>2, <1>3, PostsFacts
<1>5. \A y \in Zones, t \in Sessions : At(y, t)' <=> At(y, t)
  BY <1>4 DEF At
<1>6. NotBegun' /\ Routed'
  BY <1>3, <1>5 DEF SessionInv, NotBegun, Routed
<1>7. EndsFollow'
  <2>1. ASSUME NEW y \in Zones, NEW t \in Sessions, t # s, gate'[t] = "gone"
        PROVE  /\ In(y, t)' => EndWaits(netQueue'[y], t)
               /\ EndsReady(netQueue'[y], t)
    BY <1>3, <1>4, <2>1 DEF SessionInv, EndsFollow
  <2>2. ASSUME NEW y \in Zones
        PROVE  /\ In(y, s)' => EndWaits(netQueue'[y], s)
               /\ EndsReady(netQueue'[y], s)
    <3>1. CASE y = z
      BY <1>4, <3>1
    <3>2. CASE y # z
      <4>1. ~At(y, s)
        BY <1>1, <1>3, <3>2 DEF SessionInv, Routed
      <4>2. EndsReady(netQueue[y], s)
        BY <4>1 DEF At, Coming, Has, EndsReady
      <4> QED
        BY <1>4, <4>1, <4>2 DEF At
    <3> QED
      BY <3>1, <3>2
  <2> QED
    BY <2>1, <2>2 DEF EndsFollow
<1>8. OnePermission => OnePermission'
  BY <1>3, <1>4, <1>5 DEF OnePermission
<1> QED
  BY <1>6, <1>7, <1>8 DEF SessionInv

\* The gateway is lost: every zone will be cleared.
LEMMA LostSession ==
  ASSUME TypeOK, SessionInv, LoseGateway
  PROVE  SessionInv'
<1>1. /\ UNCHANGED <<zoneVars, route, mayReady>>
      /\ \A s \in Sessions : leaveAck'[s] = NoZone /\ gate'[s] # "play"
                             /\ (gate'[s] = "new" => gate[s] = "new")
  BY DEF LoseGateway
<1>2. ASSUME NEW z \in Zones, NEW s \in Sessions
      PROVE  /\ Coming(z, s)' => Coming(z, s)
             /\ EndWaits(netQueue'[z], s) /\ EndsReady(netQueue'[z], s)
             /\ OneReady(netQueue[z], s) => OneReady(netQueue'[z], s)
  <2> DEFINE e == Net("clear", NoSession)
  <2>1. netQueue[z] \in Seq(NetJob)
    BY DEF TypeOK
  <2>2. PICK k \in 0..Len(netQueue[z]) :
          /\ \A i \in (k + 1)..Len(netQueue[z]) : netQueue[z][i].kind \in {"ready", "bye"}
          /\ netQueue'[z] = Append(SubSeq(netQueue[z], 1, k), e)
    BY LostQueue
  <2>3. e \in NetJob /\ IsEnd(e, s) /\ e # Net("ready", s)
    BY DEF Net, NetJob, IsEnd
  <2> HIDE DEF e
  <2>4. PICK r : r = SubSeq(netQueue[z], 1, k)
    OBVIOUS
  <2>5. /\ r \in Seq(NetJob)
        /\ Has(r, Net("ready", s)) => Has(netQueue[z], Net("ready", s))
        /\ OneReady(netQueue[z], s) => OneReady(r, s)
    BY <2>1, <2>2, <2>4, CutFacts
  <2>6. /\ Has(Append(r, e), Net("ready", s)) <=> Has(r, Net("ready", s))
        /\ EndWaits(Append(r, e), s)
    BY <2>3, <2>5, PostHas
  <2>7. /\ EndsReady(Append(r, e), s)
        /\ OneReady(r, s) => OneReady(Append(r, e), s)
    BY <2>3, <2>5, PostOrder
  <2> QED
    BY <2>2, <2>4, <2>5, <2>6, <2>7 DEF Coming
<1>3. \A z \in Zones, s \in Sessions : /\ In(z, s)' <=> In(z, s)
                                       /\ At(z, s)' => At(z, s)
  BY <1>1, <1>2 DEF zoneVars, In, At
<1>4. NotBegun' /\ Routed'
  BY <1>1, <1>3 DEF SessionInv, NotBegun, Routed
<1>5. EndsFollow'
  BY <1>2 DEF EndsFollow
<1>6. OnePermission => OnePermission'
  BY <1>1, <1>2, <1>3 DEF OnePermission
<1> QED
  BY <1>4, <1>5, <1>6 DEF SessionInv

\* The two jobs of Zone::Shutdown neither bring a session in nor end one.
LEMMA SignalSession ==
  ASSUME TypeOK, SessionInv, Signal
  PROVE  SessionInv'
<1>1. PICK first \in NetJob, second \in NetJob :
        first = Net("close", NoSession) /\ second = Net("clearDone", NoSession)
  BY DEF Net, NetJob
<1>2. /\ UNCHANGED <<zoneVars, gate, route, mayReady, leaveAck>>
      /\ \A z \in Zones : netQueue'[z] = netQueue[z] \o <<first, second>>
  BY <1>1 DEF Signal, gateVars
<1>3. \A t : first # Net("ready", t) /\ second # Net("ready", t)
  BY <1>1 DEF Net
<1>4. ASSUME NEW z \in Zones, NEW s \in Sessions
      PROVE  /\ Coming(z, s)' <=> Coming(z, s)
             /\ EndWaits(netQueue[z], s) => EndWaits(netQueue'[z], s)
             /\ EndsReady(netQueue[z], s) => EndsReady(netQueue'[z], s)
             /\ OneReady(netQueue[z], s) => OneReady(netQueue'[z], s)
  <2>1. netQueue[z] \in Seq(NetJob)
    BY DEF TypeOK
  <2>2. PICK q \in Seq(NetJob) : q = Append(netQueue[z], first)
    <3>1. Append(netQueue[z], first) \in Seq(NetJob)
      BY <2>1, AppendFacts
    <3> QED
      BY <3>1
  <2>3. netQueue'[z] = Append(q, second)
    BY <1>2, <2>1, <2>2
  <2>4. /\ Has(q, Net("ready", s)) <=> Has(netQueue[z], Net("ready", s))
        /\ EndWaits(netQueue[z], s) => EndWaits(q, s)
    BY <1>3, <2>1, <2>2, PostHas
  <2>5. /\ EndsReady(netQueue[z], s) => EndsReady(q, s)
        /\ OneReady(netQueue[z], s) => OneReady(q, s)
    BY <1>3, <2>1, <2>2, PostOrder
  <2>6. /\ Has(Append(q, second), Net("ready", s)) <=> Has(q, Net("ready", s))
        /\ EndWaits(q, s) => EndWaits(Append(q, second), s)
    BY <1>3, PostHas
  <2>7. /\ EndsReady(q, s) => EndsReady(Append(q, second), s)
        /\ OneReady(q, s) => OneReady(Append(q, second), s)
    BY <1>3, PostOrder
  <2> QED
    BY <2>3, <2>4, <2>5, <2>6, <2>7 DEF Coming
<1>5. \A z \in Zones, s \in Sessions : /\ In(z, s)' <=> In(z, s)
                                       /\ At(z, s)' <=> At(z, s)
  BY <1>2, <1>4 DEF zoneVars, In, At
<1>6. NotBegun' /\ Routed'
  BY <1>2, <1>5 DEF SessionInv, NotBegun, Routed
<1>7. EndsFollow'
  BY <1>2, <1>4, <1>5 DEF SessionInv, EndsFollow
<1>8. OnePermission => OnePermission'
  BY <1>2, <1>4, <1>5 DEF OnePermission
<1> QED
  BY <1>6, <1>7, <1>8 DEF SessionInv

LEMMA SessionStep ==
  ASSUME RouteIsCertain, IInv, SessionInv, [Next]_vars
  PROVE  SessionInv'
<1>1. TypeOK
  BY DEF IInv
<1>2. ASSUME NEW z \in Zones, ZoneJob(z)
      PROVE  SessionInv'
  <2>1. Takes(z)
    BY <1>2, ReadyTakes, DisconnectTakes, OtherJobTakes DEF ZoneJob
  <2> QED
    BY <1>1, <2>1, TakesSession
<1>3. ASSUME NEW z \in Zones, DbCallback(z)
      PROVE  SessionInv'
  <2>1. CASE SpawnLoaded(z)
    BY <2>1, SpawnStays, StaysSession
  <2>2. CASE PortalSaved(z)
    BY <1>1, <2>2, PortalStays, StaysSession, LeavesSession
  <2> QED
    BY <1>3, <2>1, <2>2 DEF DbCallback
<1>4. ASSUME UNCHANGED <<netQueue, gateVars, sessionToPlayer, spawnPending>>
      PROVE  SessionInv'
  <2>1. ZoneStep /\ UNCHANGED leaveAck
    BY <1>4 DEF ZoneStep, gateVars, In
  <2> QED
    BY <2>1, StaysSession
<1>5. ASSUME NEW z \in Zones, Play(z)
      PROVE  SessionInv'
  <2>1. UNCHANGED <<netQueue, gateVars, sessionToPlayer, spawnPending>>
    BY <1>5 DEF Play, EarnExp, MonsterKills, HandleRevive, HandlePortal, AutoSaveTick
  <2> QED
    BY <1>4, <2>1
<1>6. ASSUME NEW p \in Players, RunTask(p)
      PROVE  SessionInv'
  BY <1>4, <1>6 DEF RunTask, zoneVars
<1>7. ASSUME NEW s \in Sessions, Gateway(s)
      PROVE  SessionInv'
  BY <1>1, <1>7, SelectSession, RouteReadySession, LeaveCompletedSession, CloseSessionSession
     DEF Gateway
<1>8. CASE Finish \/ UNCHANGED vars
  BY <1>4, <1>8 DEF Finish, vars, zoneVars
<1> QED
  BY <1>1, <1>2, <1>3, <1>5, <1>6, <1>7, <1>8, LostSession, SignalSession DEF Next

\* Sessions: where one is routed, what of it is on its way, and that its end comes last
\* (ClientProxySession::RoutePacket, Close).  NoGhostLeft follows.
THEOREM SessionsFollow ==
  ASSUME RouteIsCertain
  PROVE  Safety => [](IInv /\ SessionInv)
<1>1. Init => IInv /\ SessionInv
  BY InitInvariant, InitSession
<1>2. IInv /\ SessionInv /\ [Next]_vars => (IInv /\ SessionInv)'
  BY StepInvariant, SessionStep
<1> QED
  BY <1>1, <1>2, PTL DEF Safety

\* A session that is gone is in no zone, and no zone loads its character, once its
\* disconnect or the clearing is through (Zone::HandleDisconnect, HandleGatewayLost):
\* however the disconnect overtakes the load, the portal save and their callbacks.  It
\* takes a server of one zone, or clients that answer an order to load a map with one
\* READY: a second READY, once the portal has been taken, brings the session back into
\* the zone it left, and its disconnect goes to the next one.
THEOREM NoGhostLeft ==
  ASSUME RouteIsCertain
  PROVE  Safety => []NoGhost
<1>1. IInv /\ SessionInv => NoGhost
  <2> SUFFICES ASSUME SessionInv, NEW s \in Sessions, NEW z \in Zones,
                      gate[s] = "gone", ~Expected(z, s)
               PROVE  ~In(z, s)
    BY DEF NoGhost, In
  <2>1. ~EndWaits(netQueue[z], s)
    BY DEF Expected, EndWaits, IsEnd
  <2> QED
    BY <2>1 DEF SessionInv, EndsFollow
<1> QED
  BY <1>1, SessionsFollow, PTL

-----------------------------------------------------------------------------
\* Whose sessions the zones have, and one session of a character at a time.

\* Loads are pushed and answered under the character their session plays.
OwnTask(p) == {t \in Task : t.kind = "load" => PlayerOf[t.s] = p}
OwnJob == {j \in DbJob : j.kind = "spawned" => PlayerOf[j.s] = j.p}

Own ==
  /\ \A z \in Zones, s \in Sessions : sessionToPlayer[z][s] \in {NoPlayer, PlayerOf[s]}
  /\ \A p \in Players : dbQueue[p] \in Seq(OwnTask(p))
  /\ \A z \in Zones : jobQueue[z] \in Seq(OwnJob)

\* A task a zone pushes for character p: a save of the character in that zone, a portal
\* save, or the load of a session whose READY it takes.
Load(z, s) == [kind |-> "load", z |-> z, s |-> s]

PushesSave(z, p, t) ==
  /\ Here(z, p) /\ p \notin portalPending[z]
  /\ t \in {SaveTask("save", z, p, z), SaveTask("auto", z, p, z)}
PushesPortal(z, p, t) ==
  /\ Here(z, p) /\ p \notin portalPending[z] /\ p \in portalPending'[z]
  /\ \E dest \in Zones : t = SaveTask("portal", z, p, dest)
PushesLoad(z, p, t) ==
  \E s \in Sessions : /\ Coming(z, s) /\ s \notin spawnPending[z] /\ s \in spawnPending'[z]
                      /\ PlayerOf[s] = p /\ t = Load(z, s)

Pushed(z, p, t) == PushesSave(z, p, t) \/ PushesPortal(z, p, t) \/ PushesLoad(z, p, t)

\* What a step of zone z pushes.
Pushes(z) ==
  \A p \in Players :
    \/ dbQueue'[p] = dbQueue[p]
    \/ \E t \in Task : Pushed(z, p, t) /\ dbQueue'[p] = Append(dbQueue[p], t)

LEMMA HeadComes ==
  ASSUME TypeOK, NEW z \in Zones, NEW s \in Sessions,
         netQueue[z] # <<>>, Head(netQueue[z]) = Net("ready", s)
  PROVE  Coming(z, s)
<1>1. netQueue[z] \in Seq(NetJob)
  BY DEF TypeOK
<1>2. 1 \in DOMAIN netQueue[z] /\ netQueue[z][1] = Net("ready", s)
  BY <1>1, TailFacts
<1> QED
  BY <1>2 DEF Coming, Has

LEMMA ReadyPushes ==
  ASSUME TypeOK, NEW z \in Zones, HandleReadyToSpawn(z)
  PROVE  Pushes(z)
<1>1. Head(netQueue[z]) \in NetJob /\ Head(netQueue[z]).kind = "ready"
  BY NextNetType DEF HandleReadyToSpawn, NextNet
<1>2. PICK s \in Sessions : s = Head(netQueue[z]).s
  BY <1>1 DEF NetJob
<1>3. Head(netQueue[z]) = Net("ready", s)
  BY <1>1, <1>2 DEF Net, NetJob
<1>4. Coming(z, s)
  BY <1>3, HeadComes DEF HandleReadyToSpawn, NextNet
<1>5. CASE UNCHANGED dbQueue
  BY <1>5 DEF Pushes
<1>6. CASE StartsLoad(z, s) /\ spawnPending' = [spawnPending EXCEPT ![z] = @ \cup {s}]
           /\ dbQueue' = PushTask(dbQueue, PlayerOf[s], Load(z, s))
  <2>1. s \notin spawnPending[z] /\ s \in spawnPending'[z]
    BY <1>6 DEF StartsLoad, TypeOK
  <2>2. Load(z, s) \in Task /\ PlayerOf[s] \in Players
    BY ZoneLifeAssumption DEF Load, Task
  <2>3. Pushed(z, PlayerOf[s], Load(z, s))
    BY <1>4, <2>1 DEF Pushed, PushesLoad
  <2>4. \A p \in Players : \/ dbQueue'[p] = dbQueue[p]
                           \/ p = PlayerOf[s] /\ dbQueue'[p] = Append(dbQueue[p], Load(z, s))
    BY <1>6, <2>2 DEF PushTask, TypeOK
  <2> QED
    BY <2>2, <2>3, <2>4 DEF Pushes
<1> QED
  BY <1>2, <1>5, <1>6 DEF HandleReadyToSpawn, Load

LEMMA DisconnectPushes ==
  ASSUME IInv, NEW z \in Zones, HandleDisconnect(z)
  PROVE  Pushes(z)
<1>1. PICK s \in Sessions : s = Head(netQueue[z]).s
  BY NextNetType DEF HandleDisconnect, NextNet, NetJob, IInv
<1>2. PICK p \in Players \cup {NoPlayer} : p = sessionToPlayer[z][s]
  BY DEF IInv, TypeOK
<1>3. CASE UNCHANGED dbQueue
  BY <1>3 DEF Pushes
<1>4. CASE p # NoPlayer /\ NeedsSave(z, p)
           /\ dbQueue' = PushTask(dbQueue, p, SaveTask("save", z, p, z))
  <2>1. p \in Players /\ Here(z, p) /\ p \notin portalPending[z]
    BY <1>4 DEF NeedsSave
  <2>2. SaveTask("save", z, p, z) \in Task /\ dbQueue \in [Players -> Seq(Task)]
    BY <2>1, SaveTaskType DEF TaskKinds, IInv, TypeOK
  <2>3. Pushed(z, p, SaveTask("save", z, p, z))
    BY <2>1 DEF Pushed, PushesSave
  <2>4. \A r \in Players : \/ dbQueue'[r] = dbQueue[r]
                           \/ r = p /\ dbQueue'[r] = Append(dbQueue[r], SaveTask("save", z, p, z))
    BY <1>4, <2>2 DEF PushTask
  <2> QED
    BY <2>1, <2>2, <2>3, <2>4 DEF Pushes
<1> QED
  BY <1>1, <1>2, <1>3, <1>4 DEF HandleDisconnect

LEMMA ClearPushes ==
  ASSUME TypeOK, NEW z \in Zones, SaveAllAndClear(z)
  PROVE  Pushes(z)
<1> SUFFICES ASSUME NEW p \in Players, dbQueue'[p] # dbQueue[p]
             PROVE  \E t \in Task : Pushed(z, p, t) /\ dbQueue'[p] = Append(dbQueue[p], t)
  BY DEF Pushes
<1>1. NeedsSave(z, p) /\ dbQueue'[p] = Append(dbQueue[p], SaveTask("save", z, p, z))
  BY DEF SaveAllAndClear
<1>2. SaveTask("save", z, p, z) \in Task
  BY <1>1, SaveTaskType DEF TaskKinds, NeedsSave
<1>3. Pushed(z, p, SaveTask("save", z, p, z))
  BY <1>1 DEF Pushed, PushesSave, NeedsSave
<1> QED
  BY <1>1, <1>2, <1>3

LEMMA PlayPushes ==
  ASSUME TypeOK, NEW z \in Zones, Play(z)
  PROVE  Pushes(z)
<1>1. CASE UNCHANGED dbQueue
  BY <1>1 DEF Pushes
<1>2. ASSUME NEW r \in Players, NEW dest \in Zones, HandlePortal(z, r, dest)
      PROVE  Pushes(z)
  <2>1. /\ Here(z, r) /\ r \notin portalPending[z] /\ r \in portalPending'[z]
        /\ dbQueue' = PushTask(dbQueue, r, SaveTask("portal", z, r, dest))
    BY <1>2 DEF HandlePortal, CanAct, TypeOK
  <2>2. SaveTask("portal", z, r, dest) \in Task /\ dbQueue \in [Players -> Seq(Task)]
    BY <2>1, SaveTaskType DEF TaskKinds, TypeOK
  <2>3. Pushed(z, r, SaveTask("portal", z, r, dest))
    BY <2>1 DEF Pushed, PushesPortal
  <2>4. \A p \in Players : \/ dbQueue'[p] = dbQueue[p]
                           \/ r = p /\ dbQueue'[p] = Append(dbQueue[p], SaveTask("portal", z, r, dest))
    BY <2>1, <2>2 DEF PushTask
  <2> QED
    BY <2>2, <2>3, <2>4 DEF Pushes
<1>3. ASSUME NEW slice \in Slices, AutoSaveTick(z, slice)
      PROVE  Pushes(z)
  <2> SUFFICES ASSUME NEW p \in Players, dbQueue'[p] # dbQueue[p]
               PROVE  \E t \in Task : Pushed(z, p, t) /\ dbQueue'[p] = Append(dbQueue[p], t)
    BY DEF Pushes
  <2>1. /\ AutoSaves(z, p, slice)
        /\ dbQueue'[p] = Append(dbQueue[p], SaveTask("auto", z, p, z))
    BY <1>3 DEF AutoSaveTick
  <2>2. SaveTask("auto", z, p, z) \in Task
    BY <2>1, SaveTaskType DEF TaskKinds, AutoSaves
  <2>3. Pushed(z, p, SaveTask("auto", z, p, z))
    BY <2>1 DEF Pushed, PushesSave, AutoSaves
  <2> QED
    BY <2>1, <2>2, <2>3
<1>4. ASSUME NEW p \in Players, EarnExp(z, p) \/ MonsterKills(z, p) \/ HandleRevive(z, p)
      PROVE  UNCHANGED dbQueue
  BY <1>4 DEF EarnExp, MonsterKills, HandleRevive, dbVars
<1> QED
  BY <1>1, <1>2, <1>3, <1>4 DEF Play

\* Every step of a zone pushes saves and loads as described, and answers nobody.
LEMMA ZonePushes ==
  ASSUME IInv, NEW z \in Zones, ZoneJob(z) \/ DbCallback(z) \/ Play(z)
  PROVE  Pushes(z) /\ UNCHANGED row
<1>1. TypeOK
  BY DEF IInv
<1>2. CASE HandleReadyToSpawn(z)
  BY <1>1, <1>2, ReadyPushes DEF HandleReadyToSpawn
<1>3. CASE HandleDisconnect(z)
  BY <1>3, DisconnectPushes DEF HandleDisconnect
<1>4. CASE HandleGatewayLost(z) \/ ClearForShutdown(z)
  BY <1>1, <1>4, ClearPushes DEF HandleGatewayLost, ClearForShutdown, SaveAllAndClear
<1>5. CASE CloseZone(z) \/ DbCallback(z)
  <2>1. UNCHANGED <<dbQueue, row>>
    BY <1>5 DEF CloseZone, DbCallback, SpawnLoaded, PortalSaved, dbVars
  <2> QED
    BY <2>1 DEF Pushes
<1>6. CASE Play(z)
  <2>1. UNCHANGED row
    BY <1>6 DEF Play, EarnExp, MonsterKills, HandleRevive, HandlePortal, AutoSaveTick, dbVars
  <2> QED
    BY <1>1, <1>6, <2>1, PlayPushes
<1> QED
  BY <1>2, <1>3, <1>4, <1>5, <1>6 DEF ZoneJob

\* A task a zone pushes is under the right character.
LEMMA PushedIsOwn ==
  ASSUME NEW z \in Zones, NEW p \in Players, NEW t \in Task, Pushed(z, p, t)
  PROVE  t \in OwnTask(p)
<1>1. CASE PushesSave(z, p, t) \/ PushesPortal(z, p, t)
  <2>1. t.kind \in {"save", "auto", "portal"}
    BY <1>1 DEF PushesSave, PushesPortal, SaveTask
  <2> QED
    BY <2>1 DEF OwnTask
<1>2. CASE PushesLoad(z, p, t)
  <2>1. t.kind = "load" /\ PlayerOf[t.s] = p
    BY <1>2 DEF PushesLoad, Load
  <2> QED
    BY <2>1 DEF OwnTask
<1> QED
  BY <1>1, <1>2 DEF Pushed

LEMMA PushesOwn ==
  ASSUME Own, NEW z \in Zones, Pushes(z)
  PROVE  \A p \in Players : dbQueue'[p] \in Seq(OwnTask(p))
<1> SUFFICES ASSUME NEW p \in Players PROVE dbQueue'[p] \in Seq(OwnTask(p))
  OBVIOUS
<1>1. dbQueue[p] \in Seq(OwnTask(p))
  BY DEF Own
<1>2. ASSUME NEW t \in Task, Pushed(z, p, t), dbQueue'[p] = Append(dbQueue[p], t)
      PROVE  dbQueue'[p] \in Seq(OwnTask(p))
  <2>1. t \in OwnTask(p)
    BY <1>2, PushedIsOwn
  <2> QED
    BY <1>1, <1>2, <2>1
<1> QED
  BY <1>1, <1>2 DEF Pushes

LEMMA TailOwn ==
  ASSUME Own, NEW z \in Zones, NEW kind, NextJob(z, kind)
  PROVE  \A y \in Zones : jobQueue'[y] \in Seq(OwnJob)
<1>1. /\ \A y \in Zones : y # z => jobQueue'[y] = jobQueue[y] \/ jobQueue'[y] \in Seq(OwnJob)
      /\ jobQueue[z] # <<>> /\ jobQueue[z] \in Seq(OwnJob)
  BY DEF NextJob, Own
<1>2. Tail(jobQueue[z]) \in Seq(OwnJob)
  BY <1>1
<1>3. jobQueue' = [jobQueue EXCEPT ![z] = Tail(@)]
  BY DEF NextJob
<1> QED
  BY <1>1, <1>2, <1>3 DEF Own

LEMMA RunOwn ==
  ASSUME TypeOK, Own, NEW p \in Players, RunTask(p)
  PROVE  Own'
<1>1. PICK task \in OwnTask(p) : task = NextTask(p) /\ Tail(dbQueue[p]) \in Seq(OwnTask(p))
  <2>1. dbQueue[p] \in Seq(OwnTask(p)) /\ dbQueue[p] # <<>>
    BY DEF Own, RunTask
  <2> QED
    BY <2>1 DEF NextTask
<1>2. PICK ok \in BOOLEAN :
        /\ jobQueue' = [jobQueue EXCEPT ![task.z] = @ \o Callback(p, task, ok)]
        /\ dbQueue' = [dbQueue EXCEPT ![p] = Tail(dbQueue[p])]
  BY <1>1 DEF RunTask, OtherTasks
<1>3. \A r \in Players : dbQueue'[r] \in Seq(OwnTask(r))
  <2>1. dbQueue \in [Players -> Seq(Task)]
    BY DEF TypeOK
  <2> QED
    BY <1>1, <1>2, <2>1 DEF Own
<1>4. Callback(p, task, ok) \in Seq(OwnJob)
  <2>1. row[p].now \in State /\ task \in Task
    BY <1>1 DEF TypeOK, OwnTask
  <2>2. CASE task.kind = "load"
    <3>1. PICK job : job = [kind |-> "spawned", s |-> task.s, p |-> p, ok |-> ok, now |-> row[p].now]
      OBVIOUS
    <3>2. job \in DbJob /\ PlayerOf[job.s] = job.p
      BY <1>1, <2>1, <2>2, <3>1 DEF Task, DbJob, OwnTask
    <3> QED
      BY <2>2, <3>1, <3>2 DEF Callback, OwnJob
  <2>3. CASE task.kind = "portal"
    <3>1. PICK job : job = [kind |-> "portalDone", s |-> task.s, p |-> p, ok |-> ok, to |-> task.to]
      OBVIOUS
    <3>2. job \in DbJob /\ job.kind = "portalDone"
      BY <2>1, <2>3, <3>1 DEF Task, DbJob
    <3> QED
      BY <2>3, <3>1, <3>2 DEF Callback, OwnJob
  <2>4. CASE task.kind \notin {"load", "portal"}
    BY <2>4 DEF Callback
  <2> QED
    BY <2>2, <2>3, <2>4
<1>5. \A y \in Zones : jobQueue'[y] \in Seq(OwnJob)
  <2>1. \A y \in Zones : jobQueue'[y] = jobQueue[y] \/ jobQueue'[y] = jobQueue[y] \o Callback(p, task, ok)
    BY <1>2 DEF TypeOK
  <2>2. \A q \in Seq(OwnJob) : q \o Callback(p, task, ok) \in Seq(OwnJob)
    BY <1>4
  <2> QED
    BY <2>1, <2>2 DEF Own
<1> QED
  BY <1>3, <1>5 DEF Own, RunTask, zoneVars

\* Who plays in a zone entered under its own character.
LEMMA PlaysOwn ==
  ASSUME IInv, Own, [Next]_vars
  PROVE  \A z \in Zones, s \in Sessions : sessionToPlayer'[z][s] \in {NoPlayer, PlayerOf[s]}
<1>1. CASE UNCHANGED sessionToPlayer
  BY <1>1 DEF Own
<1>2. ASSUME NEW z \in Zones, NEW p \in Players, Leave(z, p)
      PROVE  \A y \in Zones, s \in Sessions : sessionToPlayer'[y][s] \in {NoPlayer, PlayerOf[s]}
  <2>1. sessionToPlayer' = [sessionToPlayer EXCEPT ![z][players[z][p].sid] = NoPlayer]
    BY <1>2 DEF Leave
  <2> QED
    BY <2>1 DEF Own, IInv, TypeOK
<1>3. ASSUME NEW z \in Zones, SaveAllAndClear(z)
      PROVE  \A y \in Zones, s \in Sessions : sessionToPlayer'[y][s] \in {NoPlayer, PlayerOf[s]}
  BY <1>3 DEF SaveAllAndClear, Own, IInv, TypeOK
<1>4. ASSUME NEW z \in Zones, SpawnLoaded(z), ~UNCHANGED sessionToPlayer
      PROVE  \A y \in Zones, s \in Sessions : sessionToPlayer'[y][s] \in {NoPlayer, PlayerOf[s]}
  <2>1. PICK job \in OwnJob : job = Head(jobQueue[z]) /\ job.kind = "spawned"
    BY <1>4 DEF SpawnLoaded, NextJob, Own
  <2>2. sessionToPlayer' = [sessionToPlayer EXCEPT ![z][job.s] = job.p]
    BY <1>4, <2>1 DEF SpawnLoaded
  <2>3. PlayerOf[job.s] = job.p
    BY <2>1 DEF OwnJob
  <2> QED
    BY <2>2, <2>3 DEF Own, IInv, TypeOK
<1>5. ASSUME NEW z \in Zones, ZoneJob(z)
      PROVE  \A y \in Zones, s \in Sessions : sessionToPlayer'[y][s] \in {NoPlayer, PlayerOf[s]}
  <2>1. CASE HandleReadyToSpawn(z) \/ CloseZone(z)
    BY <1>1, <2>1 DEF HandleReadyToSpawn, CloseZone
  <2>2. CASE HandleDisconnect(z)
    <3>1. PICK s \in Sessions : s = Head(netQueue[z]).s
      BY <2>2, NextNetType DEF HandleDisconnect, NextNet, NetJob, IInv
    <3>2. PICK p \in Players \cup {NoPlayer} : p = sessionToPlayer[z][s]
      BY DEF IInv, TypeOK
    <3>3. (p \in Players /\ Leave(z, p)) \/ UNCHANGED sessionToPlayer
      BY <2>2, <3>1, <3>2 DEF HandleDisconnect
    <3> QED
      BY <1>1, <1>2, <3>3
  <2>3. CASE HandleGatewayLost(z) \/ ClearForShutdown(z)
    BY <1>3, <2>3 DEF HandleGatewayLost, ClearForShutdown
  <2> QED
    BY <1>5, <2>1, <2>2, <2>3 DEF ZoneJob
<1>6. ASSUME NEW z \in Zones, PortalSaved(z)
      PROVE  \A y \in Zones, s \in Sessions : sessionToPlayer'[y][s] \in {NoPlayer, PlayerOf[s]}
  <2>1. PICK job \in DbJob : job = Head(jobQueue[z]) /\ job.kind = "portalDone"
    BY <1>6, NextJobType DEF IInv, PortalSaved
  <2>2. job.p \in Players /\ (Leave(z, job.p) \/ UNCHANGED sessionToPlayer)
    BY <1>6, <2>1 DEF PortalSaved, DbJob
  <2> QED
    BY <1>1, <1>2, <2>2
<1>7. ASSUME NEW z \in Zones, Play(z)
      PROVE  UNCHANGED sessionToPlayer
  BY <1>7 DEF Play, EarnExp, MonsterKills, HandleRevive, HandlePortal, AutoSaveTick
<1>8. ASSUME NEW p \in Players, RunTask(p)
      PROVE  UNCHANGED sessionToPlayer
  BY <1>8 DEF RunTask, zoneVars
<1>9. ASSUME NEW s \in Sessions, Gateway(s)
      PROVE  UNCHANGED sessionToPlayer
  BY <1>9 DEF Gateway, SelectCharacter, RouteReady, LeaveCompleted, CloseSession, zoneVars
<1>10. CASE LoseGateway \/ Signal \/ Finish \/ UNCHANGED vars
  BY <1>1, <1>10 DEF LoseGateway, Signal, Finish, vars, zoneVars
<1> QED
  BY <1>1, <1>4, <1>5, <1>6, <1>7, <1>8, <1>9, <1>10 DEF Next, DbCallback

LEMMA OwnStep ==
  ASSUME IInv, Own, [Next]_vars
  PROVE  Own'
<1>1. TypeOK
  BY DEF IInv
<1>2. ASSUME NEW z \in Zones, ZoneJob(z) \/ DbCallback(z) \/ Play(z)
      PROVE  Own'
  <2>1. \A p \in Players : dbQueue'[p] \in Seq(OwnTask(p))
    BY <1>2, ZonePushes, PushesOwn
  <2>2. UNCHANGED jobQueue \/ \E kind \in {"spawned", "portalDone"} : NextJob(z, kind)
    <3>1. CASE ZoneJob(z)
      BY <3>1 DEF ZoneJob, HandleReadyToSpawn, HandleDisconnect, HandleGatewayLost, CloseZone,
                  ClearForShutdown, SaveAllAndClear
    <3>2. CASE DbCallback(z)
      BY <3>2 DEF DbCallback, SpawnLoaded, PortalSaved
    <3>3. CASE Play(z)
      BY <3>3 DEF Play, EarnExp, MonsterKills, HandleRevive, HandlePortal, AutoSaveTick
    <3> QED
      BY <1>2, <3>1, <3>2, <3>3
  <2>3. \A y \in Zones : jobQueue'[y] \in Seq(OwnJob)
    <3>1. CASE UNCHANGED jobQueue
      BY <3>1 DEF Own
    <3>2. CASE \E kind \in {"spawned", "portalDone"} : NextJob(z, kind)
      BY <3>2, TailOwn
    <3> QED
      BY <2>2, <3>1, <3>2
  <2> QED
    BY <2>1, <2>3, PlaysOwn DEF Own
<1>3. ASSUME NEW p \in Players, RunTask(p)
      PROVE  Own'
  BY <1>1, <1>3, RunOwn
<1>4. ASSUME UNCHANGED <<dbQueue, jobQueue>>
      PROVE  Own'
  BY <1>4, PlaysOwn DEF Own
<1>5. ASSUME NEW s \in Sessions, Gateway(s)
      PROVE  UNCHANGED <<dbQueue, jobQueue>>
  BY <1>5 DEF Gateway, SelectCharacter, RouteReady, LeaveCompleted, CloseSession, dbVars
<1>6. CASE LoseGateway \/ Signal \/ Finish \/ UNCHANGED vars
  BY <1>4, <1>6 DEF LoseGateway, Signal, Finish, vars, dbVars
<1> QED
  BY <1>2, <1>3, <1>4, <1>5, <1>6 DEF Next

\* The loss of the gateway and a signal forward no READY.
LEMMA LostComes ==
  ASSUME TypeOK, LoseGateway, NEW z \in Zones, NEW s \in Sessions, Coming(z, s)'
  PROVE  Coming(z, s)
<1> DEFINE e == Net("clear", NoSession)
<1>1. netQueue[z] \in Seq(NetJob)
  BY DEF TypeOK
<1>2. PICK k \in 0..Len(netQueue[z]) :
        /\ \A i \in (k + 1)..Len(netQueue[z]) : netQueue[z][i].kind \in {"ready", "bye"}
        /\ netQueue'[z] = Append(SubSeq(netQueue[z], 1, k), e)
  BY LostQueue
<1>3. e \in NetJob /\ e # Net("ready", s)
  BY DEF Net, NetJob
<1> HIDE DEF e
<1>4. PICK r : r = SubSeq(netQueue[z], 1, k)
  OBVIOUS
<1>5. r \in Seq(NetJob) /\ (Has(r, Net("ready", s)) => Has(netQueue[z], Net("ready", s)))
  BY <1>1, <1>2, <1>4, CutFacts
<1>6. Has(Append(r, e), Net("ready", s)) <=> Has(r, Net("ready", s))
  BY <1>3, <1>5, PostHas
<1> QED
  BY <1>2, <1>4, <1>5, <1>6 DEF Coming

LEMMA SignalComes ==
  ASSUME TypeOK, Signal, NEW z \in Zones, NEW s \in Sessions, Coming(z, s)'
  PROVE  Coming(z, s)
<1>1. PICK first \in NetJob, second \in NetJob :
        first = Net("close", NoSession) /\ second = Net("clearDone", NoSession)
  BY DEF Net, NetJob
<1>2. netQueue[z] \in Seq(NetJob) /\ netQueue'[z] = netQueue[z] \o <<first, second>>
  BY <1>1 DEF Signal, TypeOK
<1>3. first # Net("ready", s) /\ second # Net("ready", s)
  BY <1>1 DEF Net
<1>4. PICK q \in Seq(NetJob) : q = Append(netQueue[z], first)
  <2>1. Append(netQueue[z], first) \in Seq(NetJob)
    BY <1>2, AppendFacts
  <2> QED
    BY <2>1
<1>5. netQueue'[z] = Append(q, second)
  BY <1>2, <1>4
<1>6. Has(q, Net("ready", s)) <=> Has(netQueue[z], Net("ready", s))
  BY <1>2, <1>3, <1>4, PostHas
<1>7. Has(Append(q, second), Net("ready", s)) <=> Has(q, Net("ready", s))
  BY <1>3, PostHas
<1> QED
  BY <1>5, <1>6, <1>7 DEF Coming

\* A READY waits because it was forwarded.
LEMMA ComingByReady ==
  ASSUME IInv, SessionInv, [Next]_vars, NEW z \in Zones, NEW s \in Sessions, Coming(z, s)'
  PROVE  Coming(z, s) \/ (RouteReady(s) /\ route[s] = z)
<1>1. TypeOK
  BY DEF IInv
<1>2. CASE UNCHANGED netQueue
  BY <1>2 DEF Coming
<1>3. ASSUME NEW y \in Zones, ZoneJob(y)
      PROVE  Coming(z, s)
  <2>1. Takes(y)
    BY <1>3, ReadyTakes, DisconnectTakes, OtherJobTakes DEF ZoneJob
  <2>2. netQueue[y] \in Seq(NetJob) /\ netQueue[y] # <<>> /\ netQueue'[y] = Tail(netQueue[y])
    BY <1>1, <2>1 DEF Takes, TypeOK
  <2>3. CASE z = y
    <3>1. \A j : Has(netQueue'[y], j) => Has(netQueue[y], j)
      BY <2>2, TakeHas
    <3> QED
      BY <2>3, <3>1 DEF Coming
  <2>4. CASE z # y
    BY <2>1, <2>4 DEF Takes, Coming, TypeOK
  <2> QED
    BY <2>3, <2>4
<1>4. ASSUME NEW y \in Zones, DbCallback(y) \/ Play(y)
      PROVE  UNCHANGED netQueue
  BY <1>4 DEF DbCallback, SpawnLoaded, PortalSaved, Play, EarnExp, MonsterKills, HandleRevive,
              HandlePortal, AutoSaveTick
<1>5. ASSUME NEW p \in Players, RunTask(p)
      PROVE  UNCHANGED netQueue
  BY <1>5 DEF RunTask
<1>6. CASE Finish \/ UNCHANGED vars
  BY <1>2, <1>6 DEF Finish, vars
<1>7. ASSUME NEW t \in Sessions, Gateway(t)
      PROVE  Coming(z, s) \/ (RouteReady(s) /\ route[s] = z)
  <2>1. CASE SelectCharacter(t) \/ LeaveCompleted(t)
    BY <1>2, <2>1 DEF SelectCharacter, LeaveCompleted
  <2>2. CASE RouteReady(t)
    <3>1. PICK y \in Zones : y = route[t]
      BY <2>2 DEF RouteReady, SessionInv, Routed
    <3>2. Net("ready", t) \in NetJob /\ (Net("ready", t) = Net("ready", s) => s = t)
      BY DEF Net, NetJob
    <3>3. Posts(y, Net("ready", t))
      BY <2>2, <3>1 DEF RouteReady, Posts
    <3>4. Coming(z, s)' <=> Coming(z, s) \/ (z = y /\ Net("ready", t) = Net("ready", s))
      BY <1>1, <3>2, <3>3, PostsFacts
    <3> QED
      BY <2>2, <3>1, <3>2, <3>4
  <2>3. CASE CloseSession(t)
    <3>1. PICK y \in Zones : y = route[t]
      BY <2>3 DEF CloseSession, SessionInv, Routed
    <3>2. Net("bye", t) \in NetJob /\ Net("bye", t) # Net("ready", s)
      BY DEF Net, NetJob
    <3>3. Posts(y, Net("bye", t))
      BY <2>3, <3>1 DEF CloseSession, Posts
    <3> QED
      BY <1>1, <3>2, <3>3, PostsFacts
  <2> QED
    BY <1>7, <2>1, <2>2, <2>3 DEF Gateway
<1>8. CASE LoseGateway \/ Signal
  BY <1>1, <1>8, LostComes, SignalComes
<1> QED
  BY <1>2, <1>3, <1>4, <1>5, <1>6, <1>7, <1>8 DEF Next

\* A zone loads the character of a session because it takes its READY.
LEMMA LoadsByReady ==
  ASSUME IInv, [Next]_vars, NEW z \in Zones, NEW s \in Sessions, s \in spawnPending'[z]
  PROVE  s \in spawnPending[z] \/ (HandleReadyToSpawn(z) /\ Coming(z, s))
<1>1. TypeOK
  BY DEF IInv
<1>2. CASE UNCHANGED spawnPending
  BY <1>2
<1>3. ASSUME NEW y \in Zones, ZoneJob(y)
      PROVE  s \in spawnPending[z] \/ (HandleReadyToSpawn(z) /\ Coming(z, s))
  <2>1. CASE HandleReadyToSpawn(y)
    <3>1. /\ netQueue[y] # <<>> /\ Head(netQueue[y]) \in NetJob /\ Head(netQueue[y]).kind = "ready"
          /\ \/ spawnPending' = [spawnPending EXCEPT ![y] = @ \cup {Head(netQueue[y]).s}]
             \/ UNCHANGED spawnPending
      BY <1>1, <2>1, NextNetType DEF HandleReadyToSpawn, NextNet
    <3>2. Head(netQueue[y]) = Net("ready", Head(netQueue[y]).s)
      BY <3>1 DEF Net, NetJob
    <3>3. s \in spawnPending[z] \/ (z = y /\ s = Head(netQueue[y]).s)
      BY <1>1, <3>1 DEF TypeOK
    <3> QED
      BY <1>1, <2>1, <3>1, <3>2, <3>3, HeadComes
  <2>2. CASE HandleDisconnect(y)
    BY <1>1, <2>2 DEF HandleDisconnect, TypeOK
  <2>3. CASE HandleGatewayLost(y) \/ ClearForShutdown(y)
    BY <1>1, <2>3 DEF HandleGatewayLost, ClearForShutdown, SaveAllAndClear, TypeOK
  <2>4. CASE CloseZone(y)
    BY <2>4 DEF CloseZone
  <2> QED
    BY <1>3, <2>1, <2>2, <2>3, <2>4 DEF ZoneJob
<1>4. ASSUME NEW y \in Zones, DbCallback(y)
      PROVE  s \in spawnPending[z]
  <2>1. CASE SpawnLoaded(y)
    <3>1. PICK t : spawnPending' = [spawnPending EXCEPT ![y] = @ \ {t}]
      BY <2>1 DEF SpawnLoaded
    <3>2. spawnPending'[z] \subseteq spawnPending[z]
      BY <1>1, <3>1 DEF TypeOK
    <3> QED
      BY <3>2
  <2>2. CASE PortalSaved(y)
    BY <2>2 DEF PortalSaved
  <2> QED
    BY <1>4, <2>1, <2>2 DEF DbCallback
<1>5. ASSUME NEW y \in Zones, Play(y)
      PROVE  UNCHANGED spawnPending
  BY <1>5 DEF Play, EarnExp, MonsterKills, HandleRevive, HandlePortal, AutoSaveTick
<1>6. ASSUME NEW p \in Players, RunTask(p)
      PROVE  UNCHANGED spawnPending
  BY <1>6 DEF RunTask, zoneVars
<1>7. ASSUME NEW t \in Sessions, Gateway(t)
      PROVE  UNCHANGED spawnPending
  BY <1>7 DEF Gateway, SelectCharacter, RouteReady, LeaveCompleted, CloseSession, zoneVars
<1>8. CASE LoseGateway \/ Signal \/ Finish \/ UNCHANGED vars
  BY <1>2, <1>8 DEF LoseGateway, Signal, Finish, vars, zoneVars
<1> QED
  BY <1>2, <1>3, <1>4, <1>5, <1>6, <1>7, <1>8 DEF Next

\* It has the character because it loaded it.
LEMMA PlaysByLoad ==
  ASSUME IInv, [Next]_vars, NEW z \in Zones, NEW s \in Sessions, sessionToPlayer'[z][s] # NoPlayer
  PROVE  In(z, s)
<1>1. ASSUME ZoneStep
      PROVE  In(z, s)
  BY <1>1 DEF ZoneStep, In
<1>2. ASSUME UNCHANGED sessionToPlayer
      PROVE  In(z, s)
  BY <1>2 DEF In
<1>3. ASSUME NEW y \in Zones, ZoneJob(y)
      PROVE  In(z, s)
  <2>1. CASE HandleReadyToSpawn(y) \/ CloseZone(y)
    BY <1>2, <2>1 DEF HandleReadyToSpawn, CloseZone
  <2>2. CASE HandleDisconnect(y)
    <3>1. Head(netQueue[y]) # Net("ready", s)
      BY <2>2 DEF HandleDisconnect, NextNet, Net
    <3> QED
      BY <2>2, <3>1, DisconnectTakes DEF Takes, In
  <2>3. CASE HandleGatewayLost(y) \/ ClearForShutdown(y)
    <3>1. Head(netQueue[y]) # Net("ready", s)
      BY <2>3 DEF HandleGatewayLost, ClearForShutdown, NextNet, Net
    <3> QED
      BY <2>3, <3>1, OtherJobTakes DEF Takes, In
  <2> QED
    BY <1>3, <2>1, <2>2, <2>3 DEF ZoneJob
<1>4. ASSUME NEW y \in Zones, DbCallback(y)
      PROVE  ZoneStep
  BY <1>4, SpawnStays, PortalStays DEF DbCallback
<1>5. ASSUME NEW y \in Zones, Play(y)
      PROVE  UNCHANGED sessionToPlayer
  BY <1>5 DEF Play, EarnExp, MonsterKills, HandleRevive, HandlePortal, AutoSaveTick
<1>6. ASSUME NEW p \in Players, RunTask(p)
      PROVE  UNCHANGED sessionToPlayer
  BY <1>6 DEF RunTask, zoneVars
<1>7. ASSUME NEW t \in Sessions, Gateway(t)
      PROVE  UNCHANGED sessionToPlayer
  BY <1>7 DEF Gateway, SelectCharacter, RouteReady, LeaveCompleted, CloseSession, zoneVars
<1>8. CASE LoseGateway \/ Signal \/ Finish \/ UNCHANGED vars
  BY <1>2, <1>8 DEF LoseGateway, Signal, Finish, vars, zoneVars
<1> QED
  BY <1>1, <1>2, <1>3, <1>4, <1>5, <1>6, <1>7, <1>8 DEF Next

\* A session comes to a zone only when its READY is forwarded there.
LEMMA ComesByReady ==
  ASSUME IInv, SessionInv, [Next]_vars, NEW z \in Zones, NEW s \in Sessions, At(z, s)'
  PROVE  At(z, s) \/ (RouteReady(s) /\ route[s] = z)
BY ComingByReady, LoadsByReady, PlaysByLoad DEF At, In

\* A session the gateway or a zone still knows.
Live(s) == gate[s] = "play" \/ \E z \in Zones : At(z, s)

\* One session of a character at a time.
OneSession ==
  \A s, t \in Sessions : PlayerOf[s] = PlayerOf[t] /\ Live(s) /\ Live(t) => s = t

\* What a zone still has of a session keeps its character from being selected.
LEMMA LeavingHolds ==
  ASSUME TypeOK, SameCharacters, Own, NEW z \in Zones, NEW s \in Sessions, At(z, s)
  PROVE  Leaving(PlayerOf[s])
<1>1. CASE s \in spawnPending[z]
  BY <1>1 DEF Leaving
<1>2. CASE sessionToPlayer[z][s] # NoPlayer
  <2>1. sessionToPlayer[z][s] = PlayerOf[s] /\ Here(z, PlayerOf[s])
    BY <1>2 DEF Own, SameCharacters
  <2> QED
    BY <2>1 DEF Leaving
<1>3. CASE Coming(z, s)
  <2>1. \E i \in DOMAIN netQueue[z] : netQueue[z][i].s = s
    BY <1>3 DEF Coming, Has, Net
  <2> QED
    BY <2>1 DEF Leaving
<1> QED
  BY <1>1, <1>2, <1>3 DEF At, In

\* The gateway lets one session of a user play at a time.
LEMMA PlaysBySelection ==
  ASSUME [Next]_vars, TypeOK, NEW s \in Sessions, gate'[s] = "play"
  PROVE  gate[s] = "play" \/ SelectCharacter(s)
<1>1. CASE UNCHANGED gate
  BY <1>1
<1>2. ASSUME NEW z \in Zones, ZoneJob(z) \/ DbCallback(z)
      PROVE  UNCHANGED gate
  BY <1>2 DEF ZoneJob, HandleReadyToSpawn, HandleDisconnect, HandleGatewayLost, CloseZone,
              ClearForShutdown, SaveAllAndClear, DbCallback, SpawnLoaded, PortalSaved, gateVars
<1>3. ASSUME NEW z \in Zones, Play(z)
      PROVE  UNCHANGED gate
  BY <1>3 DEF Play, EarnExp, MonsterKills, HandleRevive, HandlePortal, AutoSaveTick, gateVars
<1>4. ASSUME NEW t \in Sessions, Gateway(t)
      PROVE  gate[s] = "play" \/ SelectCharacter(s)
  <2>1. CASE SelectCharacter(t)
    BY <2>1 DEF SelectCharacter, TypeOK
  <2>2. CASE RouteReady(t) \/ LeaveCompleted(t) \/ CloseSession(t)
    BY <2>2 DEF RouteReady, LeaveCompleted, CloseSession, TypeOK
  <2> QED
    BY <1>4, <2>1, <2>2 DEF Gateway
<1>5. ASSUME NEW p \in Players, RunTask(p)
      PROVE  UNCHANGED gate
  BY <1>5 DEF RunTask, gateVars
<1>6. CASE LoseGateway
  BY <1>6 DEF LoseGateway
<1>7. CASE Signal \/ Finish \/ UNCHANGED vars
  BY <1>7 DEF Signal, Finish, vars, gateVars
<1> QED
  BY <1>1, <1>2, <1>3, <1>4, <1>5, <1>6, <1>7 DEF Next

LEMMA OneSessionStep ==
  ASSUME ~SelectWhileLeaving, IInv, SessionInv, Own, OneSession, [Next]_vars
  PROVE  OneSession'
<1>1. TypeOK /\ SameCharacters
  BY DEF IInv
<1>2. ASSUME NEW s \in Sessions, Live(s)'
      PROVE  Live(s) \/ SelectCharacter(s)
  <2>1. CASE gate'[s] = "play"
    BY <1>1, <2>1, PlaysBySelection DEF Live
  <2>2. ASSUME NEW z \in Zones, At(z, s)'
        PROVE  Live(s)
    BY <2>2, ComesByReady DEF Live, RouteReady
  <2> QED
    BY <1>2, <2>1, <2>2 DEF Live
<1>3. ASSUME NEW s \in Sessions, SelectCharacter(s), NEW t \in Sessions, PlayerOf[s] = PlayerOf[t]
      PROVE  ~Live(t)
  <2>1. gate[t] # "play" /\ ~Leaving(PlayerOf[t])
    BY <1>3 DEF SelectCharacter
  <2> QED
    BY <1>1, <2>1, LeavingHolds DEF Live
<1>4. ASSUME NEW s \in Sessions, NEW t \in Sessions, SelectCharacter(s), SelectCharacter(t)
      PROVE  s = t
  BY <1>1, <1>4 DEF SelectCharacter, TypeOK
<1> QED
  BY <1>2, <1>3, <1>4 DEF OneSession

\* A client answers an order to load a map with one READY, and a character is selected
\* again when every zone is through with it.
OneAtATime == MaxReady <= 1 /\ ~SelectWhileLeaving

BodyInv == IInv /\ ShutdownInv /\ SessionInv /\ Own /\ OneSession

LEMMA BodyInvInit == Init => BodyInv
<1> SUFFICES ASSUME Init PROVE BodyInv
  OBVIOUS
<1>1. Own
  BY DEF Init, Own
<1>2. \A s \in Sessions : ~Live(s)
  BY DEF Init, Live, At, In, Coming, Has
<1> QED
  BY <1>1, <1>2, InitInvariant, InitShutdown, InitSession DEF BodyInv, OneSession

LEMMA BodyInvStep ==
  ASSUME OneAtATime, BodyInv, [Next]_vars
  PROVE  BodyInv'
<1>1. RouteIsCertain
  BY DEF OneAtATime, RouteIsCertain
<1>2. IInv'
  BY StepInvariant DEF BodyInv
<1>3. ShutdownInv' /\ SessionInv' /\ Own' /\ OneSession'
  BY <1>1, ShutdownStep, SessionStep, OwnStep, OneSessionStep DEF BodyInv, OneAtATime
<1> QED
  BY <1>2, <1>3 DEF BodyInv

\* One session of a character at a time is anywhere, in a zone, a queue or a task, when it is
\* selected only after the end of the one before.  OneBodyOnly follows.
THEOREM BodiesFollow ==
  ASSUME OneAtATime
  PROVE  Safety => []BodyInv
<1>1. BodyInv /\ [Next]_vars => BodyInv'
  BY BodyInvStep
<1> QED
  BY <1>1, BodyInvInit, PTL DEF Safety

\* A character is never in two zones, whatever loads, portal saves, disconnects and
\* losses of the gateway are under way, as long as it is selected again only when every
\* zone is through with its previous session, which Account.cpp's released binding is
\* meant to say and does not (run zone_unbound), and its client is READY once per order.
THEOREM OneBodyOnly ==
  ASSUME OneAtATime
  PROVE  Safety => []OneBody
<1>1. BodyInv => OneBody
  <2> SUFFICES ASSUME BodyInv, NEW p \in Players, NEW y \in Zones, NEW z \in Zones,
                      Here(y, p), Here(z, p)
               PROVE  y = z
    BY DEF OneBody
  <2>1. PICK s \in Sessions : s = players[y][p].sid
    BY DEF BodyInv, IInv, TypeOK, Here, Char
  <2>2. PICK t \in Sessions : t = players[z][p].sid
    BY DEF BodyInv, IInv, TypeOK, Here, Char
  <2>3. sessionToPlayer[y][s] = p /\ sessionToPlayer[z][t] = p /\ p # NoPlayer
    BY <2>1, <2>2, ZoneLifeAssumption DEF BodyInv, IInv, SameCharacters
  <2>4. PlayerOf[s] = p /\ PlayerOf[t] = p /\ At(y, s) /\ At(z, t)
    BY <2>3 DEF BodyInv, Own, At, In
  <2>5. s = t
    BY <2>4 DEF BodyInv, OneSession, Live
  <2> QED
    BY <2>4, <2>5 DEF BodyInv, SessionInv, OnePermission, OneAtATime
<1> QED
  BY <1>1, BodiesFollow, PTL

-----------------------------------------------------------------------------
\* Tasks and their answers: a portal save of a character, or the load of a session, is a
\* task that waits or an answer that waits, and only one of them.

Elems(q) == {q[i] : i \in DOMAIN q}

\* At most one of K is in q; what is of K is the last; behind what is of K are only loads.
OnceIn(q, K) == \A i, k \in DOMAIN q : q[i] \in K /\ q[k] \in K => i = k
OnlyLast(q, K) == \A i \in DOMAIN q : q[i] \in K => i = Len(q)
LoadsBehind(q, K) ==
  \A i, k \in DOMAIN q : q[i] \in K /\ i < k => q[k].kind = "load"

LEMMA TakeTask ==
  ASSUME NEW T, NEW q \in Seq(T), q # <<>>
  PROVE  LET r == Tail(q)
             e == Head(q)
         IN  /\ r \in Seq(T) /\ e \in T
             /\ Elems(q) = Elems(r) \cup {e}
             /\ \A K : OnceIn(q, K) => OnceIn(r, K) /\ (e \in K => Elems(r) \cap K = {})
             /\ \A K : OnlyLast(q, K) => OnlyLast(r, K) /\ (e \in K => Elems(r) = {})
             /\ \A K : LoadsBehind(q, K) =>
                  LoadsBehind(r, K) /\ (e \in K => \A t \in Elems(r) : t.kind = "load")
<1> DEFINE r == Tail(q)
           e == Head(q)
<1>1. /\ r \in Seq(T) /\ e \in T /\ e = q[1] /\ Len(q) \in Nat \ {0} /\ Len(r) = Len(q) - 1
      /\ DOMAIN q = 1..Len(q) /\ DOMAIN r = 1..(Len(q) - 1)
      /\ \A i \in DOMAIN r : r[i] = q[i + 1]
  OBVIOUS
<1> HIDE DEF r, e
<1>2. /\ 1 \in DOMAIN q /\ \A i \in DOMAIN q : i \in Nat
      /\ \A i \in DOMAIN r : i \in Nat /\ i + 1 \in DOMAIN q /\ 1 < i + 1 /\ r[i] = q[i + 1]
      /\ \A i \in DOMAIN q : i = 1 \/ (i - 1 \in DOMAIN r /\ r[i - 1] = q[i])
  BY <1>1
<1>3. Elems(q) = Elems(r) \cup {e}
  BY <1>1, <1>2 DEF Elems
<1>4. ASSUME NEW K, OnceIn(q, K)
      PROVE  OnceIn(r, K) /\ (e \in K => Elems(r) \cap K = {})
  <2>1. OnceIn(r, K)
    BY <1>2, <1>4 DEF OnceIn
  <2>2. ASSUME e \in K, NEW i \in DOMAIN r, r[i] \in K
        PROVE  FALSE
    <3>1. i + 1 \in DOMAIN q /\ 1 \in DOMAIN q /\ q[i + 1] \in K /\ q[1] \in K
      BY <1>1, <1>2, <2>2
    <3>2. 1 = i + 1
      BY <1>4, <3>1 DEF OnceIn
    <3> QED
      BY <1>2, <3>2
  <2> QED
    BY <2>1, <2>2 DEF Elems
<1>5. ASSUME NEW K, OnlyLast(q, K)
      PROVE  OnlyLast(r, K) /\ (e \in K => Elems(r) = {})
  <2>1. OnlyLast(r, K)
    BY <1>1, <1>2, <1>5 DEF OnlyLast
  <2>2. e \in K => DOMAIN r = {}
    BY <1>1, <1>2, <1>5 DEF OnlyLast
  <2> QED
    BY <2>1, <2>2 DEF Elems
<1>6. ASSUME NEW K, LoadsBehind(q, K)
      PROVE  LoadsBehind(r, K) /\ (e \in K => \A t \in Elems(r) : t.kind = "load")
  <2>1. LoadsBehind(r, K)
    BY <1>2, <1>6 DEF LoadsBehind
  <2>2. ASSUME e \in K, NEW i \in DOMAIN r
        PROVE  r[i].kind = "load"
    BY <1>1, <1>2, <1>6, <2>2 DEF LoadsBehind
  <2> QED
    BY <2>1, <2>2 DEF Elems
<1> QED
  BY <1>1, <1>3, <1>4, <1>5, <1>6 DEF r, e

LEMMA AddTask ==
  ASSUME NEW T, NEW q \in Seq(T), NEW e \in T
  PROVE  LET r == Append(q, e)
         IN  /\ r \in Seq(T)
             /\ Elems(r) = Elems(q) \cup {e}
             /\ \A K : (e \notin K /\ OnceIn(q, K)) \/ Elems(q) \cap K = {} => OnceIn(r, K)
             /\ \A K : Elems(q) \cap K = {} => OnlyLast(r, K)
             /\ \A K : \/ LoadsBehind(q, K) /\ e.kind = "load"
                       \/ Elems(q) \cap K = {}
                       => LoadsBehind(r, K)
<1> DEFINE r == Append(q, e)
           n == Len(q)
<1>1. /\ r \in Seq(T) /\ n \in Nat /\ Len(r) = n + 1
      /\ DOMAIN q = 1..n /\ DOMAIN r = 1..(n + 1)
      /\ \A i \in DOMAIN q : r[i] = q[i]
      /\ r[n + 1] = e
  OBVIOUS
<1> HIDE DEF r, n
<1>2. /\ n + 1 \in DOMAIN r /\ r[n + 1] = e
      /\ \A i \in DOMAIN q : i \in DOMAIN r /\ r[i] = q[i] /\ i < n + 1
      /\ \A i \in DOMAIN r : i = n + 1 \/ (i \in DOMAIN q /\ r[i] = q[i] /\ i < n + 1)
      /\ ~(n + 1 < n + 1) /\ \A i \in DOMAIN q : ~(n + 1 < i)
  BY <1>1
<1>3. Elems(r) = Elems(q) \cup {e}
  BY <1>2 DEF Elems
<1>4. ASSUME NEW K, (e \notin K /\ OnceIn(q, K)) \/ Elems(q) \cap K = {}
      PROVE  OnceIn(r, K)
  BY <1>2, <1>4 DEF OnceIn, Elems
<1>5. ASSUME NEW K, Elems(q) \cap K = {}
      PROVE  OnlyLast(r, K)
  BY <1>1, <1>2, <1>5 DEF OnlyLast, Elems
<1>6. ASSUME NEW K, (LoadsBehind(q, K) /\ e.kind = "load") \/ Elems(q) \cap K = {}
      PROVE  LoadsBehind(r, K)
  BY <1>2, <1>6 DEF LoadsBehind, Elems
<1> QED
  BY <1>1, <1>3, <1>4, <1>5, <1>6 DEF r

\* One of K waits for character p, or one answer of J waits for a zone, or neither.
OneInFlight(p, K, J) ==
  /\ OnceIn(dbQueue[p], K)
  /\ \A z \in Zones : OnceIn(jobQueue[z], J)
  /\ \A y, z \in Zones : y = z \/ Elems(jobQueue[y]) \cap J = {} \/ Elems(jobQueue[z]) \cap J = {}
  /\ Elems(dbQueue[p]) \cap K = {} \/ \A z \in Zones : Elems(jobQueue[z]) \cap J = {}

NoneInFlight(p, K, J) ==
  Elems(dbQueue[p]) \cap K = {} /\ \A z \in Zones : Elems(jobQueue[z]) \cap J = {}

\* A zone takes an answer: if it is the one, nothing is left in flight.
LEMMA FlightTaken ==
  ASSUME TypeOK, NEW p \in Players, NEW K, NEW J, OneInFlight(p, K, J),
         NEW z \in Zones, NEW kind, NextJob(z, kind), UNCHANGED dbQueue
  PROVE  /\ OneInFlight(p, K, J)'
         /\ Head(jobQueue[z]) \in J => NoneInFlight(p, K, J)'
         /\ Head(jobQueue[z]) \in Elems(jobQueue[z])
         /\ \A y \in Zones : Elems(jobQueue'[y]) \subseteq Elems(jobQueue[y])
<1>1. /\ jobQueue[z] \in Seq(DbJob) /\ jobQueue[z] # <<>>
      /\ jobQueue'[z] = Tail(jobQueue[z])
      /\ \A y \in Zones : y # z => jobQueue'[y] = jobQueue[y]
  BY DEF NextJob, TypeOK
<1>2. PICK e : e = Head(jobQueue[z])
  OBVIOUS
<1>3. /\ Elems(jobQueue[z]) = Elems(jobQueue'[z]) \cup {e}
      /\ OnceIn(jobQueue[z], J) => OnceIn(jobQueue'[z], J) /\ (e \in J => Elems(jobQueue'[z]) \cap J = {})
  BY <1>1, <1>2, TakeTask
<1>4. \A y \in Zones : Elems(jobQueue'[y]) \subseteq Elems(jobQueue[y])
  BY <1>1, <1>3
<1>5. OneInFlight(p, K, J)'
  BY <1>1, <1>3, <1>4 DEF OneInFlight
<1>6. ASSUME e \in J
      PROVE  NoneInFlight(p, K, J)'
  <2>1. \A y \in Zones : Elems(jobQueue'[y]) \cap J = {}
    BY <1>1, <1>3, <1>6 DEF OneInFlight
  <2>2. Elems(dbQueue[p]) \cap K = {}
    BY <1>3, <1>6 DEF OneInFlight
  <2> QED
    BY <2>1, <2>2 DEF NoneInFlight
<1> QED
  BY <1>2, <1>3, <1>4, <1>5, <1>6

\* A zone pushes a task: one of K when none is in flight.
LEMMA FlightPushed ==
  ASSUME TypeOK, NEW p \in Players, NEW K, NEW J, OneInFlight(p, K, J), UNCHANGED jobQueue,
         \/ dbQueue'[p] = dbQueue[p]
         \/ \E t \in Task : /\ dbQueue'[p] = Append(dbQueue[p], t)
                            /\ t \in K => NoneInFlight(p, K, J)
  PROVE  OneInFlight(p, K, J)'
<1>1. CASE dbQueue'[p] = dbQueue[p]
  BY <1>1 DEF OneInFlight
<1>2. ASSUME NEW t \in Task, dbQueue'[p] = Append(dbQueue[p], t), t \in K => NoneInFlight(p, K, J)
      PROVE  OneInFlight(p, K, J)'
  <2>1. dbQueue[p] \in Seq(Task)
    BY DEF TypeOK
  <2>2. /\ Elems(dbQueue'[p]) = Elems(dbQueue[p]) \cup {t}
        /\ (t \notin K /\ OnceIn(dbQueue[p], K)) \/ Elems(dbQueue[p]) \cap K = {} => OnceIn(dbQueue'[p], K)
    BY <1>2, <2>1, AddTask
  <2>3. CASE t \in K
    BY <1>2, <2>2, <2>3 DEF OneInFlight, NoneInFlight
  <2>4. CASE t \notin K
    BY <2>2, <2>4 DEF OneInFlight
  <2> QED
    BY <2>3, <2>4
<1> QED
  BY <1>1, <1>2

\* What a task that runs says to the zone that pushed it.
Answers(j, p, task, ok) ==
  /\ j.p = p /\ j.s = task.s /\ j.ok = ok
  /\ \/ task.kind = "load" /\ j.kind = "spawned" /\ j.now = row[p].now
     \/ task.kind = "portal" /\ j.kind = "portalDone" /\ j.to = task.to

\* The first task of p runs, and a job is posted, or none.
Runs(p, task, ok) ==
  /\ dbQueue[p] # <<>> /\ task = Head(dbQueue[p])
  /\ dbQueue' = [dbQueue EXCEPT ![p] = Tail(@)]
  /\ ok \/ task.kind \in FailKinds
  /\ row' = IF ok /\ task.kind # "load"
            THEN [row EXCEPT ![p] = [now |-> task.now, zone |-> task.to]]
            ELSE row
  /\ \/ task.kind \notin {"load", "portal"} /\ UNCHANGED jobQueue
     \/ \E j \in DbJob : /\ jobQueue' = [jobQueue EXCEPT ![task.z] = Append(@, j)]
                         /\ Answers(j, p, task, ok)

LEMMA RunTaskRuns ==
  ASSUME TypeOK, Own, NEW p \in Players, RunTask(p)
  PROVE  \E task \in OwnTask(p), ok \in BOOLEAN : Runs(p, task, ok)
<1>1. dbQueue[p] \in Seq(OwnTask(p)) /\ dbQueue[p] # <<>>
  BY DEF Own, RunTask
<1>2. PICK task \in OwnTask(p) : task = Head(dbQueue[p]) /\ task = NextTask(p)
  BY <1>1 DEF NextTask
<1>3. PICK ok \in {TRUE} \cup (IF task.kind \in FailKinds THEN {FALSE} ELSE {}) :
        /\ row' = IF ok /\ task.kind # "load"
                  THEN [row EXCEPT ![p] = [now |-> task.now, zone |-> task.to]]
                  ELSE row
        /\ jobQueue' = [jobQueue EXCEPT ![task.z] = @ \o Callback(p, task, ok)]
        /\ dbQueue' = [dbQueue EXCEPT ![p] = Tail(@)]
  BY <1>2 DEF RunTask, OtherTasks
<1>4. ok \in BOOLEAN /\ (ok \/ task.kind \in FailKinds)
  BY <1>3
<1>5. task \in Task /\ task.z \in Zones /\ row[p].now \in State /\ jobQueue \in [Zones -> Seq(DbJob)]
  BY <1>2 DEF OwnTask, Task, TypeOK
<1>6. ASSUME NEW j \in DbJob, Callback(p, task, ok) = <<j>>
      PROVE  jobQueue' = [jobQueue EXCEPT ![task.z] = Append(@, j)]
  <2>1. jobQueue[task.z] \o <<j>> = Append(jobQueue[task.z], j)
    BY <1>5
  <2> QED
    BY <1>3, <1>6, <2>1
<1>7. CASE task.kind = "load"
  <2>1. PICK j : j = [kind |-> "spawned", s |-> task.s, p |-> p, ok |-> ok, now |-> row[p].now]
    OBVIOUS
  <2>2. j \in DbJob /\ Callback(p, task, ok) = <<j>>
    BY <1>4, <1>5, <1>7, <2>1 DEF Task, DbJob, Callback
  <2>3. Answers(j, p, task, ok)
    BY <1>7, <2>1 DEF Answers
  <2> QED
    BY <1>1, <1>2, <1>3, <1>4, <1>6, <2>2, <2>3 DEF Runs
<1>8. CASE task.kind = "portal"
  <2>1. PICK j : j = [kind |-> "portalDone", s |-> task.s, p |-> p, ok |-> ok, to |-> task.to]
    OBVIOUS
  <2>2. j \in DbJob /\ Callback(p, task, ok) = <<j>>
    BY <1>4, <1>5, <1>8, <2>1 DEF Task, DbJob, Callback
  <2>3. Answers(j, p, task, ok)
    BY <1>8, <2>1 DEF Answers
  <2> QED
    BY <1>1, <1>2, <1>3, <1>4, <1>6, <2>2, <2>3 DEF Runs
<1>9. CASE task.kind \notin {"load", "portal"}
  <2>1. Callback(p, task, ok) = <<>>
    BY <1>9 DEF Callback
  <2>2. UNCHANGED jobQueue
    <3>1. jobQueue[task.z] \o <<>> = jobQueue[task.z]
      BY <1>5
    <3> QED
      BY <1>3, <1>5, <2>1, <3>1
  <2> QED
    BY <1>1, <1>2, <1>3, <1>4, <1>9, <2>2 DEF Runs
<1> QED
  BY <1>7, <1>8, <1>9

\* A task runs: its answer takes its place.
LEMMA FlightRuns ==
  ASSUME TypeOK, NEW p \in Players, NEW K, NEW J, OneInFlight(p, K, J),
         NEW r \in Players, NEW task \in Task, NEW ok, Runs(r, task, ok),
         \A j \in DbJob : Answers(j, r, task, ok) /\ j \in J => r = p /\ task \in K
  PROVE  OneInFlight(p, K, J)'
<1>1. /\ dbQueue[r] \in Seq(Task) /\ dbQueue[r] # <<>> /\ task = Head(dbQueue[r])
      /\ dbQueue'[r] = Tail(dbQueue[r])
      /\ r # p => dbQueue'[p] = dbQueue[p]
      /\ task.z \in Zones
  BY DEF Runs, TypeOK, Task
<1>2. /\ Elems(dbQueue[r]) = Elems(dbQueue'[r]) \cup {task}
      /\ OnceIn(dbQueue[r], K) => OnceIn(dbQueue'[r], K) /\ (task \in K => Elems(dbQueue'[r]) \cap K = {})
  BY <1>1, TakeTask
<1>3. OnceIn(dbQueue'[p], K) /\ Elems(dbQueue'[p]) \subseteq Elems(dbQueue[p])
  BY <1>1, <1>2 DEF OneInFlight
<1>4. CASE UNCHANGED jobQueue
  BY <1>3, <1>4 DEF OneInFlight
<1>5. ASSUME NEW j \in DbJob, Answers(j, r, task, ok),
             jobQueue' = [jobQueue EXCEPT ![task.z] = Append(@, j)]
      PROVE  OneInFlight(p, K, J)'
  <2>1. PICK z \in Zones : z = task.z
    BY <1>1
  <2>2. /\ jobQueue[z] \in Seq(DbJob) /\ jobQueue'[z] = Append(jobQueue[z], j)
        /\ \A y \in Zones : y # z => jobQueue'[y] = jobQueue[y]
    BY <1>5, <2>1 DEF TypeOK
  <2>3. /\ Elems(jobQueue'[z]) = Elems(jobQueue[z]) \cup {j}
        /\ (j \notin J /\ OnceIn(jobQueue[z], J)) \/ Elems(jobQueue[z]) \cap J = {} => OnceIn(jobQueue'[z], J)
    BY <2>2, AddTask
  <2>4. CASE j \notin J
    BY <1>3, <2>2, <2>3, <2>4 DEF OneInFlight
  <2>5. CASE j \in J
    <3>1. r = p /\ task \in K
      BY <1>5, <2>5
    <3>2. \A y \in Zones : Elems(jobQueue[y]) \cap J = {}
      BY <1>2, <3>1 DEF OneInFlight
    <3>3. Elems(dbQueue'[p]) \cap K = {}
      BY <1>2, <3>1 DEF OneInFlight
    <3>4. \A y \in Zones : OnceIn(jobQueue'[y], J) /\ (y = z \/ Elems(jobQueue'[y]) \cap J = {})
      BY <2>2, <2>3, <3>2 DEF OneInFlight
    <3> QED
      BY <1>3, <3>3, <3>4 DEF OneInFlight
  <2> QED
    BY <2>4, <2>5
<1> QED
  BY <1>4, <1>5 DEF Runs

-----------------------------------------------------------------------------
\* A character whose portal save is awaited.

PortalTasks == {t \in Task : t.kind = "portal"}
PortalAnswers(p) == {j \in DbJob : j.kind = "portalDone" /\ j.p = p}

\* The portal save of p is awaited in zone z: p can come in nowhere meanwhile.
Awaits(p, z) ==
  \A s \in Sessions : PlayerOf[s] = p =>
    /\ \A y \in Zones : At(y, s) => sessionToPlayer[z][s] = p
    /\ gate[s] = "play" => mayReady[s] = 0 /\ leaveAck[s] = NoZone

\* It was session s that took the portal.
AwaitedBy(p, z, s) ==
  /\ p \in portalPending[z]
  /\ \A t \in Sessions, y \in Zones : PlayerOf[t] = p /\ At(y, t) => t = s

PortalInv ==
  \A p \in Players :
    /\ OneInFlight(p, PortalTasks, PortalAnswers(p))
    /\ OnlyLast(dbQueue[p], PortalTasks)
    /\ \A t \in Elems(dbQueue[p]) \cap PortalTasks : AwaitedBy(p, t.z, t.s)
    /\ \A z \in Zones : \A j \in Elems(jobQueue[z]) \cap PortalAnswers(p) : AwaitedBy(p, z, j.s)
    /\ \A z \in Zones : p \in portalPending[z] => Awaits(p, z)

\* Who is in a zone is there under its session.
LEMMA HereAt ==
  ASSUME IInv, Own, NEW z \in Zones, NEW p \in Players, Here(z, p)
  PROVE  \E s \in Sessions : /\ s = players[z][p].sid /\ PlayerOf[s] = p
                             /\ sessionToPlayer[z][s] = p /\ p # NoPlayer /\ At(z, s)
<1>1. PICK s \in Sessions : s = players[z][p].sid
  BY DEF IInv, TypeOK, Here, Char
<1>2. sessionToPlayer[z][s] = p /\ p # NoPlayer
  BY <1>1, ZoneLifeAssumption DEF IInv, SameCharacters
<1> QED
  BY <1>1, <1>2 DEF Own, At, In

\* A zone pushes nothing for a character whose portal save is awaited somewhere.
LEMMA QuietWhileAwaited ==
  ASSUME OneAtATime, BodyInv, PortalInv,
         NEW z \in Zones, NEW p \in Players, NEW t \in Task, Pushed(z, p, t)
  PROVE  /\ \A y \in Zones : p \notin portalPending[y]
         /\ NoneInFlight(p, PortalTasks, PortalAnswers(p))
<1>1. OnePermission
  BY DEF OneAtATime, BodyInv, SessionInv
<1>2. ASSUME NEW y \in Zones, p \in portalPending[y]
      PROVE  FALSE
  <2>1. Awaits(p, y) /\ p # NoPlayer
    BY <1>2, ZoneLifeAssumption DEF PortalInv
  <2>2. CASE PushesSave(z, p, t) \/ PushesPortal(z, p, t)
    <3>1. Here(z, p) /\ p \notin portalPending[z]
      BY <2>2 DEF PushesSave, PushesPortal
    <3>2. PICK s \in Sessions : PlayerOf[s] = p /\ At(z, s)
      BY <3>1, HereAt DEF BodyInv
    <3>3. At(y, s)
      BY <2>1, <3>2 DEF Awaits, At, In
    <3>4. y = z
      BY <1>1, <3>2, <3>3 DEF OnePermission
    <3> QED
      BY <1>2, <3>1, <3>4
  <2>3. CASE PushesLoad(z, p, t)
    <3>1. PICK s \in Sessions : Coming(z, s) /\ PlayerOf[s] = p
      BY <2>3 DEF PushesLoad
    <3>2. At(z, s)
      BY <3>1 DEF At
    <3>3. In(y, s)
      BY <2>1, <3>1, <3>2 DEF Awaits, In
    <3>4. y = z
      BY <1>1, <3>2, <3>3 DEF OnePermission, At
    <3> QED
      BY <1>1, <3>1, <3>3, <3>4 DEF OnePermission
  <2> QED
    BY <2>2, <2>3 DEF Pushed
<1>3. NoneInFlight(p, PortalTasks, PortalAnswers(p))
  <2>1. ASSUME NEW e \in Elems(dbQueue[p]) \cap PortalTasks
        PROVE  FALSE
    <3>1. AwaitedBy(p, e.z, e.s) /\ e.z \in Zones
      BY DEF PortalInv, PortalTasks, Task
    <3> QED
      BY <1>2, <3>1 DEF AwaitedBy
  <2>2. ASSUME NEW y \in Zones, NEW e \in Elems(jobQueue[y]) \cap PortalAnswers(p)
        PROVE  FALSE
    <3>1. AwaitedBy(p, y, e.s)
      BY DEF PortalInv
    <3> QED
      BY <1>2, <3>1 DEF AwaitedBy
  <2> QED
    BY <2>1, <2>2 DEF NoneInFlight
<1> QED
  BY <1>2, <1>3

\* The portal alone makes a zone await, and the answer alone ends it.
LEMMA AwaitingChanges ==
  ASSUME TypeOK, [Next]_vars, NEW z \in Zones, NEW p \in Players
  PROVE  /\ p \in portalPending'[z] => p \in portalPending[z] \/ \E dest \in Zones : HandlePortal(z, p, dest)
         /\ p \in portalPending[z] => p \in portalPending'[z] \/ (PortalSaved(z) /\ Head(jobQueue[z]).p = p)
<1>1. CASE UNCHANGED portalPending
  BY <1>1
<1>2. ASSUME NEW y \in Zones, ZoneJob(y)
      PROVE  UNCHANGED portalPending
  BY <1>2 DEF ZoneJob, HandleReadyToSpawn, HandleDisconnect, HandleGatewayLost, CloseZone,
              ClearForShutdown, SaveAllAndClear
<1>3. ASSUME NEW y \in Zones, SpawnLoaded(y)
      PROVE  UNCHANGED portalPending
  BY <1>3 DEF SpawnLoaded
<1>4. ASSUME NEW y \in Zones, PortalSaved(y)
      PROVE  portalPending' = [portalPending EXCEPT ![y] = @ \ {Head(jobQueue[y]).p}]
  BY <1>4 DEF PortalSaved
<1>5. ASSUME NEW y \in Zones, Play(y)
      PROVE  \/ UNCHANGED portalPending
             \/ \E r \in Players, dest \in Zones :
                  HandlePortal(y, r, dest) /\ portalPending' = [portalPending EXCEPT ![y] = @ \cup {r}]
  BY <1>5 DEF Play, EarnExp, MonsterKills, HandleRevive, HandlePortal, AutoSaveTick
<1>6. ASSUME NEW r \in Players, RunTask(r)
      PROVE  UNCHANGED portalPending
  BY <1>6 DEF RunTask, zoneVars
<1>7. ASSUME NEW s \in Sessions, Gateway(s)
      PROVE  UNCHANGED portalPending
  BY <1>7 DEF Gateway, SelectCharacter, RouteReady, LeaveCompleted, CloseSession, zoneVars
<1>8. CASE LoseGateway \/ Signal \/ Finish \/ UNCHANGED vars
  BY <1>1, <1>8 DEF LoseGateway, Signal, Finish, vars, zoneVars
<1>9. ASSUME NEW y \in Zones, PortalSaved(y)
      PROVE  /\ p \in portalPending'[z] => p \in portalPending[z]
             /\ p \in portalPending[z] => p \in portalPending'[z] \/ (PortalSaved(z) /\ Head(jobQueue[z]).p = p)
  <2>1. CASE y = z
    BY <1>4, <1>9, <2>1 DEF TypeOK
  <2>2. CASE y # z
    BY <1>4, <1>9, <2>2 DEF TypeOK
  <2> QED
    BY <2>1, <2>2
<1>10. ASSUME NEW y \in Zones, Play(y)
       PROVE  /\ p \in portalPending'[z] => p \in portalPending[z] \/ \E dest \in Zones : HandlePortal(z, p, dest)
              /\ p \in portalPending[z] => p \in portalPending'[z]
  <2>1. CASE UNCHANGED portalPending
    BY <2>1
  <2>2. ASSUME NEW r \in Players, NEW dest \in Zones, HandlePortal(y, r, dest),
               portalPending' = [portalPending EXCEPT ![y] = @ \cup {r}]
        PROVE  /\ p \in portalPending'[z] => p \in portalPending[z] \/ HandlePortal(z, p, dest)
               /\ p \in portalPending[z] => p \in portalPending'[z]
    <3>1. portalPending'[z] = portalPending[z] \/ (y = z /\ portalPending'[z] = portalPending[z] \cup {r})
      BY <2>2 DEF TypeOK
    <3> QED
      BY <2>2, <3>1
  <2> QED
    BY <1>5, <1>10, <2>1, <2>2
<1> QED
  BY <1>1, <1>2, <1>3, <1>6, <1>7, <1>8, <1>9, <1>10 DEF Next, DbCallback

\* The client may be READY after it was selected or has left a zone, and it leaves through
\* a portal.
LEMMA PermissionChanges ==
  ASSUME TypeOK, [Next]_vars, NEW s \in Sessions
  PROVE  /\ mayReady'[s] # 0 => mayReady[s] # 0 \/ SelectCharacter(s) \/ LeaveCompleted(s)
         /\ leaveAck'[s] # NoZone =>
              \/ leaveAck'[s] = leaveAck[s]
              \/ \E z \in Zones : /\ PortalSaved(z) /\ PortalLeaves(z, Head(jobQueue[z]))
                                  /\ Head(jobQueue[z]).s = s
                                  /\ leaveAck'[s] = Head(jobQueue[z]).to
         /\ route'[s] = route[s] \/ SelectCharacter(s) \/ LeaveCompleted(s)
<1>1. CASE UNCHANGED <<mayReady, leaveAck, route>>
  BY <1>1
<1>2. ASSUME NEW z \in Zones, ZoneJob(z) \/ SpawnLoaded(z)
      PROVE  UNCHANGED <<mayReady, leaveAck, route>>
  BY <1>2 DEF ZoneJob, HandleReadyToSpawn, HandleDisconnect, HandleGatewayLost, CloseZone,
              ClearForShutdown, SaveAllAndClear, SpawnLoaded, gateVars
<1>3. ASSUME NEW z \in Zones, PortalSaved(z)
      PROVE  /\ UNCHANGED <<mayReady, route>>
             /\ leaveAck'[s] # NoZone =>
                  \/ leaveAck'[s] = leaveAck[s]
                  \/ /\ PortalLeaves(z, Head(jobQueue[z]))
                     /\ Head(jobQueue[z]).s = s
                     /\ leaveAck'[s] = Head(jobQueue[z]).to
  <2>1. /\ UNCHANGED <<mayReady, route>>
        /\ \/ UNCHANGED leaveAck
           \/ /\ PortalLeaves(z, Head(jobQueue[z]))
              /\ leaveAck' = [leaveAck EXCEPT ![Head(jobQueue[z]).s] = Head(jobQueue[z]).to]
    BY <1>3 DEF PortalSaved
  <2> QED
    BY <2>1 DEF TypeOK
<1>4. ASSUME NEW z \in Zones, Play(z)
      PROVE  UNCHANGED <<mayReady, leaveAck, route>>
  BY <1>4 DEF Play, EarnExp, MonsterKills, HandleRevive, HandlePortal, AutoSaveTick, gateVars
<1>5. ASSUME NEW p \in Players, RunTask(p)
      PROVE  UNCHANGED <<mayReady, leaveAck, route>>
  BY <1>5 DEF RunTask, gateVars
<1>6. ASSUME NEW t \in Sessions, Gateway(t)
      PROVE  /\ mayReady'[s] # 0 => mayReady[s] # 0 \/ SelectCharacter(s) \/ LeaveCompleted(s)
             /\ leaveAck'[s] # NoZone => leaveAck'[s] = leaveAck[s]
             /\ route'[s] = route[s] \/ SelectCharacter(s) \/ LeaveCompleted(s)
  <2>1. CASE SelectCharacter(t)
    BY <2>1 DEF SelectCharacter, TypeOK
  <2>2. CASE RouteReady(t)
    BY <2>2 DEF RouteReady, TypeOK
  <2>3. CASE LeaveCompleted(t)
    BY <2>3 DEF LeaveCompleted, TypeOK
  <2>4. CASE CloseSession(t)
    BY <2>4 DEF CloseSession
  <2> QED
    BY <1>6, <2>1, <2>2, <2>3, <2>4 DEF Gateway
<1>7. CASE LoseGateway
  BY <1>7 DEF LoseGateway
<1>8. CASE Signal \/ Finish \/ UNCHANGED vars
  BY <1>1, <1>8 DEF Signal, Finish, vars, gateVars
<1> QED
  BY <1>1, <1>2, <1>3, <1>4, <1>5, <1>6, <1>7, <1>8 DEF Next, DbCallback

\* While the save is awaited nobody of the character comes anywhere.
LEMMA AwaitedComesNowhere ==
  ASSUME IInv, SessionInv, [Next]_vars, NEW p \in Players, NEW z \in Zones, Awaits(p, z),
         NEW s \in Sessions, PlayerOf[s] = p, NEW y \in Zones
  PROVE  /\ At(y, s)' => At(y, s)
         /\ Coming(y, s)' => Coming(y, s)
<1>1. ~RouteReady(s)
  BY DEF RouteReady, Awaits
<1> QED
  BY <1>1, ComesByReady, ComingByReady

\* Awaiting goes on until the answer.
LEMMA AwaitsStays ==
  ASSUME OneAtATime, BodyInv, BodyInv', [Next]_vars, NEW p \in Players, NEW z \in Zones,
         p \in portalPending[z], p \in portalPending'[z], Awaits(p, z)
  PROVE  Awaits(p, z)'
<1> SUFFICES ASSUME NEW s \in Sessions, PlayerOf[s] = p
             PROVE  /\ \A y \in Zones : At(y, s)' => sessionToPlayer'[z][s] = p
                    /\ gate'[s] = "play" => mayReady'[s] = 0 /\ leaveAck'[s] = NoZone
  BY DEF Awaits
<1>1. TypeOK /\ SameCharacters /\ p # NoPlayer
  BY ZoneLifeAssumption DEF BodyInv, IInv
<1>2. ~SelectCharacter(s)
  BY DEF SelectCharacter, OneAtATime, Leaving
<1>3. ASSUME NEW y \in Zones, At(y, s)'
      PROVE  sessionToPlayer'[z][s] = p
  <2>1. At(y, s) /\ sessionToPlayer[z][s] = p
    BY <1>3, AwaitedComesNowhere DEF BodyInv, Awaits
  <2>2. y = z
    BY <1>1, <2>1 DEF OneAtATime, BodyInv, SessionInv, OnePermission, At, In
  <2>3. ~Coming(z, s) /\ s \notin spawnPending[z]
    BY <1>1, <2>1 DEF OneAtATime, BodyInv, SessionInv, OnePermission, At, In, IInv, LoadingIsNotPlaying
  <2>4. ~Coming(z, s)' /\ s \notin spawnPending'[z]
    BY <2>3, AwaitedComesNowhere, LoadsByReady DEF BodyInv
  <2>5. sessionToPlayer'[z][s] # NoPlayer
    BY <1>3, <2>2, <2>4 DEF At, In
  <2> QED
    BY <2>5 DEF BodyInv, Own
<1>4. ASSUME gate'[s] = "play"
      PROVE  mayReady'[s] = 0 /\ leaveAck'[s] = NoZone
  <2>1. gate[s] = "play"
    BY <1>1, <1>2, <1>4, PlaysBySelection
  <2>2. mayReady[s] = 0 /\ leaveAck[s] = NoZone
    BY <2>1 DEF Awaits
  <2>3. mayReady'[s] = 0
    BY <1>1, <1>2, <2>2, PermissionChanges DEF LeaveCompleted
  <2>4. ASSUME NEW y \in Zones, PortalSaved(y), PortalLeaves(y, Head(jobQueue[y])),
               Head(jobQueue[y]).s = s
        PROVE  FALSE
    <3>1. PICK job \in DbJob : job = Head(jobQueue[y]) /\ job.kind = "portalDone"
      BY <1>1, <2>4, NextJobType DEF PortalSaved
    <3>2. PICK r \in Players : r = job.p
      BY <3>1 DEF DbJob
    <3>3. Here(y, r) /\ players[y][r].sid = s
      BY <2>4, <3>1, <3>2 DEF PortalLeaves
    <3>4. r = p /\ At(y, s)
      BY <3>3, HereAt DEF BodyInv
    <3>5. y = z
      <4>1. sessionToPlayer[z][s] = p
        BY <3>4 DEF Awaits
      <4> QED
        BY <1>1, <3>4, <4>1 DEF OneAtATime, BodyInv, SessionInv, OnePermission, At, In
    <3>6. portalPending' = [portalPending EXCEPT ![y] = @ \ {p}]
      BY <2>4, <3>1, <3>2, <3>4 DEF PortalSaved
    <3> QED
      BY <1>1, <3>5, <3>6 DEF TypeOK
  <2>5. leaveAck'[s] = NoZone
    BY <1>1, <2>2, <2>4, PermissionChanges
  <2> QED
    BY <2>3, <2>5
<1> QED
  BY <1>3, <1>4

\* It begins with the character in the zone, which nobody else can come in as.
LEMMA AwaitsBegins ==
  ASSUME OneAtATime, BodyInv, NEW p \in Players, NEW z \in Zones, NEW dest \in Zones,
         HandlePortal(z, p, dest)
  PROVE  Awaits(p, z)'
<1>1. Here(z, p)
  BY DEF HandlePortal, CanAct
<1>2. PICK s \in Sessions : PlayerOf[s] = p /\ sessionToPlayer[z][s] = p /\ At(z, s)
  BY <1>1, HereAt DEF BodyInv
<1>3. \A t \in Sessions : PlayerOf[t] = p /\ Live(t) => t = s
  BY <1>2 DEF BodyInv, OneSession, Live
<1>4. Awaits(p, z)
  BY <1>2, <1>3 DEF Awaits, Live, OneAtATime, BodyInv, SessionInv, OnePermission
<1>5. UNCHANGED <<sessionToPlayer, spawnPending, netQueue, gate, mayReady, leaveAck>>
  BY DEF HandlePortal, gateVars
<1> QED
  BY <1>4, <1>5 DEF Awaits, At, In, Coming

LEMMA AwaitsStep ==
  ASSUME OneAtATime, BodyInv, BodyInv', PortalInv, [Next]_vars,
         NEW p \in Players, NEW z \in Zones, p \in portalPending'[z]
  PROVE  Awaits(p, z)'
<1>1. CASE p \in portalPending[z]
  BY <1>1, AwaitsStays DEF PortalInv
<1>2. CASE p \notin portalPending[z]
  BY <1>2, AwaitingChanges, AwaitsBegins DEF BodyInv, IInv
<1> QED
  BY <1>1, <1>2

LEMMA AwaitedByStays ==
  ASSUME BodyInv, PortalInv, [Next]_vars, NEW p \in Players, NEW z \in Zones, NEW s,
         AwaitedBy(p, z, s), p \in portalPending'[z]
  PROVE  AwaitedBy(p, z, s)'
<1>1. Awaits(p, z)
  BY DEF PortalInv, AwaitedBy
<1>2. \A t \in Sessions, y \in Zones : PlayerOf[t] = p /\ At(y, t)' => At(y, t)
  BY <1>1, AwaitedComesNowhere DEF BodyInv
<1> QED
  BY <1>2 DEF AwaitedBy

\* The parts of PortalInv about one character.
PortalOf(p) ==
  /\ OneInFlight(p, PortalTasks, PortalAnswers(p))
  /\ OnlyLast(dbQueue[p], PortalTasks)
  /\ \A t \in Elems(dbQueue[p]) \cap PortalTasks : AwaitedBy(p, t.z, t.s)
  /\ \A z \in Zones : \A j \in Elems(jobQueue[z]) \cap PortalAnswers(p) : AwaitedBy(p, z, j.s)

\* A zone takes an answer.
LEMMA PortalTaken ==
  ASSUME BodyInv, PortalInv, [Next]_vars, NEW p \in Players,
         NEW z \in Zones, NEW kind, NextJob(z, kind), UNCHANGED dbQueue
  PROVE  PortalOf(p)'
<1>1. TypeOK /\ PortalOf(p)
  BY DEF BodyInv, IInv, PortalInv, PortalOf
<1>2. PICK K, J : K = PortalTasks /\ J = PortalAnswers(p)
  OBVIOUS
<1>3. OneInFlight(p, K, J)
  BY <1>1, <1>2 DEF PortalOf
<1>4. /\ OneInFlight(p, K, J)'
      /\ Head(jobQueue[z]) \in J => NoneInFlight(p, K, J)'
      /\ \A y \in Zones : Elems(jobQueue'[y]) \subseteq Elems(jobQueue[y])
  BY <1>1, <1>3, FlightTaken
<1>5. OnlyLast(dbQueue'[p], PortalTasks)
  BY <1>1 DEF PortalOf
<1>6. CASE Head(jobQueue[z]) \in J
  <2>1. NoneInFlight(p, K, J)'
    BY <1>4, <1>6
  <2> QED
    BY <1>2, <1>4, <1>5, <2>1 DEF NoneInFlight, PortalOf
<1>7. CASE Head(jobQueue[z]) \notin J
  <2>1. \A y \in Zones : p \in portalPending[y] => p \in portalPending'[y]
    <3>1. ASSUME NEW y \in Zones, PortalSaved(y), Head(jobQueue[y]).p = p
          PROVE  FALSE
      <4>1. /\ jobQueue[y] \in Seq(DbJob) /\ jobQueue[y] # <<>>
            /\ jobQueue'[y] = Tail(jobQueue[y])
            /\ Head(jobQueue[y]) \in J
        BY <1>1, <1>2, <3>1 DEF PortalSaved, NextJob, TypeOK, PortalAnswers
      <4>2. y = z
        <5>1. y # z => jobQueue'[y] = jobQueue[y]
          BY DEF NextJob
        <5>2. Tail(jobQueue[y]) # jobQueue[y]
          <6>1. PICK q \in Seq(DbJob) : q = jobQueue[y]
            BY <4>1
          <6>2. q # <<>>
            BY <4>1, <6>1
          <6>3. Len(Tail(q)) # Len(q)
            BY <6>2
          <6> QED
            BY <6>1, <6>3
        <5> QED
          BY <4>1, <5>1, <5>2
      <4> QED
        BY <1>7, <4>1, <4>2
    <3> QED
      BY <1>1, <3>1, AwaitingChanges
  <2>2. \A t \in Elems(dbQueue'[p]) \cap PortalTasks : AwaitedBy(p, t.z, t.s)'
    <3>1. SUFFICES ASSUME NEW t \in Elems(dbQueue[p]), t \in PortalTasks
                   PROVE  AwaitedBy(p, t.z, t.s)'
      OBVIOUS
    <3>2. PICK y \in Zones, s \in Sessions : y = t.z /\ s = t.s
      BY <3>1 DEF PortalTasks, Task
    <3>3. AwaitedBy(p, y, s)
      BY <1>1, <3>1, <3>2 DEF PortalOf
    <3>4. AwaitedBy(p, y, s)'
      BY <2>1, <3>3, AwaitedByStays DEF AwaitedBy
    <3> QED
      BY <3>2, <3>4
  <2>3. \A y \in Zones : \A j \in Elems(jobQueue'[y]) \cap PortalAnswers(p) : AwaitedBy(p, y, j.s)'
    <3>1. SUFFICES ASSUME NEW y \in Zones, NEW j \in Elems(jobQueue'[y]), j \in PortalAnswers(p)
                   PROVE  AwaitedBy(p, y, j.s)'
      OBVIOUS
    <3>2. PICK s : s = j.s
      OBVIOUS
    <3>3. AwaitedBy(p, y, s)
      BY <1>1, <1>4, <3>1, <3>2 DEF PortalOf
    <3>4. AwaitedBy(p, y, s)'
      BY <2>1, <3>3, AwaitedByStays DEF AwaitedBy
    <3> QED
      BY <3>2, <3>4
  <2> QED
    BY <1>2, <1>4, <1>5, <2>2, <2>3 DEF PortalOf
<1> QED
  BY <1>6, <1>7

\* Without an answer taken, a zone goes on awaiting.
LEMMA AwaitedByKept ==
  ASSUME BodyInv, PortalInv, [Next]_vars, NEW p \in Players,
         \A y \in Zones : ~PortalSaved(y),
         NEW z \in Zones, NEW s, AwaitedBy(p, z, s)
  PROVE  AwaitedBy(p, z, s)'
<1>1. p \in portalPending'[z]
  BY AwaitingChanges DEF BodyInv, IInv, AwaitedBy
<1> QED
  BY <1>1, AwaitedByStays

\* A zone pushes a task for p, or leaves its tasks alone.
LEMMA PortalPushed ==
  ASSUME OneAtATime, BodyInv, BodyInv', PortalInv, [Next]_vars, NEW p \in Players,
         \A y \in Zones : ~PortalSaved(y), UNCHANGED jobQueue,
         \/ dbQueue'[p] = dbQueue[p]
         \/ \E z \in Zones : Pushes(z)
  PROVE  PortalOf(p)'
<1>1. TypeOK /\ PortalOf(p)
  BY DEF BodyInv, IInv, PortalInv, PortalOf
<1>2. \A z \in Zones : \A j \in Elems(jobQueue'[z]) \cap PortalAnswers(p) : AwaitedBy(p, z, j.s)'
  <2>1. SUFFICES ASSUME NEW z \in Zones, NEW j \in Elems(jobQueue[z]), j \in PortalAnswers(p)
                 PROVE  AwaitedBy(p, z, j.s)'
    OBVIOUS
  <2>2. PICK s : s = j.s
    OBVIOUS
  <2>3. AwaitedBy(p, z, s)
    BY <1>1, <2>1, <2>2 DEF PortalOf
  <2>4. AwaitedBy(p, z, s)'
    BY <2>3, AwaitedByKept
  <2> QED
    BY <2>2, <2>4
<1>3. ASSUME NEW t \in Elems(dbQueue[p]), t \in PortalTasks
      PROVE  AwaitedBy(p, t.z, t.s)'
  <2>1. PICK y \in Zones, s \in Sessions : y = t.z /\ s = t.s
    BY <1>3 DEF PortalTasks, Task
  <2>2. AwaitedBy(p, y, s)
    BY <1>1, <1>3, <2>1 DEF PortalOf
  <2>3. AwaitedBy(p, y, s)'
    BY <2>2, AwaitedByKept
  <2> QED
    BY <2>1, <2>3
<1>4. CASE dbQueue'[p] = dbQueue[p]
  BY <1>1, <1>2, <1>3, <1>4 DEF PortalOf, OneInFlight
<1>5. ASSUME NEW z \in Zones, NEW t \in Task, Pushed(z, p, t), dbQueue'[p] = Append(dbQueue[p], t)
      PROVE  PortalOf(p)'
  <2>1. NoneInFlight(p, PortalTasks, PortalAnswers(p))
    BY <1>5, QuietWhileAwaited
  <2>2. OneInFlight(p, PortalTasks, PortalAnswers(p))'
    BY <1>1, <1>5, <2>1, FlightPushed DEF PortalOf
  <2>3. dbQueue[p] \in Seq(Task)
    BY <1>1 DEF TypeOK
  <2>4. /\ Elems(dbQueue'[p]) = Elems(dbQueue[p]) \cup {t}
        /\ Elems(dbQueue[p]) \cap PortalTasks = {} => OnlyLast(dbQueue'[p], PortalTasks)
    BY <1>5, <2>3, AddTask
  <2>5. ASSUME t \in PortalTasks
        PROVE  AwaitedBy(p, t.z, t.s)'
    <3>1. PushesPortal(z, p, t)
      BY <1>5, <2>5 DEF Pushed, PushesSave, PushesLoad, PortalTasks, SaveTask, Load
    <3>2. /\ Here(z, p) /\ p \notin portalPending[z] /\ p \in portalPending'[z]
          /\ t.z = z /\ t.s = players[z][p].sid
      BY <3>1 DEF PushesPortal, SaveTask
    <3>3. PICK s \in Sessions : s = players[z][p].sid
      BY <3>2, HereAt DEF BodyInv
    <3>4. \E dest \in Zones : HandlePortal(z, p, dest)
      BY <1>1, <3>2, AwaitingChanges
    <3>5. players'[z][p].sid = s /\ Here(z, p)'
      BY <3>2, <3>3, <3>4 DEF HandlePortal, Here
    <3>6. Awaits(p, z)'
      BY <3>2, AwaitsStep
    <3>7. ASSUME NEW u \in Sessions, NEW y \in Zones, PlayerOf[u] = p, At(y, u)'
          PROVE  u = s
      <4>1. sessionToPlayer'[z][u] = p /\ p # NoPlayer
        BY <3>6, <3>7, ZoneLifeAssumption DEF Awaits
      <4>2. players'[z][p].sid = u
        BY <4>1 DEF BodyInv, IInv, SameCharacters
      <4> QED
        BY <3>5, <4>2
    <3>8. AwaitedBy(p, z, s)'
      BY <3>2, <3>7 DEF AwaitedBy
    <3> QED
      BY <3>2, <3>3, <3>8
  <2> QED
    BY <1>2, <1>3, <2>1, <2>2, <2>4, <2>5 DEF PortalOf, NoneInFlight
<1> QED
  BY <1>4, <1>5 DEF Pushes

\* A task runs.
LEMMA PortalRuns ==
  ASSUME BodyInv, PortalInv, [Next]_vars, NEW p \in Players, NEW r \in Players, RunTask(r)
  PROVE  PortalOf(p)'
<1>1. TypeOK /\ PortalOf(p) /\ Own
  BY DEF BodyInv, IInv, PortalInv, PortalOf
<1>2. PICK task \in Task, ok \in BOOLEAN : Runs(r, task, ok)
  BY <1>1, RunTaskRuns DEF OwnTask
<1>3. \A j \in DbJob : Answers(j, r, task, ok) /\ j \in PortalAnswers(p) => r = p /\ task \in PortalTasks
  BY DEF Answers, PortalAnswers, PortalTasks
<1>4. OneInFlight(p, PortalTasks, PortalAnswers(p))'
  BY <1>1, <1>2, <1>3, FlightRuns DEF PortalOf
<1>5. UNCHANGED <<zoneVars, netQueue>>
  BY DEF RunTask
<1>6. \A z \in Zones, s \in Sessions : AwaitedBy(p, z, s) => AwaitedBy(p, z, s)'
  BY <1>5 DEF AwaitedBy, zoneVars, At, In, Coming
<1>7. /\ dbQueue[r] \in Seq(Task) /\ dbQueue[r] # <<>> /\ task = Head(dbQueue[r])
      /\ dbQueue'[r] = Tail(dbQueue[r])
      /\ r # p => dbQueue'[p] = dbQueue[p]
  BY <1>1, <1>2 DEF Runs, TypeOK
<1>8. /\ Elems(dbQueue[r]) = Elems(dbQueue'[r]) \cup {task}
      /\ OnlyLast(dbQueue[r], PortalTasks) => OnlyLast(dbQueue'[r], PortalTasks)
  BY <1>7, TakeTask
<1>9. OnlyLast(dbQueue'[p], PortalTasks) /\ Elems(dbQueue'[p]) \subseteq Elems(dbQueue[p])
  BY <1>1, <1>7, <1>8 DEF PortalOf
<1>10. \A t \in Elems(dbQueue'[p]) \cap PortalTasks : AwaitedBy(p, t.z, t.s)'
  <2>1. SUFFICES ASSUME NEW t \in Elems(dbQueue[p]), t \in PortalTasks
                 PROVE  AwaitedBy(p, t.z, t.s)'
    BY <1>9
  <2>2. PICK y \in Zones, s \in Sessions : y = t.z /\ s = t.s
    BY <2>1 DEF PortalTasks, Task
  <2> QED
    BY <1>1, <1>6, <2>1, <2>2 DEF PortalOf
<1>11. \A z \in Zones : \A j \in Elems(jobQueue'[z]) \cap PortalAnswers(p) : AwaitedBy(p, z, j.s)'
  <2>1. ASSUME NEW z \in Zones, NEW j \in Elems(jobQueue[z]), j \in PortalAnswers(p)
        PROVE  AwaitedBy(p, z, j.s)'
    <3>1. PICK s \in Sessions : s = j.s
      BY <2>1 DEF PortalAnswers, DbJob
    <3> QED
      BY <1>1, <1>6, <2>1, <3>1 DEF PortalOf
  <2>2. CASE UNCHANGED jobQueue
    BY <2>1, <2>2
  <2>3. ASSUME NEW j \in DbJob, Answers(j, r, task, ok),
               jobQueue' = [jobQueue EXCEPT ![task.z] = Append(@, j)]
        PROVE  \A z \in Zones : \A k \in Elems(jobQueue'[z]) \cap PortalAnswers(p) : AwaitedBy(p, z, k.s)'
    <3>1. PICK z \in Zones : z = task.z
      BY DEF Task
    <3>2. /\ jobQueue[z] \in Seq(DbJob) /\ jobQueue'[z] = Append(jobQueue[z], j)
          /\ \A y \in Zones : y # z => jobQueue'[y] = jobQueue[y]
      BY <1>1, <2>3, <3>1 DEF TypeOK
    <3>3. Elems(jobQueue'[z]) = Elems(jobQueue[z]) \cup {j}
      BY <3>2, AddTask
    <3>4. ASSUME j \in PortalAnswers(p)
          PROVE  AwaitedBy(p, z, j.s)'
      <4>1. r = p /\ task \in PortalTasks /\ j.s = task.s
        BY <1>3, <2>3, <3>4 DEF Answers
      <4>2. PICK s \in Sessions : s = task.s
        BY <4>1 DEF PortalTasks, Task
      <4>3. AwaitedBy(p, z, s)
        BY <1>1, <1>8, <3>1, <4>1, <4>2 DEF PortalOf
      <4> QED
        BY <1>6, <4>1, <4>2, <4>3
    <3> QED
      BY <2>1, <3>2, <3>3, <3>4
  <2> QED
    BY <1>2, <2>2, <2>3 DEF Runs
<1> QED
  BY <1>4, <1>9, <1>10, <1>11 DEF PortalOf

\* What steps do to the queues of the database.
LEMMA QueueSteps ==
  ASSUME IInv, [Next]_vars
  PROVE  \/ \E z \in Zones, kind \in {"spawned", "portalDone"} :
              /\ NextJob(z, kind) /\ UNCHANGED <<dbQueue, row>>
              /\ (kind = "spawned" /\ SpawnLoaded(z)) \/ (kind = "portalDone" /\ PortalSaved(z))
         \/ \E r \in Players : RunTask(r)
         \/ /\ UNCHANGED <<jobQueue, row>>
            /\ \A y \in Zones : ~PortalSaved(y) /\ ~SpawnLoaded(y)
            /\ \/ \E z \in Zones : Pushes(z) /\ (ZoneJob(z) \/ Play(z))
               \/ UNCHANGED dbQueue
<1>1. TypeOK
  BY DEF IInv
<1>2. ASSUME NEW y \in Zones, PortalSaved(y) \/ SpawnLoaded(y)
      PROVE  ~UNCHANGED jobQueue
  <2>1. PICK q \in Seq(DbJob) : q = jobQueue[y] /\ q # <<>>
    BY <1>1, <1>2 DEF PortalSaved, SpawnLoaded, NextJob, TypeOK
  <2>2. Len(Tail(q)) # Len(q)
    BY <2>1
  <2>3. jobQueue'[y] = Tail(q)
    BY <1>1, <1>2, <2>1 DEF PortalSaved, SpawnLoaded, NextJob, TypeOK
  <2> QED
    BY <2>1, <2>2, <2>3
<1>3. CASE \E z \in Zones : DbCallback(z)
  BY <1>3 DEF DbCallback, PortalSaved, SpawnLoaded, dbVars
<1>4. ASSUME NEW z \in Zones, ZoneJob(z) \/ Play(z)
      PROVE  UNCHANGED <<jobQueue, row>> /\ Pushes(z)
  <2>1. UNCHANGED jobQueue
    BY <1>4 DEF ZoneJob, HandleReadyToSpawn, HandleDisconnect, HandleGatewayLost, CloseZone,
                ClearForShutdown, SaveAllAndClear, Play, EarnExp, MonsterKills, HandleRevive,
                HandlePortal, AutoSaveTick
  <2> QED
    BY <1>4, <2>1, ZonePushes
<1>5. ASSUME NEW s \in Sessions, Gateway(s)
      PROVE  UNCHANGED <<jobQueue, row, dbQueue>>
  BY <1>5 DEF Gateway, SelectCharacter, RouteReady, LeaveCompleted, CloseSession, dbVars
<1>6. CASE LoseGateway \/ Signal \/ Finish \/ UNCHANGED vars
  <2>1. UNCHANGED <<jobQueue, row, dbQueue>>
    BY <1>6 DEF LoseGateway, Signal, Finish, vars, dbVars
  <2> QED
    BY <1>2, <2>1
<1> QED
  BY <1>2, <1>3, <1>4, <1>5, <1>6 DEF Next

LEMMA PortalInit == Init => PortalInv
<1> SUFFICES ASSUME Init PROVE PortalInv
  OBVIOUS
<1>1. /\ \A p \in Players : Elems(dbQueue[p]) = {} /\ DOMAIN dbQueue[p] = {}
      /\ \A z \in Zones : Elems(jobQueue[z]) = {} /\ DOMAIN jobQueue[z] = {}
      /\ \A z \in Zones : portalPending[z] = {}
  BY DEF Init, Elems
<1> QED
  BY <1>1 DEF PortalInv, OneInFlight, OnceIn, OnlyLast

LEMMA PortalStep ==
  ASSUME OneAtATime, BodyInv, BodyInv', PortalInv, [Next]_vars
  PROVE  PortalInv'
<1>1. ASSUME NEW p \in Players
      PROVE  PortalOf(p)'
  <2>1. CASE \E z \in Zones, kind \in {"spawned", "portalDone"} :
               NextJob(z, kind) /\ UNCHANGED <<dbQueue, row>>
    BY <2>1, PortalTaken
  <2>2. CASE \E r \in Players : RunTask(r)
    BY <2>2, PortalRuns
  <2>3. CASE /\ UNCHANGED <<jobQueue, row>>
             /\ \A y \in Zones : ~PortalSaved(y) /\ ~SpawnLoaded(y)
             /\ \/ \E z \in Zones : Pushes(z)
                \/ UNCHANGED dbQueue
    BY <2>3, PortalPushed
  <2> QED
    BY <2>1, <2>2, <2>3, QueueSteps DEF BodyInv
<1> QED
  BY <1>1, AwaitsStep DEF PortalInv, PortalOf

-----------------------------------------------------------------------------
\* The row of a character says where it is, where it may go and where it will be saved.

TasksByRow(p) ==
  \A t \in Elems(dbQueue[p]) :
    /\ t.kind \in {"save", "auto"} => t.to = row[p].zone
    /\ t.kind = "portal" => t.z = row[p].zone

AnswersByRow(p) ==
  \A z \in Zones : \A j \in Elems(jobQueue[z]) \cap PortalAnswers(p) :
    row[p].zone = IF j.ok THEN j.to ELSE z

PlacesByRow(p) ==
  \A z \in Zones, s \in Sessions :
    PlayerOf[s] = p /\ At(z, s) /\ p \notin portalPending[z] => row[p].zone = z

OrdersByRow(p) ==
  \A s \in Sessions : PlayerOf[s] = p /\ gate[s] = "play" =>
    /\ leaveAck[s] # NoZone => leaveAck[s] = row[p].zone
    /\ mayReady[s] # 0 => route[s] = row[p].zone

RowOf(p) == TasksByRow(p) /\ AnswersByRow(p) /\ PlacesByRow(p) /\ OrdersByRow(p)
RowInv == \A p \in Players : RowOf(p)

\* Only where its save is awaited can a character be.
LEMMA AwaitedAlone ==
  ASSUME OneAtATime, BodyInv, PortalInv, NEW p \in Players, NEW z \in Zones,
         p \in portalPending[z], NEW y \in Zones, NEW s \in Sessions,
         PlayerOf[s] = p, At(y, s)
  PROVE  y = z /\ sessionToPlayer[z][s] = p /\ Here(z, p) /\ players[z][p].sid = s
<1>1. sessionToPlayer[z][s] = p /\ p # NoPlayer
  BY ZoneLifeAssumption DEF PortalInv, Awaits
<1>2. At(z, s)
  BY <1>1 DEF At, In
<1> QED
  BY <1>1, <1>2 DEF OneAtATime, BodyInv, SessionInv, OnePermission, IInv, SameCharacters

\* A task runs: a portal save moves the row when nothing else depends on it.
LEMMA RowRuns ==
  ASSUME OneAtATime, BodyInv, PortalInv, RowInv, NEW p \in Players, NEW r \in Players, RunTask(r)
  PROVE  RowOf(p)'
<1>1. TypeOK /\ RowOf(p) /\ Own /\ RowOf(r)
  BY DEF BodyInv, IInv, RowInv
<1>2. PICK task \in Task, ok \in BOOLEAN : Runs(r, task, ok)
  BY <1>1, RunTaskRuns DEF OwnTask
<1>3. UNCHANGED <<zoneVars, netQueue, gateVars>>
  BY DEF RunTask
<1>4. \A z \in Zones, s \in Sessions : At(z, s)' <=> At(z, s)
  BY <1>3 DEF zoneVars, At, In, Coming
<1>5. /\ dbQueue[r] \in Seq(Task) /\ dbQueue[r] # <<>> /\ task = Head(dbQueue[r])
      /\ dbQueue'[r] = Tail(dbQueue[r])
      /\ r # p => dbQueue'[p] = dbQueue[p]
  BY <1>1, <1>2 DEF Runs, TypeOK
<1>6. /\ Elems(dbQueue[r]) = Elems(dbQueue'[r]) \cup {task}
      /\ OnlyLast(dbQueue[r], PortalTasks) => (task \in PortalTasks => Elems(dbQueue'[r]) = {})
  BY <1>5, TakeTask
<1>7. Elems(dbQueue'[p]) \subseteq Elems(dbQueue[p])
  BY <1>5, <1>6
<1>8. \A z \in Zones : \A j \in Elems(jobQueue'[z]) \cap PortalAnswers(p) :
        \/ j \in Elems(jobQueue[z])
        \/ r = p /\ task \in PortalTasks /\ z = task.z /\ j.ok = ok /\ j.to = task.to
  <2>1. CASE UNCHANGED jobQueue
    BY <2>1
  <2>2. ASSUME NEW j \in DbJob, Answers(j, r, task, ok),
               jobQueue' = [jobQueue EXCEPT ![task.z] = Append(@, j)]
        PROVE  \A z \in Zones : \A k \in Elems(jobQueue'[z]) \cap PortalAnswers(p) :
                 \/ k \in Elems(jobQueue[z])
                 \/ r = p /\ task \in PortalTasks /\ z = task.z /\ k.ok = ok /\ k.to = task.to
    <3>1. PICK y \in Zones : y = task.z
      BY DEF Task
    <3>2. /\ jobQueue[y] \in Seq(DbJob) /\ jobQueue'[y] = Append(jobQueue[y], j)
          /\ \A z \in Zones : z # y => jobQueue'[z] = jobQueue[z]
      BY <1>1, <2>2, <3>1 DEF TypeOK
    <3>3. Elems(jobQueue'[y]) = Elems(jobQueue[y]) \cup {j}
      BY <3>2, AddTask
    <3>4. j \in PortalAnswers(p) => r = p /\ task \in PortalTasks /\ j.ok = ok /\ j.to = task.to
      BY <2>2 DEF Answers, PortalAnswers, PortalTasks
    <3> QED
      BY <3>1, <3>2, <3>3, <3>4
  <2> QED
    BY <1>2, <2>1, <2>2 DEF Runs
<1>9. CASE row'[p].zone = row[p].zone
  <2>1. TasksByRow(p)'
    BY <1>1, <1>7, <1>9 DEF RowOf, TasksByRow
  <2>2. AnswersByRow(p)'
    <3>1. ASSUME r = p, task \in PortalTasks
          PROVE  row[p].zone = IF ok THEN task.to ELSE task.z
      <4>1. row[p].zone = task.z
        BY <1>1, <1>6, <3>1 DEF RowOf, TasksByRow, PortalTasks
      <4>2. ok => row'[p].zone = task.to
        <5>1. ok => row' = [row EXCEPT ![p] = [now |-> task.now, zone |-> task.to]]
          BY <1>2, <3>1 DEF Runs, PortalTasks
        <5> QED
          BY <1>1, <5>1 DEF TypeOK
      <4> QED
        BY <1>9, <4>1, <4>2
    <3> QED
      BY <1>1, <1>8, <1>9, <3>1 DEF RowOf, AnswersByRow
  <2>3. PlacesByRow(p)' /\ OrdersByRow(p)'
    BY <1>1, <1>3, <1>4, <1>9 DEF RowOf, PlacesByRow, OrdersByRow, zoneVars, gateVars
  <2> QED
    BY <2>1, <2>2, <2>3 DEF RowOf
<1>10. CASE row'[p].zone # row[p].zone
  <2>1. r = p /\ ok /\ task.kind # "load" /\ row'[p].zone = task.to
    <3>1. PICK w : w = [now |-> task.now, zone |-> task.to]
      OBVIOUS
    <3>2. row' = row \/ (ok /\ task.kind # "load" /\ row' = [row EXCEPT ![r] = w])
      BY <1>2, <3>1 DEF Runs
    <3>3. r = p /\ ok /\ task.kind # "load" /\ row'[p] = w
      BY <1>1, <1>10, <3>2 DEF TypeOK
    <3> QED
      BY <3>1, <3>3
  <2>2. task \in PortalTasks
    <3>1. task.kind \in {"save", "auto"} => task.to = row[p].zone
      BY <1>1, <1>6, <2>1 DEF RowOf, TasksByRow
    <3>2. task.kind \in {"save", "auto", "portal", "load"}
      BY DEF Task, TaskKinds
    <3> QED
      BY <1>10, <2>1, <3>1, <3>2 DEF PortalTasks
  <2>3. /\ Elems(dbQueue'[p]) = {}
        /\ p \in portalPending[task.z]
        /\ \A z \in Zones : Elems(jobQueue[z]) \cap PortalAnswers(p) = {}
    BY <1>6, <2>1, <2>2 DEF PortalInv, OneInFlight, AwaitedBy
  <2>4. TasksByRow(p)' /\ AnswersByRow(p)'
    BY <1>8, <2>1, <2>3 DEF TasksByRow, AnswersByRow
  <2>5. PICK y \in Zones : y = task.z
    BY DEF Task
  <2>6. PlacesByRow(p)'
    BY <1>3, <1>4, <2>3, <2>5, AwaitedAlone DEF PlacesByRow, zoneVars
  <2>7. OrdersByRow(p)'
    BY <1>3, <2>3, <2>5 DEF OrdersByRow, PortalInv, Awaits, gateVars
  <2> QED
    BY <2>4, <2>6, <2>7 DEF RowOf
<1> QED
  BY <1>9, <1>10

\* A zone pushes tasks for the characters it has, whose rows say so.
LEMMA RowPushed ==
  ASSUME BodyInv, RowInv, UNCHANGED row, NEW z \in Zones, Pushes(z), NEW p \in Players
  PROVE  TasksByRow(p)'
<1>1. TypeOK /\ TasksByRow(p) /\ PlacesByRow(p)
  BY DEF BodyInv, IInv, RowInv, RowOf
<1>2. CASE dbQueue'[p] = dbQueue[p]
  BY <1>1, <1>2 DEF TasksByRow
<1>3. ASSUME NEW t \in Task, Pushed(z, p, t), dbQueue'[p] = Append(dbQueue[p], t)
      PROVE  TasksByRow(p)'
  <2>1. dbQueue[p] \in Seq(Task)
    BY <1>1 DEF TypeOK
  <2>2. Elems(dbQueue'[p]) = Elems(dbQueue[p]) \cup {t}
    BY <1>3, <2>1, AddTask
  <2>3. CASE PushesLoad(z, p, t)
    <3>1. t.kind = "load"
      BY <2>3 DEF PushesLoad, Load
    <3> QED
      BY <1>1, <2>2, <3>1 DEF TasksByRow
  <2>4. CASE PushesSave(z, p, t) \/ PushesPortal(z, p, t)
    <3>1. Here(z, p) /\ p \notin portalPending[z]
      BY <2>4 DEF PushesSave, PushesPortal
    <3>2. row[p].zone = z
      BY <1>1, <3>1, HereAt DEF BodyInv, PlacesByRow
    <3>3. /\ t.kind \in {"save", "auto"} => t.to = z
          /\ t.kind = "portal" => t.z = z
      BY <2>4 DEF PushesSave, PushesPortal, SaveTask
    <3> QED
      BY <1>1, <2>2, <3>2, <3>3 DEF TasksByRow
  <2> QED
    BY <1>3, <2>3, <2>4 DEF Pushed
<1> QED
  BY <1>2, <1>3 DEF Pushes

\* Taking answers leaves fewer of them.
LEMMA RowTaken ==
  ASSUME TypeOK, UNCHANGED row, NEW p \in Players, AnswersByRow(p),
         NEW z \in Zones, NEW kind, NextJob(z, kind)
  PROVE  AnswersByRow(p)'
<1>1. /\ jobQueue[z] \in Seq(DbJob) /\ jobQueue[z] # <<>>
      /\ jobQueue'[z] = Tail(jobQueue[z])
      /\ \A y \in Zones : y # z => jobQueue'[y] = jobQueue[y]
  BY DEF NextJob, TypeOK
<1>2. Elems(jobQueue'[z]) \subseteq Elems(jobQueue[z])
  BY <1>1, TakeTask
<1>3. \A y \in Zones : Elems(jobQueue'[y]) \subseteq Elems(jobQueue[y])
  BY <1>1, <1>2
<1> QED
  BY <1>3 DEF AnswersByRow

\* Where the character is when its portal save has been answered.
LEMMA RowAnswered ==
  ASSUME OneAtATime, BodyInv, PortalInv, RowInv, [Next]_vars, NEW p \in Players,
         NEW z \in Zones, PortalSaved(z), Head(jobQueue[z]).p = p, p \in portalPending[z],
         NEW s \in Sessions, PlayerOf[s] = p, At(z, s), At(z, s)'
  PROVE  row[p].zone = z
<1>1. TypeOK
  BY DEF BodyInv, IInv
<1>2. PICK job \in DbJob : job = Head(jobQueue[z]) /\ job.kind = "portalDone"
  BY <1>1, NextJobType DEF PortalSaved
<1>3. job \in Elems(jobQueue[z]) /\ job \in PortalAnswers(p)
  <2>1. jobQueue[z] \in Seq(DbJob) /\ jobQueue[z] # <<>>
    BY <1>1 DEF PortalSaved, NextJob, TypeOK
  <2> QED
    BY <1>2, <2>1, TakeTask DEF PortalAnswers
<1>4. AwaitedBy(p, z, job.s) /\ row[p].zone = IF job.ok THEN job.to ELSE z
  BY <1>3 DEF PortalInv, RowInv, RowOf, AnswersByRow
<1>5. s = job.s /\ Here(z, p) /\ players[z][p].sid = s /\ sessionToPlayer[z][s] = p /\ p # NoPlayer
  BY <1>4, AwaitedAlone, ZoneLifeAssumption DEF AwaitedBy
<1>6. s \notin spawnPending[z] /\ ~Coming(z, s)
  BY <1>5 DEF BodyInv, IInv, LoadingIsNotPlaying, OneAtATime, SessionInv, OnePermission, In
<1>7. CASE ~job.ok
  BY <1>4, <1>7
<1>8. CASE job.ok
  <2>1. PortalLeaves(z, job)
    BY <1>2, <1>5, <1>8 DEF PortalLeaves
  <2>2. Leave(z, p) /\ UNCHANGED <<spawnPending, netQueue>>
    BY <1>2, <2>1 DEF PortalSaved
  <2>3. sessionToPlayer' = [sessionToPlayer EXCEPT ![z][s] = NoPlayer]
    BY <1>5, <2>2 DEF Leave
  <2>4. sessionToPlayer'[z][s] = NoPlayer
    BY <1>1, <2>3 DEF TypeOK
  <2>5. ~At(z, s)'
    BY <1>6, <2>2, <2>4 DEF At, In, Coming
  <2> QED
    BY <2>5
<1> QED
  BY <1>7, <1>8

LEMMA RowPlaces ==
  ASSUME OneAtATime, BodyInv, PortalInv, RowInv, [Next]_vars, UNCHANGED row, NEW p \in Players
  PROVE  PlacesByRow(p)'
<1> SUFFICES ASSUME NEW z \in Zones, NEW s \in Sessions,
                    PlayerOf[s] = p, At(z, s)', p \notin portalPending'[z]
             PROVE  row[p].zone = z
  BY DEF PlacesByRow
<1>1. TypeOK /\ PlacesByRow(p) /\ OrdersByRow(p)
  BY DEF BodyInv, IInv, RowInv, RowOf
<1>2. CASE RouteReady(s) /\ route[s] = z
  BY <1>1, <1>2 DEF RouteReady, OrdersByRow, TypeOK
<1>3. CASE At(z, s) /\ p \notin portalPending[z]
  BY <1>1, <1>3 DEF PlacesByRow
<1>4. CASE At(z, s) /\ p \in portalPending[z]
  BY <1>1, <1>4, AwaitingChanges, RowAnswered
<1> QED
  BY <1>2, <1>3, <1>4, ComesByReady DEF BodyInv

LEMMA RowOrders ==
  ASSUME OneAtATime, BodyInv, PortalInv, RowInv, [Next]_vars, UNCHANGED row, NEW p \in Players
  PROVE  OrdersByRow(p)'
<1> SUFFICES ASSUME NEW s \in Sessions, PlayerOf[s] = p, gate'[s] = "play"
             PROVE  /\ leaveAck'[s] # NoZone => leaveAck'[s] = row[p].zone
                    /\ mayReady'[s] # 0 => route'[s] = row[p].zone
  BY DEF OrdersByRow
<1>1. TypeOK /\ OrdersByRow(p)
  BY DEF BodyInv, IInv, RowInv, RowOf
<1>2. CASE SelectCharacter(s)
  <2>1. leaveAck[s] = NoZone
    BY <1>2 DEF SelectCharacter, BodyInv, SessionInv, NotBegun
  <2> QED
    BY <1>1, <1>2, <2>1 DEF SelectCharacter, TypeOK
<1>3. CASE LeaveCompleted(s)
  BY <1>1, <1>3 DEF LeaveCompleted, OrdersByRow, TypeOK
<1>4. CASE ~SelectCharacter(s) /\ ~LeaveCompleted(s)
  <2>1. gate[s] = "play"
    BY <1>1, <1>4, PlaysBySelection
  <2>2. mayReady'[s] # 0 => mayReady[s] # 0
    BY <1>1, <1>4, PermissionChanges
  <2>3. route'[s] = route[s]
    BY <1>1, <1>4, PermissionChanges
  <2>4. ASSUME NEW z \in Zones, PortalSaved(z), PortalLeaves(z, Head(jobQueue[z])),
               Head(jobQueue[z]).s = s
        PROVE  Head(jobQueue[z]).to = row[p].zone
    <3>1. PICK job \in DbJob : job = Head(jobQueue[z]) /\ job.kind = "portalDone"
      BY <1>1, <2>4, NextJobType DEF PortalSaved
    <3>2. PICK r \in Players : r = job.p
      BY <3>1 DEF DbJob
    <3>3. Here(z, r) /\ players[z][r].sid = s /\ job.ok
      BY <2>4, <3>1, <3>2 DEF PortalLeaves
    <3>4. r = p
      BY <3>3, HereAt DEF BodyInv
    <3>5. job \in Elems(jobQueue[z]) /\ job \in PortalAnswers(p)
      <4>1. jobQueue[z] \in Seq(DbJob) /\ jobQueue[z] # <<>>
        BY <1>1, <2>4 DEF PortalSaved, NextJob, TypeOK
      <4> QED
        BY <3>1, <3>2, <3>4, <4>1, TakeTask DEF PortalAnswers
    <3> QED
      BY <3>1, <3>3, <3>5 DEF RowInv, RowOf, AnswersByRow
  <2>5. leaveAck'[s] # NoZone => leaveAck'[s] = leaveAck[s] \/ leaveAck'[s] = row[p].zone
    BY <1>1, <2>4, PermissionChanges
  <2> QED
    BY <1>1, <2>1, <2>2, <2>3, <2>5 DEF OrdersByRow
<1> QED
  BY <1>2, <1>3, <1>4

LEMMA RowInit == Init => RowInv
<1> SUFFICES ASSUME Init PROVE RowInv
  OBVIOUS
<1>1. /\ \A p \in Players : Elems(dbQueue[p]) = {}
      /\ \A z \in Zones : Elems(jobQueue[z]) = {}
      /\ \A z \in Zones, s \in Sessions : ~At(z, s)
      /\ \A s \in Sessions : gate[s] # "play"
  BY DEF Init, Elems, At, In, Coming, Has
<1> QED
  BY <1>1 DEF RowInv, RowOf, TasksByRow, AnswersByRow, PlacesByRow, OrdersByRow

LEMMA RowStep ==
  ASSUME OneAtATime, BodyInv, PortalInv, RowInv, [Next]_vars
  PROVE  RowInv'
<1> SUFFICES ASSUME NEW p \in Players PROVE RowOf(p)'
  BY DEF RowInv
<1>1. TypeOK /\ TasksByRow(p) /\ AnswersByRow(p)
  BY DEF BodyInv, IInv, RowInv, RowOf
<1>2. CASE \E r \in Players : RunTask(r)
  BY <1>2, RowRuns
<1>3. CASE \E z \in Zones, kind \in {"spawned", "portalDone"} :
             NextJob(z, kind) /\ UNCHANGED <<dbQueue, row>>
  <2>1. TasksByRow(p)'
    BY <1>1, <1>3 DEF TasksByRow
  <2>2. AnswersByRow(p)'
    BY <1>1, <1>3, RowTaken
  <2> QED
    BY <1>3, <2>1, <2>2, RowPlaces, RowOrders DEF RowOf
<1>4. CASE /\ UNCHANGED <<jobQueue, row>>
           /\ \/ \E z \in Zones : Pushes(z)
              \/ UNCHANGED dbQueue
  <2>1. TasksByRow(p)'
    <3>1. CASE \E z \in Zones : Pushes(z)
      BY <1>4, <3>1, RowPushed
    <3>2. CASE UNCHANGED dbQueue
      BY <1>1, <1>4, <3>2 DEF TasksByRow
    <3> QED
      BY <1>4, <3>1, <3>2
  <2>2. AnswersByRow(p)'
    BY <1>1, <1>4 DEF AnswersByRow
  <2> QED
    BY <1>4, <2>1, <2>2, RowPlaces, RowOrders DEF RowOf
<1> QED
  BY <1>2, <1>3, <1>4, QueueSteps DEF BodyInv

RowsInv == BodyInv /\ PortalInv /\ RowInv

\* The bodies, the portal saves and the rows of the characters agree.
THEOREM RowsFollow ==
  ASSUME OneAtATime
  PROVE  Safety => []RowsInv
<1>1. Init => RowsInv
  BY BodyInvInit, PortalInit, RowInit DEF RowsInv
<1>2. RowsInv /\ [Next]_vars => RowsInv'
  <2>1. RowsInv /\ [Next]_vars => BodyInv'
    BY BodyInvStep DEF RowsInv
  <2> QED
    BY <2>1, PortalStep, RowStep DEF RowsInv
<1> QED
  BY <1>1, <1>2, PTL DEF Safety

\* Who enters a zone was there already, as a load.
LEMMA EntersAfterLoad ==
  ASSUME BodyInv, BodyInv', [Next]_vars, NEW z \in Zones, NEW p \in Players,
         ~Here(z, p), Here(z, p)'
  PROVE  \E s \in Sessions : PlayerOf[s] = p /\ s \in spawnPending[z]
<1>1. TypeOK /\ TypeOK'
  BY DEF BodyInv, IInv
<1>2. PICK s \in Sessions : PlayerOf[s] = p /\ sessionToPlayer'[z][s] = p /\ p # NoPlayer
  <2>1. PICK s \in Sessions : s = players'[z][p].sid
    BY SMTT(20), <1>1 DEF TypeOK, Here, Char
  <2>2. sessionToPlayer'[z][s] = p /\ p # NoPlayer
    BY <2>1, ZoneLifeAssumption DEF BodyInv, IInv, SameCharacters
  <2>3. PlayerOf[s] = p
    BY <2>2 DEF BodyInv, Own
  <2> QED
    BY <2>2, <2>3
<1>3. In(z, s)
  BY <1>2, PlaysByLoad DEF BodyInv
<1>4. sessionToPlayer[z][s] = NoPlayer
  BY <1>2 DEF BodyInv, Own, IInv, SameCharacters
<1> QED
  BY <1>2, <1>3, <1>4 DEF In

\* A character enters the zone its row names, at a position saved for that zone
\* (GameDB::LoadCharacterAsync, GameDB::SaveCharacterPortalAsync), although the row is
\* read for the route when the character is selected, for the position when it is loaded
\* and written by portal saves in between: for a character that is selected again only
\* when every zone is through with it and whose client is READY once per order.
THEOREM EntersTheRightZone ==
  ASSUME OneAtATime
  PROVE  Safety => EntersItsZone
<1>1. RowsInv /\ RowsInv' /\ [Next]_vars =>
        [\A z \in Zones, p \in Players : ~Here(z, p) /\ Here(z, p)' => row[p].zone = z]_vars
  <2> SUFFICES ASSUME RowsInv, RowsInv', [Next]_vars, NEW z \in Zones, NEW p \in Players,
                      ~Here(z, p), Here(z, p)'
               PROVE  row[p].zone = z
    OBVIOUS
  <2>1. PICK s \in Sessions : PlayerOf[s] = p /\ s \in spawnPending[z]
    BY EntersAfterLoad DEF RowsInv
  <2>2. At(z, s)
    BY <2>1 DEF At, In
  <2>3. p \notin portalPending[z]
    BY <2>1, <2>2, AwaitedAlone DEF RowsInv
  <2> QED
    BY <2>1, <2>2, <2>3 DEF RowsInv, RowInv, RowOf, PlacesByRow
<1> QED
  BY <1>1, RowsFollow, PTL DEF Safety, EntersItsZone

-----------------------------------------------------------------------------
\* Sessions of one character follow each other in a zone: the end of one comes before
\* READY of the next.

\* in: the zone has session s, or loads its character.  Before READY of t there is an end
\* of s, behind every READY of s and, if the zone has s, at all.
Turns(q, s, in, t) ==
  \A k \in DOMAIN q : q[k] = Net("ready", t) =>
    /\ in => \E j \in DOMAIN q : j < k /\ IsEnd(q[j], s)
    /\ \A i \in DOMAIN q : i < k /\ q[i] = Net("ready", s) =>
         \E j \in DOMAIN q : i < j /\ j < k /\ IsEnd(q[j], s)

\* Job j ends what the zone has of s by then; no READY of s comes behind such a job.
EndsIt(q, s, in, j) ==
  IsEnd(q[j], s) /\ (in \/ \E i \in DOMAIN q : i < j /\ q[i] = Net("ready", s))
Ended(q, s, in) == \E j \in DOMAIN q : EndsIt(q, s, in, j)
LastReady(q, s, in) ==
  \A j \in DOMAIN q : EndsIt(q, s, in, j) => \A k \in DOMAIN q : q[k] = Net("ready", s) => k < j

TurnInv ==
  \A z \in Zones, s, t \in Sessions : s # t /\ PlayerOf[s] = PlayerOf[t] =>
    /\ ~(In(z, s) /\ In(z, t))
    /\ Turns(netQueue[z], s, In(z, s), t)
EndInv ==
  \A z \in Zones, s \in Sessions : Ended(netQueue[z], s, In(z, s)) =>
    gate[s] = "gone" /\ LastReady(netQueue[z], s, In(z, s))
PlayAlone ==
  \A s, t \in Sessions :
    PlayerOf[s] = PlayerOf[t] /\ gate[s] = "play" /\ gate[t] = "play" => s = t

LEMMA TakeTurns ==
  ASSUME NEW q \in Seq(NetJob), q # <<>>, NEW s, NEW t, NEW in \in BOOLEAN, NEW now \in BOOLEAN,
         now => in \/ Head(q) = Net("ready", s), IsEnd(Head(q), s) => ~now
  PROVE  /\ Turns(q, s, in, t) => Turns(Tail(q), s, now, t)
         /\ Turns(q, s, in, t) /\ Head(q) = Net("ready", t) => ~in
         /\ Ended(Tail(q), s, now) => Ended(q, s, in)
         /\ LastReady(q, s, in) => LastReady(Tail(q), s, now)
         /\ LastReady(q, s, in) /\ in /\ IsEnd(Head(q), s) => ~Has(Tail(q), Net("ready", s))
<1> DEFINE r == Tail(q)
<1>1. Head(q) = q[1] /\ 1 \in DOMAIN q
  BY TailShift
<1>2. \A i \in DOMAIN r : i \in Int /\ i + 1 \in DOMAIN q /\ i + 1 # 1 /\ r[i] = q[i + 1]
  BY TailShift
<1>3. \A i \in DOMAIN q : i \in Int /\ (i = 1 \/ (i > 1 /\ i - 1 \in DOMAIN r /\ r[i - 1] = q[i]))
  BY TailShift
<1> HIDE DEF r
<1>4. \A i \in DOMAIN r : i \in Int /\ 1 < i + 1
  BY <1>2, <1>3
<1>5. ASSUME Turns(q, s, in, t), NEW k \in DOMAIN r, r[k] = Net("ready", t)
      PROVE  /\ now => \E j \in DOMAIN r : j < k /\ IsEnd(r[j], s)
             /\ \A i \in DOMAIN r : i < k /\ r[i] = Net("ready", s) =>
                  \E j \in DOMAIN r : i < j /\ j < k /\ IsEnd(r[j], s)
  <2>1. k + 1 \in DOMAIN q /\ q[k + 1] = Net("ready", t) /\ k \in Int
    BY <1>2, <1>5
  <2>2. ASSUME now
        PROVE  \E j \in DOMAIN r : j < k /\ IsEnd(r[j], s)
    <3>1. PICK j \in DOMAIN q : j < k + 1 /\ IsEnd(q[j], s)
      <4>1. CASE in
        BY <1>5, <2>1, <4>1 DEF Turns
      <4>2. CASE Head(q) = Net("ready", s)
        <5>1. 1 < k + 1
          BY <1>4, <1>5
        <5> QED
          BY <1>1, <1>5, <2>1, <4>2, <5>1 DEF Turns
      <4> QED
        BY <2>2, <4>1, <4>2
    <3>2. j # 1
      BY <1>1, <2>2, <3>1
    <3>3. j - 1 \in DOMAIN r /\ r[j - 1] = q[j] /\ j - 1 < k
      BY <1>3, <2>1, <3>1, <3>2
    <3> QED
      BY <3>1, <3>3
  <2>3. ASSUME NEW i \in DOMAIN r, i < k, r[i] = Net("ready", s)
        PROVE  \E j \in DOMAIN r : i < j /\ j < k /\ IsEnd(r[j], s)
    <3>1. i + 1 \in DOMAIN q /\ q[i + 1] = Net("ready", s) /\ i + 1 < k + 1 /\ i \in Int /\ 1 < i + 1
      BY <1>2, <1>4, <2>1, <2>3
    <3>2. PICK j \in DOMAIN q : i + 1 < j /\ j < k + 1 /\ IsEnd(q[j], s)
      BY <1>5, <2>1, <3>1 DEF Turns
    <3>3. j - 1 \in DOMAIN r /\ r[j - 1] = q[j] /\ i < j - 1 /\ j - 1 < k
      BY <1>3, <2>1, <3>1, <3>2
    <3> QED
      BY <3>2, <3>3
  <2> QED
    BY <2>2, <2>3
<1>6. ASSUME Turns(q, s, in, t), Head(q) = Net("ready", t), in
      PROVE  FALSE
  <2>1. PICK j \in DOMAIN q : j < 1 /\ IsEnd(q[j], s)
    BY <1>1, <1>6 DEF Turns
  <2> QED
    BY <1>3, <2>1
<1>7. ASSUME NEW j \in DOMAIN r, EndsIt(r, s, now, j)
      PROVE  j + 1 \in DOMAIN q /\ EndsIt(q, s, in, j + 1)
  <2>1. j + 1 \in DOMAIN q /\ IsEnd(q[j + 1], s) /\ 1 < j + 1
    BY <1>2, <1>4, <1>7 DEF EndsIt
  <2>2. CASE now
    BY <1>1, <2>1, <2>2 DEF EndsIt
  <2>3. ASSUME NEW i \in DOMAIN r, i < j, r[i] = Net("ready", s)
        PROVE  EndsIt(q, s, in, j + 1)
    <3>1. i + 1 \in DOMAIN q /\ i + 1 < j + 1 /\ q[i + 1] = Net("ready", s)
      BY <1>2, <2>3
    <3> QED
      BY <2>1, <3>1 DEF EndsIt
  <2> QED
    BY <1>7, <2>1, <2>2, <2>3 DEF EndsIt
<1>8. ASSUME LastReady(q, s, in), NEW j \in DOMAIN r, EndsIt(r, s, now, j),
             NEW k \in DOMAIN r, r[k] = Net("ready", s)
      PROVE  k < j
  <2>1. k + 1 < j + 1
    BY <1>2, <1>7, <1>8 DEF LastReady
  <2> QED
    BY <1>2, <2>1
<1>9. ASSUME LastReady(q, s, in), in, IsEnd(Head(q), s), Has(r, Net("ready", s))
      PROVE  FALSE
  <2>1. PICK k \in DOMAIN r : r[k] = Net("ready", s)
    BY <1>9 DEF Has
  <2>2. EndsIt(q, s, in, 1)
    BY <1>1, <1>9 DEF EndsIt
  <2>3. k + 1 \in DOMAIN q /\ q[k + 1] = Net("ready", s)
    BY <1>2, <2>1
  <2>4. k + 1 < 1
    BY <1>1, <1>9, <2>2, <2>3 DEF LastReady
  <2> QED
    BY <1>4, <2>1, <2>4
<1> QED
  BY <1>5, <1>6, <1>7, <1>8, <1>9 DEF Turns, Ended, LastReady, r

LEMMA PostTurns ==
  ASSUME NEW q \in Seq(NetJob), NEW e \in NetJob, NEW s, NEW t, NEW in \in BOOLEAN
  PROVE  /\ /\ Turns(q, s, in, t)
            /\ e = Net("ready", t) => (in => EndWaits(q, s)) /\ EndsReady(q, s)
            => Turns(Append(q, e), s, in, t)
         /\ Ended(Append(q, e), s, in) =>
              Ended(q, s, in) \/ (IsEnd(e, s) /\ (in \/ Has(q, Net("ready", s))))
         /\ LastReady(q, s, in) /\ (e = Net("ready", s) => ~Ended(q, s, in))
              => LastReady(Append(q, e), s, in)
<1>1. /\ Len(q) \in Nat /\ DOMAIN q = 1..Len(q)
      /\ DOMAIN Append(q, e) = 1..(Len(q) + 1)
      /\ \A i \in 1..Len(q) : Append(q, e)[i] = q[i]
      /\ Append(q, e)[Len(q) + 1] = e
  BY AppendFacts
<1> DEFINE r == Append(q, e)
           n == Len(q)
<1> HIDE DEF r, n
<1>2. /\ \A i \in DOMAIN q : i \in DOMAIN r /\ r[i] = q[i] /\ i < n + 1 /\ i # n + 1 /\ ~(n + 1 < i)
      /\ ~(n + 1 < n + 1)
  BY <1>1 DEF r, n
<1>3. n + 1 \in DOMAIN r /\ r[n + 1] = e
  BY <1>1 DEF r, n
<1>4. \A i \in DOMAIN r : i = n + 1 \/ (i \in DOMAIN q /\ r[i] = q[i])
  BY <1>1 DEF r, n
<1>5. IsEnd(e, s) => e # Net("ready", s)
  BY DEF IsEnd, Net
<1>6. ASSUME Turns(q, s, in, t), e = Net("ready", t) => (in => EndWaits(q, s)) /\ EndsReady(q, s),
             NEW k \in DOMAIN r, r[k] = Net("ready", t)
      PROVE  /\ in => \E j \in DOMAIN r : j < k /\ IsEnd(r[j], s)
             /\ \A i \in DOMAIN r : i < k /\ r[i] = Net("ready", s) =>
                  \E j \in DOMAIN r : i < j /\ j < k /\ IsEnd(r[j], s)
  <2>1. CASE k \in DOMAIN q
    <3>1. q[k] = Net("ready", t) /\ \A i \in DOMAIN r : i < k => i \in DOMAIN q /\ r[i] = q[i]
      BY <1>2, <1>4, <1>6, <2>1
    <3>2. in => \E j \in DOMAIN r : j < k /\ IsEnd(r[j], s)
      BY <1>2, <1>6, <2>1, <3>1 DEF Turns
    <3>3. ASSUME NEW i \in DOMAIN r, i < k, r[i] = Net("ready", s)
          PROVE  \E j \in DOMAIN r : i < j /\ j < k /\ IsEnd(r[j], s)
      BY <1>2, <1>6, <2>1, <3>1, <3>3 DEF Turns
    <3> QED
      BY <3>2, <3>3
  <2>2. CASE k = n + 1
    <3>1. (in => EndWaits(q, s)) /\ EndsReady(q, s)
      BY <1>3, <1>6, <2>2
    <3>2. in => \E j \in DOMAIN r : j < k /\ IsEnd(r[j], s)
      BY <1>2, <2>2, <3>1 DEF EndWaits
    <3>3. ASSUME NEW i \in DOMAIN r, i < k, r[i] = Net("ready", s)
          PROVE  \E j \in DOMAIN r : i < j /\ j < k /\ IsEnd(r[j], s)
      <4>1. i \in DOMAIN q /\ q[i] = Net("ready", s)
        BY <1>2, <1>4, <2>2, <3>3
      <4> QED
        BY <1>2, <2>2, <3>1, <4>1 DEF EndsReady
    <3> QED
      BY <3>2, <3>3
  <2> QED
    BY <1>4, <2>1, <2>2
<1>7. ASSUME NEW j \in DOMAIN r, EndsIt(r, s, in, j)
      PROVE  \/ j \in DOMAIN q /\ EndsIt(q, s, in, j)
             \/ j = n + 1 /\ IsEnd(e, s) /\ (in \/ Has(q, Net("ready", s)))
  BY <1>2, <1>3, <1>4, <1>7 DEF EndsIt, Has
<1>8. ASSUME LastReady(q, s, in), e = Net("ready", s) => ~Ended(q, s, in),
             NEW j \in DOMAIN r, EndsIt(r, s, in, j), NEW k \in DOMAIN r, r[k] = Net("ready", s)
      PROVE  k < j
  <2>1. CASE j \in DOMAIN q /\ EndsIt(q, s, in, j)
    <3>1. e # Net("ready", s)
      BY <1>8, <2>1 DEF Ended
    <3>2. k \in DOMAIN q /\ q[k] = Net("ready", s)
      BY <1>3, <1>4, <1>8, <3>1
    <3> QED
      BY <1>8, <2>1, <3>2 DEF LastReady
  <2>2. CASE j = n + 1 /\ IsEnd(e, s)
    BY <1>2, <1>3, <1>4, <1>5, <1>8, <2>2
  <2> QED
    BY <1>7, <1>8, <2>1, <2>2
<1> QED
  BY <1>6, <1>7, <1>8 DEF Turns, Ended, LastReady, r

LEMMA CutTurns ==
  ASSUME NEW q \in Seq(NetJob), NEW n \in 0..Len(q), NEW s, NEW t, NEW in \in BOOLEAN
  PROVE  LET r == SubSeq(q, 1, n)
         IN  /\ Turns(q, s, in, t) => Turns(r, s, in, t)
             /\ Ended(r, s, in) => Ended(q, s, in)
             /\ LastReady(q, s, in) => LastReady(r, s, in)
<1> DEFINE r == SubSeq(q, 1, n)
<1>1. /\ Len(q) \in Nat /\ DOMAIN q = 1..Len(q)
      /\ r \in Seq(NetJob) /\ DOMAIN r = 1..n
      /\ \A i \in 1..n : r[i] = q[i]
  OBVIOUS
<1> HIDE DEF r
<1>2. \A i \in DOMAIN r : i \in DOMAIN q /\ r[i] = q[i]
  BY <1>1
<1>3. \A k \in DOMAIN r : \A j \in DOMAIN q : j < k => j \in DOMAIN r
  BY <1>1
<1>4. Turns(q, s, in, t) => Turns(r, s, in, t)
  <2> SUFFICES ASSUME Turns(q, s, in, t), NEW k \in DOMAIN r, r[k] = Net("ready", t)
               PROVE  /\ in => \E j \in DOMAIN r : j < k /\ IsEnd(r[j], s)
                      /\ \A i \in DOMAIN r : i < k /\ r[i] = Net("ready", s) =>
                           \E j \in DOMAIN r : i < j /\ j < k /\ IsEnd(r[j], s)
    BY DEF Turns
  <2>1. in => \E j \in DOMAIN r : j < k /\ IsEnd(r[j], s)
    BY <1>2, <1>3 DEF Turns
  <2>2. ASSUME NEW i \in DOMAIN r, i < k, r[i] = Net("ready", s)
        PROVE  \E j \in DOMAIN r : i < j /\ j < k /\ IsEnd(r[j], s)
    <3>1. PICK j \in DOMAIN q : i < j /\ j < k /\ IsEnd(q[j], s)
      BY <1>2, <2>2 DEF Turns
    <3> QED
      BY <1>2, <1>3, <3>1
  <2> QED
    BY <2>1, <2>2
<1>5. \A j \in DOMAIN r : EndsIt(r, s, in, j) => EndsIt(q, s, in, j)
  BY <1>2 DEF EndsIt
<1>6. Ended(r, s, in) => Ended(q, s, in)
  BY <1>2, <1>5 DEF Ended
<1>7. LastReady(q, s, in) => LastReady(r, s, in)
  BY <1>2, <1>5 DEF LastReady
<1> QED
  BY <1>4, <1>6, <1>7 DEF r

\* Who goes leaves the order as it was.
LEMMA LessTurns ==
  ASSUME NEW q, NEW s, NEW t, NEW in \in BOOLEAN, NEW now \in BOOLEAN, now => in
  PROVE  /\ Turns(q, s, in, t) => Turns(q, s, now, t)
         /\ Ended(q, s, now) => Ended(q, s, in)
         /\ LastReady(q, s, in) => LastReady(q, s, now)
BY DEF Turns, Ended, LastReady, EndsIt

\* A zone takes a job.
LEMMA TakesTurns ==
  ASSUME TypeOK, TurnInv, EndInv, NEW z \in Zones, Takes(z)
  PROVE  TurnInv' /\ EndInv'
<1>1. /\ netQueue[z] \in Seq(NetJob) /\ netQueue[z] # <<>>
      /\ netQueue'[z] = Tail(netQueue[z])
      /\ \A y \in Zones : y # z => netQueue'[y] = netQueue[y]
      /\ UNCHANGED gate
  BY DEF Takes, TypeOK, gateVars
<1>2. PICK e : e = Head(netQueue[z])
  OBVIOUS
<1>3. /\ \A y \in Zones, s \in Sessions :
           In(y, s)' => In(y, s) \/ (y = z /\ e = Net("ready", s))
      /\ \A s \in Sessions : IsEnd(e, s) => ~In(z, s)'
  BY <1>2 DEF Takes
<1>4. ASSUME NEW y \in Zones, NEW s \in Sessions, NEW t \in Sessions,
             NEW in \in BOOLEAN, in = In(y, s), NEW now \in BOOLEAN, now = In(y, s)'
      PROVE  /\ Turns(netQueue[y], s, in, t) => Turns(netQueue'[y], s, now, t)
             /\ y = z /\ Turns(netQueue[y], s, in, t) /\ e = Net("ready", t) => ~in
             /\ Ended(netQueue'[y], s, now) => Ended(netQueue[y], s, in)
             /\ LastReady(netQueue[y], s, in) => LastReady(netQueue'[y], s, now)
  <2>1. CASE y = z
    <3>1. now => in \/ e = Net("ready", s)
      BY <1>3, <1>4
    <3>2. IsEnd(e, s) => ~now
      BY <1>3, <1>4, <2>1
    <3>3. PICK q \in Seq(NetJob) : q = netQueue[z] /\ q # <<>> /\ e = Head(q)
      BY <1>1, <1>2
    <3>4. /\ Turns(q, s, in, t) => Turns(Tail(q), s, now, t)
          /\ Turns(q, s, in, t) /\ Head(q) = Net("ready", t) => ~in
          /\ Ended(Tail(q), s, now) => Ended(q, s, in)
          /\ LastReady(q, s, in) => LastReady(Tail(q), s, now)
      BY <3>1, <3>2, <3>3, TakeTurns
    <3>5. netQueue[y] = q /\ netQueue'[y] = Tail(q)
      BY <1>1, <2>1, <3>3
    <3> QED
      BY <3>3, <3>4, <3>5
  <2>2. CASE y # z
    <3>1. (now => in) /\ netQueue'[y] = netQueue[y]
      BY <1>1, <1>3, <1>4, <2>2
    <3> QED
      BY <2>2, <3>1, LessTurns
  <2> QED
    BY <2>1, <2>2
<1>5. ASSUME NEW y \in Zones, NEW s \in Sessions, NEW t \in Sessions,
             s # t, PlayerOf[s] = PlayerOf[t]
      PROVE  Turns(netQueue'[y], s, In(y, s)', t) /\ (In(y, s) => ~(y = z /\ e = Net("ready", t)))
  <2>1. Turns(netQueue[y], s, In(y, s), t)
    BY <1>5 DEF TurnInv
  <2>2. PICK in \in BOOLEAN, now \in BOOLEAN : in = In(y, s) /\ now = In(y, s)'
    BY DEF In
  <2> QED
    BY <1>4, <2>1, <2>2
<1>6. ASSUME NEW y \in Zones, NEW s \in Sessions, NEW t \in Sessions,
             s # t, PlayerOf[s] = PlayerOf[t], In(y, s)', In(y, t)'
      PROVE  FALSE
  <2>1. In(y, s) \/ (y = z /\ e = Net("ready", s))
    BY <1>3, <1>6
  <2>2. In(y, t) \/ (y = z /\ e = Net("ready", t))
    BY <1>3, <1>6
  <2>3. ~(e = Net("ready", s) /\ e = Net("ready", t))
    BY <1>6 DEF Net
  <2>4. ~(In(y, s) /\ In(y, t))
    BY <1>6 DEF TurnInv
  <2>5. In(y, s) => ~(y = z /\ e = Net("ready", t))
    BY <1>5, <1>6
  <2>6. In(y, t) => ~(y = z /\ e = Net("ready", s))
    BY <1>5, <1>6
  <2> QED
    BY <2>1, <2>2, <2>3, <2>4, <2>5, <2>6
<1>7. EndInv'
  <2> SUFFICES ASSUME NEW y \in Zones, NEW s \in Sessions, Ended(netQueue'[y], s, In(y, s)')
               PROVE  gate'[s] = "gone" /\ LastReady(netQueue'[y], s, In(y, s)')
    BY DEF EndInv
  <2>1. PICK in \in BOOLEAN, now \in BOOLEAN : in = In(y, s) /\ now = In(y, s)'
    BY DEF In
  <2>2. Ended(netQueue[y], s, in)
    BY <1>4, <2>1
  <2>3. gate[s] = "gone" /\ LastReady(netQueue[y], s, in)
    BY <2>1, <2>2 DEF EndInv
  <2> QED
    BY <1>1, <1>4, <2>1, <2>3
<1> QED
  BY <1>5, <1>6, <1>7 DEF TurnInv

\* The zones' queues stay, and who is in a zone stays or goes.
LEMMA StaysTurns ==
  ASSUME TurnInv, EndInv, ZoneStep
  PROVE  TurnInv' /\ EndInv'
<1>1. ASSUME NEW y \in Zones, NEW s \in Sessions, NEW t \in Sessions
      PROVE  /\ Turns(netQueue[y], s, In(y, s), t) => Turns(netQueue'[y], s, In(y, s)', t)
             /\ Ended(netQueue'[y], s, In(y, s)') => Ended(netQueue[y], s, In(y, s))
             /\ LastReady(netQueue[y], s, In(y, s)) => LastReady(netQueue'[y], s, In(y, s)')
  <2>1. PICK in \in BOOLEAN, now \in BOOLEAN : in = In(y, s) /\ now = In(y, s)'
    BY DEF In
  <2>2. (now => in) /\ netQueue'[y] = netQueue[y]
    BY <2>1 DEF ZoneStep
  <2> QED
    BY <2>1, <2>2, LessTurns
<1>2. \A y \in Zones, s \in Sessions : In(y, s)' => In(y, s)
  BY DEF ZoneStep
<1>3. TurnInv'
  BY <1>1, <1>2 DEF TurnInv
<1>4. EndInv'
  BY <1>1 DEF EndInv, ZoneStep
<1> QED
  BY <1>3, <1>4

\* What posting job e to zone z does to the order.
LEMMA PostsTurns ==
  ASSUME TypeOK, NEW z \in Zones, NEW e \in NetJob, Posts(z, e),
         NEW y \in Zones, NEW s \in Sessions, NEW t \in Sessions
  PROVE  /\ In(y, s)' <=> In(y, s)
         /\ /\ Turns(netQueue[y], s, In(y, s), t)
            /\ y = z /\ e = Net("ready", t) =>
                 (In(z, s) => EndWaits(netQueue[z], s)) /\ EndsReady(netQueue[z], s)
            => Turns(netQueue'[y], s, In(y, s)', t)
         /\ Ended(netQueue'[y], s, In(y, s)') =>
              Ended(netQueue[y], s, In(y, s)) \/ (y = z /\ IsEnd(e, s) /\ At(z, s))
         /\ /\ LastReady(netQueue[y], s, In(y, s))
            /\ y = z /\ e = Net("ready", s) => ~Ended(netQueue[z], s, In(z, s))
            => LastReady(netQueue'[y], s, In(y, s)')
<1>1. /\ netQueue[z] \in Seq(NetJob)
      /\ netQueue'[z] = Append(netQueue[z], e)
      /\ \A x \in Zones : x # z => netQueue'[x] = netQueue[x]
  BY DEF Posts, TypeOK
<1>2. In(y, s)' <=> In(y, s)
  BY DEF Posts, In, zoneVars
<1>3. PICK in \in BOOLEAN : in = In(y, s) /\ in = In(y, s)'
  BY <1>2 DEF In
<1>4. CASE y = z
  <2>1. in \/ Has(netQueue[z], Net("ready", s)) => At(z, s)
    BY <1>3, <1>4 DEF At, Coming
  <2>2. \A r \in Seq(NetJob) :
          /\ /\ Turns(r, s, in, t)
             /\ e = Net("ready", t) => (in => EndWaits(r, s)) /\ EndsReady(r, s)
             => Turns(Append(r, e), s, in, t)
          /\ Ended(Append(r, e), s, in) =>
               Ended(r, s, in) \/ (IsEnd(e, s) /\ (in \/ Has(r, Net("ready", s))))
          /\ LastReady(r, s, in) /\ (e = Net("ready", s) => ~Ended(r, s, in))
               => LastReady(Append(r, e), s, in)
    BY PostTurns
  <2> QED
    BY <1>1, <1>2, <1>3, <1>4, <2>1, <2>2
<1>5. CASE y # z
  BY <1>1, <1>2, <1>3, <1>5
<1> QED
  BY <1>4, <1>5

\* READY is forwarded for the session that plays: those before it have their ends ahead.
LEMMA RouteReadyTurns ==
  ASSUME TypeOK, SessionInv, TurnInv, EndInv, PlayAlone, NEW u \in Sessions, RouteReady(u)
  PROVE  TurnInv' /\ EndInv'
<1>1. PICK z \in Zones : z = route[u]
  BY DEF RouteReady, SessionInv, Routed
<1>2. PICK e \in NetJob : e = Net("ready", u)
  BY DEF Net, NetJob
<1>3. Posts(z, e) /\ gate[u] = "play" /\ UNCHANGED gate
  BY <1>1, <1>2 DEF RouteReady, Posts
<1>4. \A s \in Sessions : e = Net("ready", s) => s = u
  BY <1>2 DEF Net
<1>5. \A s : ~IsEnd(e, s)
  BY <1>2 DEF IsEnd, Net
<1>6. ASSUME NEW s \in Sessions, s # u, PlayerOf[s] = PlayerOf[u]
      PROVE  (In(z, s) => EndWaits(netQueue[z], s)) /\ EndsReady(netQueue[z], s)
  <2>1. gate[s] # "play"
    BY <1>3, <1>6 DEF PlayAlone
  <2>2. CASE gate[s] = "gone"
    BY <2>2 DEF SessionInv, EndsFollow
  <2>3. CASE gate[s] = "new"
    <3>1. ~In(z, s) /\ ~Coming(z, s)
      BY <2>3 DEF SessionInv, NotBegun, At
    <3>2. EndsReady(netQueue[z], s)
      BY <3>1 DEF Coming, Has, EndsReady
    <3> QED
      BY <3>1, <3>2
  <2> QED
    BY <2>1, <2>2, <2>3 DEF TypeOK
<1>7. TurnInv'
  <2> SUFFICES ASSUME NEW y \in Zones, NEW s \in Sessions, NEW t \in Sessions,
                      s # t, PlayerOf[s] = PlayerOf[t]
               PROVE  ~(In(y, s)' /\ In(y, t)') /\ Turns(netQueue'[y], s, In(y, s)', t)
    BY DEF TurnInv
  <2>1. ~(In(y, s) /\ In(y, t)) /\ Turns(netQueue[y], s, In(y, s), t)
    BY DEF TurnInv
  <2>2. (In(y, s)' <=> In(y, s)) /\ (In(y, t)' <=> In(y, t))
    BY <1>3, PostsTurns
  <2>3. Turns(netQueue'[y], s, In(y, s)', t)
    BY <1>3, <1>4, <1>6, <2>1, PostsTurns
  <2> QED
    BY <2>1, <2>2, <2>3
<1>8. EndInv'
  <2> SUFFICES ASSUME NEW y \in Zones, NEW s \in Sessions, Ended(netQueue'[y], s, In(y, s)')
               PROVE  gate[s] = "gone" /\ LastReady(netQueue'[y], s, In(y, s)')
    BY <1>3 DEF EndInv
  <2>1. Ended(netQueue[y], s, In(y, s))
    BY <1>3, <1>5, PostsTurns
  <2>2. gate[s] = "gone" /\ LastReady(netQueue[y], s, In(y, s))
    BY <2>1 DEF EndInv
  <2>3. e # Net("ready", s)
    BY <1>3, <1>4, <2>2
  <2> QED
    BY <1>3, <2>2, <2>3, PostsTurns
<1> QED
  BY <1>7, <1>8

\* A session closes: its disconnect is the first of its ends, and the last of its jobs.
LEMMA CloseTurns ==
  ASSUME TypeOK, SessionInv, TurnInv, EndInv, NEW u \in Sessions, CloseSession(u)
  PROVE  TurnInv' /\ EndInv'
<1>1. PICK z \in Zones : z = route[u]
  BY DEF CloseSession, SessionInv, Routed
<1>2. PICK e \in NetJob : e = Net("bye", u)
  BY DEF Net, NetJob
<1>3. /\ Posts(z, e) /\ gate[u] = "play" /\ gate'[u] = "gone"
      /\ \A s \in Sessions : s # u => gate'[s] = gate[s]
  BY <1>1, <1>2 DEF CloseSession, Posts, TypeOK
<1>4. \A s : e # Net("ready", s)
  BY <1>2 DEF Net
<1>5. \A s : IsEnd(e, s) => s = u
  BY <1>2 DEF IsEnd, Net
<1>6. TurnInv'
  <2> SUFFICES ASSUME NEW y \in Zones, NEW s \in Sessions, NEW t \in Sessions,
                      s # t, PlayerOf[s] = PlayerOf[t]
               PROVE  ~(In(y, s)' /\ In(y, t)') /\ Turns(netQueue'[y], s, In(y, s)', t)
    BY DEF TurnInv
  <2>1. ~(In(y, s) /\ In(y, t)) /\ Turns(netQueue[y], s, In(y, s), t)
    BY DEF TurnInv
  <2>2. (In(y, s)' <=> In(y, s)) /\ (In(y, t)' <=> In(y, t))
    BY <1>3, PostsTurns
  <2>3. Turns(netQueue'[y], s, In(y, s)', t)
    BY <1>3, <1>4, <2>1, PostsTurns
  <2> QED
    BY <2>1, <2>2, <2>3
<1>7. EndInv'
  <2> SUFFICES ASSUME NEW y \in Zones, NEW s \in Sessions, Ended(netQueue'[y], s, In(y, s)')
               PROVE  gate'[s] = "gone" /\ LastReady(netQueue'[y], s, In(y, s)')
    BY DEF EndInv
  <2>1. Ended(netQueue[y], s, In(y, s)) \/ IsEnd(e, s)
    BY <1>3, PostsTurns
  <2>2. gate'[s] = "gone"
    BY <1>3, <1>5, <2>1 DEF EndInv
  <2>3. LastReady(netQueue[y], s, In(y, s))
    <3>1. CASE Ended(netQueue[y], s, In(y, s))
      BY <3>1 DEF EndInv
    <3>2. CASE ~Ended(netQueue[y], s, In(y, s))
      BY <3>2 DEF Ended, LastReady
    <3> QED
      BY <3>1, <3>2
  <2>4. LastReady(netQueue'[y], s, In(y, s)')
    BY <1>3, <1>4, <2>3, PostsTurns
  <2> QED
    BY <2>2, <2>4
<1> QED
  BY <1>6, <1>7

\* The gateway is lost: packets are lost behind the others, and the clearing comes last.
LEMMA LostTurns ==
  ASSUME TypeOK, SessionInv, TurnInv, EndInv, LoseGateway
  PROVE  TurnInv' /\ EndInv'
<1>1. PICK e \in NetJob : e = Net("clear", NoSession)
  BY DEF Net, NetJob
<1>2. \A s : e # Net("ready", s)
  BY <1>1 DEF Net
<1>3. \A y \in Zones, s \in Sessions : In(y, s)' <=> In(y, s)
  BY DEF LoseGateway, In, zoneVars
<1>4. ASSUME NEW y \in Zones, NEW s \in Sessions, NEW t \in Sessions
      PROVE  /\ Turns(netQueue[y], s, In(y, s), t) => Turns(netQueue'[y], s, In(y, s)', t)
             /\ Ended(netQueue'[y], s, In(y, s)') => Ended(netQueue[y], s, In(y, s)) \/ At(y, s)
             /\ LastReady(netQueue[y], s, In(y, s)) => LastReady(netQueue'[y], s, In(y, s)')
  <2>1. PICK q \in Seq(NetJob) : q = netQueue[y]
    BY DEF TypeOK
  <2>2. PICK k \in 0..Len(netQueue[y]) :
          /\ \A i \in (k + 1)..Len(netQueue[y]) : netQueue[y][i].kind \in {"ready", "bye"}
          /\ netQueue'[y] = Append(SubSeq(netQueue[y], 1, k), e)
    BY <1>1, LostQueue
  <2>3. PICK r : r = SubSeq(q, 1, k)
    OBVIOUS
  <2>4. r \in Seq(NetJob) /\ (Has(r, Net("ready", s)) => Has(q, Net("ready", s)))
    BY <2>1, <2>2, <2>3, CutFacts
  <2>5. PICK in \in BOOLEAN : in = In(y, s) /\ in = In(y, s)'
    BY <1>3 DEF In
  <2>6. k \in 0..Len(q)
    BY <2>1, <2>2
  <2>7. /\ Turns(q, s, in, t) => Turns(r, s, in, t)
        /\ Ended(r, s, in) => Ended(q, s, in)
        /\ LastReady(q, s, in) => LastReady(r, s, in)
    BY <2>3, <2>6, CutTurns
  <2>8. /\ Turns(r, s, in, t) => Turns(Append(r, e), s, in, t)
        /\ Ended(Append(r, e), s, in) => Ended(r, s, in) \/ in \/ Has(r, Net("ready", s))
        /\ LastReady(r, s, in) => LastReady(Append(r, e), s, in)
    BY <1>2, <2>4, PostTurns
  <2>9. netQueue[y] = q /\ netQueue'[y] = Append(r, e)
    BY <2>1, <2>2, <2>3
  <2>10. in \/ Has(q, Net("ready", s)) => At(y, s)
    BY <2>1, <2>5 DEF At, Coming
  <2> QED
    BY <2>4, <2>5, <2>7, <2>8, <2>9, <2>10
<1>5. TurnInv'
  BY <1>3, <1>4 DEF TurnInv
<1>6. EndInv'
  <2> SUFFICES ASSUME NEW y \in Zones, NEW s \in Sessions, Ended(netQueue'[y], s, In(y, s)')
               PROVE  gate'[s] = "gone" /\ LastReady(netQueue'[y], s, In(y, s)')
    BY DEF EndInv
  <2>1. Ended(netQueue[y], s, In(y, s)) \/ At(y, s)
    BY <1>4
  <2>2. gate[s] # "new"
    BY <2>1 DEF EndInv, SessionInv, NotBegun
  <2>3. gate'[s] = "gone"
    BY <2>2 DEF LoseGateway, TypeOK
  <2>4. LastReady(netQueue[y], s, In(y, s))
    <3>1. CASE Ended(netQueue[y], s, In(y, s))
      BY <3>1 DEF EndInv
    <3>2. CASE ~Ended(netQueue[y], s, In(y, s))
      BY <3>2 DEF Ended, LastReady
    <3> QED
      BY <3>1, <3>2
  <2> QED
    BY <1>4, <2>3, <2>4
<1> QED
  BY <1>5, <1>6

\* A signal: the jobs of Zone::Shutdown are neither READYs nor ends of one session.
LEMMA SignalTurns ==
  ASSUME TypeOK, TurnInv, EndInv, Signal
  PROVE  TurnInv' /\ EndInv'
<1>1. PICK first \in NetJob, second \in NetJob :
        first = Net("close", NoSession) /\ second = Net("clearDone", NoSession)
  BY DEF Net, NetJob
<1>2. \A s : /\ first # Net("ready", s) /\ second # Net("ready", s)
             /\ ~IsEnd(first, s) /\ ~IsEnd(second, s)
  BY <1>1 DEF IsEnd, Net
<1>3. (\A y \in Zones, s \in Sessions : In(y, s)' <=> In(y, s)) /\ UNCHANGED gate
  BY DEF Signal, In, zoneVars, gateVars
<1>4. ASSUME NEW y \in Zones, NEW s \in Sessions, NEW t \in Sessions
      PROVE  /\ Turns(netQueue[y], s, In(y, s), t) => Turns(netQueue'[y], s, In(y, s)', t)
             /\ Ended(netQueue'[y], s, In(y, s)') => Ended(netQueue[y], s, In(y, s))
             /\ LastReady(netQueue[y], s, In(y, s)) => LastReady(netQueue'[y], s, In(y, s)')
  <2>1. PICK q \in Seq(NetJob) : q = netQueue[y]
    BY DEF TypeOK
  <2>2. PICK in \in BOOLEAN : in = In(y, s) /\ in = In(y, s)'
    BY <1>3 DEF In
  <2>3. PICK r \in Seq(NetJob) : r = Append(q, first)
    BY <2>1, AppendFacts
  <2>4. netQueue'[y] = Append(r, second)
    <3>1. netQueue'[y] = q \o <<first, second>>
      BY <1>1, <2>1 DEF Signal, TypeOK
    <3> QED
      BY <2>3, <3>1
  <2>5. /\ Turns(q, s, in, t) => Turns(Append(q, first), s, in, t)
        /\ Ended(Append(q, first), s, in) => Ended(q, s, in)
        /\ LastReady(q, s, in) => LastReady(Append(q, first), s, in)
    BY <1>2, PostTurns
  <2>6. /\ Turns(r, s, in, t) => Turns(Append(r, second), s, in, t)
        /\ Ended(Append(r, second), s, in) => Ended(r, s, in)
        /\ LastReady(r, s, in) => LastReady(Append(r, second), s, in)
    BY <1>2, PostTurns
  <2> QED
    BY <2>1, <2>2, <2>3, <2>4, <2>5, <2>6
<1>5. TurnInv'
  BY <1>3, <1>4 DEF TurnInv
<1>6. EndInv'
  BY <1>3, <1>4 DEF EndInv
<1> QED
  BY <1>5, <1>6

LEMMA PlayAloneStep ==
  ASSUME TypeOK, PlayAlone, [Next]_vars
  PROVE  PlayAlone'
<1> SUFFICES ASSUME NEW s \in Sessions, NEW t \in Sessions, PlayerOf[s] = PlayerOf[t],
                    gate'[s] = "play", gate'[t] = "play", s # t
             PROVE  FALSE
  BY DEF PlayAlone
<1>1. gate[s] = "play" \/ SelectCharacter(s)
  BY PlaysBySelection
<1>2. gate[t] = "play" \/ SelectCharacter(t)
  BY PlaysBySelection
<1>3. ~(SelectCharacter(s) /\ gate[t] = "play") /\ ~(SelectCharacter(t) /\ gate[s] = "play")
  BY DEF SelectCharacter
<1>4. ~(SelectCharacter(s) /\ SelectCharacter(t))
  BY DEF SelectCharacter, TypeOK
<1> QED
  BY <1>1, <1>2, <1>3, <1>4 DEF PlayAlone

LEMMA TurnStep ==
  ASSUME IInv, SessionInv, TurnInv, EndInv, PlayAlone, [Next]_vars
  PROVE  TurnInv' /\ EndInv' /\ PlayAlone'
<1>1. TypeOK /\ PlayAlone'
  BY PlayAloneStep DEF IInv
<1>2. ASSUME NEW z \in Zones, ZoneJob(z)
      PROVE  TurnInv' /\ EndInv'
  <2>1. Takes(z)
    BY <1>2, ReadyTakes, DisconnectTakes, OtherJobTakes DEF ZoneJob
  <2> QED
    BY <1>1, <2>1, TakesTurns
<1>3. ASSUME NEW z \in Zones, DbCallback(z)
      PROVE  TurnInv' /\ EndInv'
  <2>1. ZoneStep
    BY <1>3, SpawnStays, PortalStays DEF DbCallback
  <2> QED
    BY <2>1, StaysTurns
<1>4. ASSUME UNCHANGED <<netQueue, gateVars, sessionToPlayer, spawnPending>>
      PROVE  TurnInv' /\ EndInv'
  <2>1. ZoneStep
    BY <1>4 DEF ZoneStep, gateVars, In
  <2> QED
    BY <2>1, StaysTurns
<1>5. ASSUME NEW z \in Zones, Play(z)
      PROVE  UNCHANGED <<netQueue, gateVars, sessionToPlayer, spawnPending>>
  BY <1>5 DEF Play, EarnExp, MonsterKills, HandleRevive, HandlePortal, AutoSaveTick
<1>6. ASSUME NEW p \in Players, RunTask(p)
      PROVE  UNCHANGED <<netQueue, gateVars, sessionToPlayer, spawnPending>>
  BY <1>6 DEF RunTask, zoneVars
<1>7. ASSUME NEW s \in Sessions, SelectCharacter(s) \/ LeaveCompleted(s)
      PROVE  TurnInv' /\ EndInv'
  <2>1. /\ UNCHANGED <<zoneVars, netQueue>>
        /\ \A t \in Sessions : gate[t] = "gone" => gate'[t] = "gone"
    BY <1>1, <1>7 DEF SelectCharacter, LeaveCompleted, TypeOK
  <2>2. UNCHANGED netQueue /\ \A y \in Zones, t \in Sessions : In(y, t)' <=> In(y, t)
    BY <2>1 DEF In, zoneVars
  <2>3. ASSUME NEW y \in Zones, NEW t \in Sessions, NEW u \in Sessions
        PROVE  /\ Turns(netQueue[y], t, In(y, t), u) <=> Turns(netQueue'[y], t, In(y, t)', u)
               /\ Ended(netQueue'[y], t, In(y, t)') <=> Ended(netQueue[y], t, In(y, t))
               /\ LastReady(netQueue[y], t, In(y, t)) <=> LastReady(netQueue'[y], t, In(y, t)')
    <3>1. PICK in \in BOOLEAN : in = In(y, t) /\ in = In(y, t)'
      BY <2>2 DEF In
    <3> QED
      BY <2>2, <3>1
  <2> QED
    BY <2>1, <2>2, <2>3 DEF TurnInv, EndInv
<1>8. ASSUME NEW s \in Sessions, Gateway(s)
      PROVE  TurnInv' /\ EndInv'
  BY <1>1, <1>7, <1>8, RouteReadyTurns, CloseTurns DEF Gateway
<1>9. CASE Finish \/ UNCHANGED vars
  BY <1>1, <1>4, <1>9 DEF Finish, vars, zoneVars
<1>10. ASSUME NEW z \in Zones, Play(z)
       PROVE  TurnInv' /\ EndInv'
  BY <1>4, <1>5, <1>10
<1>11. ASSUME NEW p \in Players, RunTask(p)
       PROVE  TurnInv' /\ EndInv'
  BY <1>4, <1>6, <1>11
<1>12. CASE LoseGateway \/ Signal
  BY <1>1, <1>12, LostTurns, SignalTurns
<1>13. TurnInv' /\ EndInv'
  BY <1>2, <1>3, <1>8, <1>9, <1>10, <1>11, <1>12 DEF Next
<1> QED
  BY <1>1, <1>13

-----------------------------------------------------------------------------
\* A load whose session the zone has forgotten is never taken for a later one.

LoadTasks(z, s) == {t \in Task : t.kind = "load" /\ t.z = z /\ t.s = s}
LoadAnswers(s) == {j \in DbJob : j.kind = "spawned" /\ j.s = s}

\* One of K waits for character p, or one answer of J waits for zone z, or neither.
OneHere(p, z, K, J) ==
  /\ OnceIn(dbQueue[p], K)
  /\ OnceIn(jobQueue[z], J)
  /\ Elems(dbQueue[p]) \cap K = {} \/ Elems(jobQueue[z]) \cap J = {}
NoneHere(p, z, K, J) == Elems(dbQueue[p]) \cap K = {} /\ Elems(jobQueue[z]) \cap J = {}

\* Session s cannot ask zone z for a load any more.
Spent(z, s) == closed[z] \/ (gate[s] = "gone" /\ ~Coming(z, s))

LoadOf(z, s) ==
  /\ OneHere(PlayerOf[s], z, LoadTasks(z, s), LoadAnswers(s))
  /\ \/ NoneHere(PlayerOf[s], z, LoadTasks(z, s), LoadAnswers(s))
     \/ s \in spawnPending[z]
     \/ Spent(z, s)
LoadInv == \A z \in Zones, s \in Sessions : LoadOf(z, s)

LEMMA ClosedStays ==
  ASSUME TypeOK, [Next]_vars, NEW z \in Zones, closed[z]
  PROVE  closed'[z]
<1>1. CASE UNCHANGED closed
  BY <1>1
<1>2. ASSUME NEW y \in Zones, ZoneJob(y) \/ DbCallback(y)
      PROVE  closed'[z]
  BY <1>2 DEF ZoneJob, HandleReadyToSpawn, HandleDisconnect, HandleGatewayLost, CloseZone,
              ClearForShutdown, SaveAllAndClear, DbCallback, SpawnLoaded, PortalSaved, TypeOK
<1>3. ASSUME NEW y \in Zones, Play(y)
      PROVE  UNCHANGED closed
  BY <1>3 DEF Play, EarnExp, MonsterKills, HandleRevive, HandlePortal, AutoSaveTick
<1>4. ASSUME NEW p \in Players, RunTask(p)
      PROVE  UNCHANGED closed
  BY <1>4 DEF RunTask, zoneVars
<1>5. ASSUME NEW s \in Sessions, Gateway(s)
      PROVE  UNCHANGED closed
  BY <1>5 DEF Gateway, SelectCharacter, RouteReady, LeaveCompleted, CloseSession, zoneVars
<1>6. CASE LoseGateway \/ Signal \/ Finish \/ UNCHANGED vars
  BY <1>1, <1>6 DEF LoseGateway, Signal, Finish, vars, zoneVars
<1> QED
  BY <1>1, <1>2, <1>3, <1>4, <1>5, <1>6 DEF Next

LEMMA GoneStays ==
  ASSUME TypeOK, [Next]_vars, NEW s \in Sessions, gate[s] = "gone"
  PROVE  gate'[s] = "gone"
<1>1. CASE UNCHANGED gate
  BY <1>1
<1>2. ASSUME NEW z \in Zones, ZoneJob(z) \/ DbCallback(z)
      PROVE  UNCHANGED gate
  BY <1>2 DEF ZoneJob, HandleReadyToSpawn, HandleDisconnect, HandleGatewayLost, CloseZone,
              ClearForShutdown, SaveAllAndClear, DbCallback, SpawnLoaded, PortalSaved, gateVars
<1>3. ASSUME NEW z \in Zones, Play(z)
      PROVE  UNCHANGED gate
  BY <1>3 DEF Play, EarnExp, MonsterKills, HandleRevive, HandlePortal, AutoSaveTick, gateVars
<1>4. ASSUME NEW p \in Players, RunTask(p)
      PROVE  UNCHANGED gate
  BY <1>4 DEF RunTask, gateVars
<1>5. ASSUME NEW t \in Sessions, Gateway(t)
      PROVE  gate'[s] = "gone"
  BY <1>5 DEF Gateway, SelectCharacter, RouteReady, LeaveCompleted, CloseSession, TypeOK
<1>6. CASE LoseGateway
  BY <1>6 DEF LoseGateway
<1>7. CASE Signal \/ Finish \/ UNCHANGED vars
  BY <1>1, <1>7 DEF Signal, Finish, vars, gateVars
<1> QED
  BY <1>1, <1>2, <1>3, <1>4, <1>5, <1>6, <1>7 DEF Next

LEMMA SpentStays ==
  ASSUME IInv, SessionInv, [Next]_vars, NEW z \in Zones, NEW s \in Sessions, Spent(z, s)
  PROVE  Spent(z, s)'
<1>1. CASE closed[z]
  BY <1>1, ClosedStays DEF Spent, IInv
<1>2. CASE gate[s] = "gone" /\ ~Coming(z, s)
  <2>1. ~Coming(z, s)'
    BY <1>2, ComingByReady DEF RouteReady
  <2> QED
    BY <1>2, <2>1, GoneStays DEF Spent, IInv
<1> QED
  BY <1>1, <1>2 DEF Spent

\* The first of two jobs that end session s in zone z is the last it takes of it.
LEMMA EndTaken ==
  ASSUME TypeOK, EndInv, NEW z \in Zones, Takes(z), NEW s \in Sessions,
         In(z, s), IsEnd(Head(netQueue[z]), s)
  PROVE  gate[s] = "gone" /\ ~Coming(z, s)'
<1>1. PICK q \in Seq(NetJob) : q = netQueue[z] /\ q # <<>> /\ netQueue'[z] = Tail(q)
  BY DEF Takes, TypeOK
<1>2. PICK in \in BOOLEAN : in = In(z, s)
  BY DEF In
<1>3. 1 \in DOMAIN q /\ Head(q) = q[1]
  BY <1>1, TailShift
<1>4. Ended(q, s, in)
  BY <1>1, <1>2, <1>3 DEF Ended, EndsIt
<1>5. gate[s] = "gone" /\ LastReady(q, s, in)
  BY <1>1, <1>2, <1>4 DEF EndInv
<1>6. ~Has(Tail(q), Net("ready", s))
  <2>1. PICK now \in BOOLEAN : now = FALSE
    OBVIOUS
  <2> QED
    BY <1>1, <1>2, <1>5, <2>1, TakeTurns
<1> QED
  BY <1>1, <1>5, <1>6 DEF Coming

\* A zone forgets a load when it is answered, or when the session cannot ask again.
LEMMA LoadGoes ==
  ASSUME IInv, ShutdownInv, SessionInv, EndInv, [Next]_vars, NEW z \in Zones, NEW s \in Sessions,
         s \in spawnPending[z], s \notin spawnPending'[z]
  PROVE  \/ Spent(z, s)'
         \/ SpawnLoaded(z) /\ Head(jobQueue[z]).s = s
<1>1. TypeOK /\ In(z, s)
  BY DEF IInv, In
<1>2. ASSUME NEW y \in Zones, ZoneJob(y)
      PROVE  Spent(z, s)'
  <2>1. Takes(y)
    BY <1>2, ReadyTakes, DisconnectTakes, OtherJobTakes DEF ZoneJob
  <2>2. CASE HandleReadyToSpawn(y) \/ CloseZone(y)
    <3>1. UNCHANGED spawnPending \/ HandleReadyToSpawn(y)
      BY <2>2 DEF CloseZone
    <3>2. PICK t : spawnPending' = spawnPending \/ spawnPending' = [spawnPending EXCEPT ![y] = @ \cup {t}]
      BY <3>1 DEF HandleReadyToSpawn
    <3>3. spawnPending \in [Zones -> SUBSET Sessions]
      BY <1>1 DEF TypeOK
    <3>4. CASE spawnPending' = spawnPending
      BY <3>4
    <3>5. CASE spawnPending' = [spawnPending EXCEPT ![y] = @ \cup {t}]
      <4>1. spawnPending'[z] = spawnPending[z] \/ spawnPending'[z] = spawnPending[z] \cup {t}
        BY <3>3, <3>5
      <4> QED
        BY <4>1
    <3> QED
      BY <3>2, <3>4, <3>5
  <2>3. CASE HandleDisconnect(y)
    <3>1. PICK t \in Sessions : t = Head(netQueue[y]).s
      BY <1>1, <2>3, NextNetType DEF HandleDisconnect, NextNet, NetJob
    <3>2. spawnPending' = [spawnPending EXCEPT ![y] = @ \ {t}]
      BY <2>3, <3>1 DEF HandleDisconnect
    <3>3. y = z /\ s = t
      BY <1>1, <3>2 DEF TypeOK
    <3>4. IsEnd(Head(netQueue[z]), s)
      <4>1. Head(netQueue[y]) \in NetJob /\ Head(netQueue[y]).kind = "bye"
        BY <1>1, <2>3, NextNetType DEF HandleDisconnect, NextNet
      <4> QED
        BY <3>1, <3>3, <4>1 DEF IsEnd, Net, NetJob
    <3>5. gate[s] = "gone" /\ ~Coming(z, s)'
      BY <1>1, <2>1, <3>3, <3>4, EndTaken
    <3> QED
      BY <1>1, <3>5, GoneStays DEF Spent
  <2>4. CASE HandleGatewayLost(y)
    <3>1. y = z
      BY <1>1, <2>4 DEF HandleGatewayLost, SaveAllAndClear, TypeOK
    <3>2. IsEnd(Head(netQueue[z]), s)
      BY <2>4, <3>1 DEF HandleGatewayLost, NextNet, IsEnd
    <3>3. gate[s] = "gone" /\ ~Coming(z, s)'
      BY <1>1, <2>1, <3>1, <3>2, EndTaken
    <3> QED
      BY <1>1, <3>3, GoneStays DEF Spent
  <2>5. CASE ClearForShutdown(y)
    <3>1. y = z
      BY <1>1, <2>5 DEF ClearForShutdown, SaveAllAndClear, TypeOK
    <3>2. /\ netQueue[z] \in Seq(NetJob) /\ netQueue[z] # <<>> /\ closed[z] \in BOOLEAN
          /\ Head(netQueue[z]).kind = "clearDone" /\ ClosesFirst(netQueue[z], closed[z])
      BY <1>1, <2>5, <3>1 DEF ClearForShutdown, NextNet, TypeOK, ShutdownInv
    <3>3. closed[z]
      BY <3>2, TakeCloses
    <3> QED
      BY <1>1, <3>3, ClosedStays DEF Spent
  <2> QED
    BY <1>2, <2>2, <2>3, <2>4, <2>5 DEF ZoneJob
<1>3. ASSUME NEW y \in Zones, DbCallback(y)
      PROVE  SpawnLoaded(z) /\ Head(jobQueue[z]).s = s
  <2>1. CASE SpawnLoaded(y)
    <3>1. spawnPending' = [spawnPending EXCEPT ![y] = @ \ {Head(jobQueue[y]).s}]
      BY <2>1 DEF SpawnLoaded
    <3>2. y = z
      BY <1>1, <3>1 DEF TypeOK
    <3>3. s = Head(jobQueue[y]).s
      <4>1. PICK t : t = Head(jobQueue[y]).s
        OBVIOUS
      <4> QED
        BY <1>1, <3>1, <3>2, <4>1 DEF TypeOK
    <3> QED
      BY <2>1, <3>2, <3>3
  <2>2. CASE PortalSaved(y)
    BY <2>2 DEF PortalSaved
  <2> QED
    BY <1>3, <2>1, <2>2 DEF DbCallback
<1>4. ASSUME UNCHANGED spawnPending
      PROVE  FALSE
  BY <1>4
<1>5. ASSUME NEW y \in Zones, Play(y)
      PROVE  UNCHANGED spawnPending
  BY <1>5 DEF Play, EarnExp, MonsterKills, HandleRevive, HandlePortal, AutoSaveTick
<1>6. ASSUME NEW p \in Players, RunTask(p)
      PROVE  UNCHANGED spawnPending
  BY <1>6 DEF RunTask, zoneVars
<1>7. ASSUME NEW t \in Sessions, Gateway(t)
      PROVE  UNCHANGED spawnPending
  BY <1>7 DEF Gateway, SelectCharacter, RouteReady, LeaveCompleted, CloseSession, zoneVars
<1>8. CASE LoseGateway \/ Signal \/ Finish \/ UNCHANGED vars
  BY <1>4, <1>8 DEF LoseGateway, Signal, Finish, vars, zoneVars
<1> QED
  BY <1>2, <1>3, <1>4, <1>5, <1>6, <1>7, <1>8 DEF Next

\* A zone takes an answer.
LEMMA LoadTaken ==
  ASSUME TypeOK, NEW y \in Zones, NEW kind, NextJob(y, kind), UNCHANGED dbQueue,
         NEW p \in Players, NEW z \in Zones, NEW K, NEW J, OneHere(p, z, K, J)
  PROVE  /\ OneHere(p, z, K, J)'
         /\ NoneHere(p, z, K, J) => NoneHere(p, z, K, J)'
         /\ y = z /\ Head(jobQueue[z]) \in J => NoneHere(p, z, K, J)'
<1>1. /\ jobQueue[y] \in Seq(DbJob) /\ jobQueue[y] # <<>>
      /\ jobQueue'[y] = Tail(jobQueue[y])
      /\ y # z => jobQueue'[z] = jobQueue[z]
  BY DEF NextJob, TypeOK
<1>2. PICK e : e = Head(jobQueue[y])
  OBVIOUS
<1>3. /\ Elems(jobQueue[y]) = Elems(jobQueue'[y]) \cup {e}
      /\ OnceIn(jobQueue[y], J) => OnceIn(jobQueue'[y], J) /\ (e \in J => Elems(jobQueue'[y]) \cap J = {})
  BY <1>1, <1>2, TakeTask
<1>4. Elems(jobQueue'[z]) \subseteq Elems(jobQueue[z]) /\ OnceIn(jobQueue'[z], J)
  BY <1>1, <1>3 DEF OneHere
<1>5. OneHere(p, z, K, J)'
  BY <1>4 DEF OneHere
<1>6. NoneHere(p, z, K, J) => NoneHere(p, z, K, J)'
  BY <1>4 DEF NoneHere
<1>7. ASSUME y = z, e \in J
      PROVE  NoneHere(p, z, K, J)'
  BY <1>3, <1>7 DEF OneHere, NoneHere
<1> QED
  BY <1>2, <1>5, <1>6, <1>7

\* A zone pushes a task.
LEMMA LoadPushed ==
  ASSUME TypeOK, UNCHANGED jobQueue,
         NEW p \in Players, NEW z \in Zones, NEW K, NEW J, OneHere(p, z, K, J),
         NEW t \in Task, dbQueue'[p] = Append(dbQueue[p], t), t \in K => NoneHere(p, z, K, J)
  PROVE  /\ OneHere(p, z, K, J)'
         /\ NoneHere(p, z, K, J) /\ t \notin K => NoneHere(p, z, K, J)'
<1>1. dbQueue[p] \in Seq(Task)
  BY DEF TypeOK
<1>2. /\ Elems(dbQueue'[p]) = Elems(dbQueue[p]) \cup {t}
      /\ (t \notin K /\ OnceIn(dbQueue[p], K)) \/ Elems(dbQueue[p]) \cap K = {} => OnceIn(dbQueue'[p], K)
  BY <1>1, AddTask
<1>3. CASE t \in K
  BY <1>2, <1>3 DEF OneHere, NoneHere
<1>4. CASE t \notin K
  BY <1>2, <1>4 DEF OneHere, NoneHere
<1> QED
  BY <1>3, <1>4

\* A task runs: its answer takes its place.
LEMMA LoadRuns ==
  ASSUME TypeOK, NEW p \in Players, NEW z \in Zones, NEW K, NEW J, OneHere(p, z, K, J),
         NEW r \in Players, NEW task \in Task, NEW ok, Runs(r, task, ok),
         \A j \in DbJob : Answers(j, r, task, ok) /\ j \in J /\ task.z = z => r = p /\ task \in K
  PROVE  /\ OneHere(p, z, K, J)'
         /\ NoneHere(p, z, K, J) => NoneHere(p, z, K, J)'
<1>1. /\ dbQueue[r] \in Seq(Task) /\ dbQueue[r] # <<>> /\ task = Head(dbQueue[r])
      /\ dbQueue'[r] = Tail(dbQueue[r])
      /\ r # p => dbQueue'[p] = dbQueue[p]
      /\ task.z \in Zones
  BY DEF Runs, TypeOK, Task
<1>2. /\ Elems(dbQueue[r]) = Elems(dbQueue'[r]) \cup {task}
      /\ OnceIn(dbQueue[r], K) => OnceIn(dbQueue'[r], K) /\ (task \in K => Elems(dbQueue'[r]) \cap K = {})
  BY <1>1, TakeTask
<1>3. OnceIn(dbQueue'[p], K) /\ Elems(dbQueue'[p]) \subseteq Elems(dbQueue[p])
  BY <1>1, <1>2 DEF OneHere
<1>4. CASE jobQueue'[z] = jobQueue[z]
  BY <1>3, <1>4 DEF OneHere, NoneHere
<1>5. ASSUME NEW j \in DbJob, Answers(j, r, task, ok), task.z = z,
             jobQueue'[z] = Append(jobQueue[z], j)
      PROVE  OneHere(p, z, K, J)' /\ (NoneHere(p, z, K, J) => NoneHere(p, z, K, J)')
  <2>1. jobQueue[z] \in Seq(DbJob)
    BY DEF TypeOK
  <2>2. /\ Elems(jobQueue'[z]) = Elems(jobQueue[z]) \cup {j}
        /\ (j \notin J /\ OnceIn(jobQueue[z], J)) \/ Elems(jobQueue[z]) \cap J = {} => OnceIn(jobQueue'[z], J)
    BY <1>5, <2>1, AddTask
  <2>3. CASE j \notin J
    BY <1>3, <2>2, <2>3 DEF OneHere, NoneHere
  <2>4. CASE j \in J
    <3>1. r = p /\ task \in K
      BY <1>5, <2>4
    <3>2. Elems(jobQueue[z]) \cap J = {} /\ ~NoneHere(p, z, K, J)
      BY <1>2, <3>1 DEF OneHere, NoneHere
    <3>3. Elems(dbQueue'[p]) \cap K = {}
      BY <1>2, <3>1 DEF OneHere
    <3> QED
      BY <1>3, <2>2, <3>2, <3>3 DEF OneHere
  <2> QED
    BY <2>3, <2>4
<1>6. \/ jobQueue'[z] = jobQueue[z]
      \/ \E j \in DbJob : /\ Answers(j, r, task, ok) /\ task.z = z
                          /\ jobQueue'[z] = Append(jobQueue[z], j)
  BY <1>1 DEF Runs, TypeOK
<1> QED
  BY <1>4, <1>5, <1>6

\* A zone asks for a load of s because its READY came, the zone is open, and it is not
\* loading s already.
LEMMA LoadAsked ==
  ASSUME IInv, [Next]_vars, NEW y \in Zones, NEW p \in Players, NEW t \in Task, Pushed(y, p, t),
         NEW z \in Zones, NEW s \in Sessions, t \in LoadTasks(z, s)
  PROVE  s \notin spawnPending[z] /\ s \in spawnPending'[z] /\ ~Spent(z, s) /\ PlayerOf[s] = p
<1>1. PushesLoad(y, p, t)
  BY DEF Pushed, PushesSave, PushesPortal, SaveTask, LoadTasks
<1>2. Coming(z, s) /\ s \notin spawnPending[z] /\ s \in spawnPending'[z] /\ PlayerOf[s] = p
  BY <1>1 DEF PushesLoad, Load, LoadTasks
<1>3. HandleReadyToSpawn(z)
  BY <1>2, LoadsByReady
<1>4. ~closed[z]
  BY <1>2, <1>3 DEF HandleReadyToSpawn, StartsLoad
<1> QED
  BY <1>2, <1>4 DEF Spent

LEMMA LoadStep ==
  ASSUME IInv, ShutdownInv, SessionInv, Own, EndInv, LoadInv, [Next]_vars
  PROVE  LoadInv'
<1> SUFFICES ASSUME NEW z \in Zones, NEW s \in Sessions
             PROVE  LoadOf(z, s)'
  BY DEF LoadInv
<1>1. PICK p \in Players, K \in {LoadTasks(z, s)}, J \in {LoadAnswers(s)} : p = PlayerOf[s]
  BY ZoneLifeAssumption
<1>2. TypeOK /\ OneHere(p, z, K, J) /\ (NoneHere(p, z, K, J) \/ s \in spawnPending[z] \/ Spent(z, s))
  BY <1>1 DEF IInv, LoadInv, LoadOf
<1>3. /\ OneHere(p, z, K, J)'
      /\ NoneHere(p, z, K, J) => NoneHere(p, z, K, J)' \/ s \in spawnPending'[z]
  <2>1. CASE \E y \in Zones, kind \in {"spawned", "portalDone"} :
               NextJob(y, kind) /\ UNCHANGED <<dbQueue, row>>
    BY <1>2, <2>1, LoadTaken
  <2>2. ASSUME NEW r \in Players, RunTask(r)
        PROVE  OneHere(p, z, K, J)' /\ (NoneHere(p, z, K, J) => NoneHere(p, z, K, J)')
    <3>1. PICK task \in OwnTask(r), ok \in BOOLEAN : Runs(r, task, ok)
      BY <1>2, <2>2, RunTaskRuns
    <3>2. task \in Task
      BY DEF OwnTask
    <3>3. \A j \in DbJob : Answers(j, r, task, ok) /\ j \in J /\ task.z = z => r = p /\ task \in K
      BY <1>1, <3>2 DEF Answers, LoadAnswers, LoadTasks, OwnTask
    <3> QED
      BY <1>2, <3>1, <3>2, <3>3, LoadRuns
  <2>3. ASSUME UNCHANGED jobQueue, NEW y \in Zones, NEW t \in Task, Pushed(y, p, t),
               dbQueue'[p] = Append(dbQueue[p], t)
        PROVE  /\ OneHere(p, z, K, J)'
               /\ NoneHere(p, z, K, J) => NoneHere(p, z, K, J)' \/ s \in spawnPending'[z]
    <3>1. t \in K => s \notin spawnPending[z] /\ s \in spawnPending'[z] /\ ~Spent(z, s)
      BY <1>1, <2>3, LoadAsked
    <3> QED
      BY <1>2, <2>3, <3>1, LoadPushed
  <2>4. CASE UNCHANGED jobQueue /\ dbQueue'[p] = dbQueue[p]
    BY <1>2, <2>4 DEF OneHere, NoneHere
  <2>5. ASSUME UNCHANGED jobQueue, NEW y \in Zones, Pushes(y)
        PROVE  \/ dbQueue'[p] = dbQueue[p]
               \/ \E t \in Task : Pushed(y, p, t) /\ dbQueue'[p] = Append(dbQueue[p], t)
    BY <2>5 DEF Pushes
  <2> QED
    BY <2>1, <2>2, <2>3, <2>4, <2>5, QueueSteps
<1>4. Spent(z, s) => Spent(z, s)'
  BY SpentStays
<1>5. ASSUME s \in spawnPending[z], s \notin spawnPending'[z]
      PROVE  Spent(z, s)' \/ NoneHere(p, z, K, J)'
  <2>1. ASSUME SpawnLoaded(z), Head(jobQueue[z]).s = s
        PROVE  NoneHere(p, z, K, J)'
    <3>1. NextJob(z, "spawned") /\ UNCHANGED dbQueue
      BY <2>1 DEF SpawnLoaded, dbVars
    <3>2. Head(jobQueue[z]) \in J
      BY <1>1, <1>2, <2>1, <3>1, NextJobType DEF LoadAnswers
    <3> QED
      BY <1>2, <3>1, <3>2, LoadTaken
  <2> QED
    BY <1>5, <2>1, LoadGoes
<1>6. OneHere(p, z, K, J)' /\ (NoneHere(p, z, K, J)' \/ s \in spawnPending'[z] \/ Spent(z, s)')
  BY <1>2, <1>3, <1>4, <1>5
<1> QED
  BY <1>1, <1>6 DEF LoadOf, OneHere, NoneHere

-----------------------------------------------------------------------------
\* While a portal save is awaited, it is ahead of every load that could bring its
\* character in: the two have the same key in the database, and their answers the same
\* queue of the zone.

\* One of A is in q, ahead of every B.
Before(q, A, B) ==
  \E i \in DOMAIN q : q[i] \in A /\ \A k \in DOMAIN q : q[k] \in B => i < k

SavesOf(z) == {t \in PortalTasks : t.z = z}
LiveTasks(z) == {t \in Task : t.kind = "load" /\ t.z = z /\ t.s \in spawnPending[z]}
LiveAnswers(z, p) == {j \in DbJob : j.kind = "spawned" /\ j.p = p /\ j.s \in spawnPending[z]}

SaveWaits(z, p) ==
  /\ Before(dbQueue[p], SavesOf(z), LiveTasks(z))
  /\ Elems(jobQueue[z]) \cap LiveAnswers(z, p) = {}
SaveAnswered(z, p) == Before(jobQueue[z], PortalAnswers(p), LiveAnswers(z, p))

OrderInv ==
  \A z \in Zones : \A p \in portalPending[z] : SaveWaits(z, p) \/ SaveAnswered(z, p)

LEMMA BeforeTaken ==
  ASSUME NEW T, NEW q \in Seq(T), q # <<>>, NEW A, NEW B, Before(q, A, B),
         NEW C, Elems(q) \cap C \subseteq B
  PROVE  Head(q) \notin B /\ (Head(q) \in A \/ Before(Tail(q), A, C))
<1>1. /\ Head(q) = q[1] /\ Len(q) \in Nat \ {0}
      /\ DOMAIN q = 1..Len(q) /\ DOMAIN Tail(q) = 1..(Len(q) - 1)
      /\ \A i \in DOMAIN Tail(q) : Tail(q)[i] = q[i + 1]
  OBVIOUS
<1>2. PICK i \in DOMAIN q : q[i] \in A /\ \A k \in DOMAIN q : q[k] \in B => i < k
  BY DEF Before
<1>3. Head(q) \notin B
  BY <1>1, <1>2
<1>4. CASE i # 1
  <2>1. i - 1 \in DOMAIN Tail(q) /\ Tail(q)[i - 1] \in A
    BY <1>1, <1>2, <1>4
  <2>2. ASSUME NEW k \in DOMAIN Tail(q), Tail(q)[k] \in C
        PROVE  i - 1 < k
    <3>1. k + 1 \in DOMAIN q /\ q[k + 1] \in C /\ k \in Int /\ i \in Int
      BY <1>1, <2>2
    <3>2. q[k + 1] \in B
      BY <3>1 DEF Elems
    <3>3. i < k + 1
      BY <1>2, <3>1, <3>2
    <3> QED
      BY <3>1, <3>3
  <2> QED
    BY <1>3, <2>1, <2>2 DEF Before
<1> QED
  BY <1>1, <1>2, <1>3, <1>4

LEMMA BeforeAdded ==
  ASSUME NEW T, NEW q \in Seq(T), NEW e \in T, NEW A, NEW C,
         \/ \E B : Before(q, A, B) /\ Elems(q) \cap C \subseteq B
         \/ e \in A /\ e \notin C /\ Elems(q) \cap C = {}
  PROVE  Before(Append(q, e), A, C)
<1> DEFINE r == Append(q, e)
           n == Len(q)
<1>1. /\ n \in Nat /\ DOMAIN q = 1..n /\ DOMAIN r = 1..(n + 1)
      /\ \A i \in DOMAIN q : r[i] = q[i]
      /\ r[n + 1] = e
  OBVIOUS
<1> HIDE DEF r, n
<1>2. /\ n + 1 \in DOMAIN r
      /\ \A i \in DOMAIN q : i \in DOMAIN r /\ i < n + 1
      /\ \A i \in DOMAIN r : i = n + 1 \/ (i \in DOMAIN q /\ r[i] = q[i])
  BY <1>1
<1>3. ASSUME NEW B, Before(q, A, B), Elems(q) \cap C \subseteq B
      PROVE  Before(r, A, C)
  <2>1. PICK i \in DOMAIN q : q[i] \in A /\ \A k \in DOMAIN q : q[k] \in B => i < k
    BY <1>3 DEF Before
  <2>2. \A k \in DOMAIN r : r[k] \in C => i < k
    BY <1>2, <1>3, <2>1 DEF Elems
  <2> QED
    BY <1>1, <1>2, <2>1, <2>2 DEF Before
<1>4. ASSUME e \in A, e \notin C, Elems(q) \cap C = {}
      PROVE  Before(r, A, C)
  <2>1. \A k \in DOMAIN r : r[k] \notin C
    BY <1>1, <1>2, <1>4 DEF Elems
  <2> QED
    BY <1>1, <1>2, <1>4, <2>1 DEF Before
<1> QED
  BY <1>3, <1>4 DEF r

LEMMA BeforeLess ==
  ASSUME NEW q, NEW A, NEW B, Before(q, A, B), NEW C, Elems(q) \cap C \subseteq B
  PROVE  Before(q, A, C)
BY DEF Before, Elems

\* A zone that loads a session again has no answer for it under way: no answer it has
\* forgotten counts again.
LEMMA NoneRevived ==
  ASSUME IInv, Own, LoadInv, [Next]_vars, NEW z \in Zones, NEW p \in Players
  PROVE  /\ Elems(dbQueue[p]) \cap LiveTasks(z)' \subseteq LiveTasks(z)
         /\ Elems(jobQueue[z]) \cap LiveAnswers(z, p)' \subseteq LiveAnswers(z, p)
<1>1. ASSUME NEW s \in Sessions, s \in spawnPending'[z], s \notin spawnPending[z]
      PROVE  NoneHere(PlayerOf[s], z, LoadTasks(z, s), LoadAnswers(s))
  <2>1. HandleReadyToSpawn(z) /\ Coming(z, s)
    BY <1>1, LoadsByReady
  <2>2. ~closed[z]
    BY <1>1, <2>1 DEF HandleReadyToSpawn, StartsLoad
  <2> QED
    BY <1>1, <2>1, <2>2 DEF LoadInv, LoadOf, Spent
<1>2. ASSUME NEW t \in Elems(dbQueue[p]), t \in LiveTasks(z)'
      PROVE  t \in LiveTasks(z)
  <2>1. t \in Task /\ t.kind = "load" /\ t.z = z /\ t.s \in spawnPending'[z]
    BY <1>2 DEF LiveTasks
  <2>2. PICK s \in Sessions : s = t.s
    BY <2>1 DEF Task
  <2>3. PlayerOf[s] = p
    <3>1. dbQueue[p] \in Seq(OwnTask(p))
      BY DEF Own
    <3>2. t \in OwnTask(p)
      BY <3>1 DEF Elems
    <3> QED
      BY <2>1, <2>2, <3>2 DEF OwnTask
  <2>4. t \in LoadTasks(z, s)
    BY <2>1, <2>2 DEF LoadTasks
  <2>5. s \in spawnPending[z]
    BY <1>1, <1>2, <2>1, <2>2, <2>3, <2>4 DEF NoneHere
  <2> QED
    BY <2>1, <2>2, <2>5 DEF LiveTasks
<1>3. ASSUME NEW j \in Elems(jobQueue[z]), j \in LiveAnswers(z, p)'
      PROVE  j \in LiveAnswers(z, p)
  <2>1. j \in DbJob /\ j.kind = "spawned" /\ j.p = p /\ j.s \in spawnPending'[z]
    BY <1>3 DEF LiveAnswers
  <2>2. PICK s \in Sessions : s = j.s
    BY <2>1 DEF DbJob
  <2>3. j \in LoadAnswers(s)
    BY <2>1, <2>2 DEF LoadAnswers
  <2>4. s \in spawnPending[z]
    BY <1>1, <1>3, <2>1, <2>2, <2>3 DEF NoneHere
  <2> QED
    BY <2>1, <2>2, <2>4 DEF LiveAnswers
<1> QED
  BY <1>2, <1>3

\* While a character is in a zone, the database is open.
LEMMA OpenWhileHere ==
  ASSUME ShutdownInv, NEW z \in Zones, NEW p \in Players, Here(z, p)
  PROVE  dbOpen
<1>1. IsFiniteSet(Uncleared)
  BY ZoneLifeAssumption, FS_Subset DEF Uncleared
<1>2. ASSUME ~dbOpen
      PROVE  FALSE
  <2>1. Cardinality(Uncleared) = 0 /\ phase = "stopping"
    BY <1>2 DEF ShutdownInv
  <2>2. Uncleared = {}
    BY <1>1, <2>1, FS_EmptySet
  <2> QED
    BY <2>1, <2>2 DEF ShutdownInv, Cleared
<1> QED
  BY <1>2

\* A character takes the portal when no load of it is under way in its zone.
LEMMA OrderBegins ==
  ASSUME IInv, ShutdownInv, Own, TurnInv, NEW z \in Zones, NEW p \in Players, NEW dest \in Zones,
         HandlePortal(z, p, dest)
  PROVE  SaveWaits(z, p)'
<1>1. TypeOK /\ Here(z, p) /\ ~closed[z]
  BY DEF IInv, HandlePortal, CanAct
<1>2. dbOpen
  BY <1>1, OpenWhileHere
<1>3. PICK t \in Task : t = SaveTask("portal", z, p, dest)
  BY <1>1, SaveTaskType DEF TaskKinds
<1>4. t \in SavesOf(z) /\ t \notin LiveTasks(z)
  BY <1>3 DEF SaveTask, SavesOf, PortalTasks, LiveTasks
<1>5. dbQueue[p] \in Seq(Task) /\ dbQueue'[p] = Append(dbQueue[p], t) /\ jobQueue' = jobQueue
      /\ spawnPending' = spawnPending
  BY <1>1, <1>2, <1>3 DEF HandlePortal, PushTask, TypeOK
<1>6. ASSUME NEW s \in spawnPending[z], PlayerOf[s] = p
      PROVE  FALSE
  <2>1. s \in Sessions
    BY <1>1, <1>6 DEF TypeOK
  <2>2. PICK u \in Sessions : sessionToPlayer[z][u] = p /\ PlayerOf[u] = p /\ p # NoPlayer
    BY <1>1, HereAt
  <2>3. s # u
    BY <1>6, <2>2 DEF IInv, LoadingIsNotPlaying
  <2>4. In(z, s) /\ In(z, u)
    BY <1>6, <2>2 DEF In
  <2> QED
    BY <1>6, <2>1, <2>2, <2>3, <2>4 DEF TurnInv
<1>7. Elems(dbQueue[p]) \cap LiveTasks(z) = {}
  <2>1. ASSUME NEW e \in Elems(dbQueue[p]), e \in LiveTasks(z)
        PROVE  FALSE
    <3>1. e \in OwnTask(p)
      BY <2>1 DEF Own, Elems
    <3> QED
      BY <1>6, <2>1, <3>1 DEF LiveTasks, OwnTask
  <2> QED
    BY <2>1
<1>8. Elems(jobQueue[z]) \cap LiveAnswers(z, p) = {}
  <2>1. ASSUME NEW e \in Elems(jobQueue[z]), e \in LiveAnswers(z, p)
        PROVE  FALSE
    <3>1. e \in OwnJob
      BY <2>1 DEF Own, Elems
    <3> QED
      BY <1>6, <2>1, <3>1 DEF LiveAnswers, OwnJob
  <2> QED
    BY <2>1
<1>9. Before(Append(dbQueue[p], t), SavesOf(z), LiveTasks(z))
  BY <1>4, <1>5, <1>7, BeforeAdded
<1>10. LiveTasks(z)' = LiveTasks(z) /\ LiveAnswers(z, p)' = LiveAnswers(z, p)
  BY <1>5 DEF LiveTasks, LiveAnswers
<1> QED
  BY <1>5, <1>8, <1>9, <1>10 DEF SaveWaits

\* A zone takes an answer that is not the awaited one.
LEMMA OrderTaken ==
  ASSUME IInv, Own, LoadInv, [Next]_vars, NEW z \in Zones, NEW p \in Players,
         SaveWaits(z, p) \/ SaveAnswered(z, p),
         NEW y \in Zones, NEW kind, NextJob(y, kind), UNCHANGED dbQueue,
         y = z => Head(jobQueue[z]) \notin PortalAnswers(p)
  PROVE  (SaveWaits(z, p) \/ SaveAnswered(z, p))'
<1>1. /\ Elems(dbQueue[p]) \cap LiveTasks(z)' \subseteq LiveTasks(z)
      /\ Elems(jobQueue[z]) \cap LiveAnswers(z, p)' \subseteq LiveAnswers(z, p)
  BY NoneRevived
<1>2. /\ jobQueue[y] \in Seq(DbJob) /\ jobQueue[y] # <<>>
      /\ jobQueue'[y] = Tail(jobQueue[y])
      /\ y # z => jobQueue'[z] = jobQueue[z]
  BY DEF NextJob, IInv, TypeOK
<1>3. PICK A, B, C : A = PortalAnswers(p) /\ B = LiveAnswers(z, p) /\ C = LiveAnswers(z, p)'
  OBVIOUS
<1>4. CASE SaveWaits(z, p)
  <2>1. Before(dbQueue'[p], SavesOf(z), LiveTasks(z)')
    BY <1>1, <1>4, BeforeLess DEF SaveWaits
  <2>2. Elems(jobQueue'[z]) \subseteq Elems(jobQueue[z])
    <3>1. Elems(jobQueue[y]) = Elems(Tail(jobQueue[y])) \cup {Head(jobQueue[y])}
      BY <1>2, TakeTask
    <3> QED
      BY <1>2, <3>1
  <2> QED
    BY <1>1, <1>4, <2>1, <2>2 DEF SaveWaits
<1>5. CASE SaveAnswered(z, p)
  <2>1. Before(jobQueue[z], A, B) /\ Elems(jobQueue[z]) \cap C \subseteq B
    BY <1>1, <1>3, <1>5 DEF SaveAnswered
  <2>2. Before(jobQueue'[z], A, C)
    <3>1. CASE y # z
      BY <1>2, <2>1, <3>1, BeforeLess
    <3>2. CASE y = z
      <4>1. Head(jobQueue[z]) \in A \/ Before(Tail(jobQueue[z]), A, C)
        BY <1>2, <2>1, <3>2, BeforeTaken
      <4> QED
        BY <1>2, <1>3, <3>2, <4>1
    <3> QED
      BY <3>1, <3>2
  <2> QED
    BY <1>3, <2>2 DEF SaveAnswered, PortalAnswers
<1> QED
  BY <1>4, <1>5

\* A task runs: the awaited save becomes its answer, before any load does.
LEMMA OrderRuns ==
  ASSUME IInv, Own, NEW z \in Zones, NEW p \in Players,
         SaveWaits(z, p) \/ SaveAnswered(z, p), NEW r \in Players, RunTask(r)
  PROVE  (SaveWaits(z, p) \/ SaveAnswered(z, p))'
<1>1. TypeOK /\ UNCHANGED spawnPending
  BY DEF IInv, RunTask, zoneVars
<1>2. LiveTasks(z)' = LiveTasks(z) /\ LiveAnswers(z, p)' = LiveAnswers(z, p)
  BY <1>1 DEF LiveTasks, LiveAnswers
<1>3. PICK task \in OwnTask(r), ok \in BOOLEAN : Runs(r, task, ok)
  BY <1>1, RunTaskRuns
<1>4. task \in Task /\ jobQueue[z] \in Seq(DbJob)
  BY <1>1 DEF OwnTask, TypeOK
<1>5. /\ dbQueue[r] \in Seq(Task) /\ dbQueue[r] # <<>> /\ task = Head(dbQueue[r])
      /\ dbQueue'[r] = Tail(dbQueue[r])
      /\ r # p => dbQueue'[p] = dbQueue[p]
  BY <1>1, <1>3 DEF Runs, TypeOK
<1>6. \/ jobQueue'[z] = jobQueue[z] /\ (task.z = z => task.kind \notin {"load", "portal"})
      \/ \E j \in DbJob : /\ Answers(j, r, task, ok) /\ task.z = z
                          /\ jobQueue'[z] = Append(jobQueue[z], j)
  <2>1. CASE UNCHANGED jobQueue /\ task.kind \notin {"load", "portal"}
    BY <2>1
  <2>2. ASSUME NEW j \in DbJob, Answers(j, r, task, ok),
               jobQueue' = [jobQueue EXCEPT ![task.z] = Append(@, j)]
        PROVE  IF task.z = z THEN jobQueue'[z] = Append(jobQueue[z], j)
                             ELSE jobQueue'[z] = jobQueue[z]
    BY <1>1, <1>4, <2>2 DEF TypeOK, Task
  <2> QED
    BY <1>3, <2>1, <2>2 DEF Runs
<1>7. CASE SaveAnswered(z, p)
  <2>1. ASSUME NEW j \in DbJob, jobQueue'[z] = Append(jobQueue[z], j)
        PROVE  SaveAnswered(z, p)'
    BY <1>2, <1>4, <1>7, <2>1, BeforeAdded DEF SaveAnswered, PortalAnswers
  <2> QED
    BY <1>2, <1>6, <1>7, <2>1 DEF SaveAnswered, PortalAnswers
<1>8. CASE SaveWaits(z, p)
  <2>1. CASE r = p /\ task \in SavesOf(z)
    <3>1. PICK j \in DbJob : Answers(j, p, task, ok) /\ jobQueue'[z] = Append(jobQueue[z], j)
      BY <1>6, <2>1 DEF SavesOf, PortalTasks
    <3>2. j \in PortalAnswers(p) /\ j \notin LiveAnswers(z, p)
      BY <2>1, <3>1 DEF Answers, SavesOf, PortalTasks, PortalAnswers, LiveAnswers
    <3>3. Before(jobQueue'[z], PortalAnswers(p), LiveAnswers(z, p))
      BY <1>4, <1>8, <3>1, <3>2, BeforeAdded DEF SaveWaits
    <3> QED
      BY <1>2, <3>3 DEF SaveAnswered, PortalAnswers
  <2>2. CASE r # p \/ task \notin SavesOf(z)
    <3>1. /\ Before(dbQueue'[p], SavesOf(z), LiveTasks(z))
          /\ r = p => task \notin LiveTasks(z)
      <4>1. CASE r # p
        BY <1>5, <1>8, <4>1 DEF SaveWaits
      <4>2. CASE r = p
        <5>1. task \notin LiveTasks(z) /\ (task \in SavesOf(z) \/ Before(Tail(dbQueue[p]), SavesOf(z), LiveTasks(z)))
          BY <1>5, <1>8, <4>2, BeforeTaken DEF SaveWaits
        <5> QED
          BY <1>5, <2>2, <4>2, <5>1
      <4> QED
        BY <4>1, <4>2
    <3>2. ASSUME NEW j \in DbJob, Answers(j, r, task, ok), task.z = z
          PROVE  j \notin LiveAnswers(z, p)
      BY <1>4, <3>1, <3>2 DEF Answers, LiveAnswers, LiveTasks
    <3>3. Elems(jobQueue'[z]) \cap LiveAnswers(z, p) = {}
      <4>1. ASSUME NEW j \in DbJob, jobQueue'[z] = Append(jobQueue[z], j)
            PROVE  Elems(jobQueue'[z]) = Elems(jobQueue[z]) \cup {j}
        BY <1>4, <4>1, AddTask
      <4> QED
        BY <1>6, <1>8, <3>2, <4>1 DEF SaveWaits
    <3> QED
      BY <1>2, <3>1, <3>3 DEF SaveWaits, SavesOf
  <2> QED
    BY <2>1, <2>2
<1> QED
  BY <1>7, <1>8

\* A zone pushes a task, behind the save.
LEMMA OrderPushed ==
  ASSUME IInv, Own, LoadInv, [Next]_vars, NEW z \in Zones, NEW p \in Players,
         SaveWaits(z, p) \/ SaveAnswered(z, p), UNCHANGED jobQueue,
         dbQueue'[p] = dbQueue[p] \/ \E t \in Task : dbQueue'[p] = Append(dbQueue[p], t)
  PROVE  (SaveWaits(z, p) \/ SaveAnswered(z, p))'
<1>1. /\ Elems(dbQueue[p]) \cap LiveTasks(z)' \subseteq LiveTasks(z)
      /\ Elems(jobQueue[z]) \cap LiveAnswers(z, p)' \subseteq LiveAnswers(z, p)
  BY NoneRevived
<1>2. CASE SaveAnswered(z, p)
  <2>1. Before(jobQueue'[z], PortalAnswers(p), LiveAnswers(z, p)')
    BY <1>1, <1>2, BeforeLess DEF SaveAnswered
  <2> QED
    BY <2>1 DEF SaveAnswered, PortalAnswers
<1>3. CASE SaveWaits(z, p)
  <2>1. PICK B, C : B = LiveTasks(z) /\ C = LiveTasks(z)'
    OBVIOUS
  <2>2. dbQueue[p] \in Seq(Task) /\ Before(dbQueue[p], SavesOf(z), B) /\ Elems(dbQueue[p]) \cap C \subseteq B
    BY <1>1, <1>3, <2>1 DEF SaveWaits, IInv, TypeOK
  <2>3. ASSUME NEW t \in Task, dbQueue'[p] = Append(dbQueue[p], t)
        PROVE  Before(dbQueue'[p], SavesOf(z), C)
    BY <2>2, <2>3, BeforeAdded
  <2>4. Before(dbQueue'[p], SavesOf(z), C)
    BY <2>2, <2>3, BeforeLess
  <2> QED
    BY <1>1, <1>3, <2>1, <2>4 DEF SaveWaits, SavesOf
<1> QED
  BY <1>2, <1>3

LEMMA OrderStep ==
  ASSUME IInv, ShutdownInv, Own, TurnInv, LoadInv, OrderInv, [Next]_vars
  PROVE  OrderInv'
<1> SUFFICES ASSUME NEW z \in Zones, NEW p \in portalPending'[z]
             PROVE  (SaveWaits(z, p) \/ SaveAnswered(z, p))'
  BY DEF OrderInv
<1>1. TypeOK
  BY DEF IInv
<1>2. p \in Players
  BY StepInvariant DEF IInv, TypeOK
<1>3. ASSUME p \notin portalPending[z]
      PROVE  SaveWaits(z, p)'
  <2>1. PICK dest \in Zones : HandlePortal(z, p, dest)
    BY <1>1, <1>2, <1>3, AwaitingChanges
  <2> QED
    BY <1>2, <2>1, OrderBegins
<1>4. ASSUME p \in portalPending[z]
      PROVE  (SaveWaits(z, p) \/ SaveAnswered(z, p))'
  <2>1. SaveWaits(z, p) \/ SaveAnswered(z, p)
    BY <1>4 DEF OrderInv
  <2>2. ASSUME NEW y \in Zones, NEW kind \in {"spawned", "portalDone"},
               NextJob(y, kind), UNCHANGED <<dbQueue, row>>,
               (kind = "spawned" /\ SpawnLoaded(y)) \/ (kind = "portalDone" /\ PortalSaved(y))
        PROVE  (SaveWaits(z, p) \/ SaveAnswered(z, p))'
    <3>1. y = z => Head(jobQueue[z]) \notin PortalAnswers(p)
      <4>1. ASSUME y = z, Head(jobQueue[z]) \in PortalAnswers(p)
            PROVE  FALSE
        <5>1. PortalSaved(z) /\ Head(jobQueue[z]).p = p
          BY <2>2, <4>1 DEF PortalAnswers, NextJob
        <5>2. portalPending' = [portalPending EXCEPT ![z] = @ \ {p}]
          BY <5>1 DEF PortalSaved
        <5> QED
          BY <1>1, <5>2 DEF TypeOK
      <4> QED
        BY <4>1
    <3> QED
      BY <1>2, <2>1, <2>2, <3>1, OrderTaken
  <2>3. ASSUME NEW r \in Players, RunTask(r)
        PROVE  (SaveWaits(z, p) \/ SaveAnswered(z, p))'
    BY <1>2, <2>1, <2>3, OrderRuns
  <2>4. ASSUME UNCHANGED jobQueue, (\E y \in Zones : Pushes(y)) \/ UNCHANGED dbQueue
        PROVE  (SaveWaits(z, p) \/ SaveAnswered(z, p))'
    <3>1. dbQueue'[p] = dbQueue[p] \/ \E t \in Task : dbQueue'[p] = Append(dbQueue[p], t)
      BY <1>2, <2>4 DEF Pushes
    <3> QED
      BY <1>2, <2>1, <2>4, <3>1, OrderPushed
  <2> QED
    BY <2>2, <2>3, <2>4, QueueSteps
<1> QED
  BY <1>3, <1>4

OrdersInv ==
  IInv /\ ShutdownInv /\ SessionInv /\ Own /\ TurnInv /\ EndInv /\ PlayAlone /\ LoadInv /\ OrderInv

LEMMA OrderInit == Init => OrdersInv
<1> SUFFICES ASSUME Init PROVE OrdersInv
  OBVIOUS
<1>1. IInv /\ ShutdownInv /\ SessionInv
  BY InitInvariant, InitShutdown, InitSession
<1>2. Own
  BY DEF Init, Own
<1>3. /\ \A z \in Zones : netQueue[z] = <<>> /\ jobQueue[z] = <<>> /\ portalPending[z] = {}
      /\ \A p \in Players : dbQueue[p] = <<>>
      /\ \A z \in Zones, s \in Sessions : ~In(z, s)
      /\ \A s \in Sessions : gate[s] = "new"
  BY DEF Init, In
<1>4. TurnInv /\ EndInv /\ PlayAlone
  BY <1>3 DEF TurnInv, EndInv, PlayAlone, Turns, Ended, EndsIt
<1>5. LoadInv /\ OrderInv
  BY <1>3, ZoneLifeAssumption DEF LoadInv, LoadOf, OneHere, NoneHere, OnceIn, Elems, OrderInv
<1> QED
  BY <1>1, <1>2, <1>4, <1>5 DEF OrdersInv

\* Who enters a zone is brought in by the answer of a load the zone still waits for.
LEMMA EntersByAnswer ==
  ASSUME IInv, [Next]_vars, NEW z \in Zones, NEW p \in Players, ~Here(z, p), Here(z, p)'
  PROVE  SpawnLoaded(z) /\ Head(jobQueue[z]) \in LiveAnswers(z, p)
<1>1. TypeOK
  BY DEF IInv
<1>2. players'[z][p] # players[z][p]
  BY DEF Here
<1>3. ASSUME NEW y \in Zones, ZoneJob(y)
      PROVE  FALSE
  <2>1. CASE HandleReadyToSpawn(y) \/ CloseZone(y)
    BY <1>2, <2>1 DEF HandleReadyToSpawn, CloseZone
  <2>2. CASE HandleDisconnect(y)
    <3>1. PICK r \in Players \cup {NoPlayer} : UNCHANGED players \/ (r # NoPlayer /\ Leave(y, r))
      <4>1. Head(netQueue[y]).s \in Sessions
        BY <1>1, <2>2, NextNetType DEF HandleDisconnect, NextNet, NetJob
      <4>2. sessionToPlayer[y][Head(netQueue[y]).s] \in Players \cup {NoPlayer}
        BY <1>1, <4>1 DEF TypeOK
      <4> QED
        BY <2>2, <4>2 DEF HandleDisconnect
    <3> QED
      BY <1>1, <1>2, <3>1, LeaveHere
  <2>3. CASE HandleGatewayLost(y) \/ ClearForShutdown(y)
    BY <1>1, <2>3, ClearHere DEF HandleGatewayLost, ClearForShutdown
  <2> QED
    BY <1>3, <2>1, <2>2, <2>3 DEF ZoneJob
<1>4. ASSUME NEW y \in Zones, PortalSaved(y)
      PROVE  FALSE
  <2>1. PICK r \in Players : UNCHANGED players \/ Leave(y, r)
    <3>1. Head(jobQueue[y]).p \in Players
      BY <1>1, <1>4, NextJobType DEF PortalSaved, DbJob
    <3> QED
      BY <1>4, <3>1 DEF PortalSaved
  <2> QED
    BY <1>1, <1>2, <2>1, LeaveHere
<1>5. ASSUME NEW y \in Zones, SpawnLoaded(y)
      PROVE  SpawnLoaded(z) /\ Head(jobQueue[z]) \in LiveAnswers(z, p)
  <2>1. PICK job \in DbJob : job = Head(jobQueue[y]) /\ job.kind = "spawned"
    BY <1>1, <1>5, NextJobType DEF SpawnLoaded
  <2>2. job.s \in spawnPending[y] /\ \E c : players' = [players EXCEPT ![y][job.p] = c]
    BY <1>2, <1>5, <2>1 DEF SpawnLoaded
  <2>3. y = z /\ job.p = p
    BY <1>1, <1>2, <2>2 DEF TypeOK
  <2> QED
    BY <1>5, <2>1, <2>2, <2>3 DEF LiveAnswers
<1>6. ASSUME NEW y \in Zones, Play(y)
      PROVE  FALSE
  BY <1>1, <1>6, PlayMembers DEF SameMembers
<1>7. ASSUME NEW r \in Players, RunTask(r)
      PROVE  UNCHANGED players
  BY <1>7 DEF RunTask, zoneVars
<1>8. ASSUME NEW s \in Sessions, Gateway(s)
      PROVE  UNCHANGED players
  BY <1>8 DEF Gateway, SelectCharacter, RouteReady, LeaveCompleted, CloseSession, zoneVars
<1>9. CASE LoseGateway \/ Signal \/ Finish \/ UNCHANGED vars
  BY <1>2, <1>9 DEF LoseGateway, Signal, Finish, vars, zoneVars
<1> QED
  BY <1>2, <1>3, <1>4, <1>5, <1>6, <1>7, <1>8, <1>9 DEF Next, DbCallback

\* The order of portal saves and loads in the database and of their answers is kept by
\* every step, whatever disconnects, gateway losses and new sessions come in between.
THEOREM OrdersFollow ==
  ASSUME RouteIsCertain
  PROVE  Safety => []OrdersInv
<1>1. OrdersInv /\ [Next]_vars => OrdersInv'
  BY StepInvariant, ShutdownStep, SessionStep, OwnStep, TurnStep, LoadStep, OrderStep
  DEF OrdersInv
<1> QED
  BY <1>1, OrderInit, PTL DEF Safety

\* A character never enters a zone in which its portal save is still awaited
\* (GameDB::PushTask with the playerID as key, DBThreadPool::PushTask): not even under a
\* new session selected before the old one's save was answered, or after a second READY,
\* as long as the route of a session cannot change between two READYs of one order.
THEOREM NoEntryWhileSaved ==
  ASSUME RouteIsCertain
  PROVE  Safety => NoEntryDuringPortalSave
<1>1. OrdersInv /\ [Next]_vars =>
        [\A z \in Zones, p \in Players :
           ~Here(z, p) /\ Here(z, p)' => p \notin portalPending[z]]_vars
  <2> SUFFICES ASSUME OrdersInv, [Next]_vars, NEW z \in Zones, NEW p \in Players,
                      ~Here(z, p), Here(z, p)', p \in portalPending[z]
               PROVE  FALSE
    OBVIOUS
  <2>1. /\ jobQueue[z] \in Seq(DbJob) /\ jobQueue[z] # <<>>
        /\ Head(jobQueue[z]) \in LiveAnswers(z, p)
    BY EntersByAnswer DEF OrdersInv, SpawnLoaded, NextJob, IInv, TypeOK
  <2>2. Head(jobQueue[z]) \in Elems(jobQueue[z])
    <3>1. 1 \in DOMAIN jobQueue[z] /\ jobQueue[z][1] = Head(jobQueue[z])
      BY <2>1
    <3> QED
      BY <3>1 DEF Elems
  <2>3. SaveAnswered(z, p)
    BY <2>1, <2>2 DEF OrdersInv, OrderInv, SaveWaits
  <2>4. PICK B : B = LiveAnswers(z, p)
    OBVIOUS
  <2>5. Before(jobQueue[z], PortalAnswers(p), B) /\ Elems(jobQueue[z]) \cap B \subseteq B
    BY <2>3, <2>4 DEF SaveAnswered
  <2>6. Head(jobQueue[z]) \notin B
    BY <2>1, <2>5, BeforeTaken
  <2> QED
    BY <2>1, <2>4, <2>6
<1> QED
  BY <1>1, OrdersFollow, PTL DEF Safety, NoEntryDuringPortalSave

-----------------------------------------------------------------------------
\* What a character has earned: in the zone it is in, else in the last save asked for.

LEMMA EndsTaken ==
  ASSUME NEW q \in Seq(Task), q # <<>>, NEW exp, NEW last, EndsWith(q, exp, last)
  PROVE  EndsWith(Tail(q), IF Head(q).kind = "load" THEN exp ELSE Head(q).now.exp, last)
<1> DEFINE r == Tail(q)
           e == Head(q)
           from == IF e.kind = "load" THEN exp ELSE e.now.exp
<1>1. /\ e = q[1] /\ Len(q) \in Nat \ {0}
      /\ DOMAIN q = 1..Len(q) /\ DOMAIN r = 1..(Len(q) - 1)
      /\ \A i \in DOMAIN r : r[i] = q[i + 1]
  OBVIOUS
<1>2. PICK saves, rest : /\ saves = {i \in DOMAIN q : q[i].kind # "load"}
                         /\ rest = {i \in DOMAIN r : r[i].kind # "load"}
  OBVIOUS
<1>3. IF saves = {} THEN last = exp
      ELSE \E i \in saves : q[i].now.exp = last /\ \A k \in saves : k <= i
  BY <1>2 DEF EndsWith
<1> HIDE DEF r, e
<1>4. /\ \A i \in rest : i \in Int /\ 1 <= i /\ i + 1 \in saves /\ r[i] = q[i + 1]
      /\ \A i \in saves : i \in Int /\ 1 <= i /\ (i # 1 => i - 1 \in rest)
      /\ 1 \in saves <=> e.kind # "load"
  BY <1>1, <1>2
<1>5. CASE saves = {}
  <2>1. rest = {} /\ e.kind = "load" /\ last = exp
    BY <1>3, <1>4, <1>5
  <2> QED
    BY <1>2, <2>1 DEF EndsWith, r, e
<1>6. CASE saves # {}
  <2>1. PICK i \in saves : q[i].now.exp = last /\ \A k \in saves : k <= i
    BY <1>3, <1>6
  <2>2. CASE i = 1
    <3>1. rest = {}
      BY <1>4, <2>1, <2>2
    <3>2. e.kind # "load" /\ last = e.now.exp
      BY <1>1, <1>4, <2>1, <2>2
    <3> QED
      BY <1>2, <3>1, <3>2 DEF EndsWith, r, e
  <2>3. CASE i # 1
    <3>1. i - 1 \in rest /\ r[i - 1] = q[i]
      <4>1. i \in Int /\ i - 1 \in rest
        BY <1>4, <2>3
      <4>2. r[i - 1] = q[(i - 1) + 1]
        BY <1>4, <4>1
      <4> QED
        BY <4>1, <4>2
    <3>2. \A k \in rest : k <= i - 1
      BY <1>4, <2>1
    <3> QED
      BY <1>2, <2>1, <3>1, <3>2 DEF EndsWith, r
  <2> QED
    BY <2>2, <2>3
<1> QED
  BY <1>5, <1>6

LEMMA EndsAdded ==
  ASSUME NEW q \in Seq(Task), NEW e \in Task, NEW exp, NEW last,
         IF e.kind = "load" THEN EndsWith(q, exp, last) ELSE e.now.exp = last
  PROVE  EndsWith(Append(q, e), exp, last)
<1> DEFINE r == Append(q, e)
           n == Len(q)
<1>1. /\ n \in Nat /\ DOMAIN q = 1..n /\ DOMAIN r = 1..(n + 1)
      /\ \A i \in DOMAIN q : r[i] = q[i]
      /\ r[n + 1] = e
  OBVIOUS
<1> HIDE DEF r, n
<1>2. PICK saves, more : /\ saves = {i \in DOMAIN q : q[i].kind # "load"}
                         /\ more = {i \in DOMAIN r : r[i].kind # "load"}
  OBVIOUS
<1>3. CASE e.kind = "load"
  <2>1. more = saves
    BY <1>1, <1>2, <1>3
  <2>2. IF saves = {} THEN last = exp
        ELSE \E i \in saves : q[i].now.exp = last /\ \A k \in saves : k <= i
    BY <1>2, <1>3 DEF EndsWith
  <2>3. \A i \in saves : r[i] = q[i]
    BY <1>1, <1>2
  <2> QED
    BY <1>2, <2>1, <2>2, <2>3 DEF EndsWith, r
<1>4. CASE e.kind # "load"
  <2>1. n + 1 \in more /\ \A k \in more : k <= n + 1
    BY <1>1, <1>2, <1>4
  <2>2. r[n + 1].now.exp = last
    BY <1>1, <1>4
  <2> QED
    BY <1>2, <2>1, <2>2 DEF EndsWith, r
<1> QED
  BY <1>3, <1>4

\* Only loads: the row will stay as it is.
LEMMA EndsLoads ==
  ASSUME NEW q, NEW exp, NEW last, EndsWith(q, exp, last), \A t \in Elems(q) : t.kind = "load"
  PROVE  last = exp
BY DEF EndsWith, Elems

\* While a character is in a zone, it is in no other, and none of its loads is under way.
LEMMA HereAlone ==
  ASSUME OneAtATime, BodyInv, NEW z \in Zones, NEW p \in Players, Here(z, p)
  PROVE  /\ \A y \in Zones : Here(y, p) => y = z
         /\ \A y \in Zones, s \in Sessions : PlayerOf[s] = p => s \notin spawnPending[y]
         /\ PortalInv => \A y \in Zones : p \in portalPending[y] => y = z
<1>1. PICK s \in Sessions : PlayerOf[s] = p /\ sessionToPlayer[z][s] = p /\ p # NoPlayer /\ At(z, s)
  BY HereAt DEF BodyInv
<1>2. \A t \in Sessions, y \in Zones : PlayerOf[t] = p /\ At(y, t) => t = s /\ y = z
  BY <1>1 DEF BodyInv, OneSession, Live, OneAtATime, SessionInv, OnePermission
<1>3. ASSUME NEW y \in Zones, Here(y, p)
      PROVE  y = z
  BY <1>2, <1>3, HereAt DEF BodyInv
<1>4. ASSUME NEW y \in Zones, NEW t \in Sessions, PlayerOf[t] = p, t \in spawnPending[y]
      PROVE  FALSE
  <2>1. t = s /\ y = z
    BY <1>2, <1>4 DEF At, In
  <2> QED
    BY <1>1, <1>4, <2>1 DEF BodyInv, IInv, LoadingIsNotPlaying
<1>5. ASSUME PortalInv, NEW y \in Zones, p \in portalPending[y]
      PROVE  y = z
  <2>1. sessionToPlayer[y][s] = p
    BY <1>1, <1>5 DEF PortalInv, Awaits
  <2> QED
    BY <1>1, <1>2, <2>1 DEF At, In
<1> QED
  BY <1>3, <1>4, <1>5

HasEarned(p) == \A z \in Zones : Here(z, p) => players[z][p].now.exp = earned[p]

\* The database has, or has been asked to write, what p has earned: when p is in no zone,
\* and from the portal on.
Secured(p) ==
  (\A z \in Zones : ~Here(z, p)) \/ (\E z \in Zones : p \in portalPending[z]) =>
    EndsWith(dbQueue[p], row[p].now.exp, earned[p])

\* Every save was asked for before the loads that count, and those read all of it.
LoadsLast(p) == \A z \in Zones : LoadsBehind(dbQueue[p], LiveTasks(z))
LoadsRead(p) ==
  \A z \in Zones : \A j \in Elems(jobQueue[z]) \cap LiveAnswers(z, p) : j.ok => j.now.exp = earned[p]

ExpOf(p) == HasEarned(p) /\ Secured(p) /\ LoadsLast(p) /\ LoadsRead(p)
ExpInv == \A p \in Players : ExpOf(p)

LEMMA LoadsReadKept ==
  ASSUME IInv, Own, LoadInv, [Next]_vars, NEW p \in Players, LoadsRead(p), earned'[p] = earned[p],
         \A z \in Zones : Elems(jobQueue'[z]) \subseteq Elems(jobQueue[z])
  PROVE  LoadsRead(p)'
<1>1. SUFFICES ASSUME NEW z \in Zones, NEW j \in Elems(jobQueue'[z]), j \in LiveAnswers(z, p)', j.ok
               PROVE  j.now.exp = earned[p]
  BY DEF LoadsRead
<1>2. j \in Elems(jobQueue[z]) /\ j \in LiveAnswers(z, p)
  BY <1>1, NoneRevived
<1> QED
  BY <1>1, <1>2 DEF LoadsRead

LEMMA LoadsLastKept ==
  ASSUME IInv, Own, LoadInv, [Next]_vars, NEW p \in Players, LoadsLast(p), dbQueue'[p] = dbQueue[p]
  PROVE  LoadsLast(p)'
<1>1. SUFFICES ASSUME NEW z \in Zones
               PROVE  LoadsBehind(dbQueue[p], LiveTasks(z)')
  BY DEF LoadsLast
<1>2. Elems(dbQueue[p]) \cap LiveTasks(z)' \subseteq LiveTasks(z)
  BY NoneRevived
<1> QED
  BY <1>2 DEF LoadsLast, LoadsBehind, Elems

\* Leaving, clearing and entering change nothing of who stays.
Stays(p) == \A z \in Zones : Here(z, p) /\ Here(z, p)' => players'[z][p] = players[z][p]

LEMMA LeaveStays ==
  ASSUME TypeOK, NEW y \in Zones, NEW r \in Players, UNCHANGED players \/ Leave(y, r),
         NEW p \in Players
  PROVE  Stays(p)
<1> SUFFICES ASSUME NEW z \in Zones, Here(z, p)'
             PROVE  players'[z][p] = players[z][p]
  BY DEF Stays
<1>1. CASE UNCHANGED players
  BY <1>1
<1>2. CASE players' = [players EXCEPT ![y][r] = NotHere]
  <2>1. z # y \/ p # r
    BY <1>2 DEF Here, TypeOK
  <2> QED
    BY <1>2, <2>1 DEF TypeOK
<1> QED
  BY <1>1, <1>2 DEF Leave

LEMMA ClearStays ==
  ASSUME TypeOK, NEW y \in Zones, SaveAllAndClear(y), NEW p \in Players
  PROVE  Stays(p)
<1> SUFFICES ASSUME NEW z \in Zones, Here(z, p)'
             PROVE  players'[z][p] = players[z][p]
  BY DEF Stays
<1>1. players' = [players EXCEPT ![y] = [q \in Players |-> NotHere]]
  BY DEF SaveAllAndClear
<1>2. z # y
  BY <1>1 DEF Here, TypeOK
<1> QED
  BY <1>1, <1>2 DEF TypeOK

LEMMA SpawnStaysHere ==
  ASSUME TypeOK, NEW y \in Zones, SpawnLoaded(y), NEW p \in Players
  PROVE  Stays(p)
<1> SUFFICES ASSUME NEW z \in Zones, Here(z, p)
             PROVE  players'[z][p] = players[z][p]
  BY DEF Stays
<1>1. PICK r, c : UNCHANGED players \/ (~Here(y, r) /\ players' = [players EXCEPT ![y][r] = c])
  BY DEF SpawnLoaded
<1>2. z # y \/ p # r \/ UNCHANGED players
  BY <1>1
<1> QED
  BY <1>1, <1>2 DEF TypeOK

\* What a character has earned changes by earning, and exp comes in with a load.
LEMMA ExpChanges ==
  ASSUME IInv, [Next]_vars, NEW p \in Players, \A z \in Zones : ~EarnExp(z, p)
  PROVE  /\ earned'[p] = earned[p]
         /\ \A z \in Zones : Here(z, p) /\ Here(z, p)' => players'[z][p].now.exp = players[z][p].now.exp
<1>1. TypeOK
  BY DEF IInv
<1>2. CASE UNCHANGED <<players, earned>>
  BY <1>2
<1>3. ASSUME NEW y \in Zones, ZoneJob(y)
      PROVE  Stays(p) /\ UNCHANGED earned
  <2>1. CASE HandleReadyToSpawn(y) \/ CloseZone(y)
    BY <2>1 DEF HandleReadyToSpawn, CloseZone, Stays
  <2>2. CASE HandleDisconnect(y)
    <3>1. PICK r \in Players : UNCHANGED players \/ Leave(y, r)
      <4>1. Head(netQueue[y]).s \in Sessions
        BY <1>1, <2>2, NextNetType DEF HandleDisconnect, NextNet, NetJob
      <4>2. sessionToPlayer[y][Head(netQueue[y]).s] \in Players \cup {NoPlayer}
        BY <1>1, <4>1 DEF TypeOK
      <4> QED
        BY <2>2, <4>2 DEF HandleDisconnect
    <3>2. UNCHANGED earned
      BY <2>2 DEF HandleDisconnect
    <3> QED
      BY <1>1, <3>1, <3>2, LeaveStays
  <2>3. CASE HandleGatewayLost(y) \/ ClearForShutdown(y)
    <3>1. SaveAllAndClear(y) /\ UNCHANGED earned
      BY <2>3 DEF HandleGatewayLost, ClearForShutdown, SaveAllAndClear
    <3> QED
      BY <1>1, <3>1, ClearStays
  <2> QED
    BY <1>3, <2>1, <2>2, <2>3 DEF ZoneJob
<1>4. ASSUME NEW y \in Zones, PortalSaved(y)
      PROVE  Stays(p) /\ UNCHANGED earned
  <2>1. PICK r \in Players : UNCHANGED players \/ Leave(y, r)
    <3>1. Head(jobQueue[y]).p \in Players
      BY <1>1, <1>4, NextJobType DEF PortalSaved, DbJob
    <3> QED
      BY <1>4, <3>1 DEF PortalSaved
  <2>2. UNCHANGED earned
    BY <1>4 DEF PortalSaved
  <2> QED
    BY <1>1, <2>1, <2>2, LeaveStays
<1>5. ASSUME NEW y \in Zones, SpawnLoaded(y)
      PROVE  Stays(p) /\ UNCHANGED earned
  BY <1>1, <1>5, SpawnStaysHere DEF SpawnLoaded
<1>6. ASSUME NEW y \in Zones, Play(y)
      PROVE  /\ earned'[p] = earned[p]
             /\ \A z \in Zones : Here(z, p) => players'[z][p].now.exp = players[z][p].now.exp
  <2>1. ASSUME NEW r \in Players, EarnExp(y, r)
        PROVE  earned'[p] = earned[p] /\ \A z \in Zones : players'[z][p] = players[z][p]
    <3>1. r # p
      BY <2>1
    <3>2. /\ \E c : players' = [players EXCEPT ![y][r] = c]
          /\ \E e : earned' = [earned EXCEPT ![r] = e]
      BY <2>1 DEF EarnExp
    <3> QED
      BY <1>1, <3>1, <3>2 DEF TypeOK
  <2>2. ASSUME NEW r \in Players, MonsterKills(y, r) \/ HandleRevive(y, r)
        PROVE  /\ earned'[p] = earned[p]
               /\ \A z \in Zones : Here(z, p) => players'[z][p].now.exp = players[z][p].now.exp
    <3>1. PICK up \in BOOLEAN : players' = [players EXCEPT ![y][r].now.alive = up]
      BY <2>2 DEF MonsterKills, HandleRevive
    <3>2. UNCHANGED earned
      BY <2>2 DEF MonsterKills, HandleRevive
    <3>3. ASSUME NEW z \in Zones, Here(z, p)
          PROVE  players'[z][p].now.exp = players[z][p].now.exp
      <4>1. PICK c : c = players[z][p]
        OBVIOUS
      <4>2. c \in Char
        BY <1>1, <3>3, <4>1 DEF Here, TypeOK
      <4>3. players'[z][p] = c \/ players'[z][p] = [c EXCEPT !.now.alive = up]
        BY <1>1, <3>1, <4>1 DEF TypeOK
      <4> QED
        BY <4>1, <4>2, <4>3 DEF Char, State
    <3> QED
      BY <3>2, <3>3
  <2>3. ASSUME NEW r \in Players, NEW dest \in Zones, HandlePortal(y, r, dest)
        PROVE  UNCHANGED <<players, earned>>
    BY <2>3 DEF HandlePortal
  <2>4. ASSUME NEW slice \in Slices, AutoSaveTick(y, slice)
        PROVE  /\ earned'[p] = earned[p]
               /\ \A z \in Zones : Here(z, p) => players'[z][p].now.exp = players[z][p].now.exp
    <3>1. UNCHANGED earned
      BY <2>4 DEF AutoSaveTick
    <3>2. ASSUME NEW z \in Zones, Here(z, p)
          PROVE  players'[z][p].now.exp = players[z][p].now.exp
      <4>1. PICK c : c = players[z][p]
        OBVIOUS
      <4>2. c \in Char
        BY <1>1, <3>2, <4>1 DEF Here, TypeOK
      <4>3. players'[z][p] = c \/ players'[z][p] = [c EXCEPT !.lastSaved = c.now]
        BY <1>1, <2>4, <4>1 DEF AutoSaveTick, TypeOK
      <4> QED
        BY <4>1, <4>2, <4>3 DEF Char
    <3> QED
      BY <3>1, <3>2
  <2> QED
    BY <1>6, <2>1, <2>2, <2>3, <2>4 DEF Play
<1>7. ASSUME NEW r \in Players, RunTask(r)
      PROVE  UNCHANGED <<players, earned>>
  BY <1>7 DEF RunTask, zoneVars
<1>8. ASSUME NEW s \in Sessions, Gateway(s)
      PROVE  UNCHANGED <<players, earned>>
  BY <1>8 DEF Gateway, SelectCharacter, RouteReady, LeaveCompleted, CloseSession, zoneVars
<1>9. CASE LoseGateway \/ Signal \/ Finish \/ UNCHANGED vars
  BY <1>2, <1>9 DEF LoseGateway, Signal, Finish, vars, zoneVars
<1>10. ASSUME Stays(p), UNCHANGED earned
       PROVE  /\ earned'[p] = earned[p]
              /\ \A z \in Zones : Here(z, p) /\ Here(z, p)' => players'[z][p].now.exp = players[z][p].now.exp
  BY <1>10 DEF Stays
<1> QED
  BY <1>2, <1>3, <1>4, <1>5, <1>6, <1>7, <1>8, <1>9, <1>10 DEF Next, DbCallback

\* Who leaves a zone is saved: by the portal save that is awaited, or on leaving.
LEMMA LeavesSaved ==
  ASSUME IInv, ShutdownInv, PortalInv, [Next]_vars, NEW z \in Zones, NEW p \in Players,
         Here(z, p), ~Here(z, p)'
  PROVE  p \in portalPending[z] \/ dbQueue'[p] = Append(dbQueue[p], SaveTask("save", z, p, z))
<1>1. TypeOK /\ dbOpen
  BY OpenWhileHere DEF IInv
<1>2. players'[z][p] # players[z][p]
  BY DEF Here
<1>3. ASSUME NEW y \in Zones, ZoneJob(y)
      PROVE  p \in portalPending[z] \/ dbQueue'[p] = Append(dbQueue[p], SaveTask("save", z, p, z))
  <2>1. CASE HandleReadyToSpawn(y) \/ CloseZone(y)
    BY <1>2, <2>1 DEF HandleReadyToSpawn, CloseZone
  <2>2. CASE HandleDisconnect(y)
    <3>1. PICK r \in Players :
            /\ Leave(y, r)
            /\ dbQueue' = IF NeedsSave(y, r)
                          THEN PushTask(dbQueue, r, SaveTask("save", y, r, y))
                          ELSE dbQueue
      <4>1. Head(netQueue[y]).s \in Sessions
        BY <1>1, <2>2, NextNetType DEF HandleDisconnect, NextNet, NetJob
      <4>2. sessionToPlayer[y][Head(netQueue[y]).s] \in Players \cup {NoPlayer}
        BY <1>1, <4>1 DEF TypeOK
      <4> QED
        BY <1>2, <2>2, <4>2 DEF HandleDisconnect
    <3>2. y = z /\ r = p
      BY <1>1, <1>2, <3>1 DEF Leave, TypeOK
    <3>3. PICK t : t = SaveTask("save", z, p, z)
      OBVIOUS
    <3> QED
      BY <1>1, <3>1, <3>2, <3>3 DEF NeedsSave, PushTask, TypeOK
  <2>3. CASE HandleGatewayLost(y) \/ ClearForShutdown(y)
    <3>1. SaveAllAndClear(y)
      BY <2>3 DEF HandleGatewayLost, ClearForShutdown
    <3>2. y = z
      BY <1>1, <1>2, <3>1 DEF SaveAllAndClear, TypeOK
    <3> QED
      BY <1>1, <3>1, <3>2 DEF SaveAllAndClear, NeedsSave
  <2> QED
    BY <1>3, <2>1, <2>2, <2>3 DEF ZoneJob
<1>4. ASSUME NEW y \in Zones, PortalSaved(y)
      PROVE  p \in portalPending[z]
  <2>1. PICK job \in DbJob : job = Head(jobQueue[y]) /\ job.kind = "portalDone"
    BY <1>1, <1>4, NextJobType DEF PortalSaved
  <2>2. Leave(y, job.p)
    BY <1>2, <1>4, <2>1 DEF PortalSaved
  <2>3. y = z /\ job.p = p
    BY <1>1, <1>2, <2>2 DEF Leave, TypeOK
  <2>4. job \in Elems(jobQueue[z])
    <3>1. jobQueue[z] \in Seq(DbJob) /\ jobQueue[z] # <<>>
      BY <1>1, <1>4, <2>3 DEF PortalSaved, NextJob, TypeOK
    <3>2. 1 \in DOMAIN jobQueue[z] /\ jobQueue[z][1] = job
      BY <2>1, <2>3, <3>1
    <3> QED
      BY <3>2 DEF Elems
  <2>5. job \in PortalAnswers(p)
    BY <2>1, <2>3 DEF PortalAnswers
  <2>6. AwaitedBy(p, z, job.s)
    BY <2>4, <2>5 DEF PortalInv
  <2> QED
    BY <2>6 DEF AwaitedBy
<1>5. ASSUME NEW y \in Zones, SpawnLoaded(y)
      PROVE  FALSE
  <2>1. Stays(p) /\ (Here(z, p) => Here(z, p)')
    <3>1. PICK r, c : UNCHANGED players \/ (~Here(y, r) /\ players' = [players EXCEPT ![y][r] = c])
      BY <1>5 DEF SpawnLoaded
    <3>2. z # y \/ p # r \/ UNCHANGED players
      BY <3>1
    <3>3. players'[z][p] = players[z][p]
      BY <1>1, <3>1, <3>2 DEF TypeOK
    <3> QED
      BY <1>2, <3>3
  <2> QED
    BY <2>1
<1>6. ASSUME NEW y \in Zones, Play(y)
      PROVE  FALSE
  BY <1>1, <1>6, PlayMembers DEF SameMembers
<1>7. ASSUME NEW r \in Players, RunTask(r)
      PROVE  UNCHANGED players
  BY <1>7 DEF RunTask, zoneVars
<1>8. ASSUME NEW s \in Sessions, Gateway(s)
      PROVE  UNCHANGED players
  BY <1>8 DEF Gateway, SelectCharacter, RouteReady, LeaveCompleted, CloseSession, zoneVars
<1>9. CASE LoseGateway \/ Signal \/ Finish \/ UNCHANGED vars
  BY <1>2, <1>9 DEF LoseGateway, Signal, Finish, vars, zoneVars
<1> QED
  BY <1>2, <1>3, <1>4, <1>5, <1>6, <1>7, <1>8, <1>9 DEF Next, DbCallback

\* What ExpInv rests on.
ExpBase == BodyInv /\ PortalInv /\ EndInv /\ LoadInv

\* A zone takes an answer.
LEMMA ExpTaken ==
  ASSUME OneAtATime, ExpBase, [Next]_vars, NEW p \in Players, ExpOf(p),
         NEW y \in Zones, NEW kind, NextJob(y, kind), UNCHANGED <<dbQueue, row>>,
         SpawnLoaded(y) \/ PortalSaved(y)
  PROVE  ExpOf(p)'
<1>1. TypeOK /\ IInv /\ ShutdownInv /\ Own /\ LoadInv /\ PortalInv
  BY DEF ExpBase, BodyInv, IInv
<1>2. \A z \in Zones : ~EarnExp(z, p)
  <2>1. SUFFICES ASSUME NEW z \in Zones, EarnExp(z, p)
                 PROVE  FALSE
    OBVIOUS
  <2>2. UNCHANGED jobQueue
    BY <2>1 DEF EarnExp
  <2>3. PICK q \in Seq(DbJob) : q = jobQueue[y] /\ q # <<>> /\ jobQueue'[y] = Tail(q)
    BY <1>1 DEF NextJob, TypeOK
  <2>4. Len(Tail(q)) # Len(q)
    BY <2>3
  <2> QED
    BY <2>2, <2>3, <2>4
<1>3. /\ earned'[p] = earned[p]
      /\ \A z \in Zones : Here(z, p) /\ Here(z, p)' => players'[z][p].now.exp = players[z][p].now.exp
  BY <1>1, <1>2, ExpChanges
<1>4. HasEarned(p)'
  <2>1. SUFFICES ASSUME NEW z \in Zones, Here(z, p)'
                 PROVE  players'[z][p].now.exp = earned[p]
    BY <1>3 DEF HasEarned
  <2>2. CASE Here(z, p)
    BY <1>3, <2>1, <2>2 DEF ExpOf, HasEarned
  <2>3. CASE ~Here(z, p)
    <3>1. PICK job : job = Head(jobQueue[z])
      OBVIOUS
    <3>2. SpawnLoaded(z) /\ job \in LiveAnswers(z, p)
      BY <1>1, <2>1, <2>3, <3>1, EntersByAnswer
    <3>3. job.ok /\ job.p = p /\ players'[z][p].now = job.now
      <4>1. players'[z][p] # players[z][p]
        BY <2>1, <2>3 DEF Here
      <4>2. job.ok /\ players' = [players EXCEPT ![z][job.p] =
                                    [sid |-> job.s, now |-> job.now, lastSaved |-> job.now]]
        BY <3>1, <3>2, <4>1 DEF SpawnLoaded
      <4>3. job.p = p
        BY <3>2 DEF LiveAnswers
      <4> QED
        BY <1>1, <4>2, <4>3 DEF TypeOK
    <3>4. job \in Elems(jobQueue[z])
      <4>1. jobQueue[z] \in Seq(DbJob) /\ jobQueue[z] # <<>>
        BY <1>1, <3>2 DEF SpawnLoaded, NextJob, TypeOK
      <4>2. 1 \in DOMAIN jobQueue[z] /\ jobQueue[z][1] = job
        BY <3>1, <4>1
      <4> QED
        BY <4>2 DEF Elems
    <3> QED
      BY <3>2, <3>3, <3>4 DEF ExpOf, LoadsRead
  <2> QED
    BY <2>2, <2>3
<1>5. Secured(p)'
  <2>1. SUFFICES ASSUME (\A z \in Zones : ~Here(z, p)') \/ (\E z \in Zones : p \in portalPending'[z])
                 PROVE  (\A z \in Zones : ~Here(z, p)) \/ (\E z \in Zones : p \in portalPending[z])
    BY <1>3 DEF ExpOf, Secured
  <2>2. ASSUME NEW z \in Zones, p \in portalPending'[z]
        PROVE  p \in portalPending[z]
    <3>1. PICK r : UNCHANGED portalPending \/ portalPending' = [portalPending EXCEPT ![y] = @ \ {r}]
      BY DEF SpawnLoaded, PortalSaved
    <3>2. portalPending \in [Zones -> SUBSET Players]
      BY <1>1 DEF TypeOK
    <3>3. portalPending'[z] = portalPending[z] \/ portalPending'[z] = portalPending[z] \ {r}
      BY <3>1, <3>2
    <3> QED
      BY <2>2, <3>3
  <2>3. ASSUME NEW z \in Zones, Here(z, p), ~Here(z, p)'
        PROVE  p \in portalPending[z]
    <3>1. dbQueue'[p] # Append(dbQueue[p], SaveTask("save", z, p, z))
      <4>1. PICK q \in Seq(Task) : q = dbQueue[p]
        BY <1>1 DEF TypeOK
      <4>2. PICK t : t = SaveTask("save", z, p, z)
        OBVIOUS
      <4>3. Len(Append(q, t)) # Len(q)
        BY <4>1
      <4> QED
        BY <4>1, <4>2, <4>3
    <3> QED
      BY <1>1, <2>3, <3>1, LeavesSaved
  <2> QED
    BY <2>1, <2>2, <2>3
<1>6. LoadsLast(p)'
  BY <1>1, LoadsLastKept DEF ExpOf
<1>7. LoadsRead(p)'
  <2>1. \A z \in Zones : Elems(jobQueue'[z]) \subseteq Elems(jobQueue[z])
    <3>1. /\ jobQueue[y] \in Seq(DbJob) /\ jobQueue[y] # <<>>
          /\ jobQueue'[y] = Tail(jobQueue[y])
          /\ \A z \in Zones : z # y => jobQueue'[z] = jobQueue[z]
      BY <1>1 DEF NextJob, TypeOK
    <3>2. Elems(jobQueue[y]) = Elems(Tail(jobQueue[y])) \cup {Head(jobQueue[y])}
      BY <3>1, TakeTask
    <3> QED
      BY <3>1, <3>2
  <2> QED
    BY <1>1, <1>3, <2>1, LoadsReadKept DEF ExpOf
<1> QED
  BY <1>4, <1>5, <1>6, <1>7 DEF ExpOf

\* A load that counts is under way only for a character that is nowhere.
LEMMA LiveIsNowhere ==
  ASSUME OneAtATime, BodyInv, NEW p \in Players, NEW z \in Zones,
         \/ Elems(dbQueue[p]) \cap LiveTasks(z) # {}
         \/ Elems(jobQueue[z]) \cap LiveAnswers(z, p) # {}
  PROVE  \A y \in Zones : ~Here(y, p)
<1>1. ASSUME NEW t \in Elems(dbQueue[p]), t \in LiveTasks(z)
      PROVE  \E s \in Sessions : PlayerOf[s] = p /\ s \in spawnPending[z]
  <2>1. t \in OwnTask(p)
    BY <1>1 DEF BodyInv, Own, Elems
  <2>2. t.s \in Sessions
    BY <1>1 DEF LiveTasks, Task
  <2> QED
    BY <1>1, <2>1, <2>2 DEF LiveTasks, OwnTask
<1>2. ASSUME NEW j \in Elems(jobQueue[z]), j \in LiveAnswers(z, p)
      PROVE  \E s \in Sessions : PlayerOf[s] = p /\ s \in spawnPending[z]
  <2>1. j \in OwnJob
    BY <1>2 DEF BodyInv, Own, Elems
  <2>2. j.s \in Sessions
    BY <1>2 DEF LiveAnswers, DbJob
  <2> QED
    BY <1>2, <2>1, <2>2 DEF LiveAnswers, OwnJob
<1>3. PICK s \in Sessions : PlayerOf[s] = p /\ s \in spawnPending[z]
  BY <1>1, <1>2
<1> QED
  BY <1>3, HereAlone

\* A task runs: a save writes what p has earned, and a load that counts reads it.
LEMMA ExpRuns ==
  ASSUME OneAtATime, FailKinds \subseteq {"load"}, ExpBase, NEW p \in Players, ExpOf(p),
         NEW r \in Players, RunTask(r)
  PROVE  ExpOf(p)'
<1>1. TypeOK /\ Own /\ UNCHANGED <<zoneVars, earned>>
  BY DEF ExpBase, BodyInv, IInv, RunTask
<1>2. PICK task \in OwnTask(r), ok \in BOOLEAN : Runs(r, task, ok)
  BY <1>1, RunTaskRuns
<1>3. task \in Task /\ (task.kind # "load" => ok)
  BY <1>2 DEF OwnTask, Runs
<1>4. /\ dbQueue[r] \in Seq(Task) /\ dbQueue[r] # <<>> /\ task = Head(dbQueue[r])
      /\ dbQueue'[r] = Tail(dbQueue[r])
      /\ r # p => dbQueue'[p] = dbQueue[p] /\ row'[p] = row[p]
  BY <1>1, <1>2 DEF Runs, TypeOK
<1>5. row'[r].now.exp = IF task.kind = "load" THEN row[r].now.exp ELSE task.now.exp
  <2>1. CASE task.kind = "load"
    BY <1>2, <2>1 DEF Runs
  <2>2. CASE task.kind # "load"
    <3>1. PICK new : new = [now |-> task.now, zone |-> task.to]
      OBVIOUS
    <3>2. row' = [row EXCEPT ![r] = new]
      BY <1>2, <1>3, <2>2, <3>1 DEF Runs
    <3> QED
      BY <1>1, <2>2, <3>1, <3>2 DEF TypeOK
  <2> QED
    BY <2>1, <2>2
<1>6. /\ Elems(dbQueue[r]) = Elems(dbQueue'[r]) \cup {task}
      /\ \A K : LoadsBehind(dbQueue[r], K) =>
           LoadsBehind(dbQueue'[r], K) /\ (task \in K => \A t \in Elems(dbQueue'[r]) : t.kind = "load")
  BY <1>4, TakeTask
<1>7. HasEarned(p)'
  BY <1>1 DEF ExpOf, HasEarned, zoneVars, Here
<1>8. Secured(p)'
  <2>1. CASE r # p
    BY <1>1, <1>4, <2>1 DEF ExpOf, Secured, zoneVars, Here
  <2>2. CASE r = p
    <3>1. PICK exp, last : exp = row[p].now.exp /\ last = earned[p]
      OBVIOUS
    <3>2. EndsWith(dbQueue[p], exp, last) =>
            EndsWith(dbQueue'[p], IF task.kind = "load" THEN exp ELSE task.now.exp, last)
      BY <1>4, <2>2, EndsTaken
    <3>3. EndsWith(dbQueue[p], row[p].now.exp, earned[p]) =>
            EndsWith(dbQueue'[p], row'[p].now.exp, earned'[p])
      BY <1>1, <1>5, <2>2, <3>1, <3>2
    <3> QED
      BY <1>1, <3>3 DEF ExpOf, Secured, zoneVars, Here
  <2> QED
    BY <2>1, <2>2
<1>9. LoadsLast(p)'
  <2>1. SUFFICES ASSUME NEW z \in Zones
                 PROVE  LoadsBehind(dbQueue'[p], LiveTasks(z)')
    BY DEF LoadsLast
  <2>2. LiveTasks(z)' = LiveTasks(z) /\ LoadsBehind(dbQueue[p], LiveTasks(z))
    BY <1>1 DEF ExpOf, LoadsLast, LiveTasks, zoneVars
  <2> QED
    BY <1>4, <1>6, <2>2
<1>10. LoadsRead(p)'
  <2>1. SUFFICES ASSUME NEW z \in Zones, NEW j \in Elems(jobQueue'[z]), j \in LiveAnswers(z, p)', j.ok
                 PROVE  j.now.exp = earned[p]
    BY <1>1 DEF LoadsRead
  <2>2. j \in LiveAnswers(z, p)
    BY <1>1, <2>1 DEF LiveAnswers, zoneVars
  <2>3. CASE j \in Elems(jobQueue[z])
    BY <2>1, <2>2, <2>3 DEF ExpOf, LoadsRead
  <2>4. CASE j \notin Elems(jobQueue[z])
    <3>1. Answers(j, r, task, ok) /\ task.z = z
      <4>1. PICK new \in DbJob : /\ Answers(new, r, task, ok)
                                 /\ jobQueue' = [jobQueue EXCEPT ![task.z] = Append(@, new)]
        BY <1>2, <2>1, <2>4 DEF Runs
      <4>2. task.z = z /\ jobQueue[z] \in Seq(DbJob) /\ jobQueue'[z] = Append(jobQueue[z], new)
        BY <1>1, <2>1, <2>4, <4>1 DEF TypeOK
      <4>3. Elems(jobQueue'[z]) = Elems(jobQueue[z]) \cup {new}
        BY <4>2, AddTask
      <4> QED
        BY <2>1, <2>4, <4>1, <4>2, <4>3
    <3>2. r = p /\ task.kind = "load" /\ j.now = row[p].now /\ task \in LiveTasks(z)
      BY <1>3, <2>2, <3>1 DEF Answers, LiveAnswers, LiveTasks
    <3>3. \A t \in Elems(dbQueue[p]) : t.kind = "load"
      BY <1>6, <3>2 DEF ExpOf, LoadsLast
    <3>4. \A y \in Zones : ~Here(y, p)
      BY <1>6, <3>2, LiveIsNowhere DEF ExpBase
    <3>5. PICK exp, last : exp = row[p].now.exp /\ last = earned[p]
      OBVIOUS
    <3>6. EndsWith(dbQueue[p], exp, last)
      BY <3>4, <3>5 DEF ExpOf, Secured
    <3>7. last = exp
      BY <3>3, <3>6, EndsLoads
    <3> QED
      BY <3>2, <3>5, <3>7
  <2> QED
    BY <2>3, <2>4
<1> QED
  BY <1>7, <1>8, <1>9, <1>10 DEF ExpOf

\* A character earns: nothing of it is in the database's hands meanwhile.
LEMMA ExpEarned ==
  ASSUME OneAtATime, ExpBase, NEW p \in Players, ExpOf(p), NEW z \in Zones, EarnExp(z, p)
  PROVE  ExpOf(p)'
<1>1. /\ TypeOK /\ Here(z, p) /\ p \notin portalPending[z]
      /\ UNCHANGED <<spawnPending, portalPending, jobQueue, dbQueue, row>>
  BY DEF ExpBase, BodyInv, IInv, EarnExp, CanAct, dbVars
<1>2. /\ \A y \in Zones : Here(y, p) => y = z
      /\ \A y \in Zones : p \notin portalPending[y]
  BY <1>1, HereAlone DEF ExpBase
<1>3. players[z][p].now.exp = earned[p] /\ earned[p] \in Nat
  BY <1>1, ZoneLifeAssumption DEF ExpOf, HasEarned, TypeOK
<1>4. PICK c : c = [players[z][p] EXCEPT !.now.exp = @ + 1]
  OBVIOUS
<1>5. c \in Char /\ c.now.exp = earned[p] + 1
  <2>1. players[z][p] \in Char
    BY <1>1 DEF Here, TypeOK
  <2>2. players[z][p].now.exp + 1 \in 0..MaxExp
    BY <1>3, <2>1, ZoneLifeAssumption DEF EarnExp
  <2> QED
    BY <1>3, <1>4, <2>1, <2>2 DEF Char, State
<1>6. players' = [players EXCEPT ![z][p] = c] /\ earned'[p] = earned[p] + 1
  BY <1>1, <1>3, <1>4 DEF EarnExp, TypeOK
<1>7. /\ players'[z][p] = c /\ Here(z, p)'
      /\ \A y \in Zones : Here(y, p)' => y = z
  <2>1. players'[z][p] = c /\ \A y \in Zones : y # z => players'[y][p] = players[y][p]
    BY <1>1, <1>6 DEF TypeOK
  <2> QED
    BY <1>2, <1>5, <2>1, NotHereAssumption DEF Here
<1>8. HasEarned(p)'
  BY <1>5, <1>6, <1>7 DEF HasEarned
<1>9. Secured(p)'
  BY <1>1, <1>2, <1>7 DEF Secured
<1>10. LoadsLast(p)'
  BY <1>1 DEF ExpOf, LoadsLast, LiveTasks
<1>11. LoadsRead(p)'
  <2>1. \A y \in Zones : Elems(jobQueue[y]) \cap LiveAnswers(y, p) = {}
    BY <1>1, LiveIsNowhere DEF ExpBase
  <2>2. \A y \in Zones : LiveAnswers(y, p)' = LiveAnswers(y, p)
    BY <1>1 DEF LiveAnswers
  <2> QED
    BY <1>1, <2>1, <2>2 DEF LoadsRead
<1> QED
  BY <1>8, <1>9, <1>10, <1>11 DEF ExpOf

\* A zone pushes tasks, or the gateway goes on: a save has all that p has earned.
LEMMA ExpPushed ==
  ASSUME OneAtATime, ExpBase, [Next]_vars, NEW p \in Players, ExpOf(p),
         UNCHANGED <<jobQueue, row>>, \A y \in Zones : ~PortalSaved(y) /\ ~SpawnLoaded(y),
         (\E y \in Zones : Pushes(y)) \/ UNCHANGED dbQueue,
         \A y \in Zones : ~EarnExp(y, p)
  PROVE  ExpOf(p)'
<1>1. TypeOK /\ IInv /\ ShutdownInv /\ Own /\ LoadInv /\ PortalInv /\ BodyInv
  BY DEF ExpBase, BodyInv, IInv
<1>2. /\ earned'[p] = earned[p]
      /\ \A z \in Zones : Here(z, p) /\ Here(z, p)' => players'[z][p].now.exp = players[z][p].now.exp
  BY <1>1, ExpChanges
<1>3. HasEarned(p)'
  <2>1. \A z \in Zones : Here(z, p)' => Here(z, p)
    BY <1>1, EntersByAnswer
  <2> QED
    BY <1>2, <2>1 DEF ExpOf, HasEarned
<1>4. ASSUME NEW z \in Zones, Here(z, p), NEW kind \in {"save", "auto", "portal"}, NEW to \in Zones,
             dbQueue'[p] = Append(dbQueue[p], SaveTask(kind, z, p, to))
      PROVE  Secured(p)'
  <2>1. PICK t \in Task : t = SaveTask(kind, z, p, to)
    BY <1>1, <1>4, SaveTaskType DEF TaskKinds
  <2>2. PICK exp, last : exp = row[p].now.exp /\ last = earned[p]
    OBVIOUS
  <2>3. t.kind # "load" /\ t.now.exp = last
    BY <1>4, <2>1, <2>2 DEF SaveTask, ExpOf, HasEarned
  <2>4. dbQueue[p] \in Seq(Task) /\ dbQueue'[p] = Append(dbQueue[p], t)
    BY <1>1, <1>4, <2>1 DEF TypeOK
  <2>5. EndsWith(dbQueue'[p], exp, last)
    BY <2>3, <2>4, EndsAdded
  <2> QED
    BY <1>2, <2>2, <2>5 DEF Secured
<1>5. ASSUME NEW y \in Zones, NEW t \in Task, Pushed(y, p, t), t.kind # "load"
      PROVE  Here(y, p) /\ \E kind \in {"save", "auto", "portal"}, to \in Zones : t = SaveTask(kind, y, p, to)
  <2>1. PushesSave(y, p, t) \/ PushesPortal(y, p, t)
    BY <1>5 DEF Pushed, PushesLoad, Load
  <2> QED
    BY <2>1 DEF PushesSave, PushesPortal
<1>6. \/ dbQueue'[p] = dbQueue[p]
      \/ \E y \in Zones, t \in Task : Pushed(y, p, t) /\ dbQueue'[p] = Append(dbQueue[p], t)
  BY DEF Pushes
<1>7. Secured(p)'
  <2>1. CASE (\A z \in Zones : ~Here(z, p)) \/ (\E z \in Zones : p \in portalPending[z])
    <3>1. PICK exp, last : exp = row[p].now.exp /\ last = earned[p]
      OBVIOUS
    <3>2. EndsWith(dbQueue[p], exp, last)
      BY <2>1, <3>1 DEF ExpOf, Secured
    <3>3. CASE dbQueue'[p] = dbQueue[p]
      BY <1>2, <3>1, <3>2, <3>3 DEF Secured
    <3>4. ASSUME NEW y \in Zones, NEW t \in Task, Pushed(y, p, t), dbQueue'[p] = Append(dbQueue[p], t),
                 t.kind = "load"
          PROVE  Secured(p)'
      <4>1. dbQueue[p] \in Seq(Task)
        BY <1>1 DEF TypeOK
      <4>2. EndsWith(dbQueue'[p], exp, last)
        BY <3>2, <3>4, <4>1, EndsAdded
      <4> QED
        BY <1>2, <3>1, <4>2 DEF Secured
    <3>5. ASSUME NEW y \in Zones, NEW t \in Task, Pushed(y, p, t), dbQueue'[p] = Append(dbQueue[p], t),
                 t.kind # "load"
          PROVE  Secured(p)'
      BY <1>4, <1>5, <3>5
    <3> QED
      BY <1>6, <3>3, <3>4, <3>5
  <2>2. ASSUME NEW z \in Zones, Here(z, p), \A y \in Zones : p \notin portalPending[y]
        PROVE  Secured(p)'
    <3>1. CASE ~Here(z, p)'
      <4>1. dbQueue'[p] = Append(dbQueue[p], SaveTask("save", z, p, z))
        BY <1>1, <2>2, <3>1, LeavesSaved
      <4> QED
        BY <1>4, <2>2, <4>1
    <3>2. ASSUME NEW y \in Zones, p \in portalPending'[y]
          PROVE  Secured(p)'
      <4>1. PICK dest \in Zones : HandlePortal(y, p, dest)
        BY <1>1, <2>2, <3>2, AwaitingChanges
      <4>2. Here(y, p) /\ dbOpen
        BY <1>1, <4>1, OpenWhileHere DEF HandlePortal, CanAct
      <4>3. dbQueue'[p] = Append(dbQueue[p], SaveTask("portal", y, p, dest))
        <5>1. PICK t : t = SaveTask("portal", y, p, dest)
          OBVIOUS
        <5> QED
          BY <1>1, <4>1, <4>2, <5>1 DEF HandlePortal, PushTask, TypeOK
      <4> QED
        BY <1>4, <4>2, <4>3
    <3>3. CASE Here(z, p)' /\ \A y \in Zones : p \notin portalPending'[y]
      BY <3>3 DEF Secured
    <3> QED
      BY <3>1, <3>2, <3>3
  <2> QED
    BY <2>1, <2>2
<1>8. LoadsLast(p)'
  <2>1. CASE dbQueue'[p] = dbQueue[p]
    BY <1>1, <2>1, LoadsLastKept DEF ExpOf
  <2>2. ASSUME NEW y \in Zones, NEW t \in Task, Pushed(y, p, t), dbQueue'[p] = Append(dbQueue[p], t),
               NEW z \in Zones
        PROVE  LoadsBehind(dbQueue'[p], LiveTasks(z)')
    <3>1. PICK C : C = LiveTasks(z)'
      OBVIOUS
    <3>2. Elems(dbQueue[p]) \cap C \subseteq LiveTasks(z) /\ LoadsBehind(dbQueue[p], LiveTasks(z))
      BY <1>1, <3>1, NoneRevived DEF ExpOf, LoadsLast
    <3>3. LoadsBehind(dbQueue[p], C)
      BY <3>2 DEF LoadsBehind, Elems
    <3>4. t.kind # "load" => Elems(dbQueue[p]) \cap C = {}
      BY <1>1, <1>5, <2>2, <3>2, LiveIsNowhere
    <3>5. dbQueue[p] \in Seq(Task)
      BY <1>1 DEF TypeOK
    <3>6. LoadsBehind(dbQueue'[p], C)
      BY <2>2, <3>3, <3>4, <3>5, AddTask
    <3> QED
      BY <3>1, <3>6
  <2> QED
    BY <1>6, <2>1, <2>2 DEF LoadsLast
<1>9. LoadsRead(p)'
  BY <1>1, <1>2, LoadsReadKept DEF ExpOf
<1> QED
  BY <1>3, <1>7, <1>8, <1>9 DEF ExpOf

LEMMA ExpStep ==
  ASSUME OneAtATime, FailKinds \subseteq {"load"}, ExpBase, ExpInv, [Next]_vars
  PROVE  ExpInv'
<1> SUFFICES ASSUME NEW p \in Players
             PROVE  ExpOf(p)'
  BY DEF ExpInv
<1>1. IInv /\ ExpOf(p)
  BY DEF ExpBase, BodyInv, ExpInv
<1>2. ASSUME NEW y \in Zones, NEW kind \in {"spawned", "portalDone"},
             NextJob(y, kind), UNCHANGED <<dbQueue, row>>, SpawnLoaded(y) \/ PortalSaved(y)
      PROVE  ExpOf(p)'
  BY <1>1, <1>2, ExpTaken
<1>3. ASSUME NEW r \in Players, RunTask(r)
      PROVE  ExpOf(p)'
  BY <1>1, <1>3, ExpRuns
<1>4. ASSUME NEW z \in Zones, EarnExp(z, p)
      PROVE  ExpOf(p)'
  BY <1>1, <1>4, ExpEarned
<1>5. CASE /\ UNCHANGED <<jobQueue, row>>
           /\ \A y \in Zones : ~PortalSaved(y) /\ ~SpawnLoaded(y)
           /\ (\E y \in Zones : Pushes(y)) \/ UNCHANGED dbQueue
           /\ \A y \in Zones : ~EarnExp(y, p)
  BY <1>1, <1>5, ExpPushed
<1> QED
  BY <1>1, <1>2, <1>3, <1>4, <1>5, QueueSteps

LEMMA ExpInit == Init => ExpInv
<1> SUFFICES ASSUME Init, NEW p \in Players
             PROVE  ExpOf(p)
  BY DEF ExpInv
<1>1. HasEarned(p)
  BY DEF Init, HasEarned, Here
<1>2. Secured(p)
  <2>1. dbQueue[p] = <<>> /\ row[p].now.exp = 0 /\ earned[p] = 0
    BY DEF Init
  <2> QED
    BY <2>1 DEF Secured, EndsWith
<1>3. LoadsLast(p) /\ LoadsRead(p)
  BY DEF Init, LoadsLast, LoadsRead, LoadsBehind, Elems
<1> QED
  BY <1>1, <1>2, <1>3 DEF ExpOf

\* No exp is ever lost (Zone::HandleDisconnect, HandlePortal, AutoSaveTick, SaveAllAndClear,
\* GameDB's tasks of one key): a character in a zone has all it has earned, however it got
\* there, and when it is in none the row has it or the last save asked for does.  For
\* saves that do not fail, a character that is selected again only when every zone is
\* through with it, and a client that is READY once per order.
THEOREM NothingEarnedIsLost ==
  ASSUME OneAtATime, FailKinds \subseteq {"load"}
  PROVE  Safety => []NoExpLost
<1>1. RouteIsCertain
  BY DEF OneAtATime, RouteIsCertain
<1>2. RowsInv /\ OrdersInv => ExpBase
  BY DEF RowsInv, OrdersInv, ExpBase
<1>3. RowsInv /\ OrdersInv /\ ExpInv /\ [Next]_vars => ExpInv'
  BY <1>2, ExpStep
<1>4. ExpInv => NoExpLost
  BY DEF ExpInv, ExpOf, HasEarned, Secured, NoExpLost
<1>5. Safety => [](RowsInv /\ OrdersInv)
  BY <1>1, RowsFollow, OrdersFollow, PTL
<1> QED
  BY <1>3, <1>4, <1>5, ExpInit, PTL DEF Safety
=============================================================================
