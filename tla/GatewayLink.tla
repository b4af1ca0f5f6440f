---------------------------- MODULE GatewayLink ----------------------------
(***************************************************************************)
(* The connection of a zone server to its gateway (GatewaySession.cpp):    *)
(* connect, handshake, send queue, loss, reconnect after a delay, while    *)
(* the zone sends and the gateway dies and starts again.                   *)
(*                                                                         *)
(* Handlers of the session run one after the other on its strand.  When an *)
(* asynchronous operation completes, its handler joins the strand.  A      *)
(* connection is named by the value of connGen_ it was made under.  The    *)
(* gateway counts its sessionIDs from 1 whenever it starts (Server.cpp);   *)
(* a sessionID and the connection its client came in over name a client    *)
(* and its character for good.                                             *)
(***************************************************************************)
EXTENDS Integers, Sequences, FiniteSets

CONSTANTS MaxGen,        \* bound: attempts to connect
          MaxSessions,   \* bound: sessionIDs a gateway gives
          MaxFaults,     \* bound: crashes of the gateway and broken connections
          MaxQueue,      \* bound: data packets on their way to the gateway
          SendersFinish, \* does RECONNECT_DELAY_SEC outlast every Send that has
                         \* begun and every zone job that is queued?
          LoadsFinish,   \* and every load from the database?
          Nothing        \* no packet, no client

Gens == 1..MaxGen
Sids == 1..MaxSessions

Handshake == [kind |-> "handshake"]
\* A game packet for the client with this sessionID that came in over connection who.
Data(sid, who) == [kind |-> "data", sid |-> sid, who |-> who]
Packet == {Handshake} \cup {Data(s, g) : s \in Sids, g \in Gens}

OpKind == {"resolve", "connect", "read", "write", "timer"}
\* A handler on the strand: of an operation started under gen, or a posted send.
Handler == [kind : OpKind, gen : Gens, ok : BOOLEAN] \cup [kind : {"send"}, packet : Packet]
ZoneJob == [kind : {"ready", "answer"}, sid : Sids, who : Gens] \cup [kind : {"clear"}]

ASSUME GatewayLinkAssumption ==
  /\ MaxGen \in Nat \ {0}
  /\ {MaxSessions, MaxFaults, MaxQueue} \subseteq Nat
  /\ {SendersFinish, LoadsFinish} \subseteq BOOLEAN
  /\ Nothing \notin Packet /\ Nothing \notin Gens

VARIABLES
  \* GatewaySession
  connGen,      \* connGen_
  isConnected,  \* isConnected_
  socket,       \* socket_: "new", "open", "closed"
  sendQueue,    \* sendQueue_
  greeting,     \* is OnConnected between its store and its handshake?
  strand,       \* handlers that are ready, oldest first
  ops,          \* operations under way: how many of each kind and connGen_
  \* the zone
  sending,      \* the packet a job has seen isConnected_ for and not posted yet
  zoneJobs,     \* jobs of the zone
  spawnPending, \* spawnPending_
  loads,        \* loads in the hands of the database: <<sid, who>>
  inside,       \* sessionToPlayer_: whose character each sessionID has in the zone
  late,         \* history: clients whose READY was handled after the loss
  \* the gateway
  gatewayUp,    \* is the process alive?
  peer,         \* its end of each connection: "none", "greeting", "serving", "gone"
  toGateway,    \* packets written to each connection and not read yet
  toZone,       \* READYs on their way over each connection: sessionIDs
  sessions,     \* sessionIDs given since it started
  owner,        \* the connection the client of each sessionID came in over
  faults        \* crashes and breaks so far

linkVars == <<connGen, isConnected, socket, sendQueue, greeting, strand, ops>>
zoneVars == <<sending, zoneJobs, spawnPending, loads, inside, late>>
gateVars == <<gatewayUp, peer, toGateway, toZone, sessions, owner, faults>>
vars == <<linkVars, zoneVars, gateVars>>

\* ops with one operation more, or less.
Started(kind, gen) == [ops EXCEPT ![<<kind, gen>>] = @ + 1]
Ended(kind, gen) == [ops EXCEPT ![<<kind, gen>>] = @ - 1]

Init ==
  /\ connGen = 1                           \* Connect and the first TryConnect
  /\ isConnected = FALSE
  /\ socket = "new"
  /\ sendQueue = <<>>
  /\ greeting = FALSE
  /\ strand = <<>>
  /\ ops = [o \in OpKind \X Gens |-> IF o = <<"resolve", 1>> THEN 1 ELSE 0]
  /\ sending = Nothing
  /\ zoneJobs = <<>>
  /\ spawnPending = {}
  /\ loads = {}
  /\ inside = [s \in Sids |-> Nothing]
  /\ late = {}
  /\ gatewayUp = TRUE
  /\ peer = [g \in Gens |-> "none"]
  /\ toGateway = [g \in Gens |-> <<>>]
  /\ toZone = [g \in Gens |-> <<>>]
  /\ sessions = 0
  /\ owner = [s \in Sids |-> Nothing]
  /\ faults = 0

-----------------------------------------------------------------------------
\* Operations complete; each puts its handler on the strand.

\* The operation was started on the socket of today, and it is open.
Open(gen) == gen = connGen /\ socket = "open"

\* Its socket was closed or replaced (the operation is aborted), or the other
\* end has gone.
Fails(gen) == ~Open(gen) \/ peer[gen] = "gone"

Completes(kind, gen, ok) ==
  /\ ops[<<kind, gen>>] > 0
  /\ ops' = Ended(kind, gen)
  /\ strand' = Append(strand, [kind |-> kind, gen |-> gen, ok |-> ok])
  /\ UNCHANGED <<connGen, isConnected, sendQueue, greeting, zoneVars, gatewayUp, toZone,
                 sessions, owner, faults>>

ResolveDone(gen, ok) ==
  /\ Completes("resolve", gen, ok)
  /\ UNCHANGED <<socket, peer, toGateway>>

ConnectDone(gen, ok) ==
  /\ Completes("connect", gen, ok)
  /\ ok <=> gatewayUp /\ gen = connGen
  /\ socket' = IF ok THEN "open" ELSE socket
  /\ peer' = IF ok THEN [peer EXCEPT ![gen] = "greeting"] ELSE peer
  /\ UNCHANGED toGateway

ReadDone(gen, ok) ==
  /\ Completes("read", gen, ok)
  /\ IF ok THEN Open(gen) /\ toZone[gen] # <<>> ELSE Fails(gen)
  /\ UNCHANGED <<socket, peer, toGateway>>

\* A write to an end that is gone may still succeed: the packet is lost.
WriteDone(gen, ok) ==
  /\ Completes("write", gen, ok)
  /\ IF ok THEN Open(gen) ELSE Fails(gen)
  /\ toGateway' = IF ok /\ peer[gen] # "gone"
                    THEN [toGateway EXCEPT ![gen] = Append(@, Head(sendQueue))]
                    ELSE toGateway
  /\ UNCHANGED <<socket, peer>>

\* Nothing of before the loss is under way when the retry timer expires.
DelayCovers ==
  /\ SendersFinish => sending = Nothing /\ zoneJobs = <<>>
  /\ LoadsFinish => loads = {}

TimerExpires(gen) ==
  /\ connGen < MaxGen
  /\ DelayCovers
  /\ Completes("timer", gen, TRUE)
  /\ UNCHANGED <<socket, peer, toGateway>>

-----------------------------------------------------------------------------
\* Handlers, one at a time, from the head of the strand.

Runs(kind) == ~greeting /\ strand # <<>> /\ Head(strand).kind = kind
\* The handler belongs to a connection before the present one.
Stale == Head(strand).gen # connGen

\* Bug: what an old connection has not sent stays in the queue.
HandleTimerKeepsQueue ==
  /\ Runs("timer")
  /\ strand' = Tail(strand)
  /\ connGen' = connGen + 1
  /\ socket' = "new"
  /\ ops' = Started("resolve", connGen + 1)
  /\ UNCHANGED <<isConnected, greeting, sendQueue, zoneVars, gateVars>>

\* TryConnect: a new socket, an empty queue.
HandleTimer ==
  /\ Runs("timer")
  /\ strand' = Tail(strand)
  /\ connGen' = connGen + 1
  /\ socket' = "new"
  /\ sendQueue' = <<>>
  /\ ops' = Started("resolve", connGen + 1)
  /\ UNCHANGED <<isConnected, greeting, zoneVars, gateVars>>

\* ScheduleReconnect, in the place of what would have come next.
NextOrRetry(kind) == Started(IF Head(strand).ok THEN kind ELSE "timer", connGen)

HandleResolve ==
  /\ Runs("resolve")
  /\ strand' = Tail(strand)
  /\ ops' = IF Stale THEN ops ELSE NextOrRetry("connect")
  /\ UNCHANGED <<connGen, isConnected, socket, sendQueue, greeting, zoneVars, gateVars>>

\* With a connection, OnConnected begins: the flag is up before the handshake.
HandleConnect ==
  /\ Runs("connect")
  /\ strand' = Tail(strand)
  /\ LET connected == ~Stale /\ Head(strand).ok
     IN  /\ isConnected' = (isConnected \/ connected)
         /\ greeting' = connected
  /\ ops' = IF Stale \/ Head(strand).ok THEN ops ELSE Started("timer", connGen)
  /\ UNCHANGED <<connGen, socket, sendQueue, zoneVars, gateVars>>

\* The rest of OnConnected: Send of the handshake and DoRead.
Greet ==
  /\ greeting
  /\ greeting' = FALSE
  /\ strand' = Append(strand, [kind |-> "send", packet |-> Handshake])
  /\ ops' = Started("read", connGen)
  /\ UNCHANGED <<connGen, isConnected, socket, sendQueue, zoneVars, gateVars>>

HandleSend ==
  /\ Runs("send")
  /\ strand' = Tail(strand)
  /\ sendQueue' = Append(sendQueue, Head(strand).packet)
  /\ ops' = IF sendQueue = <<>> THEN Started("write", connGen) ELSE ops
  /\ UNCHANGED <<connGen, isConnected, socket, greeting, zoneVars, gateVars>>

\* Bug: the second error of a connection is treated like the first.
OnDisconnectedTwice ==
  /\ isConnected' = FALSE
  /\ socket' = "closed"
  /\ zoneJobs' = Append(zoneJobs, [kind |-> "clear"])
  /\ ops' = Started("timer", connGen)

\* Bug: the zones are not told.
OnDisconnectedSilent ==
  IF isConnected
    THEN /\ isConnected' = FALSE
         /\ socket' = "closed"
         /\ ops' = Started("timer", connGen)
         /\ UNCHANGED zoneJobs
    ELSE UNCHANGED <<isConnected, socket, zoneJobs, ops>>

\* Every zone is told to save and empty itself, and the retry is scheduled.
OnDisconnected ==
  IF isConnected
    THEN /\ isConnected' = FALSE
         /\ socket' = "closed"
         /\ zoneJobs' = Append(zoneJobs, [kind |-> "clear"])
         /\ ops' = Started("timer", connGen)
    ELSE UNCHANGED <<isConnected, socket, zoneJobs, ops>>

HandleWrite ==
  /\ Runs("write")
  /\ strand' = Tail(strand)
  /\ \/ /\ Stale
        /\ UNCHANGED <<isConnected, socket, sendQueue, zoneJobs, ops>>
     \/ /\ ~Stale /\ Head(strand).ok
        /\ sendQueue' = Tail(sendQueue)
        /\ ops' = IF Len(sendQueue) > 1 THEN Started("write", connGen) ELSE ops
        /\ UNCHANGED <<isConnected, socket, zoneJobs>>
     \/ /\ ~Stale /\ ~Head(strand).ok
        /\ OnDisconnected
        /\ UNCHANGED sendQueue
  /\ UNCHANGED <<connGen, greeting, sending, spawnPending, loads, inside, late, gateVars>>

\* The packet is handled whether or not a write has found the connection lost in
\* the meantime; only DoRead looks at the flag.
HandleRead ==
  /\ Runs("read")
  /\ strand' = Tail(strand)
  /\ \/ /\ Stale
        /\ UNCHANGED <<isConnected, socket, zoneJobs, ops, late, toZone>>
     \/ /\ ~Stale /\ Head(strand).ok
        /\ LET sid == Head(toZone[connGen])
           IN  zoneJobs' = Append(zoneJobs, [kind |-> "ready", sid |-> sid, who |-> connGen])
        /\ toZone' = [toZone EXCEPT ![connGen] = Tail(@)]
        /\ ops' = IF isConnected THEN Started("read", connGen) ELSE ops
        /\ late' = late \cup (IF isConnected THEN {} ELSE {<<Head(toZone[connGen]), connGen>>})
        /\ UNCHANGED <<isConnected, socket>>
     \/ /\ ~Stale /\ ~Head(strand).ok
        /\ OnDisconnected
        /\ UNCHANGED <<late, toZone>>
  /\ UNCHANGED <<connGen, sendQueue, greeting, sending, spawnPending, loads, inside,
                 gatewayUp, peer, toGateway, sessions, owner, faults>>

-----------------------------------------------------------------------------
\* The zone: its jobs run one after the other, and one that sends finds
\* isConnected_ set before it posts.

RunsJob(kind) ==
  /\ sending = Nothing
  /\ zoneJobs # <<>>
  /\ Head(zoneJobs).kind = kind
  /\ zoneJobs' = Tail(zoneJobs)

ReadyToSpawn ==
  /\ RunsJob("ready")
  /\ LET job == Head(zoneJobs)
         taken == inside[job.sid] # Nothing \/ job.sid \in spawnPending
     IN  /\ spawnPending' = spawnPending \cup (IF taken THEN {} ELSE {job.sid})
         /\ loads' = loads \cup (IF taken THEN {} ELSE {<<job.sid, job.who>>})
  /\ UNCHANGED <<linkVars, sending, inside, late, gateVars>>

LoadDone(load) ==
  /\ load \in loads
  /\ loads' = loads \ {load}
  /\ zoneJobs' = Append(zoneJobs, [kind |-> "answer", sid |-> load[1], who |-> load[2]])
  /\ UNCHANGED <<linkVars, sending, spawnPending, inside, late, gateVars>>

EnterZone ==
  /\ RunsJob("answer")
  /\ LET job == Head(zoneJobs)
     IN  /\ inside' = IF job.sid \in spawnPending THEN [inside EXCEPT ![job.sid] = job.who]
                                                  ELSE inside
         /\ spawnPending' = spawnPending \ {job.sid}
  /\ UNCHANGED <<linkVars, sending, loads, late, gateVars>>

\* Bug: the players of before stay in the zone.
HandleGatewayLostPending ==
  /\ RunsJob("clear")
  /\ spawnPending' = {}
  /\ UNCHANGED <<linkVars, sending, inside, loads, late, gateVars>>

HandleGatewayLost ==
  /\ RunsJob("clear")
  /\ inside' = [s \in Sids |-> Nothing]
  /\ spawnPending' = {}
  /\ UNCHANGED <<linkVars, sending, loads, late, gateVars>>

\* Packets between the zone and the gateway.
Posts == {i \in DOMAIN strand : strand[i].kind = "send"}
Queued == Cardinality(Posts) + Len(sendQueue) + Len(toGateway[connGen])

\* A job sends to a client: Send looks at the flag ...
SendToClient(sid) ==
  /\ sending = Nothing /\ inside[sid] # Nothing
  /\ isConnected
  /\ Queued < MaxQueue
  /\ sending' = Data(sid, inside[sid])
  /\ UNCHANGED <<linkVars, zoneJobs, spawnPending, loads, inside, late, gateVars>>

\* ... and posts to the strand.
PostSend ==
  /\ sending # Nothing
  /\ sending' = Nothing
  /\ strand' = Append(strand, [kind |-> "send", packet |-> sending])
  /\ UNCHANGED <<connGen, isConnected, socket, sendQueue, greeting, ops, zoneJobs,
                 spawnPending, loads, inside, late, gateVars>>

-----------------------------------------------------------------------------
\* The gateway.

\* Its end of a connection goes: the clients of this zone server are closed.
CloseOrphans(gens) ==
  /\ peer' = [g \in Gens |-> IF g \in gens THEN "gone" ELSE peer[g]]
  /\ toGateway' = [g \in Gens |-> IF g \in gens THEN <<>> ELSE toGateway[g]]
  /\ owner' = [s \in Sids |-> IF owner[s] \in gens THEN Nothing ELSE owner[s]]

\* The first packet must be the handshake; later ones go to their client.
GatewayReads(gen) ==
  /\ toGateway[gen] # <<>> /\ peer[gen] \in {"greeting", "serving"}
  /\ IF peer[gen] = "greeting" /\ Head(toGateway[gen]) # Handshake
       THEN CloseOrphans({gen})
       ELSE /\ peer' = [peer EXCEPT ![gen] = "serving"]
            /\ toGateway' = [toGateway EXCEPT ![gen] = Tail(@)]
            /\ UNCHANGED owner
  /\ UNCHANGED <<linkVars, zoneVars, gatewayUp, toZone, sessions, faults>>

\* A client logs in, selects its character and is ready to spawn.
ClientReady(gen) ==
  /\ peer[gen] = "serving"
  /\ sessions < MaxSessions
  /\ sessions' = sessions + 1
  /\ owner' = [owner EXCEPT ![sessions + 1] = gen]
  /\ toZone' = [toZone EXCEPT ![gen] = Append(@, sessions + 1)]
  /\ UNCHANGED <<linkVars, zoneVars, gatewayUp, peer, toGateway, faults>>

Live == {g \in Gens : peer[g] \in {"greeting", "serving"}}

LinkBreaks(gen) ==
  /\ gen \in Live /\ faults < MaxFaults
  /\ faults' = faults + 1
  /\ CloseOrphans({gen})
  /\ UNCHANGED <<linkVars, zoneVars, gatewayUp, toZone, sessions>>

GatewayCrashes ==
  /\ gatewayUp /\ faults < MaxFaults
  /\ faults' = faults + 1
  /\ gatewayUp' = FALSE
  /\ sessions' = 0
  /\ CloseOrphans(Live)
  /\ UNCHANGED <<linkVars, zoneVars, toZone>>

GatewayStarts ==
  /\ ~gatewayUp
  /\ gatewayUp' = TRUE
  /\ UNCHANGED <<linkVars, zoneVars, peer, toGateway, toZone, sessions, owner, faults>>

-----------------------------------------------------------------------------
Operation ==
  \E gen \in Gens : \/ \E ok \in BOOLEAN : \/ ResolveDone(gen, ok) \/ ConnectDone(gen, ok)
                                           \/ ReadDone(gen, ok) \/ WriteDone(gen, ok)
                    \/ TimerExpires(gen)
Strand == HandleTimer \/ HandleResolve \/ HandleConnect \/ Greet \/ HandleSend
          \/ HandleWrite \/ HandleRead
ZoneStep == ReadyToSpawn \/ (\E l \in loads : LoadDone(l)) \/ EnterZone
            \/ HandleGatewayLost \/ PostSend
Gateway == (\E gen \in Gens : GatewayReads(gen)) \/ GatewayStarts

Next ==
  \/ Operation \/ Strand \/ ZoneStep \/ Gateway
  \/ \E sid \in Sids : SendToClient(sid)
  \/ \E gen \in Gens : ClientReady(gen) \/ LinkBreaks(gen)
  \/ GatewayCrashes

\* The io_context has threads, the jobs of a zone are run, the database answers,
\* and somebody starts a gateway that has crashed.
Fairness == /\ \A gen \in Gens : /\ WF_vars(\E ok \in BOOLEAN : ResolveDone(gen, ok))
                                 /\ WF_vars(\E ok \in BOOLEAN : ConnectDone(gen, ok))
                                 /\ WF_vars(\E ok \in BOOLEAN : ReadDone(gen, ok))
                                 /\ WF_vars(\E ok \in BOOLEAN : WriteDone(gen, ok))
                                 /\ WF_vars(TimerExpires(gen))
                                 /\ WF_vars(GatewayReads(gen))
            /\ WF_vars(Strand)
            /\ WF_vars(ZoneStep)
            /\ WF_vars(GatewayStarts)

Spec == Init /\ [][Next]_vars /\ Fairness
-----------------------------------------------------------------------------
\* The types of the variables; connGen_ never runs past the attempts a timer allowed
\* (ScheduleReconnect, TryConnect).
TypeOK ==
  /\ connGen \in Gens
  /\ isConnected \in BOOLEAN /\ greeting \in BOOLEAN
  /\ socket \in {"new", "open", "closed"}
  /\ sendQueue \in Seq(Packet)
  /\ strand \in Seq(Handler)
  /\ ops \in [OpKind \X Gens -> Nat]
  /\ sending \in Packet \cup {Nothing}
  /\ zoneJobs \in Seq(ZoneJob)
  /\ spawnPending \subseteq Sids
  /\ loads \subseteq Sids \X Gens
  /\ inside \in [Sids -> Gens \cup {Nothing}]
  /\ late \subseteq Sids \X Gens
  /\ gatewayUp \in BOOLEAN
  /\ peer \in [Gens -> {"none", "greeting", "serving", "gone"}]
  /\ toGateway \in [Gens -> Seq(Packet)]
  /\ toZone \in [Gens -> Seq(Sids)]
  /\ sessions \in 0..MaxSessions
  /\ owner \in [Sids -> Gens \cup {Nothing}]
  /\ faults \in 0..MaxFaults

\* Operations of a kind under way or with their handler still to run.
Handlers(kind, gen) == {i \in DOMAIN strand : strand[i].kind = kind /\ strand[i].gen = gen}
Waiting(kind, gen) == ops[<<kind, gen>>] + Cardinality(Handlers(kind, gen))

\* Somebody always drives the link, and only one.  Down, exactly one attempt to get
\* it up is under way: the errors of the read and of the write of one connection
\* schedule one retry between them, an operation of an older connection none, and no
\* failure leaves nobody trying.  Up, exactly one read waits for data, and exactly
\* one write runs when there is something to write: packets neither mix on the wire
\* nor stay in the queue behind a write that was never started (OnDisconnected,
\* ScheduleReconnect, DoRead, DoWrite).
LinkIsDriven ==
  /\ Waiting("timer", connGen) + Waiting("resolve", connGen) + Waiting("connect", connGen)
       = IF isConnected THEN 0 ELSE 1
  /\ isConnected => /\ Waiting("read", connGen) = IF greeting THEN 0 ELSE 1
                    /\ Waiting("write", connGen) = IF sendQueue = <<>> THEN 0 ELSE 1

\* The packet is about a client whose READY was handled after the loss: its
\* character comes in behind the clearing of the zone and stays.
OfLate(p) == p # Handshake /\ <<p.sid, p.who>> \in late

\* The gateway takes nothing before the handshake, and nothing else reaches it
\* first, although the flag that lets the zones send is up before the handshake is
\* posted (OnConnected, Send): a new connection finds the zones empty, but for the
\* late ones.
HandshakeFirst ==
  \A gen \in Gens :
    peer[gen] = "greeting" /\ toGateway[gen] # <<>> =>
      Head(toGateway[gen]) = Handshake \/ OfLate(Head(toGateway[gen]))

\* A sessionID stands for the same client in the zone and at the gateway, and a
\* packet reaches the client it was made for, although a new gateway gives the
\* sessionIDs of the old one again; but for the late ones (TryConnect,
\* SaveAllAndClear, HandleReadyToSpawn).
OwnCharacter ==
  /\ \A s \in Sids : \/ owner[s] = Nothing \/ inside[s] \in {Nothing, owner[s]}
                      \/ <<s, inside[s]>> \in late
  /\ \A g \in Gens : \A i \in DOMAIN toGateway[g] :
       LET p == toGateway[g][i]
       IN  p = Handshake \/ owner[p.sid] \in {p.who, Nothing} \/ OfLate(p)

\* As long as it may try, the zone server ends up registered at the gateway.
Registers == <>[](peer[connGen] = "serving" \/ connGen = MaxGen)
=============================================================================
