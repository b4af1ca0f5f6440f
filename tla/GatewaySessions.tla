--------------------------- MODULE GatewaySessions ---------------------------
(***************************************************************************)
(* The gateway: client sessions from accept to close, logins and the       *)
(* binding of accounts to sessions, character selection, the registration  *)
(* of zone servers and the routing between them (ClientProxySession.cpp,   *)
(* SessionManager.cpp, ZoneManager.cpp, ZoneServerSession.cpp,             *)
(* Account.cpp).                                                           *)
(*                                                                         *)
(* All network handlers run on the one thread that calls io.run (Main.cpp),*)
(* so a handler is one step, split where a database task can get in        *)
(* between.  The tasks of Account run on database threads, one step per    *)
(* shared object they touch.                                               *)
(*                                                                         *)
(* A zone server is what the gateway sees of it: the sessions whose        *)
(* characters its zones hold (module ZoneLife has the details).  An        *)
(* account has one character, so a user stands for both.                   *)
(***************************************************************************)
EXTENDS Integers, Sequences, FiniteSets

CONSTANTS Sessions,  \* client sessions; a sessionID is never used twice
          Users,
          UserOf,    \* the account the client of a session logs in with
          Instances, \* zone instances, <<zoneID, channelID>>
          StartInstance, \* currentZoneID_ and currentChannelID_ of a new session
          Conns,     \* connections of zone servers, each a ZoneServerSession
          Hosts,     \* the instances a connection's handshake lists
          ReadsAfterClose, \* may a read that completed before the socket was
                     \* closed be handled after the close?
          NoSession, NoUser, NoConn, NoInstance

ASSUME GatewayAssumption ==
  /\ UserOf \in [Sessions -> Users]
  /\ Instances \subseteq Nat \X Nat
  /\ StartInstance \in Instances
  /\ Hosts \in [Conns -> SUBSET Instances]
  /\ ReadsAfterClose \in BOOLEAN
  /\ NoSession \notin Sessions
  /\ NoUser \notin Users
  /\ NoConn \notin Conns
  /\ NoInstance \notin Instances

SessionState == {"Connected", "LoggingIn", "Lobby", "Creating", "Selecting", "InGame"}
Packet == {"login", "create", "select", "ready"}
Job == Packet \cup {"close", "error"}   \* a handler on a session's strand
ZonePacket == [kind : {"ready", "bye"}, at : Instances, s : Sessions]

VARIABLES
  \* SessionManager
  registered,  \* sessions_
  binding,     \* userToSession_
  \* ClientProxySession, per session
  connected,   \* isConnected_
  state,       \* state_
  userUID,     \* userUID_
  target,      \* currentZoneID_ and currentChannelID_
  strand,      \* handlers queued on strand_
  socket,      \* "new", "open", "closed"
  reading,     \* an async_read_some is outstanding
  mayReady,    \* the client was told to load a map and has not answered READY
  \* tasks of Account, per session
  loginTask,   \* "none", "queued", "bound", "refused"
  existing,    \* the session a refused login evicts
  selectTask,  \* "none", "queued", "picked"
  picked,      \* the instance SelectCharacter has picked
  createTask,  \* is a CreateCharacter under way?
  \* ZoneManager and ZoneServerSession
  zoneServers, \* zoneServers_
  conn,        \* "off", "up", "broken", "closing", "closed"
  toZone,      \* packets on their way to the zone server
  fromZone,    \* ZONE_LEAVE_COMPLETED on their way to the gateway
  io,          \* the handler the io thread is in the middle of
  \* zone servers
  inside,      \* sessions whose characters an instance holds
  rowZone      \* character_state.zoneID

managerVars == <<registered, binding>>
netVars     == <<strand, socket, reading, mayReady>>
sessionVars == <<connected, state, userUID, target>>
taskVars    == <<loginTask, existing, selectTask, picked, createTask>>
connVars    == <<zoneServers, conn, toZone, fromZone>>
zoneVars    == <<inside, rowZone>>
vars == <<managerVars, netVars, sessionVars, taskVars, connVars, io, zoneVars>>

Free == <<"free">>

Init ==
  /\ registered = {}
  /\ binding = [u \in Users |-> NoSession]
  /\ connected = [s \in Sessions |-> FALSE]
  /\ state = [s \in Sessions |-> "Connected"]
  /\ userUID = [s \in Sessions |-> NoUser]
  /\ target = [s \in Sessions |-> StartInstance]
  /\ strand = [s \in Sessions |-> <<>>]
  /\ socket = [s \in Sessions |-> "new"]
  /\ reading = [s \in Sessions |-> FALSE]
  /\ mayReady = [s \in Sessions |-> FALSE]
  /\ loginTask = [s \in Sessions |-> "none"]
  /\ existing = [s \in Sessions |-> NoSession]
  /\ selectTask = [s \in Sessions |-> "none"]
  /\ picked = [s \in Sessions |-> NoInstance]
  /\ createTask = [s \in Sessions |-> FALSE]
  /\ zoneServers = [i \in Instances |-> NoConn]
  /\ conn = [c \in Conns |-> "off"]
  /\ toZone = [c \in Conns |-> <<>>]
  /\ fromZone = [c \in Conns |-> <<>>]
  /\ io = Free
  /\ inside = [i \in Instances |-> {}]
  /\ rowZone = [u \in Users |-> StartInstance[1]]

-----------------------------------------------------------------------------
\* Helpers.

Post(q, s, job) == [q EXCEPT ![s] = Append(@, job)]

\* ClientProxySession::Close: whoever clears the flag posts the close job.
Close(t) ==
  \/ /\ connected[t]
     /\ connected' = [connected EXCEPT ![t] = FALSE]
     /\ strand' = Post(strand, t, "close")
  \/ /\ ~connected[t]
     /\ UNCHANGED <<connected, strand>>

\* ZoneManager::PickChannel: the lowest registered channel of a zone.
PickChannel(zoneID) ==
  LET up == {i \in Instances : i[1] = zoneID /\ zoneServers[i] # NoConn}
  IN  IF up = {} THEN NoInstance ELSE CHOOSE i \in up : \A j \in up : i[2] <= j[2]

\* ZoneManager::SendToZone and SendDisconnectToZone, to the connection that is
\* registered for the instance, if there is one.
SendToZone(kind, i, s) ==
  LET c == zoneServers[i]
  IN  toZone' = IF c # NoConn /\ conn[c] = "up"
                THEN [toZone EXCEPT ![c] = Append(@, [kind |-> kind, at |-> i, s |-> s])]
                ELSE toZone

-----------------------------------------------------------------------------
\* Client connections.

\* Server::Accept: register, then Start and its first DoRead.
Accept(s) ==
  /\ io = Free
  /\ socket[s] = "new"
  /\ socket' = [socket EXCEPT ![s] = "open"]
  /\ registered' = registered \cup {s}
  /\ connected' = [connected EXCEPT ![s] = TRUE]
  /\ reading' = [reading EXCEPT ![s] = TRUE]
  /\ UNCHANGED <<binding, state, userUID, target, strand, mayReady, taskVars,
                 connVars, io, zoneVars>>

\* A read completes with a packet.  A client sends READY once for every order
\* to load a map.
Arrive(s, packet) ==
  /\ reading[s]
  /\ socket[s] = "open"
  /\ ReadsAfterClose \/ connected[s]
  /\ packet = "ready" => mayReady[s]
  /\ mayReady' = [mayReady EXCEPT ![s] = @ /\ packet # "ready"]
  /\ reading' = [reading EXCEPT ![s] = FALSE]
  /\ strand' = Post(strand, s, packet)
  /\ UNCHANGED <<managerVars, socket, sessionVars, taskVars, connVars, io, zoneVars>>

\* A read fails: the client has left, or the socket was closed.
ReadFails(s) ==
  /\ reading[s]
  /\ reading' = [reading EXCEPT ![s] = FALSE]
  /\ strand' = Post(strand, s, "error")
  /\ UNCHANGED <<managerVars, socket, mayReady, sessionVars, taskVars, connVars, io, zoneVars>>

\* A broken stream, a failed write or a full send queue: the session is closed
\* from within one of its own handlers.
CloseFromWithin(s) ==
  /\ io = Free
  /\ connected[s]
  /\ Close(s)
  /\ UNCHANGED <<managerVars, socket, reading, mayReady, state, userUID, target, taskVars,
                 connVars, io, zoneVars>>

\* The io thread takes the next handler of a session's strand.
NextHandler(s, job) ==
  /\ io = Free
  /\ strand[s] # <<>>
  /\ Head(strand[s]) = job
  /\ strand' = [strand EXCEPT ![s] = Tail(@)]

\* After a packet, DoRead again.
ReadOn(s) == reading' = [reading EXCEPT ![s] = TRUE]

\* RoutePacket of LOGIN: Account::Login up to its task.
RouteLogin(s) ==
  /\ NextHandler(s, "login")
  /\ ReadOn(s)
  /\ \/ /\ state[s] = "Connected"
        /\ state' = [state EXCEPT ![s] = "LoggingIn"]
        /\ loginTask' = [loginTask EXCEPT ![s] = "queued"]
     \/ /\ state[s] # "Connected"
        /\ UNCHANGED <<state, loginTask>>
  /\ UNCHANGED <<managerVars, socket, mayReady, connected, userUID, target, existing,
                 selectTask, picked, createTask, connVars, io, zoneVars>>

\* RoutePacket of CREATE_CHARACTER: an invalid name is refused at once.
RouteCreate(s) ==
  /\ NextHandler(s, "create")
  /\ ReadOn(s)
  /\ \/ /\ state[s] = "Lobby"
        /\ state' = [state EXCEPT ![s] = "Creating"]
        /\ createTask' = [createTask EXCEPT ![s] = TRUE]
     \/ UNCHANGED <<state, createTask>>
  /\ UNCHANGED <<managerVars, socket, mayReady, connected, userUID, target, loginTask,
                 existing, selectTask, picked, connVars, io, zoneVars>>

\* RoutePacket of SELECT_CHARACTER: Account::SelectCharacter up to its task.
RouteSelect(s) ==
  /\ NextHandler(s, "select")
  /\ ReadOn(s)
  /\ \/ /\ state[s] = "Lobby"
        /\ state' = [state EXCEPT ![s] = "Selecting"]
        /\ selectTask' = [selectTask EXCEPT ![s] = "queued"]
     \/ /\ state[s] # "Lobby"
        /\ UNCHANGED <<state, selectTask>>
  /\ UNCHANGED <<managerVars, socket, mayReady, connected, userUID, target, loginTask,
                 existing, picked, createTask, connVars, io, zoneVars>>

\* RoutePacket of READY_TO_SPAWN: to the zone, when the session is in the game.
RouteReady(s) ==
  /\ NextHandler(s, "ready")
  /\ ReadOn(s)
  /\ \/ /\ state[s] = "InGame"
        /\ SendToZone("ready", target[s], s)
     \/ /\ state[s] # "InGame"
        /\ UNCHANGED toZone
  /\ UNCHANGED <<managerVars, socket, mayReady, sessionVars, taskVars, zoneServers, conn,
                 fromZone, io, zoneVars>>

\* The handler of a failed read.
HandleReadError(s) ==
  /\ io = Free
  /\ strand[s] # <<>>
  /\ Head(strand[s]) = "error"
  /\ strand' = IF connected[s] THEN [strand EXCEPT ![s] = Append(Tail(@), "close")]
               ELSE [strand EXCEPT ![s] = Tail(@)]
  /\ connected' = [connected EXCEPT ![s] = FALSE]
  /\ UNCHANGED <<managerVars, socket, reading, mayReady, state, userUID, target, taskVars,
                 connVars, io, zoneVars>>

\* Bug: sessions_ is left alone.
UnregisterBinding(s) ==
  /\ binding' = [u \in Users |-> IF u = userUID[s] /\ binding[u] = s
                                  THEN NoSession ELSE binding[u]]
  /\ UNCHANGED registered

\* SessionManager::Unregister: the binding only if it is this session's.
Unregister(s) ==
  /\ registered' = registered \ {s}
  /\ binding' = [u \in Users |-> IF u = userUID[s] /\ binding[u] = s
                                  THEN NoSession ELSE binding[u]]

\* The job of Close, first half: close the socket, unregister.
CloseJob(s) ==
  /\ NextHandler(s, "close")
  /\ socket' = [socket EXCEPT ![s] = "closed"]
  /\ Unregister(s)
  /\ io' = <<"bye", s>>
  /\ UNCHANGED <<reading, mayReady, sessionVars, taskVars, connVars, zoneVars>>

\* Bug: tells the zone a session starts in.
TellStartZone(s) ==
  /\ io = <<"bye", s>>
  /\ SendToZone("bye", StartInstance, s)
  /\ io' = Free
  /\ UNCHANGED <<managerVars, netVars, sessionVars, taskVars, zoneServers, conn, fromZone,
                 zoneVars>>

\* Second half: tell the zone.
TellZone(s) ==
  /\ io = <<"bye", s>>
  /\ SendToZone("bye", target[s], s)
  /\ io' = Free
  /\ UNCHANGED <<managerVars, netVars, sessionVars, taskVars, zoneServers, conn, fromZone,
                 zoneVars>>

-----------------------------------------------------------------------------
\* Tasks of Account, on database threads: any order, any interleaving with the
\* io thread.

\* Wrong name or password, or the database fails.
LoginFails(s) ==
  /\ loginTask[s] = "queued"
  /\ loginTask' = [loginTask EXCEPT ![s] = "none"]
  /\ state' = [state EXCEPT ![s] = "Connected"]
  /\ UNCHANGED <<managerVars, netVars, connected, userUID, target, existing, selectTask,
                 picked, createTask, connVars, io, zoneVars>>

\* Bug: a session that is being closed no longer counts.
ConnectedElsewhere(u, s) ==
  binding[u] # s /\ binding[u] \in registered /\ connected[binding[u]]

\* Does the binding of u stand in the way of session s?
BoundElsewhere(u, s) == binding[u] # s /\ binding[u] \in registered

\* SessionManager::TryBindUser.
TryBindUser(s) ==
  /\ loginTask[s] = "queued"
  /\ LET u == UserOf[s] IN
       \/ /\ BoundElsewhere(u, s)
          /\ existing' = [existing EXCEPT ![s] = binding[u]]
          /\ loginTask' = [loginTask EXCEPT ![s] = "refused"]
          /\ UNCHANGED binding
       \/ /\ ~BoundElsewhere(u, s)
          /\ binding' = [binding EXCEPT ![u] = s]
          /\ loginTask' = [loginTask EXCEPT ![s] = "bound"]
          /\ UNCHANGED existing
  /\ UNCHANGED <<registered, netVars, sessionVars, selectTask, picked, createTask, connVars,
                 io, zoneVars>>

\* A duplicate login closes the existing session and is refused itself.
LoginRefused(s) ==
  /\ loginTask[s] = "refused"
  /\ Close(existing[s])
  /\ state' = [state EXCEPT ![s] = "Connected"]
  /\ loginTask' = [loginTask EXCEPT ![s] = "none"]
  /\ existing' = [existing EXCEPT ![s] = NoSession]
  /\ UNCHANGED <<managerVars, socket, reading, mayReady, userUID, target, selectTask, picked,
                 createTask, connVars, io, zoneVars>>

\* SetUserUID, then the lobby.
LoginDone(s) ==
  /\ loginTask[s] = "bound"
  /\ loginTask' = [loginTask EXCEPT ![s] = "none"]
  /\ userUID' = [userUID EXCEPT ![s] = UserOf[s]]
  /\ state' = [state EXCEPT ![s] = "Lobby"]
  /\ UNCHANGED <<managerVars, netVars, connected, target, existing, selectTask, picked,
                 createTask, connVars, io, zoneVars>>

\* CreateCharacter ends in the lobby, whatever its result.
CreateDone(s) ==
  /\ createTask[s]
  /\ createTask' = [createTask EXCEPT ![s] = FALSE]
  /\ state' = [state EXCEPT ![s] = "Lobby"]
  /\ UNCHANGED <<managerVars, netVars, connected, userUID, target, loginTask, existing,
                 selectTask, picked, connVars, io, zoneVars>>

\* SelectCharacter reads the row and picks a channel of its zone.
SelectPicks(s) ==
  /\ selectTask[s] = "queued"
  /\ selectTask' = [selectTask EXCEPT ![s] = "picked"]
  /\ picked' = [picked EXCEPT ![s] = PickChannel(rowZone[userUID[s]])]
  /\ UNCHANGED <<managerVars, netVars, sessionVars, loginTask, existing, createTask, connVars,
                 io, zoneVars>>

\* No row, or the database fails.
SelectFails(s) ==
  /\ selectTask[s] = "queued"
  /\ selectTask' = [selectTask EXCEPT ![s] = "none"]
  /\ state' = [state EXCEPT ![s] = "Lobby"]
  /\ UNCHANGED <<managerVars, netVars, connected, userUID, target, loginTask, existing, picked,
                 createTask, connVars, io, zoneVars>>

\* Into the game, or back to the lobby when no instance was found.  Nobody looks
\* at the target before the state is InGame, except the job of Close, whose
\* session has not been in a zone then.
SelectDone(s) ==
  /\ selectTask[s] = "picked"
  /\ selectTask' = [selectTask EXCEPT ![s] = "none"]
  /\ picked' = [picked EXCEPT ![s] = NoInstance]
  /\ \/ /\ picked[s] # NoInstance
        /\ target' = [target EXCEPT ![s] = picked[s]]
        /\ state' = [state EXCEPT ![s] = "InGame"]
        /\ mayReady' = [mayReady EXCEPT ![s] = connected[s]]
     \/ /\ picked[s] = NoInstance
        /\ state' = [state EXCEPT ![s] = "Lobby"]
        /\ UNCHANGED <<target, mayReady>>
  /\ UNCHANGED <<managerVars, strand, socket, reading, connected, userUID, loginTask, existing,
                 createTask, connVars, io, zoneVars>>

-----------------------------------------------------------------------------
\* Connections of zone servers.

\* Accept, handshake, RegisterZone: a newer connection replaces an older one.
\* A zone server has one connection at a time (GatewaySession of the zone side).
Handshake(c) ==
  /\ io = Free
  /\ conn[c] = "off"
  /\ \A d \in Conns : Hosts[d] \cap Hosts[c] # {} => conn[d] # "up"
  /\ conn' = [conn EXCEPT ![c] = "up"]
  /\ zoneServers' = [i \in Instances |-> IF i \in Hosts[c] THEN c ELSE zoneServers[i]]
  /\ UNCHANGED <<managerVars, netVars, sessionVars, taskVars, toZone, fromZone, io, zoneVars>>

\* The connection breaks: what was under way to the zone server is lost, and it
\* saves and forgets everybody (HandleGatewayLost).  The gateway does not know yet.
ConnBreaks(c) ==
  /\ conn[c] = "up"
  /\ conn' = [conn EXCEPT ![c] = "broken"]
  /\ toZone' = [toZone EXCEPT ![c] = <<>>]
  /\ inside' = [i \in Instances |-> IF i \in Hosts[c] THEN {} ELSE inside[i]]
  /\ UNCHANGED <<managerVars, netVars, sessionVars, taskVars, zoneServers, fromZone, io, rowZone>>

\* ZoneServerSession::Close, when the last packets have been read.
ConnClose(c) ==
  /\ io = Free
  /\ conn[c] = "broken"
  /\ fromZone[c] = <<>>
  /\ conn' = [conn EXCEPT ![c] = "closing"]
  /\ UNCHANGED <<managerVars, netVars, sessionVars, taskVars, zoneServers, toZone, fromZone,
                 io, zoneVars>>

\* Its job, first half: UnregisterZone of what is still registered for it.
UnregisterZones(c) ==
  /\ io = Free
  /\ conn[c] = "closing"
  /\ conn' = [conn EXCEPT ![c] = "closed"]
  /\ zoneServers' = [i \in Instances |-> IF i \in Hosts[c] /\ zoneServers[i] = c
                                         THEN NoConn ELSE zoneServers[i]]
  /\ io' = <<"collect", c>>
  /\ UNCHANGED <<managerVars, netVars, sessionVars, taskVars, toZone, fromZone, zoneVars>>

\* SessionManager::CollectSessionsInZones.
CollectSessionsInZones(keys) == {s \in registered : state[s] = "InGame" /\ target[s] \in keys}

\* Second half: close the sessions that were in its zones.
CloseOrphans(c) ==
  /\ io = <<"collect", c>>
  /\ io' = Free
  /\ LET orphans == {s \in CollectSessionsInZones(Hosts[c]) : connected[s]} IN
       /\ connected' = [s \in Sessions |-> connected[s] /\ s \notin orphans]
       /\ strand' = [s \in Sessions |-> IF s \in orphans THEN Append(strand[s], "close")
                                        ELSE strand[s]]
  /\ UNCHANGED <<managerVars, socket, reading, mayReady, state, userUID, target, taskVars,
                 connVars, zoneVars>>

\* HandleInternalPacket of ZONE_LEAVE_COMPLETED and OnZone1LeaveCompleted.
OnZoneLeaveCompleted(c) ==
  /\ io = Free
  /\ fromZone[c] # <<>>
  /\ fromZone' = [fromZone EXCEPT ![c] = Tail(@)]
  /\ LET s == Head(fromZone[c]).s
         next == PickChannel(Head(fromZone[c]).to)
     IN
       \/ /\ s \notin registered
          /\ UNCHANGED <<connected, strand, target, mayReady>>
       \/ /\ s \in registered
          /\ next = NoInstance
          /\ Close(s)
          /\ UNCHANGED <<target, mayReady>>
       \/ /\ s \in registered
          /\ next # NoInstance
          /\ target' = [target EXCEPT ![s] = next]
          /\ mayReady' = [mayReady EXCEPT ![s] = connected[s]]
          /\ UNCHANGED <<connected, strand>>
  /\ UNCHANGED <<managerVars, socket, reading, state, userUID, taskVars, zoneServers, conn,
                 toZone, io, zoneVars>>

-----------------------------------------------------------------------------
\* Zone servers, as far as the gateway can tell.

\* GatewaySession::HandleInternalPacket: READY lets the character in, unless the
\* instance has it already; a disconnect takes it out.
ZoneReceives(c) ==
  /\ conn[c] = "up"
  /\ toZone[c] # <<>>
  /\ toZone' = [toZone EXCEPT ![c] = Tail(@)]
  /\ LET m == Head(toZone[c]) IN
       inside' = [inside EXCEPT ![m.at] =
                    CASE m.kind = "bye" -> @ \ {m.s}
                      [] m.kind = "ready" ->
                           IF \A t \in @ : UserOf[t] # UserOf[m.s] THEN @ \cup {m.s} ELSE @]
  /\ UNCHANGED <<managerVars, netVars, sessionVars, taskVars, zoneServers, conn, fromZone, io,
                 rowZone>>

\* A portal, once its save is done.
ZonePortal(c, s, i, zoneID) ==
  /\ conn[c] = "up"
  /\ i \in Hosts[c]
  /\ s \in inside[i]
  /\ inside' = [inside EXCEPT ![i] = @ \ {s}]
  /\ rowZone' = [rowZone EXCEPT ![UserOf[s]] = zoneID]
  /\ fromZone' = [fromZone EXCEPT ![c] = Append(@, [s |-> s, to |-> zoneID])]
  /\ UNCHANGED <<managerVars, netVars, sessionVars, taskVars, zoneServers, conn, toZone, io>>

-----------------------------------------------------------------------------
Client(s) == Accept(s) \/ CloseFromWithin(s) \/ \E packet \in Packet : Arrive(s, packet)

Handler(s) == \/ RouteLogin(s)
              \/ RouteCreate(s)
              \/ RouteSelect(s)
              \/ RouteReady(s)
              \/ HandleReadError(s)
              \/ CloseJob(s)

DbTask(s) == \/ LoginFails(s)
             \/ TryBindUser(s)
             \/ LoginRefused(s)
             \/ LoginDone(s)
             \/ CreateDone(s)
             \/ SelectPicks(s)
             \/ SelectFails(s)
             \/ SelectDone(s)

ZoneConn(c) == \/ Handshake(c)
               \/ ConnBreaks(c)
               \/ ConnClose(c)
               \/ UnregisterZones(c)
               \/ OnZoneLeaveCompleted(c)
               \/ ZoneReceives(c)
               \/ \E s \in Sessions, i \in Instances, j \in Instances :
                    i # j /\ ZonePortal(c, s, i, j[1])

Next == \/ \E s \in Sessions : Client(s) \/ ReadFails(s) \/ Handler(s) \/ TellZone(s) \/ DbTask(s)
        \/ \E c \in Conns : ZoneConn(c) \/ CloseOrphans(c)

Spec == Init /\ [][Next]_vars

-----------------------------------------------------------------------------
\* The types of the variables.
TypeOK ==
  /\ registered \subseteq Sessions
  /\ binding \in [Users -> Sessions \cup {NoSession}]
  /\ connected \in [Sessions -> BOOLEAN]
  /\ state \in [Sessions -> SessionState]
  /\ userUID \in [Sessions -> Users \cup {NoUser}]
  /\ target \in [Sessions -> Instances]
  /\ strand \in [Sessions -> Seq(Job)]
  /\ socket \in [Sessions -> {"new", "open", "closed"}]
  /\ reading \in [Sessions -> BOOLEAN]
  /\ mayReady \in [Sessions -> BOOLEAN]
  /\ loginTask \in [Sessions -> {"none", "queued", "bound", "refused"}]
  /\ existing \in [Sessions -> Sessions \cup {NoSession}]
  /\ selectTask \in [Sessions -> {"none", "queued", "picked"}]
  /\ picked \in [Sessions -> Instances \cup {NoInstance}]
  /\ createTask \in [Sessions -> BOOLEAN]
  /\ zoneServers \in [Instances -> Conns \cup {NoConn}]
  /\ conn \in [Conns -> {"off", "up", "broken", "closing", "closed"}]
  /\ toZone \in [Conns -> Seq(ZonePacket)]
  /\ fromZone \in [Conns -> Seq([s : Sessions, to : Nat])]
  /\ io \in {Free} \cup ({"bye"} \X Sessions) \cup ({"collect"} \X Conns)
  /\ inside \in [Instances -> SUBSET Sessions]
  /\ rowZone \in [Users -> Nat]

\* One live session per account: a registered session that has a user holds the
\* user's binding, however logins, evictions and closes interleave.
RegisteredAreBound ==
  \A s \in registered : userUID[s] # NoUser => binding[userUID[s]] = s

\* Is a packet of s still on its way to instance i?
OnItsWay(s, i) ==
  \E c \in Conns : \E n \in DOMAIN toZone[c] :
    toZone[c][n].s = s /\ toZone[c][n].at = i

\* ZoneManager.cpp:51: the end of a session is told to its zone so that it cleans
\* up.  Whoever is still inside an instance is registered, or a packet for it is
\* under way.
ZoneIsTold ==
  \A i \in Instances : \A s \in inside[i] :
    s \in registered \/ io = <<"bye", s>> \/ OnItsWay(s, i)

\* A character comes in alone: when a READY is next to be handled, no instance
\* still holds the character for another session, since the disconnect of the
\* old session has gone out before the new one could log in, select and be ready,
\* and one connection keeps the order.  This is about instances of one zone server:
\* nothing orders a notice to one server and a READY to another.
EntersAlone ==
  \A c \in Conns : toZone[c] # <<>> /\ Head(toZone[c]).kind = "ready" =>
    \A i \in Instances : \A t \in inside[i] :
      UserOf[t] = UserOf[Head(toZone[c]).s] => t = Head(toZone[c]).s

\* Is the job of Close of session s still to run?
WillClose(s) == \E n \in DOMAIN strand[s] : strand[s][n] = "close"

\* Account.cpp:183: nobody is locked out by a login that was refused.  A registered
\* session whose connection flag is cleared, by a duplicate login, the loss of its
\* zone server, a failed read or anything else, has the job that unregisters it and
\* releases its account ahead, whoever cleared the flag and whatever else has been
\* queued since.
ClosedWillUnregister ==
  \A s \in registered : connected[s] \/ WillClose(s)

-----------------------------------------------------------------------------
\* What comments of the code say of it.

\* ZoneServerSession.cpp:38: the clients of a zone server that is gone are
\* disconnected.
OrphansAreClosed ==
  \A s \in Sessions :
    connected[s] /\ state[s] = "InGame" /\ io = Free =>
      ~ \E c \in Conns : conn[c] = "closed" /\ zoneServers[target[s]] = NoConn
=============================================================================
