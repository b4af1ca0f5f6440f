---------------------------- MODULE GatewayProofs ----------------------------
(***************************************************************************)
(* Proofs about GatewaySessions.  RegisteredAreBound is not inductive: the *)
(* user of a session is set after its binding, so a login that is bound    *)
(* and not finished must hold the binding already (BoundHolds), and a      *)
(* session that is still to be accepted must not have a login under way    *)
(* (NewIsFresh).  The second half of the module shows that the end of a    *)
(* session reaches its zone and that a character comes in alone, along the *)
(* one permission to send READY that a session has at a time (PInv).       *)
(***************************************************************************)
EXTENDS GatewaySessions, WellFoundedInduction, TLAPS

\* A login between TryBindUser and SetUserUID holds the binding of its user,
\* as long as its session is registered.
BoundHolds ==
  \A s \in registered : loginTask[s] = "bound" => binding[UserOf[s]] = s

\* Nothing has happened to a session before it is accepted.
NewIsFresh ==
  \A s \in Sessions : socket[s] = "new" =>
    /\ s \notin registered
    /\ ~connected[s]
    /\ ~reading[s]
    /\ strand[s] = <<>>
    /\ loginTask[s] = "none"
    /\ userUID[s] = NoUser

IInv == TypeOK /\ NewIsFresh /\ BoundHolds /\ RegisteredAreBound /\ ClosedWillUnregister

-----------------------------------------------------------------------------
\* A nonempty set of naturals has a least element.
LEMMA LeastNat ==
  ASSUME NEW S \in SUBSET Nat, S # {}
  PROVE  \E n \in S : \A m \in S : n <= m
<1> DEFINE R == {ss \in Nat \X Nat : ss[1] < ss[2]}
<1>1. IsWellFoundedOn(R, Nat)
  BY NatLessThanWellFounded DEF OpToRel
<1>2. \E n \in S : \A m \in S : ~ (<<m, n>> \in R)
  <2> HIDE DEF R
  <2> QED BY <1>1, WFMin
<1>3. \A m, n \in Nat : <<m, n>> \in R <=> m < n
  OBVIOUS
<1> HIDE DEF R
<1>4. PICK n \in S : \A m \in S : ~ (<<m, n>> \in R)
  BY <1>2
<1>5. \A m \in S : ~ (m < n)
  BY <1>3, <1>4
<1>6. \A m \in S : n <= m
  BY <1>5
<1>7. QED
  BY <1>6

\* The lowest registered channel of a zone exists when one is registered.
LEMMA PickChannelType ==
  ASSUME NEW zoneID
  PROVE  PickChannel(zoneID) \in Instances \cup {NoInstance}
<1> DEFINE up == {i \in Instances : i[1] = zoneID /\ zoneServers[i] # NoConn}
<1>1. CASE up = {}
  BY <1>1 DEF PickChannel
<1>2. CASE up # {}
  <2> DEFINE channels == {i[2] : i \in up}
  <2>1. up \subseteq Nat \X Nat
    BY GatewayAssumption
  <2>2. channels \subseteq Nat /\ channels # {}
    BY <1>2, <2>1
  <2>4. \E n \in channels : \A m \in channels : n <= m
    <3> HIDE DEF channels
    <3> QED BY <2>2, LeastNat
  <2>5. \E i \in up : \A j \in up : i[2] <= j[2]
    BY <2>4
  <2> DEFINE least == CHOOSE i \in up : \A j \in up : i[2] <= j[2]
  <2>6. least \in up
    <3> HIDE DEF up
    <3> QED BY <2>5
  <2>7. PickChannel(zoneID) = least
    BY <1>2 DEF PickChannel
  <2>8. QED
    BY <2>6, <2>7
<1>3. QED
  BY <1>1, <1>2

\* Sending to a zone keeps the packets typed.
LEMMA SendToZoneType ==
  ASSUME TypeOK, NEW kind \in {"ready", "bye"}, NEW i \in Instances, NEW s \in Sessions,
         SendToZone(kind, i, s)
  PROVE  toZone' \in [Conns -> Seq(ZonePacket)]
<1> DEFINE c == zoneServers[i]
           m == [kind |-> kind, at |-> i, s |-> s]
<1>1. m \in ZonePacket
  BY DEF ZonePacket
<1>2. toZone \in [Conns -> Seq(ZonePacket)]
  BY DEF TypeOK
<1>3. toZone' = toZone \/ (c \in Conns /\ toZone' = [toZone EXCEPT ![c] = Append(@, m)])
  BY DEF SendToZone, TypeOK
<1> HIDE DEF c, m
<1>4. QED
  BY <1>1, <1>2, <1>3

\* Posting a handler keeps the strands typed.
LEMMA PostType ==
  ASSUME NEW t, NEW job \in Job, strand \in [Sessions -> Seq(Job)]
  PROVE  Post(strand, t, job) \in [Sessions -> Seq(Job)]
<1>1. CASE t \in Sessions
  BY <1>1 DEF Post
<1>2. CASE t \notin Sessions
  BY <1>2 DEF Post
<1>3. QED
  BY <1>1, <1>2

\* Closing a session keeps its flag and its strand typed.
LEMMA CloseType ==
  ASSUME TypeOK, NEW t, Close(t)
  PROVE  /\ connected' \in [Sessions -> BOOLEAN]
         /\ strand' \in [Sessions -> Seq(Job)]
<1>1. strand \in [Sessions -> Seq(Job)] /\ "close" \in Job
  BY DEF TypeOK, Job
<1>2. connected' = connected \/ connected' = [connected EXCEPT ![t] = FALSE]
  BY DEF Close
<1>3. strand' = strand \/ strand' = Post(strand, t, "close")
  BY DEF Close
<1>4. connected' \in [Sessions -> BOOLEAN]
  BY <1>2 DEF TypeOK
<1>5. QED
  BY <1>1, <1>3, <1>4, PostType

-----------------------------------------------------------------------------
\* What clients do.
LEMMA ClientType ==
  ASSUME TypeOK, NEW s \in Sessions, Client(s) \/ ReadFails(s)
  PROVE  TypeOK'
<1>1. CASE Accept(s)
  BY <1>1 DEF Accept, TypeOK, taskVars, connVars, zoneVars
<1>2. CASE \E packet \in Packet : Arrive(s, packet)
  <2>1. PICK packet \in Packet : Arrive(s, packet)
    BY <1>2
  <2>2. strand' \in [Sessions -> Seq(Job)]
    BY <2>1, PostType DEF Arrive, TypeOK, Job
  <2>3. mayReady' \in [Sessions -> BOOLEAN] /\ reading' \in [Sessions -> BOOLEAN]
    BY <2>1 DEF Arrive, TypeOK
  <2>4. QED
    BY <2>1, <2>2, <2>3 DEF Arrive, TypeOK, managerVars, sessionVars, taskVars, connVars, zoneVars
<1>3. CASE CloseFromWithin(s)
  BY <1>3, CloseType DEF CloseFromWithin, TypeOK, managerVars, taskVars, connVars, zoneVars
<1>4. CASE ReadFails(s)
  <2>1. strand' \in [Sessions -> Seq(Job)]
    BY <1>4, PostType DEF ReadFails, TypeOK, Job
  <2>2. QED
    BY <1>4, <2>1 DEF ReadFails, TypeOK, managerVars, sessionVars, taskVars, connVars, zoneVars
<1>5. QED
  BY <1>1, <1>2, <1>3, <1>4 DEF Client

\* Taking a handler leaves the rest of the strand.
LEMMA NextHandlerType ==
  ASSUME TypeOK, NEW s \in Sessions, NEW job, NextHandler(s, job)
  PROVE  strand' \in [Sessions -> Seq(Job)]
<1>1. strand[s] \in Seq(Job) /\ strand[s] # <<>>
  BY DEF NextHandler, TypeOK
<1>2. Tail(strand[s]) \in Seq(Job)
  BY <1>1
<1>3. QED
  BY <1>2 DEF NextHandler, TypeOK

\* Telling a client to load a map keeps what it may answer typed.
LEMMA ToldType ==
  ASSUME TypeOK, NEW t \in Sessions
  PROVE  [mayReady EXCEPT ![t] = connected[t]] \in [Sessions -> BOOLEAN]
<1> DEFINE b == connected[t]
<1>1. b \in BOOLEAN
  BY DEF TypeOK
<1>2. mayReady \in [Sessions -> BOOLEAN]
  BY DEF TypeOK
<1> HIDE DEF b
<1>3. [mayReady EXCEPT ![t] = b] \in [Sessions -> BOOLEAN]
  BY <1>1, <1>2
<1>4. QED
  BY <1>3 DEF b

\* The handlers of a session's strand.
LEMMA HandlerType ==
  ASSUME TypeOK, NEW s \in Sessions, Handler(s) \/ TellZone(s)
  PROVE  TypeOK'
<1>1. CASE RouteLogin(s)
  <2>1. strand' \in [Sessions -> Seq(Job)]
    BY <1>1, NextHandlerType DEF RouteLogin
  <2>2. /\ reading' \in [Sessions -> BOOLEAN]
        /\ loginTask' \in [Sessions -> {"none", "queued", "bound", "refused"}]
    <3>1. /\ reading' = [reading EXCEPT ![s] = TRUE]
          /\ loginTask' = loginTask \/ loginTask' = [loginTask EXCEPT ![s] = "queued"]
      BY <1>1 DEF RouteLogin, ReadOn
    <3>2. QED
      BY ZenonT(40), <3>1 DEF TypeOK
  <2>3. UNCHANGED <<managerVars, socket, mayReady, connected, userUID, target, existing, picked,
                    selectTask, createTask, connVars, io, zoneVars>>
    BY <1>1 DEF RouteLogin
  <2>4. state' \in [Sessions -> SessionState]
    <3>1. state' = state \/ state' = [state EXCEPT ![s] = "LoggingIn"]
      BY <1>1 DEF RouteLogin
    <3>2. state \in [Sessions -> SessionState] /\ "LoggingIn" \in SessionState
      BY DEF TypeOK, SessionState
    <3>3. QED
      BY <3>1, <3>2
  <2>5. QED
    BY <2>1, <2>2, <2>3, <2>4 DEF TypeOK, managerVars, connVars, zoneVars
<1>2. CASE RouteCreate(s)
  <2>1. strand' \in [Sessions -> Seq(Job)]
    BY <1>2, NextHandlerType DEF RouteCreate
  <2>2. /\ reading' \in [Sessions -> BOOLEAN]
        /\ createTask' \in [Sessions -> BOOLEAN]
    <3>1. /\ reading' = [reading EXCEPT ![s] = TRUE]
          /\ createTask' = createTask \/ createTask' = [createTask EXCEPT ![s] = TRUE]
      BY <1>2 DEF RouteCreate, ReadOn
    <3>2. QED
      BY ZenonT(40), <3>1 DEF TypeOK
  <2>3. UNCHANGED <<managerVars, socket, mayReady, connected, userUID, target, existing, picked,
                    loginTask, selectTask, connVars, io, zoneVars>>
    BY <1>2 DEF RouteCreate
  <2>4. state' \in [Sessions -> SessionState]
    <3>1. state' = state \/ state' = [state EXCEPT ![s] = "Creating"]
      BY <1>2 DEF RouteCreate
    <3>2. state \in [Sessions -> SessionState] /\ "Creating" \in SessionState
      BY DEF TypeOK, SessionState
    <3>3. QED
      BY <3>1, <3>2
  <2>5. QED
    BY <2>1, <2>2, <2>3, <2>4 DEF TypeOK, managerVars, connVars, zoneVars
<1>3. CASE RouteSelect(s)
  <2>1. strand' \in [Sessions -> Seq(Job)]
    BY <1>3, NextHandlerType DEF RouteSelect
  <2>2. /\ reading' \in [Sessions -> BOOLEAN]
        /\ selectTask' \in [Sessions -> {"none", "queued", "picked"}]
    <3>1. /\ reading' = [reading EXCEPT ![s] = TRUE]
          /\ selectTask' = selectTask \/ selectTask' = [selectTask EXCEPT ![s] = "queued"]
      BY <1>3 DEF RouteSelect, ReadOn
    <3>2. QED
      BY ZenonT(40), <3>1 DEF TypeOK
  <2>3. UNCHANGED <<managerVars, socket, mayReady, connected, userUID, target, existing, picked,
                    loginTask, createTask, connVars, io, zoneVars>>
    BY <1>3 DEF RouteSelect
  <2>4. state' \in [Sessions -> SessionState]
    <3>1. state' = state \/ state' = [state EXCEPT ![s] = "Selecting"]
      BY <1>3 DEF RouteSelect
    <3>2. state \in [Sessions -> SessionState] /\ "Selecting" \in SessionState
      BY DEF TypeOK, SessionState
    <3>3. QED
      BY <3>1, <3>2
  <2>5. QED
    BY <2>1, <2>2, <2>3, <2>4 DEF TypeOK, managerVars, connVars, zoneVars
<1>4. CASE RouteReady(s)
  <2>1. target[s] \in Instances
    BY DEF TypeOK
  <2>2. toZone' \in [Conns -> Seq(ZonePacket)]
    BY <1>4, <2>1, SendToZoneType DEF RouteReady, TypeOK
  <2>3. strand' \in [Sessions -> Seq(Job)]
    BY <1>4, NextHandlerType DEF RouteReady
  <2>4. QED
    BY <1>4, <2>2, <2>3 DEF RouteReady, ReadOn, TypeOK, managerVars, sessionVars, taskVars, zoneVars
<1>5. CASE HandleReadError(s)
  <2>1. strand' \in [Sessions -> Seq(Job)]
    <3>1. strand[s] \in Seq(Job) /\ strand[s] # <<>> /\ "close" \in Job
      BY <1>5 DEF HandleReadError, TypeOK, Job
    <3>2. Tail(strand[s]) \in Seq(Job) /\ Append(Tail(strand[s]), "close") \in Seq(Job)
      BY <3>1
    <3>3. QED
      BY <1>5, <3>2 DEF HandleReadError, TypeOK
  <2>2. QED
    BY <1>5, <2>1 DEF HandleReadError, TypeOK, managerVars, taskVars, connVars, zoneVars
<1>6. CASE CloseJob(s)
  <2>1. strand' \in [Sessions -> Seq(Job)]
    BY <1>6, NextHandlerType DEF CloseJob
  <2>2. /\ registered' \subseteq Sessions
        /\ binding' \in [Users -> Sessions \cup {NoSession}]
        /\ socket' \in [Sessions -> {"new", "open", "closed"}]
        /\ io' \in {"bye"} \X Sessions
    BY <1>6 DEF CloseJob, Unregister, TypeOK
  <2>3. QED
    BY <1>6, <2>1, <2>2 DEF CloseJob, TypeOK, sessionVars, taskVars, connVars, zoneVars
<1>7. CASE TellZone(s)
  <2>1. target[s] \in Instances
    BY DEF TypeOK
  <2>2. toZone' \in [Conns -> Seq(ZonePacket)]
    BY <1>7, <2>1, SendToZoneType DEF TellZone
  <2>3. io' = Free
    BY <1>7 DEF TellZone
  <2>4. QED
    BY <1>7, <2>2, <2>3 DEF TellZone, TypeOK, managerVars, netVars, sessionVars, taskVars, zoneVars
<1>8. QED
  BY <1>1, <1>2, <1>3, <1>4, <1>5, <1>6, <1>7 DEF Handler

\* The tasks of Account.
LEMMA DbTaskType ==
  ASSUME TypeOK, NEW s \in Sessions, DbTask(s)
  PROVE  TypeOK'
<1> USE GatewayAssumption DEF TypeOK, SessionState, managerVars, netVars, connVars, zoneVars
<1>1. CASE LoginFails(s)
  <2>1. /\ loginTask' \in [Sessions -> {"none", "queued", "bound", "refused"}]
        /\ state' \in [Sessions -> SessionState]
    BY <1>1 DEF LoginFails
  <2>2. QED
    BY <1>1, <2>1 DEF LoginFails
<1>2. CASE TryBindUser(s)
  <2>1. /\ binding' \in [Users -> Sessions \cup {NoSession}]
        /\ existing' \in [Sessions -> Sessions \cup {NoSession}]
    <3> DEFINE u == UserOf[s]
    <3>1. \/ binding' = binding /\ existing' = [existing EXCEPT ![s] = binding[u]]
          \/ binding' = [binding EXCEPT ![u] = s] /\ existing' = existing
      BY <1>2 DEF TryBindUser
    <3>2. u \in Users /\ binding[u] \in Sessions \cup {NoSession}
      OBVIOUS
    <3> HIDE DEF u
    <3>3. binding' = binding \/ binding' = [binding EXCEPT ![u] = s]
      BY <3>1
    <3>4. existing' = existing \/ existing' = [existing EXCEPT ![s] = binding[u]]
      BY <3>1
    <3>5. binding' \in [Users -> Sessions \cup {NoSession}]
      <4>1. binding \in [Users -> Sessions \cup {NoSession}] /\ s \in Sessions \cup {NoSession}
        OBVIOUS
      <4>2. [binding EXCEPT ![u] = s] \in [Users -> Sessions \cup {NoSession}]
        BY <4>1, Zenon
      <4>3. QED
        BY <3>3, <4>1, <4>2, Zenon
    <3>6. existing' \in [Sessions -> Sessions \cup {NoSession}]
      <4>1. existing \in [Sessions -> Sessions \cup {NoSession}]
        OBVIOUS
      <4>2. [existing EXCEPT ![s] = binding[u]] \in [Sessions -> Sessions \cup {NoSession}]
        BY <3>2, <4>1, Zenon
      <4>3. QED
        BY <3>4, <4>1, <4>2, Zenon
    <3>7. QED
      BY <3>5, <3>6
  <2>2. loginTask' \in [Sessions -> {"none", "queued", "bound", "refused"}]
    <3>1. \/ loginTask' = [loginTask EXCEPT ![s] = "refused"]
          \/ loginTask' = [loginTask EXCEPT ![s] = "bound"]
      BY <1>2 DEF TryBindUser
    <3>2. QED
      BY ZenonT(40), <3>1
  <2>3. QED
    BY <1>2, <2>1, <2>2 DEF TryBindUser, sessionVars
<1>3. CASE LoginRefused(s)
  BY <1>3, CloseType DEF LoginRefused
<1>4. CASE LoginDone(s)
  BY <1>4 DEF LoginDone
<1>5. CASE CreateDone(s)
  BY <1>5 DEF CreateDone
<1>6. CASE SelectPicks(s)
  BY <1>6, PickChannelType DEF SelectPicks, sessionVars
<1>7. CASE SelectFails(s)
  BY <1>7 DEF SelectFails
<1>8. CASE SelectDone(s)
  <2>1. /\ selectTask' \in [Sessions -> {"none", "queued", "picked"}]
        /\ picked' \in [Sessions -> Instances \cup {NoInstance}]
    BY <1>8 DEF SelectDone
  <2>2. target' \in [Sessions -> Instances] /\ mayReady' \in [Sessions -> BOOLEAN]
    <3>1. \/ UNCHANGED <<target, mayReady>>
          \/ /\ picked[s] # NoInstance
             /\ target' = [target EXCEPT ![s] = picked[s]]
             /\ mayReady' = [mayReady EXCEPT ![s] = connected[s]]
      BY <1>8 DEF SelectDone
    <3>2. target' = target \/ (picked[s] \in Instances /\ target' = [target EXCEPT ![s] = picked[s]])
      BY <3>1
    <3>3. target' \in [Sessions -> Instances]
      BY <3>2
    <3>4. mayReady' \in [Sessions -> BOOLEAN]
      <4>1. CASE mayReady' = mayReady
        BY <4>1
      <4>2. CASE mayReady' = [mayReady EXCEPT ![s] = connected[s]]
        BY <4>2, ToldType, Zenon
      <4>3. QED
        BY <3>1, <4>1, <4>2
    <3>5. QED
      BY <3>3, <3>4
  <2>3. state' \in [Sessions -> SessionState]
    <3>1. \/ state' = [state EXCEPT ![s] = "InGame"]
          \/ state' = [state EXCEPT ![s] = "Lobby"]
      BY <1>8 DEF SelectDone
    <3>2. QED
      BY ZenonT(40), <3>1
  <2>4. QED
    BY <1>8, <2>1, <2>2, <2>3 DEF SelectDone
<1>9. QED
  BY <1>1, <1>2, <1>3, <1>4, <1>5, <1>6, <1>7, <1>8 DEF DbTask

\* The connections of zone servers.
LEMMA ConnType ==
  ASSUME TypeOK, NEW c \in Conns, ZoneConn(c) \/ CloseOrphans(c)
  PROVE  TypeOK'
<1>1. CASE Handshake(c)
  <2>1. /\ conn' \in [Conns -> {"off", "up", "broken", "closing", "closed"}]
        /\ zoneServers' \in [Instances -> Conns \cup {NoConn}]
    BY <1>1 DEF Handshake, TypeOK
  <2>2. UNCHANGED <<managerVars, netVars, sessionVars, taskVars, toZone, fromZone, io, zoneVars>>
    BY <1>1 DEF Handshake
  <2>3. QED
    BY <2>1, <2>2 DEF TypeOK, managerVars, netVars, sessionVars, taskVars, zoneVars
<1>2. CASE ConnBreaks(c)
  <2>1. /\ conn' \in [Conns -> {"off", "up", "broken", "closing", "closed"}]
        /\ toZone' \in [Conns -> Seq(ZonePacket)]
        /\ inside' \in [Instances -> SUBSET Sessions]
    BY <1>2 DEF ConnBreaks, TypeOK
  <2>2. UNCHANGED <<managerVars, netVars, sessionVars, taskVars, zoneServers, fromZone, io,
                    rowZone>>
    BY <1>2 DEF ConnBreaks
  <2>3. QED
    BY <2>1, <2>2 DEF TypeOK, managerVars, netVars, sessionVars, taskVars
<1>3. CASE ConnClose(c)
  <2>1. conn' \in [Conns -> {"off", "up", "broken", "closing", "closed"}]
    BY <1>3 DEF ConnClose, TypeOK
  <2>2. UNCHANGED <<managerVars, netVars, sessionVars, taskVars, zoneServers, toZone, fromZone,
                    io, zoneVars>>
    BY <1>3 DEF ConnClose
  <2>3. QED
    BY <2>1, <2>2 DEF TypeOK, managerVars, netVars, sessionVars, taskVars, zoneVars
<1>4. CASE UnregisterZones(c)
  <2>1. io' \in {"collect"} \X Conns
    BY <1>4 DEF UnregisterZones
  <2>2. /\ zoneServers' \in [Instances -> Conns \cup {NoConn}]
        /\ conn' \in [Conns -> {"off", "up", "broken", "closing", "closed"}]
    BY <1>4 DEF UnregisterZones, TypeOK
  <2>3. QED
    BY <1>4, <2>1, <2>2 DEF UnregisterZones, TypeOK, managerVars, netVars, sessionVars, taskVars,
                            zoneVars
<1>5. CASE OnZoneLeaveCompleted(c)
  <2>1. fromZone[c] \in Seq([s : Sessions, to : Nat]) /\ fromZone[c] # <<>>
    BY <1>5 DEF OnZoneLeaveCompleted, TypeOK
  <2>2. fromZone' \in [Conns -> Seq([s : Sessions, to : Nat])]
    <3>1. Tail(fromZone[c]) \in Seq([s : Sessions, to : Nat])
      BY <2>1
    <3>2. fromZone' = [fromZone EXCEPT ![c] = Tail(@)]
      BY <1>5 DEF OnZoneLeaveCompleted
    <3>3. QED
      BY <3>1, <3>2 DEF TypeOK
  <2>3. connected' \in [Sessions -> BOOLEAN] /\ strand' \in [Sessions -> Seq(Job)]
    BY ZenonT(40), <1>5, CloseType DEF OnZoneLeaveCompleted, TypeOK
  <2>4. target' \in [Sessions -> Instances] /\ mayReady' \in [Sessions -> BOOLEAN]
    <3> DEFINE t == Head(fromZone[c]).s
               next == PickChannel(Head(fromZone[c]).to)
    <3>1. next \in Instances \cup {NoInstance}
      BY PickChannelType
    <3>2. \/ UNCHANGED <<target, mayReady>>
          \/ /\ next # NoInstance
             /\ target' = [target EXCEPT ![t] = next]
             /\ mayReady' = [mayReady EXCEPT ![t] = connected[t]]
             /\ t \in registered
      BY <1>5 DEF OnZoneLeaveCompleted
    <3> HIDE DEF next, t
    <3>3. target' = target \/ (next \in Instances /\ target' = [target EXCEPT ![t] = next])
      BY <3>1, <3>2
    <3>4. target' \in [Sessions -> Instances]
      BY <3>3 DEF TypeOK
    <3>5. mayReady' = mayReady \/ (t \in Sessions /\ mayReady' = [mayReady EXCEPT ![t] = connected[t]])
      BY <3>2 DEF TypeOK
    <3>6. mayReady' \in [Sessions -> BOOLEAN]
      <4>1. CASE mayReady' = mayReady
        BY <4>1 DEF TypeOK
      <4>2. CASE t \in Sessions /\ mayReady' = [mayReady EXCEPT ![t] = connected[t]]
        BY <4>2, ToldType, Zenon
      <4>3. QED
        BY <3>5, <4>1, <4>2
    <3>7. QED
      BY <3>4, <3>6
  <2>5. QED
    BY <1>5, <2>2, <2>3, <2>4 DEF OnZoneLeaveCompleted, TypeOK, managerVars, taskVars, zoneVars
<1>6. CASE ZoneReceives(c)
  <2>1. toZone[c] \in Seq(ZonePacket) /\ toZone[c] # <<>>
    BY <1>6 DEF ZoneReceives, TypeOK
  <2>2. toZone' \in [Conns -> Seq(ZonePacket)]
    BY <1>6, <2>1 DEF ZoneReceives, TypeOK
  <2>3. inside' \in [Instances -> SUBSET Sessions]
    <3> DEFINE m == Head(toZone[c])
    <3>1. m \in ZonePacket
      BY <2>1
    <3>2. m.at \in Instances /\ m.s \in Sessions /\ m.kind \in {"ready", "bye"}
      BY <3>1 DEF ZonePacket
    <3>3. inside[m.at] \subseteq Sessions
      BY <3>2 DEF TypeOK
    <3> DEFINE now == CASE m.kind = "bye" -> inside[m.at] \ {m.s}
                        [] m.kind = "ready" ->
                             IF \A t \in inside[m.at] : UserOf[t] # UserOf[m.s]
                             THEN inside[m.at] \cup {m.s} ELSE inside[m.at]
    <3>4. now \subseteq Sessions
      <4>1. CASE m.kind = "bye"
        BY <4>1, <3>3
      <4>2. CASE m.kind = "ready"
        BY <4>2, <3>2, <3>3
      <4>3. QED
        BY <4>1, <4>2, <3>2
    <3>5. inside' = [inside EXCEPT ![m.at] = now]
      BY <1>6 DEF ZoneReceives
    <3> HIDE DEF now, m
    <3>6. QED
      BY <3>4, <3>5 DEF TypeOK
  <2>4. QED
    BY <1>6, <2>2, <2>3 DEF ZoneReceives, TypeOK, managerVars, netVars, sessionVars, taskVars
<1>7. CASE \E s \in Sessions, i \in Instances, j \in Instances :
             i # j /\ ZonePortal(c, s, i, j[1])
  <2>1. PICK s \in Sessions, i \in Instances, j \in Instances : ZonePortal(c, s, i, j[1])
    BY <1>7
  <2>2. j[1] \in Nat
    BY GatewayAssumption
  <2>3. rowZone' \in [Users -> Nat]
    BY <2>1, <2>2 DEF ZonePortal, TypeOK
  <2>4. fromZone' \in [Conns -> Seq([s : Sessions, to : Nat])]
    <3> DEFINE m == [s |-> s, to |-> j[1]]
    <3>1. m \in [s : Sessions, to : Nat]
      BY <2>2
    <3>2. fromZone' = [fromZone EXCEPT ![c] = Append(@, m)]
      BY <2>1 DEF ZonePortal
    <3> HIDE DEF m
    <3>3. fromZone[c] \in Seq([s : Sessions, to : Nat])
      BY DEF TypeOK
    <3>4. Append(fromZone[c], m) \in Seq([s : Sessions, to : Nat])
      BY <3>1, <3>3
    <3>5. QED
      BY <3>2, <3>4 DEF TypeOK
  <2>5. inside' \in [Instances -> SUBSET Sessions]
    BY <2>1 DEF ZonePortal, TypeOK
  <2>6. QED
    BY <2>1, <2>3, <2>4, <2>5 DEF ZonePortal, TypeOK, managerVars, netVars, sessionVars, taskVars
<1>8. CASE CloseOrphans(c)
  <2> DEFINE orphans == {s \in CollectSessionsInZones(Hosts[c]) : connected[s]}
  <2>1. strand' = [s \in Sessions |-> IF s \in orphans THEN Append(strand[s], "close")
                                      ELSE strand[s]]
    BY <1>8 DEF CloseOrphans
  <2>2. \A s \in Sessions : strand[s] \in Seq(Job) /\ Append(strand[s], "close") \in Seq(Job)
    BY DEF TypeOK, Job
  <2>3. strand' \in [Sessions -> Seq(Job)]
    <3> HIDE DEF orphans
    <3> QED BY <2>1, <2>2
  <2>4. connected' \in [Sessions -> BOOLEAN]
    BY <1>8 DEF CloseOrphans, TypeOK
  <2>5. io' = Free
    BY <1>8 DEF CloseOrphans
  <2>6. QED
    BY <1>8, <2>3, <2>4, <2>5 DEF CloseOrphans, TypeOK, managerVars, taskVars, connVars, zoneVars
<1>9. QED
  BY <1>1, <1>2, <1>3, <1>4, <1>5, <1>6, <1>7, <1>8 DEF ZoneConn

\* The types are inductive.
LEMMA TypeStep ==
  ASSUME TypeOK, [Next]_vars
  PROVE  TypeOK'
<1>1. CASE Next
  BY <1>1, ClientType, HandlerType, DbTaskType, ConnType DEF Next
<1>2. CASE UNCHANGED vars
  BY <1>2 DEF TypeOK, vars, managerVars, netVars, sessionVars, taskVars, connVars, zoneVars
<1>3. QED
  BY <1>1, <1>2

-----------------------------------------------------------------------------
\* Nothing happens to a session that is still to be accepted: whoever closes a
\* session finds it connected, and every other step takes something a fresh
\* session does not have.

\* Close leaves a fresh session alone.
LEMMA CloseKeepsFresh ==
  ASSUME TypeOK, NEW t, Close(t), NEW n \in Sessions, ~connected[n]
  PROVE  connected'[n] = connected[n] /\ strand'[n] = strand[n]
BY DEF Close, Post, TypeOK

\* A handler takes a job that a fresh session does not have.
LEMMA HandlerKeepsFresh ==
  ASSUME TypeOK, NEW s \in Sessions, Handler(s) \/ TellZone(s),
         NEW n \in Sessions, strand[n] = <<>>
  PROVE  /\ userUID' = userUID
         /\ reading'[n] = reading[n]
         /\ connected'[n] = connected[n]
         /\ strand'[n] = strand[n]
         /\ loginTask'[n] = loginTask[n]
         /\ registered' \subseteq registered
         /\ socket'[n] = socket[n]
<1>1. CASE TellZone(s)
  BY <1>1 DEF TellZone, managerVars, netVars, sessionVars, taskVars
<1>2. CASE Handler(s)
  <2>1. s # n
    BY <1>2 DEF Handler, RouteLogin, RouteCreate, RouteSelect, RouteReady, HandleReadError, CloseJob,
                NextHandler
  <2>2. CASE RouteLogin(s)
    BY ZenonT(40), <2>1, <2>2 DEF RouteLogin, NextHandler, ReadOn, managerVars, TypeOK
  <2>3. CASE RouteCreate(s)
    BY <2>1, <2>3 DEF RouteCreate, NextHandler, ReadOn, managerVars, TypeOK
  <2>4. CASE RouteSelect(s)
    BY <2>1, <2>4 DEF RouteSelect, NextHandler, ReadOn, managerVars, TypeOK
  <2>5. CASE RouteReady(s)
    BY <2>1, <2>5 DEF RouteReady, NextHandler, ReadOn, managerVars, sessionVars, taskVars, TypeOK
  <2>6. CASE HandleReadError(s)
    BY <2>1, <2>6 DEF HandleReadError, managerVars, taskVars, TypeOK
  <2>7. CASE CloseJob(s)
    BY <2>1, <2>7 DEF CloseJob, NextHandler, Unregister, sessionVars, taskVars, TypeOK
  <2>8. QED
    BY <1>2, <2>2, <2>3, <2>4, <2>5, <2>6, <2>7 DEF Handler
<1>3. QED
  BY <1>1, <1>2

\* Every step keeps NewIsFresh.
LEMMA FreshStep ==
  ASSUME TypeOK, NewIsFresh, Next
  PROVE  NewIsFresh'
<1> DEFINE Fresh(n) == /\ n \notin registered
                       /\ ~connected[n]
                       /\ ~reading[n]
                       /\ strand[n] = <<>>
                       /\ loginTask[n] = "none"
                       /\ userUID[n] = NoUser
<1> SUFFICES ASSUME NEW n \in Sessions, socket'[n] = "new"
             PROVE  Fresh(n)'
  BY DEF NewIsFresh
<1>1. CASE \E s \in Sessions : Accept(s)
  BY <1>1 DEF Accept, NewIsFresh, TypeOK, taskVars
<1>2. CASE \E s \in Sessions : CloseFromWithin(s)
  <2>1. PICK s \in Sessions : CloseFromWithin(s)
    BY <1>2
  <2>2. Fresh(n)
    BY <2>1 DEF CloseFromWithin, NewIsFresh
  <2>3. connected'[n] = connected[n] /\ strand'[n] = strand[n]
    BY <2>1, <2>2, CloseKeepsFresh DEF CloseFromWithin
  <2>4. QED
    BY <2>1, <2>2, <2>3 DEF CloseFromWithin, managerVars, taskVars
<1>3. CASE \E s \in Sessions : ReadFails(s) \/ \E packet \in Packet : Arrive(s, packet)
  <2>1. PICK s \in Sessions : ReadFails(s) \/ \E packet \in Packet : Arrive(s, packet)
    BY <1>3
  <2>2. Fresh(n) /\ reading[s]
    BY <2>1 DEF ReadFails, Arrive, NewIsFresh
  <2>3. s # n
    BY <2>2
  <2>4. reading'[n] = reading[n] /\ strand'[n] = strand[n]
    BY <2>1, <2>3 DEF ReadFails, Arrive, Post, TypeOK
  <2>5. QED
    BY <2>1, <2>2, <2>4 DEF ReadFails, Arrive, managerVars, sessionVars, taskVars
<1>4. CASE \E s \in Sessions : Handler(s) \/ TellZone(s)
  <2>1. PICK s \in Sessions : Handler(s) \/ TellZone(s)
    BY <1>4
  <2>2. CASE strand[n] = <<>>
    <3>1. socket[n] = "new"
      BY <2>1, <2>2, HandlerKeepsFresh
    <3>2. Fresh(n)
      BY <3>1 DEF NewIsFresh
    <3>3. QED
      BY <2>1, <2>2, <3>2, HandlerKeepsFresh
  <2>3. CASE strand[n] # <<>>
    <3>1. socket[n] # "new"
      BY <2>3 DEF NewIsFresh
    <3>2. socket'[n] # "new"
      BY <2>1, <3>1 DEF Handler, TellZone, RouteLogin, RouteCreate, RouteSelect, RouteReady,
                        HandleReadError, CloseJob, netVars, TypeOK
    <3>3. QED
      BY <3>2
  <2>4. QED
    BY <2>2, <2>3
<1>5. CASE \E s \in Sessions : DbTask(s)
  <2>1. PICK s \in Sessions : DbTask(s)
    BY <1>5
  <2>2. socket' = socket
    BY <2>1 DEF DbTask, LoginFails, TryBindUser, LoginRefused, LoginDone, CreateDone, SelectPicks,
                SelectFails, SelectDone, netVars
  <2>3. Fresh(n)
    BY <2>2 DEF NewIsFresh
  <2>4. CASE LoginFails(s)
    BY <2>3, <2>4 DEF LoginFails, managerVars, netVars, TypeOK
  <2>5. CASE TryBindUser(s)
    BY <2>3, <2>5 DEF TryBindUser, netVars, sessionVars, TypeOK
  <2>6. CASE LoginRefused(s)
    <3>1. connected'[n] = connected[n] /\ strand'[n] = strand[n]
      BY <2>3, <2>6, CloseKeepsFresh DEF LoginRefused
    <3>2. QED
      BY <2>3, <2>6, <3>1 DEF LoginRefused, managerVars, TypeOK
  <2>7. CASE LoginDone(s)
    BY <2>3, <2>7 DEF LoginDone, managerVars, netVars, TypeOK
  <2>8. CASE CreateDone(s) \/ SelectPicks(s) \/ SelectFails(s) \/ SelectDone(s)
    BY <2>3, <2>8 DEF CreateDone, SelectPicks, SelectFails, SelectDone, managerVars, netVars,
                      sessionVars, TypeOK
  <2>9. QED
    BY <2>1, <2>4, <2>5, <2>6, <2>7, <2>8 DEF DbTask
<1>6. CASE \E c \in Conns : ZoneConn(c) \/ CloseOrphans(c)
  <2>1. PICK c \in Conns : ZoneConn(c) \/ CloseOrphans(c)
    BY <1>6
  <2>2. UNCHANGED <<managerVars, socket, reading, userUID, taskVars>>
    BY <2>1 DEF ZoneConn, CloseOrphans, Handshake, ConnBreaks, ConnClose, UnregisterZones,
                OnZoneLeaveCompleted, ZoneReceives, ZonePortal, netVars, sessionVars
  <2>3. Fresh(n)
    BY <2>2 DEF NewIsFresh
  <2>4. connected'[n] = connected[n] /\ strand'[n] = strand[n]
    <3>1. CASE CloseOrphans(c)
      <4> DEFINE orphans == {s \in CollectSessionsInZones(Hosts[c]) : connected[s]}
      <4>1. n \notin orphans /\ connected[n] = FALSE
        BY <2>3 DEF TypeOK
      <4>2. /\ connected' = [s \in Sessions |-> connected[s] /\ s \notin orphans]
            /\ strand' = [s \in Sessions |-> IF s \in orphans THEN Append(strand[s], "close")
                                              ELSE strand[s]]
        BY <3>1 DEF CloseOrphans
      <4> HIDE DEF orphans
      <4>3. strand'[n] = strand[n]
        BY <4>1, <4>2
      <4>4. connected'[n] = FALSE
        BY <4>1, <4>2
      <4>5. QED
        BY <4>1, <4>3, <4>4
    <3>2. CASE OnZoneLeaveCompleted(c)
      BY <2>3, <3>2, CloseKeepsFresh DEF OnZoneLeaveCompleted
    <3>3. QED
      BY <2>1, <3>1, <3>2 DEF ZoneConn, Handshake, ConnBreaks, ConnClose, UnregisterZones,
                              ZoneReceives, ZonePortal, netVars, sessionVars
  <2>5. QED
    BY <2>2, <2>3, <2>4 DEF managerVars, taskVars
<1>7. QED
  BY <1>1, <1>2, <1>3, <1>4, <1>5, <1>6 DEF Next, Client

-----------------------------------------------------------------------------
\* One live session per account.

\* Only these actions touch the registration, the bindings, the login tasks or
\* the user of a session.
LEMMA BindingActions ==
  ASSUME Next
  PROVE  \/ \E s \in Sessions : \/ Accept(s)
                                \/ RouteLogin(s)
                                \/ CloseJob(s)
                                \/ LoginFails(s)
                                \/ TryBindUser(s)
                                \/ LoginRefused(s)
                                \/ LoginDone(s)
         \/ UNCHANGED <<registered, binding, loginTask, userUID>>
<1>1. ASSUME NEW s \in Sessions,
             CloseFromWithin(s) \/ ReadFails(s) \/ \E packet \in Packet : Arrive(s, packet)
      PROVE  UNCHANGED <<registered, binding, loginTask, userUID>>
  BY <1>1 DEF CloseFromWithin, ReadFails, Arrive, managerVars, sessionVars, taskVars
<1>2. ASSUME NEW s \in Sessions,
             \/ RouteCreate(s) \/ RouteSelect(s) \/ RouteReady(s) \/ HandleReadError(s)
             \/ TellZone(s)
      PROVE  UNCHANGED <<registered, binding, loginTask, userUID>>
  BY <1>2 DEF RouteCreate, RouteSelect, RouteReady, HandleReadError, TellZone, managerVars,
              sessionVars, taskVars
<1>3. ASSUME NEW s \in Sessions,
             CreateDone(s) \/ SelectPicks(s) \/ SelectFails(s) \/ SelectDone(s)
      PROVE  UNCHANGED <<registered, binding, loginTask, userUID>>
  BY <1>3 DEF CreateDone, SelectPicks, SelectFails, SelectDone, managerVars, sessionVars
<1>4. ASSUME NEW c \in Conns, ZoneConn(c) \/ CloseOrphans(c)
      PROVE  UNCHANGED <<registered, binding, loginTask, userUID>>
  BY <1>4 DEF ZoneConn, CloseOrphans, Handshake, ConnBreaks, ConnClose, UnregisterZones,
              OnZoneLeaveCompleted, ZoneReceives, ZonePortal, managerVars, sessionVars, taskVars
<1>5. QED
  BY <1>1, <1>2, <1>3, <1>4 DEF Next, Client, Handler, DbTask

\* TryBindUser takes a binding only from a session that is not registered, and
\* Unregister clears only its own.
LEMMA BoundStep ==
  ASSUME TypeOK, NewIsFresh, BoundHolds, RegisteredAreBound, Next
  PROVE  BoundHolds' /\ RegisteredAreBound'
<1> DEFINE Holds(t) == /\ loginTask[t] = "bound" => binding[UserOf[t]] = t
                       /\ userUID[t] # NoUser => binding[userUID[t]] = t
<1> SUFFICES ASSUME NEW t \in registered'
             PROVE  Holds(t)'
  BY DEF BoundHolds, RegisteredAreBound
<1>0. /\ \A r \in registered : Holds(r)
      /\ UserOf \in [Sessions -> Users]
      /\ NoUser \notin Users
  BY GatewayAssumption DEF BoundHolds, RegisteredAreBound
<1>1. ASSUME NEW s \in Sessions, Accept(s)
      PROVE  Holds(t)'
  BY <1>0, <1>1 DEF Accept, NewIsFresh, TypeOK, taskVars
<1>2. ASSUME NEW s \in Sessions, RouteLogin(s)
      PROVE  Holds(t)'
  <2>1. t \in registered /\ Holds(t) /\ UNCHANGED <<binding, userUID>>
    BY <1>0, <1>2 DEF RouteLogin, managerVars
  <2>2. loginTask'[t] = loginTask[t] \/ loginTask'[t] = "queued"
    BY <1>2, <2>1 DEF RouteLogin, TypeOK
  <2>3. QED
    BY <2>1, <2>2
<1>3. ASSUME NEW s \in Sessions, CloseJob(s)
      PROVE  Holds(t)'
  <2>1. /\ t \in registered /\ t # s /\ t \in Sessions
        /\ Holds(t)
        /\ UNCHANGED <<loginTask, userUID>>
    BY <1>0, <1>3 DEF CloseJob, Unregister, sessionVars, taskVars, TypeOK
  <2>2. \A u \in Users : binding[u] = t => binding'[u] = t
    BY <1>3, <2>1 DEF CloseJob, Unregister
  <2>3. UserOf[t] \in Users /\ userUID[t] \in Users \cup {NoUser}
    BY <1>0, <2>1 DEF TypeOK
  <2>4. QED
    BY <2>1, <2>2, <2>3
<1>4. ASSUME NEW s \in Sessions, LoginFails(s)
      PROVE  Holds(t)'
  <2>1. t \in registered /\ Holds(t) /\ UNCHANGED <<binding, userUID>>
    BY <1>0, <1>4 DEF LoginFails, managerVars
  <2>2. loginTask'[t] = loginTask[t] \/ loginTask'[t] = "none"
    BY <1>4, <2>1 DEF LoginFails, TypeOK
  <2>3. QED
    BY <2>1, <2>2
<1>5. ASSUME NEW s \in Sessions, TryBindUser(s)
      PROVE  Holds(t)'
  <2> DEFINE u == UserOf[s]
  <2>1. t \in registered /\ t \in Sessions /\ Holds(t) /\ userUID' = userUID
    BY <1>0, <1>5 DEF TryBindUser, sessionVars, TypeOK
  <2>2. UserOf[t] \in Users /\ userUID[t] \in Users \cup {NoUser} /\ u \in Users
    BY <1>0, <2>1 DEF TypeOK
  <2>3. CASE /\ BoundElsewhere(u, s)
             /\ loginTask' = [loginTask EXCEPT ![s] = "refused"]
             /\ UNCHANGED binding
    BY <2>1, <2>3 DEF TypeOK
  <2>4. CASE /\ ~BoundElsewhere(u, s)
             /\ binding' = [binding EXCEPT ![u] = s]
             /\ loginTask' = [loginTask EXCEPT ![s] = "bound"]
    <3>1. binding'[u] = s /\ \A v \in Users : v # u => binding'[v] = binding[v]
      BY <2>2, <2>4 DEF TypeOK
    <3>2. binding[u] = s \/ binding[u] \notin registered
      BY <2>4 DEF BoundElsewhere
    <3>3. \A v \in Users : binding[v] = t => binding'[v] = t
      BY <2>1, <3>1, <3>2
    <3>4. loginTask'[t] = "bound" => binding'[UserOf[t]] = t
      <4>1. CASE t = s
        BY <4>1, <3>1
      <4>2. CASE t # s
        BY <4>2, <2>1, <2>2, <2>4, <3>3 DEF TypeOK
      <4>3. QED
        BY <4>1, <4>2
    <3>5. QED
      BY <2>1, <2>2, <3>3, <3>4
  <2>5. QED
    BY <1>5, <2>3, <2>4 DEF TryBindUser
<1>6. ASSUME NEW s \in Sessions, LoginRefused(s)
      PROVE  Holds(t)'
  <2>1. t \in registered /\ Holds(t) /\ UNCHANGED <<binding, userUID>>
    BY <1>0, <1>6 DEF LoginRefused, managerVars
  <2>2. loginTask'[t] = loginTask[t] \/ loginTask'[t] = "none"
    BY <1>6, <2>1 DEF LoginRefused, TypeOK
  <2>3. QED
    BY <2>1, <2>2
<1>7. ASSUME NEW s \in Sessions, LoginDone(s)
      PROVE  Holds(t)'
  <2>1. t \in registered /\ Holds(t) /\ binding' = binding /\ t \in Sessions
    BY <1>0, <1>7 DEF LoginDone, managerVars, TypeOK
  <2>2. CASE t = s
    BY <2>1, <2>2, <1>7 DEF LoginDone, TypeOK
  <2>3. CASE t # s
    BY <2>1, <2>3, <1>7 DEF LoginDone, TypeOK
  <2>4. QED
    BY <2>2, <2>3
<1>8. CASE UNCHANGED <<registered, binding, loginTask, userUID>>
  BY <1>0, <1>8
<1>9. QED
  BY <1>1, <1>2, <1>3, <1>4, <1>5, <1>6, <1>7, <1>8, BindingActions

-----------------------------------------------------------------------------
\* Nobody is locked out.

\* What has been queued behind the job of Close does not hide it.
LEMMA AppendKeepsClose ==
  ASSUME NEW q \in Seq(Job), NEW job \in Job,
         job = "close" \/ \E n \in DOMAIN q : q[n] = "close"
  PROVE  \E n \in DOMAIN Append(q, job) : Append(q, job)[n] = "close"
<1>1. CASE job = "close"
  <2>1. Len(q) + 1 \in DOMAIN Append(q, job) /\ Append(q, job)[Len(q) + 1] = job
    OBVIOUS
  <2>2. QED
    BY <1>1, <2>1
<1>2. CASE \E n \in DOMAIN q : q[n] = "close"
  <2>1. PICK n \in DOMAIN q : q[n] = "close"
    BY <1>2
  <2>2. n \in DOMAIN Append(q, job) /\ Append(q, job)[n] = q[n]
    OBVIOUS
  <2>3. QED
    BY <2>1, <2>2
<1>3. QED
  BY <1>1, <1>2

\* Another handler in front of it is taken without it.
LEMMA TailKeepsClose ==
  ASSUME NEW q \in Seq(Job), q # <<>>, Head(q) # "close",
         \E n \in DOMAIN q : q[n] = "close"
  PROVE  \E n \in DOMAIN Tail(q) : Tail(q)[n] = "close"
<1>1. PICK n \in DOMAIN q : q[n] = "close"
  OBVIOUS
<1>2. n \in 2..Len(q)
  BY <1>1
<1>3. n - 1 \in DOMAIN Tail(q) /\ Tail(q)[n - 1] = q[n]
  BY <1>2
<1>4. QED
  BY <1>1, <1>3

\* What a step may do to session t, as far as its closing is concerned.
Untouched(t) ==
  connected'[t] = connected[t] /\ strand'[t] = strand[t]
Queued(t) ==
  connected'[t] = connected[t] /\ \E job \in Job : strand'[t] = Append(strand[t], job)
Handled(t) ==
  /\ connected'[t] = connected[t]
  /\ strand[t] # <<>>
  /\ Head(strand[t]) # "close"
  /\ strand'[t] = Tail(strand[t])
Closed(t) ==
  \/ strand'[t] = Append(strand[t], "close")
  \/ strand[t] # <<>> /\ strand'[t] = Append(Tail(strand[t]), "close")

\* Whoever finds the flag set queues the job.
LEMMA CloseEffect ==
  ASSUME TypeOK, NEW s, Close(s), NEW t \in Sessions
  PROVE  Untouched(t) \/ Closed(t)
BY DEF Close, Post, Untouched, Closed, TypeOK

\* The effect of each handler of session s on session t.
LEMMA HandlerEffect ==
  ASSUME TypeOK, NEW s \in Sessions, Handler(s), NEW t \in Sessions
  PROVE  \/ t \notin registered'
         \/ registered' = registered /\ (Untouched(t) \/ Handled(t) \/ Closed(t))
         \/ t # s /\ Untouched(t) /\ registered' \subseteq registered
<1>1. ASSUME NEW job, job # "close", NextHandler(s, job)
      PROVE  \/ strand'[t] = strand[t]
             \/ strand[t] # <<>> /\ Head(strand[t]) # "close" /\ strand'[t] = Tail(strand[t])
  BY <1>1 DEF NextHandler, TypeOK
<1>2. CASE RouteLogin(s)
  BY <1>1, <1>2 DEF RouteLogin, managerVars, Untouched, Handled
<1>3. CASE RouteCreate(s)
  BY <1>1, <1>3 DEF RouteCreate, managerVars, Untouched, Handled
<1>4. CASE RouteSelect(s)
  BY <1>1, <1>4 DEF RouteSelect, managerVars, Untouched, Handled
<1>5. CASE RouteReady(s)
  BY <1>1, <1>5 DEF RouteReady, managerVars, sessionVars, Untouched, Handled
<1>6. CASE HandleReadError(s)
  <2>1. registered' = registered
    BY <1>6 DEF HandleReadError, managerVars
  <2>2. CASE t = s /\ connected[s]
    BY <1>6, <2>1, <2>2 DEF HandleReadError, Closed, TypeOK
  <2>3. CASE t = s /\ ~connected[s]
    BY ZenonT(40), <1>6, <2>1, <2>3 DEF HandleReadError, Handled, TypeOK
  <2>4. CASE t # s
    BY <1>6, <2>1, <2>4 DEF HandleReadError, Untouched, TypeOK
  <2>5. QED
    BY <2>2, <2>3, <2>4
<1>7. CASE CloseJob(s)
  BY <1>7 DEF CloseJob, NextHandler, Unregister, sessionVars, Untouched, TypeOK
<1>8. QED
  BY <1>2, <1>3, <1>4, <1>5, <1>6, <1>7 DEF Handler

\* The effect of any step on session t.
LEMMA CloseSteps ==
  ASSUME TypeOK, Next, NEW t \in Sessions
  PROVE  \/ t \notin registered'
         \/ connected'[t]
         \/ Closed(t)
         \/ /\ t \in registered' => t \in registered
            /\ Untouched(t) \/ Queued(t) \/ Handled(t)
<1>2. ASSUME NEW s \in Sessions, NEW packet \in Packet, Arrive(s, packet)
      PROVE  registered' = registered /\ (Untouched(t) \/ Queued(t))
  BY <1>2 DEF Arrive, Post, managerVars, sessionVars, Untouched, Queued, Job, TypeOK
<1>3. ASSUME NEW s \in Sessions, ReadFails(s)
      PROVE  registered' = registered /\ (Untouched(t) \/ Queued(t))
  BY <1>3 DEF ReadFails, Post, managerVars, sessionVars, Untouched, Queued, Job, TypeOK
<1>4. ASSUME NEW s \in Sessions, CloseFromWithin(s) \/ LoginRefused(s)
      PROVE  registered' = registered /\ (Untouched(t) \/ Closed(t))
  BY <1>4, CloseEffect DEF CloseFromWithin, LoginRefused, managerVars
<1>5. ASSUME NEW s \in Sessions,
             \/ TellZone(s) \/ LoginFails(s) \/ TryBindUser(s) \/ LoginDone(s) \/ CreateDone(s)
             \/ SelectPicks(s) \/ SelectFails(s) \/ SelectDone(s)
      PROVE  registered' = registered /\ Untouched(t)
  BY <1>5 DEF TellZone, LoginFails, TryBindUser, LoginDone, CreateDone, SelectPicks,
              SelectFails, SelectDone, managerVars, netVars, sessionVars, Untouched
<1>6. ASSUME NEW c \in Conns, CloseOrphans(c)
      PROVE  registered' = registered /\ (Untouched(t) \/ Closed(t))
  <2> DEFINE orphans == {s \in CollectSessionsInZones(Hosts[c]) : connected[s]}
  <2>1. /\ connected' = [s \in Sessions |-> connected[s] /\ s \notin orphans]
        /\ strand' = [s \in Sessions |-> IF s \in orphans THEN Append(strand[s], "close")
                                          ELSE strand[s]]
        /\ registered' = registered
    BY <1>6 DEF CloseOrphans, managerVars
  <2>2. connected[t] \in BOOLEAN
    BY DEF TypeOK
  <2> HIDE DEF orphans
  <2>3. CASE t \in orphans
    BY <2>1, <2>3 DEF Closed
  <2>4. CASE t \notin orphans
    <3>1. connected'[t] = connected[t]
      BY <2>1, <2>2, <2>4
    <3>2. QED
      BY <2>1, <2>4, <3>1 DEF Untouched
  <2>5. QED
    BY <2>3, <2>4
<1>7. ASSUME NEW c \in Conns, ZoneConn(c)
      PROVE  registered' = registered /\ (Untouched(t) \/ Closed(t))
  <2>1. CASE OnZoneLeaveCompleted(c)
    BY <2>1, CloseEffect DEF OnZoneLeaveCompleted, managerVars, Untouched
  <2>2. CASE ~OnZoneLeaveCompleted(c)
    BY <1>7, <2>2 DEF ZoneConn, Handshake, ConnBreaks, ConnClose, UnregisterZones, ZoneReceives,
                      ZonePortal, managerVars, netVars, sessionVars, Untouched
  <2>3. QED
    BY <2>1, <2>2
<1>8. CASE \E s \in Sessions : Handler(s)
  BY <1>8, HandlerEffect
<1>9. CASE \E s \in Sessions : Accept(s)
  <2>1. PICK s \in Sessions : Accept(s)
    BY <1>9
  <2>2. CASE t = s
    BY <2>1, <2>2 DEF Accept, TypeOK
  <2>3. CASE t # s
    <3>1. Untouched(t)
      BY <2>1, <2>3 DEF Accept, Untouched, TypeOK
    <3>2. t \in registered' => t \in registered
      BY <2>1, <2>3 DEF Accept
    <3>3. QED
      BY <3>1, <3>2
  <2>4. QED
    BY <2>2, <2>3
<1>10. QED
  BY <1>2, <1>3, <1>4, <1>5, <1>6, <1>7, <1>8, <1>9 DEF Next, Client, DbTask

\* A step that leaves a session closed and registered leaves its job of Close queued.
LEMMA ClosedStep ==
  ASSUME TypeOK, TypeOK', ClosedWillUnregister, Next
  PROVE  ClosedWillUnregister'
<1> SUFFICES ASSUME NEW t \in registered', ~connected'[t]
             PROVE  WillClose(t)'
  BY DEF ClosedWillUnregister
<1>1. t \in Sessions
  BY DEF TypeOK
<1>2. strand[t] \in Seq(Job)
  BY <1>1 DEF TypeOK
<1>3. CASE Closed(t)
  <2>1. CASE strand'[t] = Append(strand[t], "close")
    BY <1>2, <2>1, AppendKeepsClose DEF WillClose, Job
  <2>2. CASE strand[t] # <<>> /\ strand'[t] = Append(Tail(strand[t]), "close")
    <3>1. Tail(strand[t]) \in Seq(Job)
      BY <1>2, <2>2
    <3>2. QED
      BY <2>2, <3>1, AppendKeepsClose DEF WillClose, Job
  <2>3. QED
    BY <1>3, <2>1, <2>2 DEF Closed
<1>4. CASE (t \in registered' => t \in registered) /\ (Untouched(t) \/ Queued(t) \/ Handled(t))
  <2>1. ~connected[t]
    BY <1>4 DEF Untouched, Queued, Handled
  <2>2. \E n \in DOMAIN strand[t] : strand[t][n] = "close"
    BY <1>4, <2>1 DEF ClosedWillUnregister, WillClose
  <2>3. CASE Untouched(t)
    BY <2>2, <2>3 DEF Untouched, WillClose
  <2>4. CASE Queued(t)
    <3>1. PICK job \in Job : strand'[t] = Append(strand[t], job)
      BY <2>4 DEF Queued
    <3>2. QED
      BY <1>2, <2>2, <3>1, AppendKeepsClose DEF WillClose
  <2>5. CASE Handled(t)
    <3>1. strand[t] # <<>> /\ Head(strand[t]) # "close" /\ strand'[t] = Tail(strand[t])
      BY <2>5 DEF Handled
    <3>2. QED
      BY <1>2, <2>2, <3>1, TailKeepsClose DEF WillClose
  <2>6. QED
    BY <1>4, <2>3, <2>4, <2>5
<1>5. QED
  BY <1>1, <1>3, <1>4, CloseSteps

-----------------------------------------------------------------------------
\* A new gateway has no session and no zone server.
LEMMA InitIInv == Init => IInv
<1> SUFFICES ASSUME Init PROVE IInv
  OBVIOUS
<1>1. TypeOK
  <2>1. StartInstance[1] \in Nat /\ StartInstance \in Instances
    BY GatewayAssumption
  <2>2. QED
    BY <2>1 DEF Init, TypeOK, SessionState
<1>2. NewIsFresh /\ BoundHolds /\ RegisteredAreBound /\ ClosedWillUnregister
  BY DEF Init, NewIsFresh, BoundHolds, RegisteredAreBound, ClosedWillUnregister
<1>3. QED
  BY <1>1, <1>2 DEF IInv

\* The inductive invariant holds in every state.
THEOREM Invariance == Spec => []IInv
<1>1. ASSUME IInv, [Next]_vars
      PROVE  IInv'
  <2>1. TypeOK'
    BY <1>1, TypeStep DEF IInv
  <2>2. CASE Next
    BY <1>1, <2>1, <2>2, FreshStep, BoundStep, ClosedStep DEF IInv
  <2>3. CASE UNCHANGED vars
    BY <1>1, <2>1, <2>3 DEF IInv, NewIsFresh, BoundHolds, RegisteredAreBound,
                            ClosedWillUnregister, WillClose, vars, managerVars, netVars,
                            sessionVars, taskVars
  <2>4. QED
    BY <1>1, <2>2, <2>3
<1>2. QED
  BY InitIInv, <1>1, PTL DEF Spec

\* The variables keep their types.
THEOREM TypeCorrect == Spec => []TypeOK
BY Invariance, PTL DEF IInv

\* One live session per account, for any number of accounts, sessions and zone
\* servers: a registered session with a user holds the user's binding
\* (SessionManager.cpp:30).
THEOREM OneSession == Spec => []RegisteredAreBound
BY Invariance, PTL DEF IInv

\* A registered session that is no longer connected has the job of Close ahead of it,
\* so the account of a session that was closed by a refused login becomes free
\* (Account.cpp:183, ClientProxySession.cpp:27).
THEOREM NobodyLockedOut == Spec => []ClosedWillUnregister
BY Invariance, PTL DEF IInv

-----------------------------------------------------------------------------
(***************************************************************************)
(* A character comes in alone and its end is told.  The argument follows   *)
(* one permission per session: a client that was told to load a map may    *)
(* send one READY, the READY is queued, sent, becomes the character in an  *)
(* instance, and the character may leave, which earns the next permission. *)
(* There is never a second one, so the session's target is still the       *)
(* instance the READY went to, and the notice of the end follows it on the *)
(* same connection.                                                        *)
(***************************************************************************)

\* A task of Account holds its session's state; past the login the user is known.
TasksHoldState ==
  \A s \in Sessions :
    /\ loginTask[s] # "none" => state[s] = "LoggingIn"
    /\ createTask[s] => state[s] = "Creating"
    /\ selectTask[s] # "none" => state[s] = "Selecting"
    /\ state[s] \in {"Lobby", "Creating", "Selecting", "InGame"} => userUID[s] = UserOf[s]

\* Handlers queued on a strand.
Has(q, job) == \E n \in DOMAIN q : q[n] = job
Once(q, job) == \A m, n \in DOMAIN q : q[m] = job /\ q[n] = job => m = n
CloseBehindReady(q) ==
  \A n \in DOMAIN q : q[n] = "ready" => \E m \in DOMAIN q : m > n /\ q[m] = "close"

\* The job of Close is queued once, before the session is unregistered, and no
\* READY is queued behind it.
CloseIsLast ==
  \A s \in Sessions :
    /\ connected[s] => s \in registered
    /\ Has(strand[s], "close") => s \in registered /\ ~connected[s]
    /\ Once(strand[s], "close")
    /\ connected[s] \/ CloseBehindReady(strand[s])

\* An instance belongs to the connection that is up for it, and only such a
\* connection carries packets or has characters inside.
ConnsServe ==
  /\ \A i \in Instances : zoneServers[i] # NoConn => i \in Hosts[zoneServers[i]]
  /\ \A c \in Conns : conn[c] = "up" => \A i \in Hosts[c] : zoneServers[i] = c
  /\ \A c \in Conns : \A n \in DOMAIN toZone[c] : conn[c] = "up" /\ toZone[c][n].at \in Hosts[c]
  /\ \A i \in Instances : inside[i] # {} => \E c \in Conns : conn[c] = "up" /\ i \in Hosts[c]

\* Where the one permission of a session is: a READY queued, a READY sent, the
\* character inside, its leaving reported.
Asked(s) == Has(strand[s], "ready")
Sent(s, c, n) == n \in DOMAIN toZone[c] /\ toZone[c][n].kind = "ready" /\ toZone[c][n].s = s
IsSent(s) == \E c \in Conns : \E n \in DOMAIN toZone[c] : Sent(s, c, n)
IsInside(s) == \E i \in Instances : s \in inside[i]
Leaves(s, c, n) == n \in DOMAIN fromZone[c] /\ fromZone[c][n].s = s
HasLeft(s) == \E c \in Conns : \E n \in DOMAIN fromZone[c] : Leaves(s, c, n)

OneAtATime(s) ==
  /\ mayReady[s] => ~Asked(s)
  /\ mayReady[s] \/ Asked(s) => ~IsSent(s)
  /\ mayReady[s] \/ Asked(s) \/ IsSent(s) => ~IsInside(s)
  /\ mayReady[s] \/ Asked(s) \/ IsSent(s) \/ IsInside(s) => ~HasLeft(s) /\ state[s] = "InGame"
  /\ HasLeft(s) => state[s] = "InGame"

SentOnce(s) ==
  \A c, d \in Conns : \A m \in DOMAIN toZone[c], n \in DOMAIN toZone[d] :
    Sent(s, c, m) /\ Sent(s, d, n) => c = d /\ m = n

LeavesOnce(s) ==
  \A c, d \in Conns : \A m \in DOMAIN fromZone[c], n \in DOMAIN fromZone[d] :
    Leaves(s, c, m) /\ Leaves(s, d, n) => c = d /\ m = n

AtTarget(s) ==
  /\ \A c \in Conns : \A n \in DOMAIN toZone[c] : Sent(s, c, n) => toZone[c][n].at = target[s]
  /\ \A i \in Instances : s \in inside[i] => i = target[s]

OnePermission ==
  \A s \in Sessions :
    OneAtATime(s) /\ Once(strand[s], "ready") /\ SentOnce(s) /\ LeavesOnce(s) /\ AtTarget(s)

\* Is the end of s still to be told?
Alive(s) == s \in registered \/ io = <<"bye", s>>
\* Is the end of s, in instance i, on its way behind packet m?
Farewell(s, i, c, m, k) ==
  /\ k \in DOMAIN toZone[c] /\ k > m
  /\ toZone[c][k].kind = "bye" /\ toZone[c][k].at = i /\ toZone[c][k].s = s

\* The end of a session follows its READY, and its character, on their connection.
EndsFollow ==
  \A s \in Sessions :
    /\ \A i \in Instances : s \in inside[i] =>
         Alive(s) \/ \E c \in Conns : \E k \in DOMAIN toZone[c] : Farewell(s, i, c, 0, k)
    /\ \A c \in Conns : \A m \in DOMAIN toZone[c] : Sent(s, c, m) =>
         Alive(s) \/ \E k \in DOMAIN toZone[c] : Farewell(s, toZone[c][m].at, c, m, k)

\* Whoever of the same account came before is sent off before a READY arrives.
EndsComeFirst ==
  \A c \in Conns : \A s, t \in Sessions : \A n \in DOMAIN toZone[c] :
    Sent(s, c, n) /\ t # s /\ UserOf[t] = UserOf[s] =>
      /\ \A i \in Hosts[c] : t \in inside[i] =>
           \E k \in DOMAIN toZone[c] : k < n /\ Farewell(t, i, c, 0, k)
      /\ \A m \in DOMAIN toZone[c] : m < n /\ Sent(t, c, m) =>
           \E k \in DOMAIN toZone[c] : k < n /\ Farewell(t, toZone[c][m].at, c, m, k)

PInv == TasksHoldState /\ CloseIsLast /\ ConnsServe /\ OnePermission /\ EndsFollow /\ EndsComeFirst

-----------------------------------------------------------------------------
\* Only these actions touch the tasks of Account, the state or the user of a session.
LEMMA TaskActions ==
  ASSUME Next
  PROVE  \/ \E s \in Sessions : RouteLogin(s) \/ RouteCreate(s) \/ RouteSelect(s) \/ DbTask(s)
         \/ UNCHANGED <<state, userUID, taskVars>>
<1>1. ASSUME NEW s \in Sessions, Client(s) \/ ReadFails(s)
      PROVE  UNCHANGED <<state, userUID, taskVars>>
  BY <1>1 DEF Client, Accept, CloseFromWithin, ReadFails, Arrive, sessionVars
<1>2. ASSUME NEW s \in Sessions,
             RouteReady(s) \/ HandleReadError(s) \/ CloseJob(s) \/ TellZone(s)
      PROVE  UNCHANGED <<state, userUID, taskVars>>
  BY <1>2 DEF RouteReady, HandleReadError, CloseJob, TellZone, sessionVars
<1>3. ASSUME NEW c \in Conns, ZoneConn(c) \/ CloseOrphans(c)
      PROVE  UNCHANGED <<state, userUID, taskVars>>
  BY <1>3 DEF ZoneConn, CloseOrphans, Handshake, ConnBreaks, ConnClose, UnregisterZones,
              OnZoneLeaveCompleted, ZoneReceives, ZonePortal, sessionVars
<1>4. QED
  BY <1>1, <1>2, <1>3 DEF Next, Handler

\* A task changes the state it holds only to end.
LEMMA TasksStep ==
  ASSUME TypeOK, TasksHoldState, Next
  PROVE  TasksHoldState'
<1> SUFFICES ASSUME NEW t \in Sessions
             PROVE  /\ loginTask'[t] # "none" => state'[t] = "LoggingIn"
                    /\ createTask'[t] => state'[t] = "Creating"
                    /\ selectTask'[t] # "none" => state'[t] = "Selecting"
                    /\ state'[t] \in {"Lobby", "Creating", "Selecting", "InGame"} =>
                         userUID'[t] = UserOf[t]
  BY DEF TasksHoldState
<1>0. /\ loginTask[t] # "none" => state[t] = "LoggingIn"
      /\ createTask[t] => state[t] = "Creating"
      /\ selectTask[t] # "none" => state[t] = "Selecting"
      /\ state[t] \in {"Lobby", "Creating", "Selecting", "InGame"} => userUID[t] = UserOf[t]
  BY DEF TasksHoldState
<1>1. ASSUME NEW s \in Sessions, RouteLogin(s)
      PROVE  /\ UNCHANGED <<userUID, createTask, selectTask>>
             /\ \/ state'[t] = state[t] /\ loginTask'[t] = loginTask[t]
                \/ state[t] = "Connected" /\ state'[t] = "LoggingIn"
  BY <1>1 DEF RouteLogin, TypeOK
<1>2. ASSUME NEW s \in Sessions, RouteCreate(s)
      PROVE  /\ UNCHANGED <<userUID, loginTask, selectTask>>
             /\ \/ state'[t] = state[t] /\ createTask'[t] = createTask[t]
                \/ state[t] = "Lobby" /\ state'[t] = "Creating"
  BY <1>2 DEF RouteCreate, TypeOK
<1>3. ASSUME NEW s \in Sessions, RouteSelect(s)
      PROVE  /\ UNCHANGED <<userUID, loginTask, createTask>>
             /\ \/ state'[t] = state[t] /\ selectTask'[t] = selectTask[t]
                \/ state[t] = "Lobby" /\ state'[t] = "Selecting"
  BY <1>3 DEF RouteSelect, TypeOK
<1>4. ASSUME NEW s \in Sessions, LoginFails(s) \/ TryBindUser(s) \/ LoginRefused(s) \/ LoginDone(s)
      PROVE  /\ UNCHANGED <<createTask, selectTask>>
             /\ \/ /\ loginTask[t] # "none"
                   /\ \/ loginTask'[t] = "none" /\ state'[t] \in {"Connected", "Lobby"}
                      \/ state'[t] = state[t]
                   /\ \/ state'[t] \in {"Connected", "LoggingIn"}
                      \/ userUID'[t] = UserOf[t]
                \/ UNCHANGED <<state[t], loginTask[t], userUID[t]>>
  <2>1. CASE LoginFails(s)
    BY <2>1 DEF LoginFails, TypeOK
  <2>2. CASE TryBindUser(s)
    BY <1>0, <2>2 DEF TryBindUser, sessionVars, TypeOK
  <2>3. CASE LoginRefused(s)
    BY <2>3 DEF LoginRefused, TypeOK
  <2>4. CASE LoginDone(s)
    BY <2>4 DEF LoginDone, TypeOK
  <2>5. QED
    BY <1>4, <2>1, <2>2, <2>3, <2>4
<1>5. ASSUME NEW s \in Sessions, CreateDone(s)
      PROVE  /\ UNCHANGED <<userUID, loginTask, selectTask>>
             /\ \/ state'[t] = state[t] /\ createTask'[t] = createTask[t]
                \/ createTask[t] /\ ~createTask'[t] /\ state'[t] = "Lobby"
  BY <1>5 DEF CreateDone, TypeOK
<1>6. ASSUME NEW s \in Sessions, SelectPicks(s) \/ SelectFails(s) \/ SelectDone(s)
      PROVE  /\ UNCHANGED <<userUID, loginTask, createTask>>
             /\ \/ state'[t] = state[t] /\ selectTask'[t] = selectTask[t]
                \/ state'[t] = state[t] /\ selectTask[t] # "none"
                \/ selectTask[t] # "none" /\ selectTask'[t] = "none"
                   /\ state'[t] \in {"Lobby", "InGame"}
  BY <1>6 DEF SelectPicks, SelectFails, SelectDone, sessionVars, TypeOK
<1>7. ASSUME NEW s \in Sessions, DbTask(s)
      PROVE  /\ loginTask'[t] # "none" => state'[t] = "LoggingIn"
             /\ createTask'[t] => state'[t] = "Creating"
             /\ selectTask'[t] # "none" => state'[t] = "Selecting"
             /\ state'[t] \in {"Lobby", "Creating", "Selecting", "InGame"} =>
                  userUID'[t] = UserOf[t]
  BY <1>0, <1>4, <1>5, <1>6, <1>7 DEF DbTask
<1>8. CASE UNCHANGED <<state, userUID, taskVars>>
  BY <1>0, <1>8 DEF taskVars
<1>9. QED
  BY <1>0, <1>1, <1>2, <1>3, <1>7, <1>8, TaskActions

-----------------------------------------------------------------------------
\* Queues of handlers.

LEMMA AppendIs ==
  ASSUME NEW S, NEW q \in Seq(S), NEW x
  PROVE  /\ Append(q, x)[Len(q) + 1] = x
         /\ Len(q) + 1 \in DOMAIN Append(q, x)
         /\ \A n \in DOMAIN q : n \in DOMAIN Append(q, x) /\ Append(q, x)[n] = q[n] /\ n < Len(q) + 1
         /\ \A n \in DOMAIN Append(q, x) : n \in DOMAIN q \/ n = Len(q) + 1
         /\ \A n \in DOMAIN q : n \in Nat
         /\ DOMAIN q \subseteq Nat /\ DOMAIN Append(q, x) \subseteq Nat
OBVIOUS

LEMMA TailIs ==
  ASSUME NEW S, NEW q \in Seq(S), q # <<>>
  PROVE  /\ \A n \in DOMAIN Tail(q) : n + 1 \in DOMAIN q /\ Tail(q)[n] = q[n + 1]
         /\ \A n \in DOMAIN q : n # 1 => n - 1 \in DOMAIN Tail(q) /\ Tail(q)[n - 1] = q[n]
         /\ 1 \in DOMAIN q /\ q[1] = Head(q)
         /\ DOMAIN q \subseteq Nat \ {0} /\ DOMAIN Tail(q) \subseteq Nat \ {0}
OBVIOUS

\* Queueing a handler.
LEMMA HasAppend ==
  ASSUME NEW S, NEW q \in Seq(S), NEW x, NEW job
  PROVE  /\ Has(Append(q, x), job) <=> x = job \/ Has(q, job)
         /\ Once(q, job) /\ (x = job => ~Has(q, job)) => Once(Append(q, x), job)
<1>1. Has(Append(q, x), job) <=> x = job \/ Has(q, job)
  BY AppendIs DEF Has
<1>2. ASSUME Once(q, job), x = job => ~Has(q, job)
      PROVE  Once(Append(q, x), job)
  BY <1>2, AppendIs DEF Once, Has
<1>3. QED
  BY <1>1, <1>2

\* Taking one.
LEMMA HasTail ==
  ASSUME NEW S, NEW q \in Seq(S), q # <<>>, NEW job
  PROVE  /\ Has(Tail(q), job) => Has(q, job)
         /\ Has(q, job) => Head(q) = job \/ Has(Tail(q), job)
         /\ Once(q, job) => Once(Tail(q), job)
         /\ Once(q, job) /\ Head(q) = job => ~Has(Tail(q), job)
<1>1. Has(Tail(q), job) => Has(q, job)
  BY TailIs DEF Has
<1>2. Has(q, job) => Head(q) = job \/ Has(Tail(q), job)
  BY ZenonT(40), TailIs DEF Has
<1>3. ASSUME Once(q, job)
      PROVE  Once(Tail(q), job)
  <2> SUFFICES ASSUME NEW m \in DOMAIN Tail(q), NEW n \in DOMAIN Tail(q),
                      Tail(q)[m] = job, Tail(q)[n] = job
               PROVE  m = n
    BY DEF Once
  <2>1. m + 1 \in DOMAIN q /\ n + 1 \in DOMAIN q /\ q[m + 1] = job /\ q[n + 1] = job
    BY TailIs
  <2>2. m + 1 = n + 1
    BY <1>3, <2>1 DEF Once
  <2>3. m \in Nat /\ n \in Nat
    BY TailIs
  <2>4. QED
    BY <2>2, <2>3
<1>4. ASSUME Once(q, job), Head(q) = job, Has(Tail(q), job)
      PROVE  FALSE
  <2>1. PICK n \in DOMAIN Tail(q) : Tail(q)[n] = job
    BY <1>4 DEF Has
  <2>2. n + 1 \in DOMAIN q /\ q[n + 1] = job /\ 1 \in DOMAIN q /\ q[1] = job
    BY <1>4, <2>1, TailIs
  <2>3. n + 1 = 1
    BY <1>4, <2>2 DEF Once
  <2>4. n \in Nat \ {0}
    BY TailIs
  <2>5. QED
    BY <2>3, <2>4
<1>5. QED
  BY <1>1, <1>2, <1>3, <1>4

\* A job of Close behind every READY stays there.
LEMMA BehindAppend ==
  ASSUME NEW S, NEW q \in Seq(S), NEW x
  PROVE  /\ CloseBehindReady(q) /\ x # "ready" => CloseBehindReady(Append(q, x))
         /\ x = "close" => CloseBehindReady(Append(q, x))
<1>1. ASSUME CloseBehindReady(q), x # "ready"
      PROVE  CloseBehindReady(Append(q, x))
  BY <1>1, AppendIs DEF CloseBehindReady
<1>2. ASSUME x = "close"
      PROVE  CloseBehindReady(Append(q, x))
  <2> SUFFICES ASSUME NEW n \in DOMAIN Append(q, x), Append(q, x)[n] = "ready"
               PROVE  \E m \in DOMAIN Append(q, x) : m > n /\ Append(q, x)[m] = "close"
    BY DEF CloseBehindReady
  <2>1. n \in DOMAIN q
    BY <1>2, AppendIs
  <2>2. n < Len(q) + 1 /\ Len(q) + 1 \in Nat /\ n \in Nat
    BY <2>1, AppendIs
  <2>3. QED
    BY <1>2, <2>2, AppendIs
<1>3. QED
  BY <1>1, <1>2

LEMMA BehindTail ==
  ASSUME NEW S, NEW q \in Seq(S), q # <<>>, CloseBehindReady(q)
  PROVE  CloseBehindReady(Tail(q))
<1> SUFFICES ASSUME NEW n \in DOMAIN Tail(q), Tail(q)[n] = "ready"
             PROVE  \E m \in DOMAIN Tail(q) : m > n /\ Tail(q)[m] = "close"
  BY DEF CloseBehindReady
<1>1. n \in Nat \ {0} /\ n + 1 \in DOMAIN q /\ q[n + 1] = "ready"
  BY TailIs
<1>2. PICK m \in DOMAIN q : m > n + 1 /\ q[m] = "close"
  BY <1>1 DEF CloseBehindReady
<1>3. m \in Nat /\ m # 1 /\ m - 1 > n
  BY <1>1, <1>2, TailIs
<1>4. m - 1 \in DOMAIN Tail(q) /\ Tail(q)[m - 1] = "close"
  BY <1>2, <1>3, TailIs
<1>5. QED
  BY <1>3, <1>4

\* What a step may do to session t, in all detail.
Registration(t) == t \in registered' <=> t \in registered
Accepted(t) == strand[t] = <<>> /\ strand'[t] = <<>> /\ connected'[t] /\ t \in registered'
Posted(t) ==
  /\ connected'[t] = connected[t]
  /\ \E job \in Job \ {"close"} :
       (job = "ready" => connected[t] /\ Arrive(t, "ready")) /\ strand'[t] = Append(strand[t], job)
Shut(t) ==
  /\ connected[t] /\ ~connected'[t]
  /\ \/ strand'[t] = Append(strand[t], "close")
     \/ /\ strand[t] # <<>> /\ Head(strand[t]) = "error"
        /\ strand'[t] = Append(Tail(strand[t]), "close")
Ended(t) ==
  /\ connected'[t] = connected[t]
  /\ strand[t] # <<>> /\ Head(strand[t]) = "close" /\ strand'[t] = Tail(strand[t])
  /\ t \notin registered'

LEMMA CloseShuts ==
  ASSUME TypeOK, NEW s, Close(s), NEW t \in Sessions
  PROVE  Untouched(t) \/ Shut(t)
BY DEF Close, Post, Untouched, Shut, TypeOK

LEMMA HandlerShuts ==
  ASSUME TypeOK, NEW s \in Sessions, Handler(s), NEW t \in Sessions
  PROVE  \/ Registration(t) /\ (Untouched(t) \/ Handled(t) \/ Shut(t))
         \/ Ended(t)
<1>1. ASSUME NEW job, job # "close", NextHandler(s, job)
      PROVE  \/ strand'[t] = strand[t]
             \/ strand[t] # <<>> /\ Head(strand[t]) # "close" /\ strand'[t] = Tail(strand[t])
  BY <1>1 DEF NextHandler, TypeOK
<1>2. CASE RouteLogin(s)
  BY <1>1, <1>2 DEF RouteLogin, managerVars, Untouched, Handled, Registration
<1>3. CASE RouteCreate(s)
  BY <1>1, <1>3 DEF RouteCreate, managerVars, Untouched, Handled, Registration
<1>4. CASE RouteSelect(s)
  BY <1>1, <1>4 DEF RouteSelect, managerVars, Untouched, Handled, Registration
<1>5. CASE RouteReady(s)
  BY <1>1, <1>5 DEF RouteReady, managerVars, sessionVars, Untouched, Handled, Registration
<1>6. CASE HandleReadError(s)
  <2>1. Registration(t)
    BY <1>6 DEF HandleReadError, managerVars, Registration
  <2>2. CASE t = s /\ connected[s]
    BY <1>6, <2>1, <2>2 DEF HandleReadError, Shut, TypeOK
  <2>3. CASE t = s /\ ~connected[s]
    BY ZenonT(40), <1>6, <2>1, <2>3 DEF HandleReadError, Handled, TypeOK
  <2>4. CASE t # s
    BY <1>6, <2>1, <2>4 DEF HandleReadError, Untouched, TypeOK
  <2>5. QED
    BY <2>2, <2>3, <2>4
<1>7. CASE CloseJob(s)
  <2>1. CASE t = s
    BY <1>7, <2>1 DEF CloseJob, NextHandler, Unregister, sessionVars, Ended, TypeOK
  <2>2. CASE t # s
    BY <1>7, <2>2 DEF CloseJob, NextHandler, Unregister, sessionVars, Untouched, Registration, TypeOK
  <2>3. QED
    BY <2>1, <2>2
<1>8. QED
  BY <1>2, <1>3, <1>4, <1>5, <1>6, <1>7 DEF Handler

LEMMA StrandSteps ==
  ASSUME TypeOK, NewIsFresh, ReadsAfterClose = FALSE, Next, NEW t \in Sessions
  PROVE  \/ Registration(t) /\ (Untouched(t) \/ Posted(t) \/ Handled(t) \/ Shut(t))
         \/ Accepted(t)
         \/ Ended(t)
<1>1. ASSUME NEW s \in Sessions, Accept(s)
      PROVE  Accepted(t) \/ (Registration(t) /\ Untouched(t))
  <2>1. CASE t = s
    BY <1>1, <2>1 DEF Accept, NewIsFresh, Accepted, TypeOK
  <2>2. CASE t # s
    BY <1>1, <2>2 DEF Accept, Registration, Untouched, TypeOK
  <2>3. QED
    BY <2>1, <2>2
<1>2. ASSUME NEW s \in Sessions, NEW packet \in Packet, Arrive(s, packet)
      PROVE  Registration(t) /\ (Untouched(t) \/ Posted(t))
  <2>1. packet \in Job \ {"close"}
    BY DEF Packet, Job
  <2>2. connected[s] /\ strand' = Post(strand, s, packet) /\ connected' = connected
    BY <1>2 DEF Arrive, sessionVars
  <2>3. Registration(t)
    BY <1>2 DEF Arrive, managerVars, Registration
  <2>4. CASE t = s
    <3>1. packet = "ready" => connected[t] /\ Arrive(t, "ready")
      BY <1>2, <2>2, <2>4
    <3>2. strand'[t] = Append(strand[t], packet) /\ connected'[t] = connected[t]
      BY <2>2, <2>4 DEF Post, TypeOK
    <3>3. QED
      BY <2>1, <2>3, <3>1, <3>2 DEF Posted
  <2>5. CASE t # s
    BY <2>2, <2>3, <2>5 DEF Post, Untouched, TypeOK
  <2>6. QED
    BY <2>4, <2>5
<1>3. ASSUME NEW s \in Sessions, ReadFails(s)
      PROVE  Registration(t) /\ (Untouched(t) \/ Posted(t))
  <2>1. "error" \in Job \ {"close"}
    BY DEF Job
  <2>2. strand' = Post(strand, s, "error") /\ connected' = connected
    BY <1>3 DEF ReadFails, sessionVars
  <2>3. Registration(t)
    BY <1>3 DEF ReadFails, managerVars, Registration
  <2>4. CASE t = s
    BY <2>1, <2>2, <2>3, <2>4 DEF Post, Posted, TypeOK
  <2>5. CASE t # s
    BY <2>2, <2>3, <2>5 DEF Post, Untouched, TypeOK
  <2>6. QED
    BY <2>4, <2>5
<1>4. ASSUME NEW s \in Sessions, CloseFromWithin(s) \/ LoginRefused(s)
      PROVE  Registration(t) /\ (Untouched(t) \/ Shut(t))
  BY <1>4, CloseShuts DEF CloseFromWithin, LoginRefused, managerVars, Registration
<1>5. ASSUME NEW s \in Sessions,
             \/ TellZone(s) \/ LoginFails(s) \/ TryBindUser(s) \/ LoginDone(s) \/ CreateDone(s)
             \/ SelectPicks(s) \/ SelectFails(s) \/ SelectDone(s)
      PROVE  Registration(t) /\ Untouched(t)
  BY <1>5 DEF TellZone, LoginFails, TryBindUser, LoginDone, CreateDone, SelectPicks,
              SelectFails, SelectDone, managerVars, netVars, sessionVars, Untouched, Registration
<1>6. ASSUME NEW c \in Conns, CloseOrphans(c)
      PROVE  Registration(t) /\ (Untouched(t) \/ Shut(t))
  <2> DEFINE orphans == {s \in CollectSessionsInZones(Hosts[c]) : connected[s]}
  <2>1. /\ connected' = [s \in Sessions |-> connected[s] /\ s \notin orphans]
        /\ strand' = [s \in Sessions |-> IF s \in orphans THEN Append(strand[s], "close")
                                          ELSE strand[s]]
        /\ registered' = registered
    BY <1>6 DEF CloseOrphans, managerVars
  <2>2. connected[t] \in BOOLEAN /\ (t \in orphans => connected[t])
    BY DEF TypeOK
  <2> HIDE DEF orphans
  <2>3. CASE t \in orphans
    BY <2>1, <2>2, <2>3 DEF Shut, Registration
  <2>4. CASE t \notin orphans
    <3>1. connected'[t] = connected[t]
      BY <2>1, <2>2, <2>4
    <3>2. QED
      BY <2>1, <2>4, <3>1 DEF Untouched, Registration
  <2>5. QED
    BY <2>3, <2>4
<1>7. ASSUME NEW c \in Conns, ZoneConn(c)
      PROVE  Registration(t) /\ (Untouched(t) \/ Shut(t))
  <2>1. CASE OnZoneLeaveCompleted(c)
    BY <2>1, CloseShuts DEF OnZoneLeaveCompleted, managerVars, Untouched, Registration
  <2>2. CASE ~OnZoneLeaveCompleted(c)
    BY <1>7, <2>2 DEF ZoneConn, Handshake, ConnBreaks, ConnClose, UnregisterZones, ZoneReceives,
                      ZonePortal, managerVars, netVars, sessionVars, Untouched, Registration
  <2>3. QED
    BY <2>1, <2>2
<1>8. CASE \E s \in Sessions : Handler(s)
  BY <1>8, HandlerShuts
<1>10. QED
  BY <1>1, <1>2, <1>3, <1>4, <1>5, <1>6, <1>7, <1>8 DEF Next, Client, DbTask

\* The job of Close stays last.
LEMMA CloseLastStep ==
  ASSUME TypeOK, TypeOK', NewIsFresh, ReadsAfterClose = FALSE, CloseIsLast, Next
  PROVE  CloseIsLast'
<1> SUFFICES ASSUME NEW t \in Sessions
             PROVE  /\ connected'[t] => t \in registered'
                    /\ Has(strand'[t], "close") => t \in registered' /\ ~connected'[t]
                    /\ Once(strand'[t], "close")
                    /\ connected'[t] \/ CloseBehindReady(strand'[t])
  BY DEF CloseIsLast
<1> DEFINE q == strand[t]
<1>0. /\ connected[t] => t \in registered
      /\ Has(q, "close") => t \in registered /\ ~connected[t]
      /\ Once(q, "close")
      /\ connected[t] \/ CloseBehindReady(q)
  BY DEF CloseIsLast
<1>1. q \in Seq(Job)
  BY DEF TypeOK
<1>2. connected[t] \in BOOLEAN /\ connected'[t] \in BOOLEAN
  BY DEF TypeOK
<1>3. CASE Registration(t) /\ Untouched(t)
  BY <1>0, <1>3 DEF Registration, Untouched
<1>4. CASE Registration(t) /\ Posted(t)
  <2>1. PICK job \in Job \ {"close"} :
          (job = "ready" => connected[t]) /\ strand'[t] = Append(q, job)
    BY <1>4 DEF Posted
  <2>2. connected'[t] = connected[t]
    BY <1>4 DEF Posted
  <2> HIDE DEF q
  <2>3. (Has(strand'[t], "close") => Has(q, "close")) /\ Once(strand'[t], "close")
    BY <1>0, <1>1, <2>1, HasAppend
  <2>4. connected[t] \/ CloseBehindReady(strand'[t])
    BY <1>0, <1>1, <2>1, BehindAppend
  <2>5. QED
    BY <1>0, <1>4, <2>2, <2>3, <2>4 DEF Registration
<1>5. CASE Registration(t) /\ Handled(t)
  <2>1. q # <<>> /\ strand'[t] = Tail(q) /\ connected'[t] = connected[t]
    BY <1>5 DEF Handled
  <2> HIDE DEF q
  <2>2. (Has(strand'[t], "close") => Has(q, "close")) /\ Once(strand'[t], "close")
    BY <1>0, <1>1, <2>1, HasTail
  <2>3. connected[t] \/ CloseBehindReady(strand'[t])
    BY <1>0, <1>1, <2>1, BehindTail
  <2>4. QED
    BY <1>0, <1>5, <2>1, <2>2, <2>3 DEF Registration
<1>6. CASE Registration(t) /\ Shut(t)
  <2>1. connected[t] /\ ~connected'[t] /\ t \in registered'
    BY <1>0, <1>6 DEF Shut, Registration
  <2>2. ~Has(q, "close")
    BY <1>0, <2>1
  <2>3. \E r \in Seq(Job) : strand'[t] = Append(r, "close") /\ ~Has(r, "close")
                            /\ Once(r, "close")
    <3>1. CASE strand'[t] = Append(q, "close")
      BY <1>0, <1>1, <2>2, <3>1
    <3>2. CASE strand[t] # <<>> /\ strand'[t] = Append(Tail(strand[t]), "close")
      <4>1. q # <<>> /\ Tail(q) \in Seq(Job) /\ strand'[t] = Append(Tail(q), "close")
        BY <1>1, <3>2
      <4> HIDE DEF q
      <4>2. ~Has(Tail(q), "close") /\ Once(Tail(q), "close")
        BY <1>0, <1>1, <2>2, <4>1, HasTail
      <4>3. QED
        BY <4>1, <4>2
    <3>3. QED
      BY <1>6, <3>1, <3>2 DEF Shut
  <2>4. PICK r \in Seq(Job) : strand'[t] = Append(r, "close") /\ ~Has(r, "close")
                              /\ Once(r, "close")
    BY <2>3
  <2>5. Once(strand'[t], "close")
    BY <2>4, HasAppend
  <2>6. CloseBehindReady(strand'[t])
    BY <2>4, BehindAppend
  <2>7. QED
    BY <2>1, <2>5, <2>6
<1>7. CASE Accepted(t)
  <2>1. strand'[t] = <<>> /\ connected'[t] /\ t \in registered'
    BY <1>7 DEF Accepted
  <2>2. ~Has(<<>>, "close") /\ Once(<<>>, "close")
    BY DEF Has, Once
  <2>3. QED
    BY <2>1, <2>2
<1>8. CASE Ended(t)
  <2>1. /\ q # <<>> /\ Head(q) = "close" /\ strand'[t] = Tail(q)
        /\ connected'[t] = connected[t]
    BY <1>8 DEF Ended
  <2>2. ~connected[t]
    <3>1. 1 \in DOMAIN q /\ q[1] = "close"
      BY <1>1, <2>1
    <3>2. QED
      BY <1>0, <3>1 DEF Has
  <2> HIDE DEF q
  <2>3. ~Has(strand'[t], "close") /\ Once(strand'[t], "close")
    BY <1>0, <1>1, <2>1, HasTail
  <2>4. CloseBehindReady(strand'[t])
    BY <1>0, <1>1, <2>1, <2>2, BehindTail
  <2>5. QED
    BY <2>1, <2>2, <2>3, <2>4
<1>9. QED
  BY <1>3, <1>4, <1>5, <1>6, <1>7, <1>8, StrandSteps

-----------------------------------------------------------------------------
\* Packets on their way to the zone servers.

\* A packet goes behind the others of the connection of its instance, if that is up.
LEMMA SendIs ==
  ASSUME TypeOK, NEW kind, NEW i \in Instances, NEW s, SendToZone(kind, i, s)
  PROVE  \/ /\ zoneServers[i] \in Conns => conn[zoneServers[i]] # "up"
            /\ toZone' = toZone
         \/ /\ zoneServers[i] \in Conns /\ conn[zoneServers[i]] = "up"
            /\ toZone' = [toZone EXCEPT ![zoneServers[i]] =
                            Append(@, [kind |-> kind, at |-> i, s |-> s])]
BY GatewayAssumption DEF SendToZone, TypeOK

\* What the queues of packets are after one more.
LEMMA SentBehind ==
  ASSUME TypeOK, NEW c \in Conns, NEW p, toZone' = [toZone EXCEPT ![c] = Append(@, p)]
  PROVE  /\ \A d \in Conns : \A n \in DOMAIN toZone[d] :
              n \in DOMAIN toZone'[d] /\ toZone'[d][n] = toZone[d][n]
         /\ \A d \in Conns : \A n \in DOMAIN toZone'[d] :
              n \in DOMAIN toZone[d] \/ (d = c /\ n = Len(toZone[c]) + 1)
         /\ Len(toZone[c]) + 1 \in DOMAIN toZone'[c]
         /\ toZone'[c][Len(toZone[c]) + 1] = p
         /\ \A n \in DOMAIN toZone[c] : n < Len(toZone[c]) + 1
         /\ \A d \in Conns : DOMAIN toZone[d] \subseteq Nat \ {0}
         /\ Len(toZone[c]) + 1 \in Nat \ {0}
<1>1. \A d \in Conns : toZone[d] \in Seq(ZonePacket)
  BY DEF TypeOK
<1>2. toZone'[c] = Append(toZone[c], p) /\ \A d \in Conns : d # c => toZone'[d] = toZone[d]
  BY DEF TypeOK
<1>3. \A d \in Conns : DOMAIN toZone[d] \subseteq Nat \ {0}
  BY <1>1
<1>4. Len(toZone[c]) \in Nat
  BY <1>1
<1>5. QED
  BY <1>1, <1>2, <1>3, <1>4, AppendIs

\* And after the first has been taken.
LEMMA FirstTaken ==
  ASSUME TypeOK, NEW c \in Conns, toZone[c] # <<>>, toZone' = [toZone EXCEPT ![c] = Tail(@)]
  PROVE  /\ \A d \in Conns : d # c => toZone'[d] = toZone[d]
         /\ \A n \in DOMAIN toZone'[c] :
              n + 1 \in DOMAIN toZone[c] /\ toZone'[c][n] = toZone[c][n + 1]
         /\ \A n \in DOMAIN toZone[c] :
              n # 1 => n - 1 \in DOMAIN toZone'[c] /\ toZone'[c][n - 1] = toZone[c][n]
         /\ 1 \in DOMAIN toZone[c] /\ toZone[c][1] = Head(toZone[c])
         /\ DOMAIN toZone[c] \subseteq Nat \ {0} /\ DOMAIN toZone'[c] \subseteq Nat \ {0}
<1>1. toZone[c] \in Seq(ZonePacket)
  BY DEF TypeOK
<1>2. toZone'[c] = Tail(toZone[c]) /\ \A d \in Conns : d # c => toZone'[d] = toZone[d]
  BY DEF TypeOK
<1> DEFINE q == toZone[c]
<1>3. q \in Seq(ZonePacket) /\ q # <<>>
  BY <1>1
<1>4. /\ \A n \in DOMAIN Tail(q) : n + 1 \in DOMAIN q /\ Tail(q)[n] = q[n + 1]
      /\ \A n \in DOMAIN q : n # 1 => n - 1 \in DOMAIN Tail(q) /\ Tail(q)[n - 1] = q[n]
      /\ 1 \in DOMAIN q /\ q[1] = Head(q)
      /\ DOMAIN q \subseteq Nat \ {0} /\ DOMAIN Tail(q) \subseteq Nat \ {0}
  <2> HIDE DEF q
  <2> QED BY <1>3, TailIs
<1>5. toZone'[c] = Tail(q)
  BY <1>2
<1>6. QED
  BY <1>2, <1>4, <1>5

\* The fields of a packet.
LEMMA PacketIs ==
  ASSUME TypeOK, NEW c \in Conns, NEW n \in DOMAIN toZone[c]
  PROVE  /\ toZone[c][n].kind \in {"ready", "bye"}
         /\ toZone[c][n].at \in Instances
         /\ toZone[c][n].s \in Sessions
<1>1. toZone[c] \in Seq(ZonePacket)
  BY DEF TypeOK
<1>2. toZone[c][n] \in ZonePacket
  BY <1>1
<1>3. QED
  BY <1>2 DEF ZonePacket

\* Only these actions touch the connections, their packets to the zones or who is inside.
LEMMA ZoneActions ==
  ASSUME Next
  PROVE  \/ \E s \in Sessions : RouteReady(s) \/ TellZone(s)
         \/ \E c \in Conns : \/ Handshake(c) \/ ConnBreaks(c) \/ ConnClose(c)
                             \/ UnregisterZones(c) \/ ZoneReceives(c)
                             \/ \E s \in Sessions, i, j \in Instances :
                                  i # j /\ ZonePortal(c, s, i, j[1])
         \/ UNCHANGED <<zoneServers, conn, toZone, inside>>
<1>1. ASSUME NEW s \in Sessions, Client(s) \/ ReadFails(s) \/ DbTask(s)
      PROVE  UNCHANGED <<zoneServers, conn, toZone, inside>>
  BY <1>1 DEF Client, Accept, CloseFromWithin, ReadFails, Arrive, DbTask, LoginFails, TryBindUser,
              LoginRefused, LoginDone, CreateDone, SelectPicks, SelectFails, SelectDone,
              connVars, zoneVars
<1>2. ASSUME NEW s \in Sessions,
             RouteLogin(s) \/ RouteCreate(s) \/ RouteSelect(s) \/ HandleReadError(s) \/ CloseJob(s)
      PROVE  UNCHANGED <<zoneServers, conn, toZone, inside>>
  BY <1>2 DEF RouteLogin, RouteCreate, RouteSelect, HandleReadError, CloseJob, connVars, zoneVars
<1>3. ASSUME NEW c \in Conns, CloseOrphans(c) \/ OnZoneLeaveCompleted(c)
      PROVE  UNCHANGED <<zoneServers, conn, toZone, inside>>
  BY <1>3 DEF CloseOrphans, OnZoneLeaveCompleted, connVars, zoneVars
<1>4. QED
  BY <1>1, <1>2, <1>3 DEF Next, Handler, ZoneConn

\* A packet that is sent goes to the connection that serves its instance.
LEMMA ServesPacket ==
  ASSUME TypeOK, ConnsServe, NEW kind, NEW i \in Instances, NEW s, SendToZone(kind, i, s)
  PROVE  \A d \in Conns : \A n \in DOMAIN toZone'[d] :
           conn[d] = "up" /\ toZone'[d][n].at \in Hosts[d]
<1>1. CASE toZone' = toZone
  BY <1>1 DEF ConnsServe
<1>2. CASE /\ zoneServers[i] \in Conns /\ conn[zoneServers[i]] = "up"
           /\ toZone' = [toZone EXCEPT ![zoneServers[i]] =
                           Append(@, [kind |-> kind, at |-> i, s |-> s])]
  <2> DEFINE p == [kind |-> kind, at |-> i, s |-> s]
  <2>0. PICK c \in Conns : c = zoneServers[i]
    BY <1>2
  <2>1. c \in Conns /\ conn[c] = "up" /\ i \in Hosts[c]
    BY <1>2, <2>0, GatewayAssumption DEF ConnsServe
  <2>2. toZone' = [toZone EXCEPT ![c] = Append(@, p)]
    BY <1>2, <2>0
  <2>3. p.at = i
    OBVIOUS
  <2> HIDE DEF p
  <2>4. SUFFICES ASSUME NEW d \in Conns, NEW n \in DOMAIN toZone'[d]
                 PROVE  conn[d] = "up" /\ toZone'[d][n].at \in Hosts[d]
    OBVIOUS
  <2>5. CASE n \in DOMAIN toZone[d]
    BY <2>2, <2>5, SentBehind DEF ConnsServe
  <2>6. CASE d = c /\ n = Len(toZone[c]) + 1
    BY <2>1, <2>2, <2>3, <2>6, SentBehind
  <2>7. QED
    BY <2>2, <2>5, <2>6, SentBehind
<1>3. QED
  BY <1>1, <1>2, SendIs

\* The connections go on serving their instances.
LEMMA ServeStep ==
  ASSUME TypeOK, TypeOK', ConnsServe, Next
  PROVE  ConnsServe'
<1> DEFINE S1 == \A i \in Instances : zoneServers[i] # NoConn => i \in Hosts[zoneServers[i]]
           S2 == \A c \in Conns : conn[c] = "up" => \A i \in Hosts[c] : zoneServers[i] = c
           S3 == \A c \in Conns : \A n \in DOMAIN toZone[c] :
                   conn[c] = "up" /\ toZone[c][n].at \in Hosts[c]
           S4 == \A i \in Instances : inside[i] # {} => \E c \in Conns : conn[c] = "up" /\ i \in Hosts[c]
<1>0. S1 /\ S2 /\ S3 /\ S4
  BY DEF ConnsServe
<1>h. \A c \in Conns : Hosts[c] \subseteq Instances
  BY GatewayAssumption
<1> SUFFICES S1' /\ S2' /\ S3' /\ S4'
  BY DEF ConnsServe
<1>1. ASSUME NEW s \in Sessions, RouteReady(s) \/ TellZone(s)
      PROVE  S1' /\ S2' /\ S3' /\ S4'
  <2>1. UNCHANGED <<zoneServers, conn, inside>>
    BY <1>1 DEF RouteReady, TellZone, zoneVars
  <2>2. target[s] \in Instances
    BY DEF TypeOK
  <2>3. \/ toZone' = toZone
        \/ SendToZone("ready", target[s], s)
        \/ SendToZone("bye", target[s], s)
    BY <1>1 DEF RouteReady, TellZone
  <2>4. S3'
    BY <1>0, <2>1, <2>2, <2>3, ServesPacket
  <2>5. QED
    BY <1>0, <2>1, <2>4
<1>2. ASSUME NEW c \in Conns, Handshake(c)
      PROVE  S1' /\ S2' /\ S3' /\ S4'
  <2>1. UNCHANGED <<toZone, inside>>
    BY <1>2 DEF Handshake, zoneVars
  <2>2. /\ \A d \in Conns : conn[d] = "up" => conn'[d] = "up" /\ Hosts[d] \cap Hosts[c] = {}
        /\ \A d \in Conns : conn'[d] = "up" => d = c \/ conn[d] = "up"
    BY <1>2 DEF Handshake, TypeOK
  <2>3. \A i \in Instances : zoneServers'[i] = IF i \in Hosts[c] THEN c ELSE zoneServers[i]
    BY <1>2 DEF Handshake
  <2>4. S1'
    BY <1>0, <2>3
  <2>5. S2'
    BY <1>0, <1>h, <2>2, <2>3
  <2>6. S3' /\ S4'
    BY <1>0, <2>1, <2>2
  <2>7. QED
    BY <2>4, <2>5, <2>6
<1>3. ASSUME NEW c \in Conns, ConnBreaks(c)
      PROVE  S1' /\ S2' /\ S3' /\ S4'
  <2>1. /\ zoneServers' = zoneServers
        /\ \A d \in Conns : conn'[d] = IF d = c THEN "broken" ELSE conn[d]
        /\ \A d \in Conns : toZone'[d] = IF d = c THEN <<>> ELSE toZone[d]
        /\ \A i \in Instances : inside'[i] = IF i \in Hosts[c] THEN {} ELSE inside[i]
    BY <1>3 DEF ConnBreaks, TypeOK
  <2>2. S1' /\ S2'
    BY <1>0, <2>1
  <2>3. S3'
    BY <1>0, <2>1
  <2>4. S4'
    BY <1>0, <2>1
  <2>5. QED
    BY <2>2, <2>3, <2>4
<1>4. ASSUME NEW c \in Conns, ConnClose(c) \/ UnregisterZones(c)
      PROVE  S1' /\ S2' /\ S3' /\ S4'
  <2>1. UNCHANGED <<toZone, inside>>
    BY <1>4 DEF ConnClose, UnregisterZones, zoneVars
  <2>2. \A d \in Conns : conn'[d] = "up" <=> conn[d] = "up"
    BY <1>4 DEF ConnClose, UnregisterZones, TypeOK
  <2>3. /\ conn[c] # "up"
        /\ \A i \in Instances : \/ zoneServers'[i] = zoneServers[i]
                                \/ zoneServers[i] = c /\ zoneServers'[i] = NoConn
    BY <1>4 DEF ConnClose, UnregisterZones, TypeOK
  <2>4. S1' /\ S2'
    BY <1>0, <1>h, <2>2, <2>3
  <2>5. S3' /\ S4'
    BY <1>0, <2>1, <2>2
  <2>6. QED
    BY <2>4, <2>5
<1>5. ASSUME NEW c \in Conns, ZoneReceives(c)
      PROVE  S1' /\ S2' /\ S3' /\ S4'
  <2>1. UNCHANGED <<zoneServers, conn>>
    BY <1>5 DEF ZoneReceives
  <2>2. toZone[c] # <<>> /\ toZone' = [toZone EXCEPT ![c] = Tail(@)]
    BY <1>5 DEF ZoneReceives
  <2>3. S3'
    <3>1. SUFFICES ASSUME NEW d \in Conns, NEW n \in DOMAIN toZone'[d]
                   PROVE  conn[d] = "up" /\ toZone'[d][n].at \in Hosts[d]
      BY <2>1
    <3>2. CASE d = c
      <4>1. n + 1 \in DOMAIN toZone[c] /\ toZone'[c][n] = toZone[c][n + 1]
        BY <2>2, <3>1, <3>2, FirstTaken
      <4>2. conn[c] = "up" /\ toZone[c][n + 1].at \in Hosts[c]
        BY <1>0, <4>1
      <4>3. QED
        BY <3>2, <4>1, <4>2
    <3>3. CASE d # c
      BY <1>0, <2>2, <3>3, FirstTaken
    <3>4. QED
      BY <3>2, <3>3
  <2>4. Head(toZone[c]).at \in Hosts[c] /\ conn[c] = "up"
    <3>1. 1 \in DOMAIN toZone[c] /\ toZone[c][1] = Head(toZone[c])
      BY <2>2, FirstTaken
    <3>2. conn[c] = "up" /\ toZone[c][1].at \in Hosts[c]
      BY <1>0, <3>1
    <3>3. QED
      BY <3>1, <3>2
  <2>5. \A i \in Instances : i # Head(toZone[c]).at => inside'[i] = inside[i]
    BY <1>5 DEF ZoneReceives, TypeOK
  <2>6. S4'
    BY <1>0, <2>1, <2>4, <2>5
  <2>7. QED
    BY <1>0, <2>1, <2>3, <2>6
<1>6. ASSUME NEW c \in Conns, NEW s \in Sessions, NEW i \in Instances, NEW j \in Instances,
             ZonePortal(c, s, i, j[1])
      PROVE  S1' /\ S2' /\ S3' /\ S4'
  <2>1. UNCHANGED <<zoneServers, conn, toZone>>
    BY <1>6 DEF ZonePortal
  <2>2. \A k \in Instances : inside'[k] \subseteq inside[k]
    BY <1>6 DEF ZonePortal, TypeOK
  <2>3. QED
    BY <1>0, <2>1, <2>2
<1>7. CASE UNCHANGED <<zoneServers, conn, toZone, inside>>
  BY <1>0, <1>7
<1>8. QED
  BY <1>1, <1>2, <1>3, <1>4, <1>5, <1>6, <1>7, ZoneActions

-----------------------------------------------------------------------------
\* The one permission of a session.

Perm(t) ==
  OneAtATime(t) /\ Once(strand[t], "ready") /\ SentOnce(t) /\ LeavesOnce(t) /\ AtTarget(t)

\* No new READY is queued on t's strand.
Calm(t) ==
  /\ Has(strand'[t], "ready") => Has(strand[t], "ready")
  /\ Once(strand[t], "ready") => Once(strand'[t], "ready")

LEMMA CalmKinds ==
  ASSUME TypeOK, NEW t \in Sessions,
         Untouched(t) \/ Handled(t) \/ Shut(t) \/ Ended(t) \/ Accepted(t)
  PROVE  Calm(t)
<1> DEFINE q == strand[t]
<1>1. q \in Seq(Job)
  BY DEF TypeOK
<1>2. CASE strand'[t] = q
  BY <1>2 DEF Calm
<1>3. CASE q # <<>> /\ strand'[t] = Tail(q)
  <2> HIDE DEF q
  <2>1. (Has(Tail(q), "ready") => Has(q, "ready")) /\ (Once(q, "ready") => Once(Tail(q), "ready"))
    BY <1>1, <1>3, HasTail
  <2>2. QED
    BY <1>3, <2>1 DEF Calm, q
<1>4. CASE strand'[t] = Append(q, "close")
  <2> HIDE DEF q
  <2>1. /\ Has(Append(q, "close"), "ready") => Has(q, "ready")
        /\ Once(q, "ready") => Once(Append(q, "close"), "ready")
    BY <1>1, HasAppend
  <2>2. QED
    BY <1>4, <2>1 DEF Calm, q
<1>5. CASE q # <<>> /\ strand'[t] = Append(Tail(q), "close")
  <2>1. Tail(q) \in Seq(Job)
    BY <1>1, <1>5
  <2> HIDE DEF q
  <2>2. (Has(Tail(q), "ready") => Has(q, "ready")) /\ (Once(q, "ready") => Once(Tail(q), "ready"))
    BY <1>1, <1>5, HasTail
  <2>3. /\ Has(Append(Tail(q), "close"), "ready") => Has(Tail(q), "ready")
        /\ Once(Tail(q), "ready") => Once(Append(Tail(q), "close"), "ready")
    BY <2>1, HasAppend
  <2>4. QED
    BY <1>5, <2>2, <2>3 DEF Calm, q
<1>6. QED
  BY <1>2, <1>3, <1>4, <1>5 DEF Untouched, Handled, Shut, Ended, Accepted

\* A session in the game stays there.
LEMMA StateStays ==
  ASSUME TypeOK, TasksHoldState, Next, NEW t \in Sessions
  PROVE  state'[t] = state[t] \/ state[t] # "InGame"
<1>1. ASSUME NEW s \in Sessions, RouteLogin(s) \/ RouteCreate(s) \/ RouteSelect(s)
      PROVE  state'[t] = state[t] \/ state[t] # "InGame"
  BY <1>1 DEF RouteLogin, RouteCreate, RouteSelect, TypeOK
<1>2. ASSUME NEW s \in Sessions, DbTask(s)
      PROVE  state'[t] = state[t] \/ state[t] # "InGame"
  <2>1. CASE s = t
    BY <1>2, <2>1 DEF DbTask, LoginFails, TryBindUser, LoginRefused, LoginDone, CreateDone,
                      SelectPicks, SelectFails, SelectDone, sessionVars, TasksHoldState, TypeOK
  <2>2. CASE s # t
    BY <1>2, <2>2 DEF DbTask, LoginFails, TryBindUser, LoginRefused, LoginDone, CreateDone,
                      SelectPicks, SelectFails, SelectDone, sessionVars, TypeOK
  <2>3. QED
    BY <2>1, <2>2
<1>3. QED
  BY <1>1, <1>2, TaskActions

\* The step puts packet k behind the others of connection c.
OneMore(c, k) ==
  /\ c \in Conns /\ k \in Nat \ {0}
  /\ \A d \in Conns : \A n \in DOMAIN toZone[d] :
       n \in DOMAIN toZone'[d] /\ toZone'[d][n] = toZone[d][n] /\ (d = c => n < k)
  /\ \A d \in Conns : \A n \in DOMAIN toZone'[d] : n \in DOMAIN toZone[d] \/ (d = c /\ n = k)
  /\ k \in DOMAIN toZone'[c]

\* What a handler that sends to a zone does to the packets under way.
LEMMA SendAdds ==
  ASSUME TypeOK, NEW kind, NEW i \in Instances, NEW s, SendToZone(kind, i, s)
  PROVE  \/ /\ toZone' = toZone
            /\ zoneServers[i] \in Conns => conn[zoneServers[i]] # "up"
         \/ \E c \in Conns, k \in Nat \ {0} :
              /\ c = zoneServers[i] /\ conn[c] = "up" /\ OneMore(c, k)
              /\ toZone'[c][k].kind = kind /\ toZone'[c][k].at = i /\ toZone'[c][k].s = s
<1>1. CASE /\ zoneServers[i] \in Conns /\ conn[zoneServers[i]] = "up"
           /\ toZone' = [toZone EXCEPT ![zoneServers[i]] =
                           Append(@, [kind |-> kind, at |-> i, s |-> s])]
  <2> DEFINE p == [kind |-> kind, at |-> i, s |-> s]
  <2>1. PICK c \in Conns : c = zoneServers[i]
    BY <1>1
  <2>2. conn[c] = "up" /\ toZone' = [toZone EXCEPT ![c] = Append(@, p)]
    BY <1>1, <2>1
  <2>3. PICK k \in Nat \ {0} : k = Len(toZone[c]) + 1
    <3>1. toZone[c] \in Seq(ZonePacket)
      BY DEF TypeOK
    <3>2. QED
      BY <3>1
  <2>4. p.kind = kind /\ p.at = i /\ p.s = s
    OBVIOUS
  <2> HIDE DEF p
  <2>5. OneMore(c, k) /\ toZone'[c][k] = p
    <3>1. /\ \A d \in Conns : \A n \in DOMAIN toZone[d] :
               n \in DOMAIN toZone'[d] /\ toZone'[d][n] = toZone[d][n]
          /\ \A d \in Conns : \A n \in DOMAIN toZone'[d] :
               n \in DOMAIN toZone[d] \/ (d = c /\ n = Len(toZone[c]) + 1)
          /\ Len(toZone[c]) + 1 \in DOMAIN toZone'[c]
          /\ toZone'[c][Len(toZone[c]) + 1] = p
          /\ \A n \in DOMAIN toZone[c] : n < Len(toZone[c]) + 1
      BY <2>2, SentBehind
    <3>2. QED
      BY <2>3, <3>1 DEF OneMore
  <2>6. toZone'[c][k].kind = kind /\ toZone'[c][k].at = i /\ toZone'[c][k].s = s
    BY <2>4, <2>5
  <2>7. c = zoneServers[i] /\ conn[c] = "up" /\ OneMore(c, k)
    BY <2>1, <2>2, <2>5
  <2>8. \E d \in Conns, n \in Nat \ {0} :
          /\ d = zoneServers[i] /\ conn[d] = "up" /\ OneMore(d, n)
          /\ toZone'[d][n].kind = kind /\ toZone'[d][n].at = i /\ toZone'[d][n].s = s
    BY <2>6, <2>7, Zenon
  <2>9. QED
    BY <2>8
<1>2. CASE /\ zoneServers[i] \in Conns => conn[zoneServers[i]] # "up"
           /\ toZone' = toZone
  BY <1>2
<1>3. \/ /\ zoneServers[i] \in Conns => conn[zoneServers[i]] # "up"
         /\ toZone' = toZone
      \/ /\ zoneServers[i] \in Conns /\ conn[zoneServers[i]] = "up"
         /\ toZone' = [toZone EXCEPT ![zoneServers[i]] =
                         Append(@, [kind |-> kind, at |-> i, s |-> s])]
  BY SendIs
<1>4. QED
  BY <1>1, <1>2, <1>3, Zenon

\* A packet that is no READY of t changes nothing for t.
LEMMA SentOther ==
  ASSUME NEW c, NEW k, OneMore(c, k), NEW t, ~Sent(t, c, k)'
  PROVE  /\ IsSent(t)' => IsSent(t)
         /\ SentOnce(t) => SentOnce(t)'
         /\ \A d \in Conns : \A n \in DOMAIN toZone'[d] :
              Sent(t, d, n)' => Sent(t, d, n) /\ toZone'[d][n] = toZone[d][n]
<1>1. ASSUME NEW d \in Conns, NEW n \in DOMAIN toZone'[d], Sent(t, d, n)'
      PROVE  Sent(t, d, n) /\ toZone'[d][n] = toZone[d][n]
  <2>1. n \in DOMAIN toZone[d]
    BY <1>1 DEF OneMore
  <2>2. toZone'[d][n] = toZone[d][n]
    BY <2>1 DEF OneMore
  <2>3. QED
    BY <1>1, <2>1, <2>2 DEF Sent
<1>2. IsSent(t)' => IsSent(t)
  BY <1>1 DEF IsSent, Sent
<1>3. SentOnce(t) => SentOnce(t)'
  <2> SUFFICES ASSUME SentOnce(t), NEW d \in Conns, NEW e \in Conns,
                      NEW m \in DOMAIN toZone'[d], NEW n \in DOMAIN toZone'[e],
                      Sent(t, d, m)', Sent(t, e, n)'
               PROVE  d = e /\ m = n
    BY DEF SentOnce
  <2>1. Sent(t, d, m) /\ Sent(t, e, n)
    BY <1>1
  <2>2. m \in DOMAIN toZone[d] /\ n \in DOMAIN toZone[e]
    BY <2>1 DEF Sent
  <2>3. QED
    BY <2>1, <2>2 DEF SentOnce
<1>4. QED
  BY <1>1, <1>2, <1>3

\* A READY of t, when there is none, is the only one.
LEMMA SentOwn ==
  ASSUME NEW c, NEW k, OneMore(c, k), NEW t, ~IsSent(t)
  PROVE  /\ SentOnce(t)'
         /\ \A d \in Conns : \A n \in DOMAIN toZone'[d] : Sent(t, d, n)' => d = c /\ n = k
<1>1. ASSUME NEW d \in Conns, NEW n \in DOMAIN toZone'[d], Sent(t, d, n)'
      PROVE  d = c /\ n = k
  BY <1>1 DEF IsSent, Sent, OneMore
<1>2. QED
  BY <1>1 DEF SentOnce

\* Taking the first packet leaves the others where they go.
LEMMA SentAfterTaken ==
  ASSUME TypeOK, NEW c \in Conns, toZone[c] # <<>>, toZone' = [toZone EXCEPT ![c] = Tail(@)],
         NEW t \in Sessions
  PROVE  /\ \A d \in Conns : \A n \in DOMAIN toZone'[d] :
              Sent(t, d, n)' => \E m \in DOMAIN toZone[d] :
                                  Sent(t, d, m) /\ toZone'[d][n] = toZone[d][m]
         /\ IsSent(t)' => IsSent(t)
         /\ SentOnce(t) => SentOnce(t)'
         /\ SentOnce(t) /\ Sent(t, c, 1) => ~IsSent(t)'
<1>1. /\ \A d \in Conns : d # c => toZone'[d] = toZone[d]
      /\ \A n \in DOMAIN toZone'[c] :
           n + 1 \in DOMAIN toZone[c] /\ toZone'[c][n] = toZone[c][n + 1]
      /\ 1 \in DOMAIN toZone[c] /\ DOMAIN toZone'[c] \subseteq Nat \ {0}
  BY FirstTaken
<1> DEFINE Was(d, n) == IF d = c THEN n + 1 ELSE n
<1>2. ASSUME NEW d \in Conns, NEW n \in DOMAIN toZone'[d], Sent(t, d, n)'
      PROVE  /\ Was(d, n) \in DOMAIN toZone[d]
             /\ Sent(t, d, Was(d, n))
             /\ toZone'[d][n] = toZone[d][Was(d, n)]
  BY <1>1, <1>2 DEF Sent
<1>3. \A d \in Conns : \A n \in DOMAIN toZone'[d] :
        Sent(t, d, n)' => \E m \in DOMAIN toZone[d] :
                            Sent(t, d, m) /\ toZone'[d][n] = toZone[d][m]
  BY <1>2
<1>4. IsSent(t)' => IsSent(t)
  BY <1>3 DEF IsSent, Sent
<1>5. SentOnce(t) => SentOnce(t)'
  <2> SUFFICES ASSUME SentOnce(t), NEW d \in Conns, NEW e \in Conns,
                      NEW m \in DOMAIN toZone'[d], NEW n \in DOMAIN toZone'[e],
                      Sent(t, d, m)', Sent(t, e, n)'
               PROVE  d = e /\ m = n
    BY DEF SentOnce
  <2>1. /\ Was(d, m) \in DOMAIN toZone[d] /\ Sent(t, d, Was(d, m))
        /\ Was(e, n) \in DOMAIN toZone[e] /\ Sent(t, e, Was(e, n))
    BY <1>2
  <2>2. d = e /\ Was(d, m) = Was(e, n)
    <3> HIDE DEF Was
    <3> QED BY <2>1 DEF SentOnce
  <2>3. QED
    BY <1>1, <2>2
<1>6. ASSUME SentOnce(t), Sent(t, c, 1), IsSent(t)'
      PROVE  FALSE
  <2>1. PICK d \in Conns : \E n \in DOMAIN toZone'[d] : Sent(t, d, n)'
    BY <1>6 DEF IsSent
  <2>0. PICK n \in DOMAIN toZone'[d] : Sent(t, d, n)'
    BY <2>1
  <2>2. Was(d, n) \in DOMAIN toZone[d] /\ Sent(t, d, Was(d, n))
    BY <1>2, <2>0
  <2>3. d = c /\ Was(d, n) = 1
    <3> HIDE DEF Was
    <3> QED BY <1>1, <1>6, <2>2 DEF SentOnce
  <2>4. n \in Nat \ {0} /\ n + 1 = 1
    BY <1>1, <2>3
  <2>5. QED
    BY <2>4
<1>7. QED
  BY <1>3, <1>4, <1>5, <1>6

\* A report of somebody else's leaving changes nothing for t; one of t's is the only one.
LEMMA LeavesAfterReport ==
  ASSUME TypeOK, NEW c \in Conns, NEW p, fromZone' = [fromZone EXCEPT ![c] = Append(@, p)],
         NEW t \in Sessions
  PROVE  /\ p.s # t => (HasLeft(t)' => HasLeft(t)) /\ (LeavesOnce(t) => LeavesOnce(t)')
         /\ ~HasLeft(t) => LeavesOnce(t)'
<1> DEFINE k == Len(fromZone[c]) + 1
           S == [s : Sessions, to : Nat]
<1>1. /\ \A d \in Conns : \A n \in DOMAIN fromZone'[d] :
           \/ n \in DOMAIN fromZone[d] /\ fromZone'[d][n] = fromZone[d][n]
           \/ d = c /\ n = k
      /\ fromZone'[c][k] = p
  <2>1. \A d \in Conns : fromZone[d] \in Seq(S)
    BY DEF TypeOK
  <2>2. fromZone'[c] = Append(fromZone[c], p) /\ \A d \in Conns : d # c => fromZone'[d] = fromZone[d]
    BY DEF TypeOK
  <2> HIDE DEF S
  <2>3. QED
    BY <2>1, <2>2, AppendIs
<1> HIDE DEF k, S
<1>2. ASSUME p.s # t, NEW d \in Conns, NEW n \in DOMAIN fromZone'[d], Leaves(t, d, n)'
      PROVE  n \in DOMAIN fromZone[d] /\ Leaves(t, d, n)
  <2>1. fromZone'[d][n].s = t
    BY <1>2 DEF Leaves
  <2>2. QED
    BY <1>1, <1>2, <2>1 DEF Leaves
<1>3. ASSUME p.s # t
      PROVE  (HasLeft(t)' => HasLeft(t)) /\ (LeavesOnce(t) => LeavesOnce(t)')
  <2>1. HasLeft(t)' => HasLeft(t)
    BY <1>2, <1>3 DEF HasLeft
  <2>2. LeavesOnce(t) => LeavesOnce(t)'
    <3> SUFFICES ASSUME LeavesOnce(t), NEW d \in Conns, NEW e \in Conns,
                        NEW m \in DOMAIN fromZone'[d], NEW n \in DOMAIN fromZone'[e],
                        Leaves(t, d, m)', Leaves(t, e, n)'
                 PROVE  d = e /\ m = n
      BY DEF LeavesOnce
    <3>1. /\ m \in DOMAIN fromZone[d] /\ Leaves(t, d, m)
          /\ n \in DOMAIN fromZone[e] /\ Leaves(t, e, n)
      BY <1>2, <1>3
    <3>2. QED
      BY <3>1 DEF LeavesOnce
  <2>3. QED
    BY <2>1, <2>2
<1>4. ASSUME ~HasLeft(t)
      PROVE  LeavesOnce(t)'
  <2>1. ASSUME NEW d \in Conns, NEW n \in DOMAIN fromZone'[d], Leaves(t, d, n)'
        PROVE  d = c /\ n = k
    BY <1>1, <1>4, <2>1 DEF HasLeft, Leaves
  <2>2. QED
    BY <2>1 DEF LeavesOnce
<1>5. QED
  BY <1>3, <1>4

\* Reading the first report leaves the others.
LEMMA LeavesAfterRead ==
  ASSUME TypeOK, NEW c \in Conns, fromZone[c] # <<>>,
         fromZone' = [fromZone EXCEPT ![c] = Tail(@)], NEW t \in Sessions
  PROVE  /\ HasLeft(t)' => HasLeft(t)
         /\ LeavesOnce(t) => LeavesOnce(t)'
         /\ LeavesOnce(t) /\ Head(fromZone[c]).s = t => HasLeft(t) /\ ~HasLeft(t)'
<1> DEFINE S == [s : Sessions, to : Nat]
           q == fromZone[c]
<1>1. /\ \A d \in Conns : d # c => fromZone'[d] = fromZone[d]
      /\ \A n \in DOMAIN fromZone'[c] :
           n + 1 \in DOMAIN fromZone[c] /\ fromZone'[c][n] = fromZone[c][n + 1]
      /\ 1 \in DOMAIN fromZone[c] /\ fromZone[c][1] = Head(fromZone[c])
      /\ DOMAIN fromZone'[c] \subseteq Nat \ {0}
  <2>1. q \in Seq(S) /\ q # <<>>
    BY DEF TypeOK
  <2>2. fromZone'[c] = Tail(q) /\ \A d \in Conns : d # c => fromZone'[d] = fromZone[d]
    BY DEF TypeOK
  <2>3. /\ \A n \in DOMAIN Tail(q) : n + 1 \in DOMAIN q /\ Tail(q)[n] = q[n + 1]
        /\ 1 \in DOMAIN q /\ q[1] = Head(q)
        /\ DOMAIN Tail(q) \subseteq Nat \ {0}
    <3> HIDE DEF q, S
    <3> QED BY <2>1, TailIs
  <2>4. QED
    BY <2>2, <2>3
<1> HIDE DEF S, q
<1> DEFINE Was(d, n) == IF d = c THEN n + 1 ELSE n
<1>2. ASSUME NEW d \in Conns, NEW n \in DOMAIN fromZone'[d], Leaves(t, d, n)'
      PROVE  Was(d, n) \in DOMAIN fromZone[d] /\ Leaves(t, d, Was(d, n))
  BY <1>1, <1>2 DEF Leaves
<1>3. HasLeft(t)' => HasLeft(t)
  BY <1>2 DEF HasLeft
<1>4. LeavesOnce(t) => LeavesOnce(t)'
  <2> SUFFICES ASSUME LeavesOnce(t), NEW d \in Conns, NEW e \in Conns,
                      NEW m \in DOMAIN fromZone'[d], NEW n \in DOMAIN fromZone'[e],
                      Leaves(t, d, m)', Leaves(t, e, n)'
               PROVE  d = e /\ m = n
    BY DEF LeavesOnce
  <2>1. /\ Was(d, m) \in DOMAIN fromZone[d] /\ Leaves(t, d, Was(d, m))
        /\ Was(e, n) \in DOMAIN fromZone[e] /\ Leaves(t, e, Was(e, n))
    BY <1>2
  <2>2. d = e /\ Was(d, m) = Was(e, n)
    <3> HIDE DEF Was
    <3> QED BY <2>1 DEF LeavesOnce
  <2>3. QED
    BY <1>1, <2>2
<1>5. ASSUME LeavesOnce(t), Head(fromZone[c]).s = t
      PROVE  HasLeft(t) /\ ~HasLeft(t)'
  <2>1. 1 \in DOMAIN fromZone[c] /\ Leaves(t, c, 1)
    BY <1>1, <1>5 DEF Leaves
  <2>2. HasLeft(t)
    BY <2>1 DEF HasLeft
  <2>3. ASSUME HasLeft(t)'
        PROVE  FALSE
    <3>1. PICK d \in Conns : \E n \in DOMAIN fromZone'[d] : Leaves(t, d, n)'
      BY <2>3 DEF HasLeft
    <3>2. PICK n \in DOMAIN fromZone'[d] : Leaves(t, d, n)'
      BY <3>1
    <3>3. Was(d, n) \in DOMAIN fromZone[d] /\ Leaves(t, d, Was(d, n))
      BY <1>2, <3>2
    <3>4. d = c /\ Was(d, n) = 1
      <4> HIDE DEF Was
      <4> QED BY <1>5, <2>1, <3>3 DEF LeavesOnce
    <3>5. n \in Nat \ {0} /\ n + 1 = 1
      BY <1>1, <3>4
    <3>6. QED
      BY <3>5
  <2>4. QED
    BY <2>2, <2>3
<1>6. QED
  BY <1>3, <1>4, <1>5

\* Only these actions move a permission.
LEMMA PermissionActions ==
  ASSUME TypeOK, Next
  PROVE  \/ \E s \in Sessions : RouteReady(s) \/ TellZone(s) \/ SelectDone(s)
         \/ \E c \in Conns : \/ ConnBreaks(c) \/ OnZoneLeaveCompleted(c) \/ ZoneReceives(c)
                             \/ \E s \in Sessions, i, j \in Instances :
                                  i # j /\ ZonePortal(c, s, i, j[1])
         \/ /\ UNCHANGED <<toZone, fromZone, inside, target>>
            /\ \A t \in Sessions : mayReady'[t] => mayReady[t]
<1>1. ASSUME NEW s \in Sessions, Client(s) \/ ReadFails(s)
      PROVE  /\ UNCHANGED <<toZone, fromZone, inside, target>>
             /\ \A t \in Sessions : mayReady'[t] => mayReady[t]
  <2>1. CASE \E packet \in Packet : Arrive(s, packet)
    BY <2>1 DEF Arrive, connVars, zoneVars, sessionVars, TypeOK
  <2>2. CASE Accept(s) \/ CloseFromWithin(s) \/ ReadFails(s)
    BY <2>2 DEF Accept, CloseFromWithin, ReadFails, connVars, zoneVars, sessionVars
  <2>3. QED
    BY <1>1, <2>1, <2>2 DEF Client
<1>2. ASSUME NEW s \in Sessions,
             \/ RouteLogin(s) \/ RouteCreate(s) \/ RouteSelect(s) \/ HandleReadError(s) \/ CloseJob(s)
             \/ LoginFails(s) \/ TryBindUser(s) \/ LoginRefused(s) \/ LoginDone(s)
             \/ CreateDone(s) \/ SelectPicks(s) \/ SelectFails(s)
      PROVE  UNCHANGED <<toZone, fromZone, inside, target, mayReady>>
  BY <1>2 DEF RouteLogin, RouteCreate, RouteSelect, HandleReadError, CloseJob, LoginFails,
              TryBindUser, LoginRefused, LoginDone, CreateDone, SelectPicks, SelectFails,
              connVars, zoneVars, sessionVars, netVars
<1>3. ASSUME NEW c \in Conns, Handshake(c) \/ ConnClose(c) \/ UnregisterZones(c) \/ CloseOrphans(c)
      PROVE  UNCHANGED <<toZone, fromZone, inside, target, mayReady>>
  BY <1>3 DEF Handshake, ConnClose, UnregisterZones, CloseOrphans, connVars, zoneVars,
              sessionVars, netVars
<1>4. QED
  BY <1>1, <1>2, <1>3 DEF Next, Handler, DbTask, ZoneConn

\* A permission that no step moves stays the only one.
LEMMA OneKept ==
  ASSUME NEW t, OneAtATime(t), Calm(t),
         mayReady'[t] => mayReady[t],
         IsSent(t)' => IsSent(t), IsInside(t)' => IsInside(t), HasLeft(t)' => HasLeft(t),
         state'[t] = state[t] \/ state[t] # "InGame"
  PROVE  OneAtATime(t)'
<1>1. Asked(t)' => Asked(t)
  BY DEF Calm, Asked
<1>2. QED
  BY <1>1 DEF OneAtATime

\* Steps that move no permission.
LEMMA PermQuiet ==
  ASSUME TypeOK, NewIsFresh, ReadsAfterClose = FALSE, TasksHoldState, Next,
         NEW t \in Sessions, Perm(t),
         UNCHANGED <<toZone, fromZone, inside, target>>, mayReady'[t] => mayReady[t]
  PROVE  Perm(t)'
<1>1. state'[t] = state[t] \/ state[t] # "InGame"
  BY StateStays
<1>2. /\ IsSent(t)' <=> IsSent(t)
      /\ IsInside(t)' <=> IsInside(t)
      /\ HasLeft(t)' <=> HasLeft(t)
  BY DEF IsSent, Sent, IsInside, HasLeft, Leaves
<1>3. SentOnce(t)' /\ LeavesOnce(t)' /\ AtTarget(t)'
  BY DEF Perm, SentOnce, Sent, LeavesOnce, Leaves, AtTarget
<1>4. CASE Calm(t)
  <2>1. OneAtATime(t)'
    BY <1>1, <1>2, <1>4, OneKept DEF Perm
  <2>2. Once(strand'[t], "ready")
    BY <1>4 DEF Calm, Perm
  <2>3. QED
    BY <1>3, <2>1, <2>2 DEF Perm
<1>5. CASE Posted(t)
  <2>1. PICK job \in Job \ {"close"} :
          /\ job = "ready" => connected[t] /\ Arrive(t, "ready")
          /\ strand'[t] = Append(strand[t], job)
    BY <1>5 DEF Posted
  <2>2. PICK q \in Seq(Job) : q = strand[t]
    BY DEF TypeOK
  <2>3. CASE job # "ready"
    <3>1. Calm(t)
      <4>1. /\ Has(Append(q, job), "ready") <=> Has(q, "ready")
            /\ Once(q, "ready") => Once(Append(q, job), "ready")
        BY <2>3, HasAppend
      <4>2. QED
        BY <2>1, <2>2, <4>1 DEF Calm
    <3>2. QED
      BY <1>4, <3>1
  <2>4. CASE job = "ready"
    <3>1. mayReady[t] /\ ~mayReady'[t] /\ state' = state
      BY ZenonT(40), <2>1, <2>4 DEF Arrive, sessionVars, TypeOK
    <3>2. OneAtATime(t)
      BY DEF Perm
    <3>3. ~Asked(t) /\ ~IsSent(t) /\ ~IsInside(t) /\ ~HasLeft(t) /\ state[t] = "InGame"
      BY <3>1, <3>2 DEF OneAtATime
    <3>4. OneAtATime(t)'
      BY <1>2, <3>1, <3>3 DEF OneAtATime
    <3>5. Once(strand'[t], "ready")
      <4>1. Once(q, "ready") /\ ~Has(q, "ready")
        BY <2>2, <3>3 DEF Perm, Asked
      <4>2. Once(Append(q, job), "ready")
        BY <4>1, HasAppend
      <4>3. QED
        BY <2>1, <2>2, <4>2
    <3>6. QED
      BY <1>3, <3>4, <3>5 DEF Perm
  <2>5. QED
    BY <2>3, <2>4
<1>6. QED
  BY <1>4, <1>5, StrandSteps, CalmKinds

\* A READY that was queued goes to the session's target.
LEMMA PermReady ==
  ASSUME TypeOK, NEW s \in Sessions, RouteReady(s), NEW t \in Sessions, Perm(t)
  PROVE  Perm(t)'
<1>0. PICK i \in Instances : i = target[s]
  BY DEF TypeOK
<1>1. UNCHANGED <<mayReady, state, target, fromZone, inside>>
  BY DEF RouteReady, sessionVars, zoneVars
<1>2. IsInside(t)' = IsInside(t) /\ HasLeft(t)' = HasLeft(t) /\ LeavesOnce(t)'
  BY <1>1 DEF IsInside, HasLeft, Leaves, LeavesOnce, Perm
<1>3. \/ toZone' = toZone
      \/ \E c \in Conns, k \in Nat \ {0} :
           /\ OneMore(c, k) /\ toZone'[c][k].kind = "ready"
           /\ toZone'[c][k].at = i /\ toZone'[c][k].s = s
  <2>1. toZone' = toZone \/ SendToZone("ready", i, s)
    BY <1>0 DEF RouteReady
  <2>2. QED
    BY <2>1, SendAdds
<1>5. /\ OneAtATime(t) /\ Once(strand[t], "ready") /\ SentOnce(t) /\ AtTarget(t)
      /\ mayReady'[t] = mayReady[t] /\ state'[t] = state[t] /\ target'[t] = target[t]
  BY <1>1 DEF Perm
<1>6. PICK q \in Seq(Job) : q = strand[s]
  BY DEF TypeOK
<1>7. q # <<>> /\ Head(q) = "ready" /\ strand' = [strand EXCEPT ![s] = Tail(@)]
  BY <1>6 DEF RouteReady, NextHandler
<1>8. CASE t # s
  <2>1. Untouched(t)
    BY <1>7, <1>8 DEF RouteReady, sessionVars, Untouched, TypeOK
  <2>2. Calm(t)
    BY <2>1, CalmKinds
  <2>3. CASE toZone' = toZone
    <3>1. IsSent(t)' = IsSent(t) /\ SentOnce(t)' /\ AtTarget(t)'
      BY <1>1, <1>5, <2>3 DEF IsSent, Sent, SentOnce, AtTarget
    <3>2. QED
      BY <1>2, <1>5, <2>2, <3>1, OneKept DEF Perm, Calm
  <2>4. ASSUME NEW c \in Conns, NEW k \in Nat \ {0}, OneMore(c, k),
                 toZone'[c][k].kind = "ready", toZone'[c][k].at = i, toZone'[c][k].s = s
        PROVE  Perm(t)'
    <3>1. /\ IsSent(t)' => IsSent(t)
          /\ SentOnce(t)'
          /\ \A d \in Conns : \A n \in DOMAIN toZone'[d] :
               Sent(t, d, n)' => Sent(t, d, n) /\ toZone'[d][n] = toZone[d][n]
      <4>1. ~Sent(t, c, k)'
        BY <1>8, <2>4 DEF Sent
      <4>2. QED
        BY <1>5, <2>4, <4>1, SentOther
    <3>2. AtTarget(t)'
      BY <1>1, <1>5, <3>1 DEF AtTarget, Sent
    <3>3. QED
      BY <1>2, <1>5, <2>2, <3>1, <3>2, OneKept DEF Perm, Calm
  <2>5. QED
    BY <1>3, <2>3, <2>4
<1>9. CASE t = s
  <2>1. Has(q, "ready")
    <3>1. 1 \in DOMAIN q /\ q[1] = "ready"
      BY <1>7
    <3>2. QED
      BY <3>1 DEF Has
  <2>2. ~mayReady[t] /\ ~IsSent(t) /\ ~IsInside(t) /\ ~HasLeft(t) /\ state[t] = "InGame"
    BY <1>5, <1>6, <1>9, <2>1 DEF OneAtATime, Asked
  <2>3. strand'[t] = Tail(q)
    BY <1>6, <1>7, <1>9 DEF TypeOK
  <2>4. Once(strand'[t], "ready") /\ ~Has(strand'[t], "ready")
    <3>1. Once(q, "ready")
      BY <1>5, <1>6, <1>9
    <3>2. Once(Tail(q), "ready") /\ ~Has(Tail(q), "ready")
      BY <1>7, <3>1, HasTail
    <3>3. QED
      BY <2>3, <3>2
  <2>5. OneAtATime(t)'
    BY <1>2, <1>5, <2>2, <2>4 DEF OneAtATime, Asked
  <2>6. CASE toZone' = toZone
    <3>1. SentOnce(t)' /\ AtTarget(t)'
      BY <1>1, <1>5, <2>6 DEF Sent, SentOnce, AtTarget
    <3>2. QED
      BY <1>2, <2>4, <2>5, <3>1 DEF Perm
  <2>7. ASSUME NEW c \in Conns, NEW k \in Nat \ {0}, OneMore(c, k),
                 toZone'[c][k].kind = "ready", toZone'[c][k].at = i, toZone'[c][k].s = s
        PROVE  Perm(t)'
    <3>1. /\ SentOnce(t)'
          /\ \A d \in Conns : \A n \in DOMAIN toZone'[d] :
               Sent(t, d, n)' => d = c /\ n = k
      BY <2>2, <2>7, SentOwn
    <3>2. AtTarget(t)'
      BY <1>0, <1>1, <1>5, <1>9, <2>7, <3>1 DEF AtTarget
    <3>3. QED
      BY <1>2, <2>4, <2>5, <3>1, <3>2 DEF Perm
  <2>8. QED
    BY <1>3, <2>6, <2>7
<1>10. QED
  BY <1>8, <1>9

\* A notice of an end moves no permission.
LEMMA PermTell ==
  ASSUME TypeOK, NEW s \in Sessions, TellZone(s), NEW t \in Sessions, Perm(t)
  PROVE  Perm(t)'
<1>0. PICK i \in Instances : i = target[s]
  BY DEF TypeOK
<1>1. UNCHANGED <<mayReady, state, target, fromZone, inside, strand, connected>>
  BY DEF TellZone, netVars, sessionVars, zoneVars
<1>2. IsInside(t)' = IsInside(t) /\ HasLeft(t)' = HasLeft(t) /\ LeavesOnce(t)'
  BY <1>1 DEF IsInside, HasLeft, Leaves, LeavesOnce, Perm
<1>3. \/ toZone' = toZone
      \/ \E c \in Conns, k \in Nat \ {0} :
           /\ OneMore(c, k) /\ toZone'[c][k].kind = "bye"
           /\ toZone'[c][k].at = i /\ toZone'[c][k].s = s
  <2>1. toZone' = toZone \/ SendToZone("bye", i, s)
    BY <1>0 DEF TellZone
  <2>2. QED
    BY <2>1, SendAdds
<1>5. /\ OneAtATime(t) /\ Once(strand[t], "ready") /\ SentOnce(t) /\ AtTarget(t)
      /\ mayReady'[t] = mayReady[t] /\ state'[t] = state[t] /\ target'[t] = target[t]
  BY <1>1 DEF Perm
<1>6. Calm(t)
  BY <1>1, CalmKinds DEF Untouched
<1>7. CASE toZone' = toZone
  <2>1. IsSent(t)' = IsSent(t) /\ SentOnce(t)' /\ AtTarget(t)'
    BY <1>1, <1>5, <1>7 DEF IsSent, Sent, SentOnce, AtTarget
  <2>2. QED
    BY <1>2, <1>5, <1>6, <2>1, OneKept DEF Perm, Calm
<1>8. ASSUME NEW c \in Conns, NEW k \in Nat \ {0}, OneMore(c, k),
               toZone'[c][k].kind = "bye", toZone'[c][k].at = i, toZone'[c][k].s = s
      PROVE  Perm(t)'
  <2>1. /\ IsSent(t)' => IsSent(t)
        /\ SentOnce(t)'
        /\ \A d \in Conns : \A n \in DOMAIN toZone'[d] :
             Sent(t, d, n)' => Sent(t, d, n) /\ toZone'[d][n] = toZone[d][n]
    <3>1. ~Sent(t, c, k)'
      BY <1>8 DEF Sent
    <3>2. QED
      BY <1>5, <1>8, <3>1, SentOther
  <2>2. AtTarget(t)'
    BY <1>1, <1>5, <2>1 DEF AtTarget, Sent
  <2>3. QED
    BY <1>2, <1>5, <1>6, <2>1, <2>2, OneKept DEF Perm, Calm
<1>9. QED
  BY <1>3, <1>7, <1>8

\* The first permission comes with the game.
LEMMA PermSelect ==
  ASSUME TypeOK, TasksHoldState, NEW s \in Sessions, SelectDone(s), NEW t \in Sessions, Perm(t)
  PROVE  Perm(t)'
<1>1. UNCHANGED <<toZone, fromZone, inside, strand, connected>>
  BY DEF SelectDone, connVars, zoneVars
<1>2. /\ IsSent(t)' = IsSent(t) /\ IsInside(t)' = IsInside(t) /\ HasLeft(t)' = HasLeft(t)
      /\ LeavesOnce(t)' /\ SentOnce(t)'
  BY <1>1 DEF IsSent, Sent, IsInside, HasLeft, Leaves, LeavesOnce, SentOnce, Perm
<1>3. OneAtATime(t) /\ Once(strand'[t], "ready") /\ AtTarget(t)
  BY <1>1 DEF Perm
<1>4. Calm(t)
  BY <1>1, CalmKinds DEF Untouched
<1>5. CASE t # s
  <2>1. mayReady'[t] = mayReady[t] /\ state'[t] = state[t] /\ target'[t] = target[t]
    BY <1>5 DEF SelectDone, TypeOK
  <2>2. AtTarget(t)'
    BY <1>1, <1>3, <2>1 DEF AtTarget, Sent
  <2>3. QED
    BY <1>2, <1>3, <1>4, <2>1, <2>2, OneKept DEF Perm
<1>6. CASE t = s
  <2>1. state[t] = "Selecting"
    BY <1>6 DEF SelectDone, TasksHoldState
  <2>2. ~mayReady[t] /\ ~Asked(t) /\ ~IsSent(t) /\ ~IsInside(t) /\ ~HasLeft(t)
    BY <1>3, <2>1 DEF OneAtATime
  <2>3. mayReady'[t] => state'[t] = "InGame"
    BY <1>6, <2>2 DEF SelectDone, TypeOK
  <2>4. ~Asked(t)'
    BY <1>1, <2>2 DEF Asked
  <2>5. OneAtATime(t)'
    BY <1>2, <2>2, <2>3, <2>4 DEF OneAtATime
  <2>6. AtTarget(t)'
    BY <1>1, <2>2 DEF AtTarget, IsSent, Sent, IsInside
  <2>7. QED
    BY <1>2, <1>3, <2>5, <2>6 DEF Perm
<1>7. QED
  BY <1>5, <1>6

\* A connection that breaks loses permissions.
LEMMA PermBreaks ==
  ASSUME TypeOK, NEW c \in Conns, ConnBreaks(c), NEW t \in Sessions, Perm(t)
  PROVE  Perm(t)'
<1>1. UNCHANGED <<mayReady, state, target, fromZone, strand, connected>>
  BY DEF ConnBreaks, netVars, sessionVars
<1>2. /\ \A d \in Conns : toZone'[d] = IF d = c THEN <<>> ELSE toZone[d]
      /\ \A i \in Instances : inside'[i] = IF i \in Hosts[c] THEN {} ELSE inside[i]
  BY DEF ConnBreaks, TypeOK
<1>3. OneAtATime(t) /\ Once(strand[t], "ready") /\ SentOnce(t) /\ LeavesOnce(t) /\ AtTarget(t)
  BY DEF Perm
<1>4. \A d \in Conns : \A n \in DOMAIN toZone'[d] :
        n \in DOMAIN toZone[d] /\ toZone'[d][n] = toZone[d][n]
  BY <1>2
<1>5. IsSent(t)' => IsSent(t)
  BY <1>4 DEF IsSent, Sent
<1>6. SentOnce(t)'
  BY <1>3, <1>4 DEF SentOnce, Sent
<1>7. IsInside(t)' => IsInside(t)
  BY <1>2 DEF IsInside
<1>8. AtTarget(t)'
  BY <1>1, <1>2, <1>3, <1>4 DEF AtTarget, Sent
<1>9. HasLeft(t)' = HasLeft(t) /\ LeavesOnce(t)'
  BY <1>1, <1>3 DEF HasLeft, Leaves, LeavesOnce
<1>10. Calm(t)
  BY <1>1, CalmKinds DEF Untouched
<1>11. OneAtATime(t)'
  BY <1>1, <1>3, <1>5, <1>7, <1>9, <1>10, OneKept
<1>12. QED
  BY <1>1, <1>3, <1>6, <1>8, <1>9, <1>11 DEF Perm

\* A report that is read earns the next permission.
LEMMA PermCompleted ==
  ASSUME TypeOK, NEW c \in Conns, OnZoneLeaveCompleted(c), NEW t \in Sessions, Perm(t)
  PROVE  Perm(t)'
<1>1. UNCHANGED <<toZone, inside, state>>
  BY DEF OnZoneLeaveCompleted, zoneVars
<1>2. /\ IsSent(t)' = IsSent(t) /\ IsInside(t)' = IsInside(t) /\ SentOnce(t)'
  BY <1>1 DEF IsSent, Sent, IsInside, SentOnce, Perm
<1>3. OneAtATime(t) /\ Once(strand[t], "ready") /\ AtTarget(t) /\ LeavesOnce(t)
  BY DEF Perm
<1>4. fromZone[c] # <<>> /\ fromZone' = [fromZone EXCEPT ![c] = Tail(@)]
  BY DEF OnZoneLeaveCompleted
<1>5. (HasLeft(t)' => HasLeft(t)) /\ LeavesOnce(t)'
  BY <1>3, <1>4, LeavesAfterRead
<1>6. Untouched(t) \/ Shut(t)
  BY CloseShuts DEF OnZoneLeaveCompleted, Untouched
<1>7. Calm(t)
  BY <1>6, CalmKinds
<1>8. CASE t # Head(fromZone[c]).s
  <2>1. mayReady'[t] = mayReady[t] /\ target'[t] = target[t]
    BY <1>8 DEF OnZoneLeaveCompleted, TypeOK
  <2>2. AtTarget(t)'
    BY <1>1, <1>3, <2>1 DEF AtTarget, Sent
  <2>3. OneAtATime(t)'
    BY <1>1, <1>2, <1>3, <1>5, <1>7, <2>1, OneKept
  <2>4. QED
    BY <1>2, <1>3, <1>5, <1>7, <2>2, <2>3 DEF Perm, Calm
<1>9. CASE t = Head(fromZone[c]).s
  <2>1. HasLeft(t) /\ ~HasLeft(t)'
    BY <1>3, <1>4, <1>9, LeavesAfterRead
  <2>2. ~mayReady[t] /\ ~Asked(t) /\ ~IsSent(t) /\ ~IsInside(t) /\ state[t] = "InGame"
    BY <1>3, <2>1 DEF OneAtATime
  <2>3. ~Asked(t)'
    BY <1>7, <2>2 DEF Asked, Calm
  <2>4. OneAtATime(t)'
    BY <1>1, <1>2, <2>1, <2>2, <2>3 DEF OneAtATime
  <2>5. AtTarget(t)'
    BY <1>1, <2>2 DEF AtTarget, IsSent, Sent, IsInside
  <2>6. QED
    BY <1>2, <1>3, <1>5, <1>7, <2>4, <2>5 DEF Perm, Calm
<1>10. QED
  BY <1>8, <1>9

\* A READY that arrives lets the character in where it was sent to.
LEMMA PermReceives ==
  ASSUME TypeOK, NEW c \in Conns, ZoneReceives(c), NEW t \in Sessions, Perm(t)
  PROVE  Perm(t)'
<1>1. UNCHANGED <<mayReady, state, target, fromZone, strand, connected>>
  BY DEF ZoneReceives, netVars, sessionVars
<1>2. toZone[c] # <<>> /\ toZone' = [toZone EXCEPT ![c] = Tail(@)]
  BY DEF ZoneReceives
<1>3. OneAtATime(t) /\ Once(strand[t], "ready") /\ SentOnce(t) /\ LeavesOnce(t) /\ AtTarget(t)
  BY DEF Perm
<1>4. HasLeft(t)' = HasLeft(t) /\ LeavesOnce(t)'
  BY <1>1, <1>3 DEF HasLeft, Leaves, LeavesOnce
<1>5. Calm(t)
  BY <1>1, CalmKinds DEF Untouched
<1>6. /\ \A d \in Conns : \A n \in DOMAIN toZone'[d] :
           Sent(t, d, n)' => \E m \in DOMAIN toZone[d] :
                               Sent(t, d, m) /\ toZone'[d][n] = toZone[d][m]
      /\ IsSent(t)' => IsSent(t)
      /\ SentOnce(t)'
      /\ Sent(t, c, 1) => ~IsSent(t)'
  BY <1>2, <1>3, SentAfterTaken
<1>7. 1 \in DOMAIN toZone[c] /\ toZone[c][1] = Head(toZone[c])
  BY <1>2, FirstTaken
<1>8. \A i \in Instances : t \in inside'[i] =>
        t \in inside[i] \/ (i = toZone[c][1].at /\ Sent(t, c, 1))
  <2>1. PICK m : m = toZone[c][1]
    OBVIOUS
  <2>2. m.kind \in {"ready", "bye"} /\ m.at \in Instances /\ m.s \in Sessions
    BY <1>7, <2>1, PacketIs
  <2>3. inside' = [inside EXCEPT ![m.at] =
                     CASE m.kind = "bye" -> @ \ {m.s}
                       [] m.kind = "ready" ->
                            IF \A r \in @ : UserOf[r] # UserOf[m.s] THEN @ \cup {m.s} ELSE @]
    BY <1>7, <2>1 DEF ZoneReceives
  <2>4. inside \in [Instances -> SUBSET Sessions]
    BY DEF TypeOK
  <2>5. \A i \in Instances : t \in inside'[i] =>
          t \in inside[i] \/ (i = m.at /\ m.kind = "ready" /\ m.s = t)
    <3>1. CASE m.kind = "bye"
      BY <2>2, <2>3, <2>4, <3>1
    <3>2. CASE m.kind = "ready"
      BY <2>2, <2>3, <2>4, <3>2
    <3>3. QED
      BY <2>2, <3>1, <3>2
  <2>6. QED
    BY <1>7, <2>1, <2>5 DEF Sent
<1>9. AtTarget(t)'
  <2>1. \A d \in Conns : \A n \in DOMAIN toZone'[d] :
          Sent(t, d, n)' => toZone'[d][n].at = target[t]
    BY <1>3, <1>6 DEF AtTarget
  <2>2. \A i \in Instances : t \in inside'[i] => i = target[t]
    BY <1>3, <1>7, <1>8 DEF AtTarget
  <2>3. QED
    BY <1>1, <2>1, <2>2 DEF AtTarget
<1>10. OneAtATime(t)'
  <2>1. CASE Sent(t, c, 1)
    <3>1. IsSent(t)
      BY <1>7, <2>1 DEF IsSent
    <3>2. ~mayReady[t] /\ ~Asked(t) /\ ~IsInside(t) /\ ~HasLeft(t) /\ state[t] = "InGame"
      BY <1>3, <3>1 DEF OneAtATime
    <3>3. ~Asked(t)'
      BY <1>5, <3>2 DEF Asked, Calm
    <3>4. QED
      BY <1>1, <1>4, <1>6, <2>1, <3>2, <3>3 DEF OneAtATime
  <2>2. CASE ~Sent(t, c, 1)
    <3>1. IsInside(t)' => IsInside(t)
      BY <1>8, <2>2 DEF IsInside
    <3>2. QED
      BY <1>1, <1>3, <1>4, <1>5, <1>6, <3>1, OneKept
  <2>3. QED
    BY <2>1, <2>2
<1>11. QED
  BY <1>1, <1>3, <1>4, <1>6, <1>9, <1>10 DEF Perm

\* A portal takes the character out and reports it.
LEMMA PermPortal ==
  ASSUME TypeOK, NEW c \in Conns, NEW s \in Sessions, NEW i \in Instances, NEW z,
         ZonePortal(c, s, i, z), NEW t \in Sessions, Perm(t)
  PROVE  Perm(t)'
<1> DEFINE p == [s |-> s, to |-> z]
<1>1. UNCHANGED <<mayReady, state, target, toZone, strand, connected>>
  BY DEF ZonePortal, netVars, sessionVars
<1>2. OneAtATime(t) /\ Once(strand[t], "ready") /\ SentOnce(t) /\ LeavesOnce(t) /\ AtTarget(t)
  BY DEF Perm
<1>3. IsSent(t)' = IsSent(t) /\ SentOnce(t)'
  BY <1>1, <1>2 DEF IsSent, Sent, SentOnce
<1>4. Calm(t)
  BY <1>1, CalmKinds DEF Untouched
<1>5. /\ s \in inside[i]
      /\ \A j \in Instances : inside'[j] = IF j = i THEN inside[j] \ {s} ELSE inside[j]
  BY DEF ZonePortal, TypeOK
<1>6. fromZone' = [fromZone EXCEPT ![c] = Append(@, p)] /\ p.s = s
  BY DEF ZonePortal
<1> HIDE DEF p
<1>7. IsInside(t)' => IsInside(t)
  BY <1>5 DEF IsInside
<1>8. AtTarget(t)'
  BY <1>1, <1>2, <1>5 DEF AtTarget, Sent
<1>9. CASE t # s
  <2>1. (HasLeft(t)' => HasLeft(t)) /\ LeavesOnce(t)'
    BY <1>2, <1>6, <1>9, LeavesAfterReport
  <2>2. OneAtATime(t)'
    BY <1>1, <1>2, <1>3, <1>4, <1>7, <2>1, OneKept
  <2>3. QED
    BY <1>1, <1>2, <1>3, <1>8, <2>1, <2>2 DEF Perm
<1>10. CASE t = s
  <2>1. IsInside(t)
    BY <1>5, <1>10 DEF IsInside
  <2>2. ~mayReady[t] /\ ~Asked(t) /\ ~IsSent(t) /\ ~HasLeft(t) /\ state[t] = "InGame"
    BY <1>2, <2>1 DEF OneAtATime
  <2>3. ~IsInside(t)'
    BY <1>2, <1>5, <1>10 DEF IsInside, AtTarget
  <2>4. LeavesOnce(t)'
    BY <1>6, <2>2, LeavesAfterReport
  <2>5. ~Asked(t)'
    BY <1>4, <2>2 DEF Asked, Calm
  <2>6. OneAtATime(t)'
    BY <1>1, <1>3, <2>2, <2>3, <2>5 DEF OneAtATime
  <2>7. QED
    BY <1>1, <1>2, <1>3, <1>8, <2>4, <2>6 DEF Perm
<1>11. QED
  BY <1>9, <1>10

\* A session never has two permissions.
LEMMA PermStep ==
  ASSUME TypeOK, NewIsFresh, ReadsAfterClose = FALSE, TasksHoldState, OnePermission, Next
  PROVE  OnePermission'
<1> SUFFICES ASSUME NEW t \in Sessions
             PROVE  Perm(t)'
  BY DEF OnePermission, Perm
<1>1. Perm(t)
  BY DEF OnePermission, Perm
<1>2. QED
  BY <1>1, PermissionActions, PermQuiet, PermReady, PermTell, PermSelect, PermBreaks,
     PermCompleted, PermReceives, PermPortal

-----------------------------------------------------------------------------
\* The end of a session goes out behind its READY.

\* Whoever has to be told of is told by TellZone, and by nobody else.
LEMMA AliveStays ==
  ASSUME TypeOK, Next, NEW t, Alive(t)
  PROVE  Alive(t)' \/ (TellZone(t) /\ io = <<"bye", t>>)
<1>1. ASSUME NEW s \in Sessions, Accept(s)
      PROVE  Alive(t)'
  BY <1>1 DEF Accept, Alive
<1>2. ASSUME NEW s \in Sessions, CloseJob(s)
      PROVE  Alive(t)'
  <2>1. io = Free /\ registered' = registered \ {s} /\ io' = <<"bye", s>>
    BY <1>2 DEF CloseJob, NextHandler, Unregister
  <2>2. t \in registered
    BY <2>1 DEF Alive, Free
  <2>3. QED
    BY <2>1, <2>2 DEF Alive
<1>3. ASSUME NEW s \in Sessions, TellZone(s)
      PROVE  Alive(t)' \/ (TellZone(t) /\ io = <<"bye", t>>)
  <2>1. registered' = registered /\ io = <<"bye", s>>
    BY <1>3 DEF TellZone, managerVars
  <2>2. QED
    BY <1>3, <2>1 DEF Alive
<1>4. ASSUME NEW c \in Conns, UnregisterZones(c) \/ CloseOrphans(c)
      PROVE  Alive(t)'
  <2>1. registered' = registered /\ (io = Free \/ io = <<"collect", c>>)
    BY <1>4 DEF UnregisterZones, CloseOrphans, managerVars
  <2>2. QED
    BY <2>1 DEF Alive, Free
<1>5. CASE UNCHANGED <<registered, io>>
  BY <1>5 DEF Alive
<1>6. ASSUME NEW s \in Sessions,
             \/ CloseFromWithin(s) \/ ReadFails(s) \/ \E packet \in Packet : Arrive(s, packet)
      PROVE  UNCHANGED <<registered, io>>
  BY <1>6 DEF CloseFromWithin, ReadFails, Arrive, managerVars
<1>7. ASSUME NEW s \in Sessions,
             \/ RouteLogin(s) \/ RouteCreate(s) \/ RouteSelect(s) \/ RouteReady(s)
             \/ HandleReadError(s) \/ DbTask(s)
      PROVE  UNCHANGED <<registered, io>>
  BY <1>7 DEF RouteLogin, RouteCreate, RouteSelect, RouteReady, HandleReadError, DbTask,
              LoginFails, TryBindUser, LoginRefused, LoginDone, CreateDone, SelectPicks,
              SelectFails, SelectDone, managerVars
<1>8. ASSUME NEW c \in Conns, ZoneConn(c), ~UnregisterZones(c)
      PROVE  UNCHANGED <<registered, io>>
  BY <1>8 DEF ZoneConn, Handshake, ConnBreaks, ConnClose, OnZoneLeaveCompleted, ZoneReceives,
              ZonePortal, managerVars
<1>9. QED
  BY <1>1, <1>2, <1>3, <1>4, <1>5, <1>6, <1>7, <1>8 DEF Next, Client, Handler

\* Two connections that are up serve different instances.
LEMMA OneServes ==
  ASSUME ConnsServe, NEW c \in Conns, NEW d \in Conns, conn[c] = "up", conn[d] = "up",
         NEW i, i \in Hosts[c], i \in Hosts[d]
  PROVE  c = d /\ zoneServers[i] = c
BY DEF ConnsServe

\* A farewell stays where it is when packets are put behind it.
LEMMA FarewellStays ==
  ASSUME NEW c, NEW k, OneMore(c, k),
         NEW t, NEW i, NEW d \in Conns, NEW m, NEW n, Farewell(t, i, d, m, n)
  PROVE  Farewell(t, i, d, m, n)'
BY DEF Farewell, OneMore

\* And moves up when the first packet is taken.
LEMMA FarewellMoves ==
  ASSUME TypeOK, NEW c \in Conns, toZone[c] # <<>>, toZone' = [toZone EXCEPT ![c] = Tail(@)],
         NEW t, NEW i, NEW m \in Nat, NEW n, Farewell(t, i, c, m, n), n # 1
  PROVE  /\ n - 1 \in DOMAIN toZone'[c]
         /\ m = 0 => Farewell(t, i, c, 0, n - 1)'
         /\ m # 0 => Farewell(t, i, c, m - 1, n - 1)'
<1>1. /\ n \in DOMAIN toZone[c] /\ n > m
      /\ toZone[c][n].kind = "bye" /\ toZone[c][n].at = i /\ toZone[c][n].s = t
  BY DEF Farewell
<1>2. /\ n - 1 \in DOMAIN toZone'[c] /\ toZone'[c][n - 1] = toZone[c][n]
      /\ n \in Nat \ {0}
  BY <1>1, FirstTaken
<1>3. n - 1 > 0 /\ n - 1 > m - 1
  BY <1>1, <1>2
<1>4. QED
  BY <1>1, <1>2, <1>3 DEF Farewell

\* Who is inside after a packet has been received.
LEMMA InsideReceives ==
  ASSUME TypeOK, NEW c \in Conns, ZoneReceives(c), NEW t \in Sessions, NEW i \in Instances,
         t \in inside'[i]
  PROVE  \/ t \in inside[i] /\ ~Farewell(t, i, c, 0, 1)
         \/ Sent(t, c, 1) /\ i = toZone[c][1].at
<1>1. 1 \in DOMAIN toZone[c] /\ toZone[c][1] = Head(toZone[c])
  BY FirstTaken DEF ZoneReceives
<1>2. PICK m : m = toZone[c][1]
  OBVIOUS
<1>3. m.kind \in {"ready", "bye"} /\ m.at \in Instances /\ m.s \in Sessions
  BY <1>1, <1>2, PacketIs
<1>4. inside' = [inside EXCEPT ![m.at] =
                   CASE m.kind = "bye" -> @ \ {m.s}
                     [] m.kind = "ready" ->
                          IF \A r \in @ : UserOf[r] # UserOf[m.s] THEN @ \cup {m.s} ELSE @]
  BY <1>1, <1>2 DEF ZoneReceives
<1>5. inside \in [Instances -> SUBSET Sessions]
  BY DEF TypeOK
<1>6. CASE m.kind = "bye"
  <2>1. t \in inside[i] /\ ~(m.at = i /\ m.s = t)
    BY <1>3, <1>4, <1>5, <1>6
  <2>2. QED
    BY <1>2, <2>1 DEF Farewell
<1>7. CASE m.kind = "ready"
  <2>1. t \in inside[i] \/ (m.at = i /\ m.s = t)
    BY <1>3, <1>4, <1>5, <1>7
  <2>2. QED
    BY <1>1, <1>2, <1>7, <2>1 DEF Farewell, Sent
<1>8. QED
  BY <1>3, <1>6, <1>7

\* The end of t is told for instance i, and for its READY at m.
InsideFollows(t, i) ==
  Alive(t) \/ \E c \in Conns : \E k \in DOMAIN toZone[c] : Farewell(t, i, c, 0, k)
SentFollows(t, c, m) ==
  Alive(t) \/ \E k \in DOMAIN toZone[c] : Farewell(t, toZone[c][m].at, c, m, k)

\* A session whose READY is handled is registered.
LEMMA ReadyIsRegistered ==
  ASSUME TypeOK, CloseIsLast, NEW s \in Sessions, strand[s] # <<>>, Head(strand[s]) = "ready"
  PROVE  s \in registered
<1>1. PICK q \in Seq(Job) : q = strand[s]
  BY DEF TypeOK
<1>2. 1 \in DOMAIN q /\ q[1] = "ready"
  BY <1>1
<1>3. CASE connected[s]
  BY <1>3 DEF CloseIsLast
<1>4. CASE CloseBehindReady(strand[s])
  <2>1. \E m \in DOMAIN q : q[m] = "close"
    BY <1>1, <1>2, <1>4 DEF CloseBehindReady
  <2>2. QED
    BY <1>1, <2>1 DEF CloseIsLast, Has
<1>5. QED
  BY <1>3, <1>4 DEF CloseIsLast

\* The end of a session whose READY or character is somewhere goes there.
LEMMA FollowTell ==
  ASSUME TypeOK, ConnsServe, OnePermission, EndsFollow, NEW s \in Sessions, TellZone(s)
  PROVE  EndsFollow'
<1>0. PICK j \in Instances : j = target[s]
  BY DEF TypeOK
<1>1. /\ UNCHANGED <<registered, inside>> /\ io = <<"bye", s>>
      /\ SendToZone("bye", j, s)
  BY <1>0 DEF TellZone, managerVars, zoneVars
<1>2. \A t \in Sessions : t # s /\ Alive(t) => Alive(t)'
  BY <1>1 DEF Alive
<1>3. AtTarget(s)
  BY DEF OnePermission
<1>4. CASE /\ toZone' = toZone
           /\ zoneServers[j] \in Conns => conn[zoneServers[j]] # "up"
  <2>1. \A i \in Instances : s \notin inside[i]
    BY <1>0, <1>3, <1>4 DEF AtTarget, ConnsServe
  <2>2. \A c \in Conns : \A n \in DOMAIN toZone[c] : ~Sent(s, c, n)
    BY <1>0, <1>3, <1>4 DEF AtTarget, ConnsServe
  <2>3. ASSUME NEW t \in Sessions, NEW i \in Instances, t \in inside'[i]
        PROVE  InsideFollows(t, i)'
    <3>1. t # s /\ t \in inside[i]
      BY <1>1, <2>1, <2>3
    <3>2. InsideFollows(t, i)
      BY <3>1 DEF EndsFollow, InsideFollows
    <3>3. QED
      BY <1>2, <1>4, <3>1, <3>2 DEF InsideFollows, Farewell
  <2>4. ASSUME NEW t \in Sessions, NEW c \in Conns, NEW m \in DOMAIN toZone'[c], Sent(t, c, m)'
        PROVE  SentFollows(t, c, m)'
    <3>1. m \in DOMAIN toZone[c] /\ Sent(t, c, m)
      BY <1>4, <2>4 DEF Sent
    <3>2. t # s /\ SentFollows(t, c, m)
      BY <2>2, <3>1 DEF EndsFollow, SentFollows
    <3>3. QED
      BY <1>2, <1>4, <3>2 DEF SentFollows, Farewell
  <2>5. QED
    BY <2>3, <2>4 DEF EndsFollow, InsideFollows, SentFollows
<1>5. ASSUME NEW c \in Conns, NEW k \in Nat \ {0}, c = zoneServers[j], conn[c] = "up",
             OneMore(c, k), toZone'[c][k].kind = "bye", toZone'[c][k].at = j, toZone'[c][k].s = s
      PROVE  EndsFollow'
  <2>0. k \in DOMAIN toZone'[c]
    BY <1>5 DEF OneMore
  <2>1. ASSUME NEW t \in Sessions, NEW i \in Instances, t \in inside'[i]
        PROVE  InsideFollows(t, i)'
    <3>1. t \in inside[i]
      BY <1>1, <2>1
    <3>2. InsideFollows(t, i)
      BY <3>1 DEF EndsFollow, InsideFollows
    <3>3. CASE t = s
      <4>1. i = j
        BY <1>0, <1>3, <3>1, <3>3 DEF AtTarget
      <4>2. Farewell(t, i, c, 0, k)'
        BY <1>5, <2>0, <3>3, <4>1 DEF Farewell
      <4>3. QED
        BY <2>0, <4>2 DEF InsideFollows
    <3>4. CASE t # s /\ Alive(t)
      BY <1>2, <3>4 DEF InsideFollows
    <3>5. ASSUME NEW d \in Conns, NEW n \in DOMAIN toZone[d], Farewell(t, i, d, 0, n)
          PROVE  InsideFollows(t, i)'
      <4>1. Farewell(t, i, d, 0, n)'
        BY <1>5, <3>5, FarewellStays
      <4>2. n \in DOMAIN toZone'[d]
        BY <4>1 DEF Farewell
      <4>3. QED
        BY <4>1, <4>2 DEF InsideFollows
    <3>6. QED
      BY <3>2, <3>3, <3>4, <3>5 DEF InsideFollows
  <2>2. ASSUME NEW t \in Sessions, NEW d \in Conns, NEW m \in DOMAIN toZone'[d], Sent(t, d, m)'
        PROVE  SentFollows(t, d, m)'
    <3>1. ~(d = c /\ m = k)
      BY <1>5, <2>2 DEF Sent
    <3>2. m \in DOMAIN toZone[d] /\ toZone'[d][m] = toZone[d][m] /\ (d = c => m < k)
      BY <1>5, <2>2, <3>1 DEF OneMore
    <3>3. Sent(t, d, m)
      BY <2>2, <3>2 DEF Sent
    <3>4. SentFollows(t, d, m)
      BY <3>2, <3>3 DEF EndsFollow, SentFollows
    <3>5. CASE t = s
      <4>1. toZone[d][m].at = j
        BY <1>0, <1>3, <3>2, <3>3, <3>5 DEF AtTarget
      <4>2. conn[d] = "up" /\ j \in Hosts[d]
        BY <3>2, <4>1 DEF ConnsServe
      <4>3. d = c
        BY <1>5, <4>2 DEF ConnsServe
      <4>4. k > m
        BY <3>2, <4>3
      <4>5. Farewell(t, j, d, m, k)'
        BY <1>5, <2>0, <3>5, <4>3, <4>4 DEF Farewell
      <4>6. QED
        BY <2>0, <3>2, <4>1, <4>3, <4>5 DEF SentFollows
    <3>6. CASE t # s /\ Alive(t)
      BY <1>2, <3>6 DEF SentFollows
    <3>7. ASSUME NEW n \in DOMAIN toZone[d], Farewell(t, toZone[d][m].at, d, m, n)
          PROVE  SentFollows(t, d, m)'
      <4>0. PICK i : i = toZone[d][m].at
        OBVIOUS
      <4>1. Farewell(t, i, d, m, n)'
        BY <1>5, <3>7, <4>0, FarewellStays
      <4>2. n \in DOMAIN toZone'[d] /\ toZone'[d][m].at = i
        BY <3>2, <4>0, <4>1 DEF Farewell
      <4>3. QED
        BY <4>1, <4>2 DEF SentFollows
    <3>8. QED
      BY <3>4, <3>5, <3>6, <3>7 DEF SentFollows
  <2>3. QED
    BY <2>1, <2>2 DEF EndsFollow, InsideFollows, SentFollows
<1>6. QED
  BY <1>1, <1>4, <1>5, SendAdds

\* Steps that leave the packets alone and let nobody in.
LEMMA FollowQuiet ==
  ASSUME TypeOK, EndsFollow, Next, ~ \E s \in Sessions : TellZone(s),
         toZone' = toZone, \A i \in Instances : inside'[i] \subseteq inside[i]
  PROVE  EndsFollow'
<1>1. \A t \in Sessions : Alive(t) => Alive(t)'
  BY AliveStays
<1>2. ASSUME NEW t \in Sessions, NEW i \in Instances, t \in inside'[i]
      PROVE  InsideFollows(t, i)'
  <2>1. InsideFollows(t, i)
    BY <1>2 DEF EndsFollow, InsideFollows
  <2>2. QED
    BY <1>1, <2>1 DEF InsideFollows, Farewell
<1>3. ASSUME NEW t \in Sessions, NEW c \in Conns, NEW m \in DOMAIN toZone'[c], Sent(t, c, m)'
      PROVE  SentFollows(t, c, m)'
  <2>1. m \in DOMAIN toZone[c] /\ Sent(t, c, m)
    BY <1>3 DEF Sent
  <2>2. SentFollows(t, c, m)
    BY <2>1 DEF EndsFollow, SentFollows
  <2>3. QED
    BY <1>1, <2>2 DEF SentFollows, Farewell
<1>4. QED
  BY <1>2, <1>3 DEF EndsFollow, InsideFollows, SentFollows

\* A READY is sent while its session is registered.
LEMMA FollowReady ==
  ASSUME TypeOK, CloseIsLast, EndsFollow, NEW s \in Sessions, RouteReady(s)
  PROVE  EndsFollow'
<1>0. PICK j \in Instances : j = target[s]
  BY DEF TypeOK
<1>1. UNCHANGED <<registered, io, inside>> /\ s \in registered
  BY ReadyIsRegistered DEF RouteReady, NextHandler, managerVars, zoneVars
<1>2. \A t \in Sessions : Alive(t) => Alive(t)'
  BY <1>1 DEF Alive
<1>3. Alive(s)'
  BY <1>1 DEF Alive
<1>4. CASE toZone' = toZone
  <2>1. ASSUME NEW t \in Sessions, NEW i \in Instances, t \in inside'[i]
        PROVE  InsideFollows(t, i)'
    <3>1. InsideFollows(t, i)
      BY <1>1, <2>1 DEF EndsFollow, InsideFollows
    <3>2. QED
      BY <1>2, <1>4, <3>1 DEF InsideFollows, Farewell
  <2>2. ASSUME NEW t \in Sessions, NEW c \in Conns, NEW m \in DOMAIN toZone'[c], Sent(t, c, m)'
        PROVE  SentFollows(t, c, m)'
    <3>1. m \in DOMAIN toZone[c] /\ Sent(t, c, m)
      BY <1>4, <2>2 DEF Sent
    <3>2. SentFollows(t, c, m)
      BY <3>1 DEF EndsFollow, SentFollows
    <3>3. QED
      BY <1>2, <1>4, <3>2 DEF SentFollows, Farewell
  <2>3. QED
    BY <2>1, <2>2 DEF EndsFollow, InsideFollows, SentFollows
<1>5. ASSUME NEW c \in Conns, NEW k \in Nat \ {0}, OneMore(c, k), toZone'[c][k].s = s
      PROVE  EndsFollow'
  <2>1. ASSUME NEW t \in Sessions, NEW i \in Instances, t \in inside'[i]
        PROVE  InsideFollows(t, i)'
    <3>1. InsideFollows(t, i)
      BY <1>1, <2>1 DEF EndsFollow, InsideFollows
    <3>2. ASSUME NEW d \in Conns, NEW n \in DOMAIN toZone[d], Farewell(t, i, d, 0, n)
          PROVE  InsideFollows(t, i)'
      <4>1. Farewell(t, i, d, 0, n)'
        BY <1>5, <3>2, FarewellStays
      <4>2. n \in DOMAIN toZone'[d]
        BY <4>1 DEF Farewell
      <4>3. QED
        BY <4>1, <4>2 DEF InsideFollows
    <3>3. CASE Alive(t)
      BY <1>2, <3>3 DEF InsideFollows
    <3>4. QED
      BY <3>1, <3>2, <3>3 DEF InsideFollows
  <2>2. ASSUME NEW t \in Sessions, NEW d \in Conns, NEW m \in DOMAIN toZone'[d], Sent(t, d, m)'
        PROVE  SentFollows(t, d, m)'
    <3>1. CASE t = s
      BY <1>3, <3>1 DEF SentFollows
    <3>2. CASE t # s
      <4>1. ~(d = c /\ m = k)
        BY <1>5, <2>2, <3>2 DEF Sent
      <4>2. m \in DOMAIN toZone[d] /\ toZone'[d][m] = toZone[d][m]
        BY <1>5, <2>2, <4>1 DEF OneMore
      <4>3. Sent(t, d, m)
        BY <2>2, <4>2 DEF Sent
      <4>4. SentFollows(t, d, m)
        BY <4>2, <4>3 DEF EndsFollow, SentFollows
      <4>5. CASE Alive(t)
        BY <1>2, <4>5 DEF SentFollows
      <4>6. ASSUME NEW n \in DOMAIN toZone[d], Farewell(t, toZone[d][m].at, d, m, n)
            PROVE  SentFollows(t, d, m)'
        <5>0. PICK i : i = toZone[d][m].at
          OBVIOUS
        <5>1. Farewell(t, i, d, m, n)'
          BY <1>5, <4>6, <5>0, FarewellStays
        <5>2. n \in DOMAIN toZone'[d] /\ toZone'[d][m].at = i
          BY <4>2, <5>0, <5>1 DEF Farewell
        <5>3. QED
          BY <5>1, <5>2 DEF SentFollows
      <4>7. QED
        BY <4>4, <4>5, <4>6 DEF SentFollows
    <3>3. QED
      BY <3>1, <3>2
  <2>3. QED
    BY <2>1, <2>2 DEF EndsFollow, InsideFollows, SentFollows
<1>6. \/ toZone' = toZone
      \/ \E c \in Conns, k \in Nat \ {0} : OneMore(c, k) /\ toZone'[c][k].s = s
  <2>1. toZone' = toZone \/ SendToZone("ready", j, s)
    BY <1>0 DEF RouteReady
  <2>2. QED
    BY <2>1, SendAdds
<1>7. QED
  BY <1>4, <1>5, <1>6

\* A connection that breaks takes its characters along.
LEMMA FollowBreaks ==
  ASSUME TypeOK, ConnsServe, EndsFollow, NEW c \in Conns, ConnBreaks(c)
  PROVE  EndsFollow'
<1>1. /\ UNCHANGED <<registered, io>>
      /\ \A d \in Conns : toZone'[d] = IF d = c THEN <<>> ELSE toZone[d]
      /\ \A i \in Instances : inside'[i] = IF i \in Hosts[c] THEN {} ELSE inside[i]
  BY DEF ConnBreaks, managerVars, TypeOK
<1>2. \A t \in Sessions : Alive(t) => Alive(t)'
  BY <1>1 DEF Alive
<1>3. ASSUME NEW t, NEW i, NEW m, NEW n, NEW d \in Conns, Farewell(t, i, d, m, n), d # c
      PROVE  n \in DOMAIN toZone'[d] /\ Farewell(t, i, d, m, n)'
  BY <1>1, <1>3 DEF Farewell
<1>4. ASSUME NEW t \in Sessions, NEW i \in Instances, t \in inside'[i]
      PROVE  InsideFollows(t, i)'
  <2>1. i \notin Hosts[c] /\ InsideFollows(t, i)
    BY <1>1, <1>4 DEF EndsFollow, InsideFollows
  <2>2. CASE Alive(t)
    BY <1>2, <2>2 DEF InsideFollows
  <2>3. ASSUME NEW d \in Conns, NEW n \in DOMAIN toZone[d], Farewell(t, i, d, 0, n)
        PROVE  InsideFollows(t, i)'
    <3>1. d # c
      BY <2>1, <2>3 DEF ConnsServe, Farewell
    <3>2. QED
      BY <1>3, <2>3, <3>1 DEF InsideFollows
  <2>4. QED
    BY <2>1, <2>2, <2>3 DEF InsideFollows
<1>5. ASSUME NEW t \in Sessions, NEW d \in Conns, NEW m \in DOMAIN toZone'[d], Sent(t, d, m)'
      PROVE  SentFollows(t, d, m)'
  <2>1. d # c /\ m \in DOMAIN toZone[d] /\ toZone'[d] = toZone[d] /\ Sent(t, d, m)
    BY <1>1, <1>5 DEF Sent
  <2>2. SentFollows(t, d, m)
    BY <2>1 DEF EndsFollow, SentFollows
  <2>3. QED
    BY <1>2, <2>1, <2>2 DEF SentFollows, Farewell
<1>6. QED
  BY <1>4, <1>5 DEF EndsFollow, InsideFollows, SentFollows

\* A packet that is received moves the others up.
LEMMA FollowReceives ==
  ASSUME TypeOK, EndsFollow, NEW c \in Conns, ZoneReceives(c)
  PROVE  EndsFollow'
<1>1. /\ UNCHANGED <<registered, io>>
      /\ toZone[c] # <<>> /\ toZone' = [toZone EXCEPT ![c] = Tail(@)]
  BY DEF ZoneReceives, managerVars
<1>2. \A t \in Sessions : Alive(t) => Alive(t)'
  BY <1>1 DEF Alive
<1>3. /\ \A d \in Conns : d # c => toZone'[d] = toZone[d]
      /\ \A n \in DOMAIN toZone'[c] :
           n + 1 \in DOMAIN toZone[c] /\ toZone'[c][n] = toZone[c][n + 1]
      /\ 1 \in DOMAIN toZone[c]
      /\ DOMAIN toZone[c] \subseteq Nat \ {0} /\ DOMAIN toZone'[c] \subseteq Nat \ {0}
  BY <1>1, FirstTaken
<1>4. ASSUME NEW t \in Sessions, NEW i \in Instances, t \in inside'[i]
      PROVE  InsideFollows(t, i)'
  <2>1. CASE Sent(t, c, 1) /\ i = toZone[c][1].at
    <3>1. SentFollows(t, c, 1)
      BY <1>3, <2>1 DEF EndsFollow, SentFollows
    <3>2. CASE Alive(t)
      BY <1>2, <3>2 DEF InsideFollows
    <3>3. ASSUME NEW n \in DOMAIN toZone[c], Farewell(t, i, c, 1, n)
          PROVE  InsideFollows(t, i)'
      <4>1. n # 1
        BY <3>3 DEF Farewell
      <4>2. Farewell(t, i, c, 0, n)
        BY <1>3, <3>3 DEF Farewell
      <4>3. n - 1 \in DOMAIN toZone'[c] /\ Farewell(t, i, c, 0, n - 1)'
        BY <1>1, <4>1, <4>2, FarewellMoves
      <4>4. QED
        BY <4>3 DEF InsideFollows
    <3>4. QED
      BY <2>1, <3>1, <3>2, <3>3 DEF SentFollows
  <2>2. CASE t \in inside[i] /\ ~Farewell(t, i, c, 0, 1)
    <3>1. InsideFollows(t, i)
      BY <2>2 DEF EndsFollow, InsideFollows
    <3>2. CASE Alive(t)
      BY <1>2, <3>2 DEF InsideFollows
    <3>3. ASSUME NEW d \in Conns, NEW n \in DOMAIN toZone[d], Farewell(t, i, d, 0, n)
          PROVE  InsideFollows(t, i)'
      <4>1. CASE d # c
        BY <1>3, <3>3, <4>1 DEF InsideFollows, Farewell
      <4>2. CASE d = c
        <5>1. n # 1
          BY <2>2, <3>3, <4>2
        <5>2. n - 1 \in DOMAIN toZone'[c] /\ Farewell(t, i, c, 0, n - 1)'
          BY <1>1, <3>3, <4>2, <5>1, FarewellMoves
        <5>3. QED
          BY <5>2 DEF InsideFollows
      <4>3. QED
        BY <4>1, <4>2
    <3>4. QED
      BY <3>1, <3>2, <3>3 DEF InsideFollows
  <2>3. QED
    BY <1>4, <2>1, <2>2, InsideReceives
<1>5. ASSUME NEW t \in Sessions, NEW d \in Conns, NEW m \in DOMAIN toZone'[d], Sent(t, d, m)'
      PROVE  SentFollows(t, d, m)'
  <2>1. CASE d # c
    <3>1. toZone'[d] = toZone[d] /\ Sent(t, d, m) /\ m \in DOMAIN toZone[d]
      BY <1>3, <1>5, <2>1 DEF Sent
    <3>2. SentFollows(t, d, m)
      BY <3>1 DEF EndsFollow, SentFollows
    <3>3. QED
      BY <1>2, <3>1, <3>2 DEF SentFollows, Farewell
  <2>2. CASE d = c
    <3>1. /\ m \in Nat \ {0} /\ m + 1 \in DOMAIN toZone[c]
          /\ toZone'[c][m] = toZone[c][m + 1]
      BY <1>3, <1>5, <2>2
    <3>2. PICK k \in Nat \ {0} : k = m + 1
      BY <3>1
    <3>3. k \in DOMAIN toZone[c] /\ Sent(t, c, k)
      BY <1>5, <2>2, <3>1, <3>2 DEF Sent
    <3>4. SentFollows(t, c, k)
      BY <3>3 DEF EndsFollow, SentFollows
    <3>5. CASE Alive(t)
      BY <1>2, <3>5 DEF SentFollows
    <3>6. ASSUME NEW n \in DOMAIN toZone[c], Farewell(t, toZone[c][k].at, c, k, n)
          PROVE  SentFollows(t, d, m)'
      <4>0. PICK i : i = toZone[c][k].at
        OBVIOUS
      <4>1. n # 1 /\ Farewell(t, i, c, k, n)
        <5>1. n > k /\ n \in Nat
          BY <1>3, <3>6 DEF Farewell
        <5>2. QED
          BY <3>2, <3>6, <4>0, <5>1
      <4>2. n - 1 \in DOMAIN toZone'[c] /\ Farewell(t, i, c, k - 1, n - 1)'
        BY <1>1, <4>1, FarewellMoves
      <4>3. k - 1 = m /\ toZone'[c][m].at = i
        BY <3>1, <3>2, <4>0
      <4>4. QED
        BY <2>2, <4>2, <4>3 DEF SentFollows
    <3>7. QED
      BY <3>4, <3>5, <3>6 DEF SentFollows
  <2>3. QED
    BY <2>1, <2>2
<1>6. QED
  BY <1>4, <1>5 DEF EndsFollow, InsideFollows, SentFollows

\* The end of a session follows it in every step.
LEMMA FollowStep ==
  ASSUME TypeOK, CloseIsLast, ConnsServe, OnePermission, EndsFollow, Next
  PROVE  EndsFollow'
<1>1. CASE \E s \in Sessions : RouteReady(s)
  BY <1>1, FollowReady
<1>2. CASE \E s \in Sessions : TellZone(s)
  BY <1>2, FollowTell
<1>3. CASE \E c \in Conns : ConnBreaks(c)
  BY <1>3, FollowBreaks
<1>4. CASE \E c \in Conns : ZoneReceives(c)
  BY <1>4, FollowReceives
<1>5. ASSUME NEW c \in Conns, Handshake(c) \/ ConnClose(c) \/ UnregisterZones(c)
      PROVE  UNCHANGED <<toZone, inside>>
  BY <1>5 DEF Handshake, ConnClose, UnregisterZones, zoneVars
<1>6. ASSUME NEW c \in Conns, NEW s \in Sessions, NEW i \in Instances, NEW j \in Instances,
             ZonePortal(c, s, i, j[1])
      PROVE  toZone' = toZone /\ \A k \in Instances : inside'[k] \subseteq inside[k]
  BY <1>6 DEF ZonePortal, TypeOK
<1>7. CASE /\ toZone' = toZone /\ \A i \in Instances : inside'[i] \subseteq inside[i]
           /\ ~ \E s \in Sessions : TellZone(s)
  BY <1>7, FollowQuiet
<1>8. QED
  BY <1>1, <1>2, <1>3, <1>4, <1>5, <1>6, <1>7, ZoneActions

-----------------------------------------------------------------------------
\* Whoever of the account came before is sent off first.
SentOff(t, c, n) ==
  /\ \A i \in Hosts[c] : t \in inside[i] =>
       \E k \in DOMAIN toZone[c] : k < n /\ Farewell(t, i, c, 0, k)
  /\ \A m \in DOMAIN toZone[c] : m < n /\ Sent(t, c, m) =>
       \E k \in DOMAIN toZone[c] : k < n /\ Farewell(t, toZone[c][m].at, c, m, k)

LEMMA EndsComeFirstIs ==
  EndsComeFirst <=>
    \A c \in Conns : \A s, t \in Sessions : \A n \in DOMAIN toZone[c] :
      Sent(s, c, n) /\ t # s /\ UserOf[t] = UserOf[s] => SentOff(t, c, n)
BY DEF EndsComeFirst, SentOff

\* Packets behind a READY do not matter to it.
LEMMA FirstOneMore ==
  ASSUME TypeOK, NEW e, NEW k, OneMore(e, k), inside' = inside,
         NEW t, NEW c \in Conns, NEW n \in DOMAIN toZone[c], SentOff(t, c, n)
  PROVE  SentOff(t, c, n)'
<1>1. ASSUME NEW i \in Hosts[c], t \in inside'[i]
      PROVE  \E j \in DOMAIN toZone'[c] : j < n /\ Farewell(t, i, c, 0, j)'
  <2>1. PICK j \in DOMAIN toZone[c] : j < n /\ Farewell(t, i, c, 0, j)
    BY <1>1 DEF SentOff
  <2>2. Farewell(t, i, c, 0, j)'
    BY <2>1, FarewellStays
  <2>3. j \in DOMAIN toZone'[c]
    BY <2>2 DEF Farewell
  <2>4. QED
    BY <2>1, <2>2, <2>3
<1>2. ASSUME NEW m \in DOMAIN toZone'[c], m < n, Sent(t, c, m)'
      PROVE  \E j \in DOMAIN toZone'[c] : j < n /\ Farewell(t, toZone[c][m].at, c, m, j)'
                                          /\ toZone'[c][m].at = toZone[c][m].at
  <2>1. m \in DOMAIN toZone[c]
    <3>1. k \in Nat /\ n \in Nat /\ (e = c => n < k)
      <4>1. DOMAIN toZone[c] \subseteq Nat
        <5>1. toZone[c] \in Seq(ZonePacket)
          BY DEF TypeOK
        <5>2. QED
          BY <5>1
      <4>2. QED
        BY <4>1 DEF OneMore
    <3>2. ~(c = e /\ m = k)
      BY <1>2, <3>1
    <3>3. QED
      BY <3>2 DEF OneMore
  <2>2. toZone'[c][m] = toZone[c][m]
    BY <2>1 DEF OneMore
  <2>3. Sent(t, c, m)
    BY <1>2, <2>1, <2>2 DEF Sent
  <2>4. PICK i : i = toZone[c][m].at
    OBVIOUS
  <2>5. PICK j \in DOMAIN toZone[c] : j < n /\ Farewell(t, i, c, m, j)
    BY <1>2, <2>1, <2>3, <2>4 DEF SentOff
  <2>6. Farewell(t, i, c, m, j)'
    BY <2>5, FarewellStays
  <2>7. j \in DOMAIN toZone'[c]
    BY <2>6 DEF Farewell
  <2>8. QED
    BY <2>2, <2>4, <2>5, <2>6, <2>7
<1>3. QED
  BY <1>1, <1>2 DEF SentOff

\* When a READY is sent, every other session of the account has ended, and its end
\* has been told.
LEMMA FirstReady ==
  ASSUME TypeOK, TypeOK', RegisteredAreBound, TasksHoldState, CloseIsLast, ConnsServe, OnePermission,
         EndsFollow, EndsComeFirst, NEW s \in Sessions, RouteReady(s)
  PROVE  EndsComeFirst'
<1>0. PICK at \in Instances : at = target[s]
  BY DEF TypeOK
<1>1. /\ io = Free /\ s \in registered
      /\ UNCHANGED <<registered, inside, conn, zoneServers>>
  BY ReadyIsRegistered DEF RouteReady, NextHandler, managerVars, zoneVars
<1>2. CASE toZone' = toZone
  BY <1>1, <1>2, EndsComeFirstIs DEF EndsComeFirst, SentOff, Sent, Farewell
<1>3. ASSUME state[s] = "InGame", NEW e \in Conns, NEW k \in Nat \ {0}, e = zoneServers[at],
             conn[e] = "up", OneMore(e, k), toZone'[e][k].s = s
      PROVE  EndsComeFirst'
  <2>1. ASSUME NEW t \in Sessions, t # s, UserOf[t] = UserOf[s],
               IsInside(t) \/ IsSent(t)
        PROVE  ~Alive(t)
    <3>1. state[t] = "InGame"
      BY <2>1 DEF OnePermission, OneAtATime
    <3>2. userUID[t] = UserOf[s] /\ userUID[s] = UserOf[s]
      BY <1>3, <2>1, <3>1 DEF TasksHoldState
    <3>3. UserOf[s] # NoUser
      BY GatewayAssumption
    <3>4. binding[UserOf[s]] = s
      BY <1>1, <3>2, <3>3 DEF RegisteredAreBound
    <3>5. t \notin registered
      BY <2>1, <3>2, <3>3, <3>4 DEF RegisteredAreBound
    <3>6. QED
      BY <1>1, <3>5 DEF Alive, Free
  <2>2. ASSUME NEW t \in Sessions, t # s, UserOf[t] = UserOf[s]
        PROVE  SentOff(t, e, k)'
    <3>1. ASSUME NEW i \in Hosts[e], t \in inside'[i]
          PROVE  \E j \in DOMAIN toZone'[e] : j < k /\ Farewell(t, i, e, 0, j)'
      <4>0. i \in Instances /\ t \in inside[i]
        BY <1>1, <3>1, GatewayAssumption
      <4>1. ~Alive(t)
        BY <2>1, <2>2, <4>0 DEF IsInside
      <4>2. PICK d \in Conns : \E j \in DOMAIN toZone[d] : Farewell(t, i, d, 0, j)
        BY <4>0, <4>1 DEF EndsFollow
      <4>3. PICK j \in DOMAIN toZone[d] : Farewell(t, i, d, 0, j)
        BY <4>2
      <4>4. conn[d] = "up" /\ i \in Hosts[d]
        BY <4>3 DEF ConnsServe, Farewell
      <4>5. d = e
        BY <1>3, <4>4, OneServes
      <4>6. j < k /\ Farewell(t, i, e, 0, j)'
        BY <1>3, <4>3, <4>5, FarewellStays DEF OneMore
      <4>7. j \in DOMAIN toZone'[e]
        BY <4>6 DEF Farewell
      <4>8. QED
        BY <4>6, <4>7
    <3>2. ASSUME NEW m \in DOMAIN toZone'[e], m < k, Sent(t, e, m)'
          PROVE  \E j \in DOMAIN toZone'[e] : j < k /\ Farewell(t, toZone[e][m].at, e, m, j)'
                                              /\ toZone'[e][m].at = toZone[e][m].at
      <4>1. m # k
        BY <3>2
      <4>2. m \in DOMAIN toZone[e] /\ toZone'[e][m] = toZone[e][m]
        BY <1>3, <4>1 DEF OneMore
      <4>3. Sent(t, e, m)
        BY <3>2, <4>2 DEF Sent
      <4>4. ~Alive(t)
        BY <2>1, <2>2, <4>2, <4>3 DEF IsSent
      <4>5. PICK i : i = toZone[e][m].at
        OBVIOUS
      <4>6. PICK j \in DOMAIN toZone[e] : Farewell(t, i, e, m, j)
        BY <4>2, <4>3, <4>4, <4>5 DEF EndsFollow
      <4>7. j < k /\ Farewell(t, i, e, m, j)'
        BY <1>3, <4>6, FarewellStays DEF OneMore
      <4>8. j \in DOMAIN toZone'[e]
        BY <4>7 DEF Farewell
      <4>9. QED
        BY <4>2, <4>5, <4>7, <4>8
    <3>3. QED
      BY <3>1, <3>2 DEF SentOff
  <2>3. SUFFICES ASSUME NEW c \in Conns, NEW r \in Sessions, NEW t \in Sessions,
                        NEW n \in DOMAIN toZone'[c],
                        Sent(r, c, n)', t # r, UserOf[t] = UserOf[r]
                 PROVE  SentOff(t, c, n)'
    BY DEF EndsComeFirst, SentOff
  <2>4. CASE c = e /\ n = k
    <3>1. r = s
      BY <1>3, <2>3, <2>4 DEF Sent
    <3>2. QED
      BY <2>2, <2>3, <2>4, <3>1
  <2>5. CASE n \in DOMAIN toZone[c]
    <3>1. toZone'[c][n] = toZone[c][n]
      BY <1>3, <2>5 DEF OneMore
    <3>2. Sent(r, c, n)
      BY <2>3, <2>5, <3>1 DEF Sent
    <3>3. SentOff(t, c, n)
      BY <2>3, <2>5, <3>2, EndsComeFirstIs
    <3>4. QED
      BY <1>1, <1>3, <2>5, <3>3, FirstOneMore
  <2>6. QED
    BY <1>3, <2>4, <2>5 DEF OneMore
<1>4. \/ toZone' = toZone
      \/ /\ state[s] = "InGame"
         /\ \E c \in Conns, k \in Nat \ {0} :
              c = zoneServers[at] /\ conn[c] = "up" /\ OneMore(c, k) /\ toZone'[c][k].s = s
  <2>1. toZone' = toZone \/ (state[s] = "InGame" /\ SendToZone("ready", at, s))
    BY <1>0 DEF RouteReady
  <2>2. QED
    BY <2>1, SendAdds
<1>5. QED
  BY <1>2, <1>3, <1>4

\* A notice of an end is behind every READY.
LEMMA FirstTell ==
  ASSUME TypeOK, EndsComeFirst, NEW s \in Sessions, TellZone(s)
  PROVE  EndsComeFirst'
<1>0. PICK at \in Instances : at = target[s]
  BY DEF TypeOK
<1>1. inside' = inside
  BY DEF TellZone, zoneVars
<1>2. CASE toZone' = toZone
  BY <1>1, <1>2 DEF EndsComeFirst, Sent, Farewell
<1>3. ASSUME NEW e \in Conns, NEW k \in Nat \ {0}, OneMore(e, k), toZone'[e][k].kind = "bye"
      PROVE  EndsComeFirst'
  <2>1. SUFFICES ASSUME NEW c \in Conns, NEW r \in Sessions, NEW t \in Sessions,
                        NEW n \in DOMAIN toZone'[c],
                        Sent(r, c, n)', t # r, UserOf[t] = UserOf[r]
                 PROVE  SentOff(t, c, n)'
    BY DEF EndsComeFirst, SentOff
  <2>2. n \in DOMAIN toZone[c]
    <3>1. ~(c = e /\ n = k)
      BY <1>3, <2>1 DEF Sent
    <3>2. QED
      BY <1>3, <2>1, <3>1 DEF OneMore
  <2>3. toZone'[c][n] = toZone[c][n]
    BY <1>3, <2>2 DEF OneMore
  <2>4. Sent(r, c, n)
    BY <2>1, <2>2, <2>3 DEF Sent
  <2>5. SentOff(t, c, n)
    BY <2>1, <2>2, <2>4, EndsComeFirstIs
  <2>6. QED
    BY <1>1, <1>3, <2>2, <2>5, FirstOneMore
<1>4. \/ toZone' = toZone
      \/ \E c \in Conns, k \in Nat \ {0} : OneMore(c, k) /\ toZone'[c][k].kind = "bye"
  <2>1. SendToZone("bye", at, s)
    BY <1>0 DEF TellZone
  <2>2. QED
    BY <2>1, SendAdds
<1>5. QED
  BY <1>2, <1>3, <1>4

\* Nothing new for connection c.
LEMMA FirstKept ==
  ASSUME NEW t, NEW c \in Conns, NEW n, toZone'[c] = toZone[c],
         \A i \in Hosts[c] : t \in inside'[i] => t \in inside[i],
         SentOff(t, c, n)
  PROVE  SentOff(t, c, n)'
BY DEF SentOff, Sent, Farewell

\* A connection that breaks carries nothing.
LEMMA FirstBreaks ==
  ASSUME TypeOK, EndsComeFirst, NEW e \in Conns, ConnBreaks(e)
  PROVE  EndsComeFirst'
<1>1. /\ \A d \in Conns : toZone'[d] = IF d = e THEN <<>> ELSE toZone[d]
      /\ \A i \in Instances : inside'[i] = IF i \in Hosts[e] THEN {} ELSE inside[i]
  BY DEF ConnBreaks, TypeOK
<1>2. \A c \in Conns : Hosts[c] \subseteq Instances
  BY GatewayAssumption
<1>3. SUFFICES ASSUME NEW c \in Conns, NEW r \in Sessions, NEW t \in Sessions,
                      NEW n \in DOMAIN toZone'[c],
                      Sent(r, c, n)', t # r, UserOf[t] = UserOf[r]
               PROVE  SentOff(t, c, n)'
  BY DEF EndsComeFirst, SentOff
<1>4. toZone'[c] = toZone[c] /\ n \in DOMAIN toZone[c] /\ Sent(r, c, n)
  BY <1>1, <1>3 DEF Sent
<1>5. SentOff(t, c, n)
  BY <1>3, <1>4, EndsComeFirstIs
<1>6. \A i \in Hosts[c] : t \in inside'[i] => t \in inside[i]
  BY <1>1, <1>2
<1>7. QED
  BY <1>4, <1>5, <1>6, FirstKept

\* The order stays when the first packet is received.
LEMMA FirstReceives ==
  ASSUME TypeOK, ConnsServe, EndsComeFirst, NEW e \in Conns, ZoneReceives(e)
  PROVE  EndsComeFirst'
<1>1. conn[e] = "up" /\ toZone[e] # <<>> /\ toZone' = [toZone EXCEPT ![e] = Tail(@)]
  BY DEF ZoneReceives
<1>2. /\ \A d \in Conns : d # e => toZone'[d] = toZone[d]
      /\ \A n \in DOMAIN toZone'[e] :
           n + 1 \in DOMAIN toZone[e] /\ toZone'[e][n] = toZone[e][n + 1]
      /\ 1 \in DOMAIN toZone[e]
      /\ DOMAIN toZone[e] \subseteq Nat \ {0} /\ DOMAIN toZone'[e] \subseteq Nat \ {0}
  BY <1>1, FirstTaken
<1>3. SUFFICES ASSUME NEW c \in Conns, NEW r \in Sessions, NEW t \in Sessions,
                      NEW n \in DOMAIN toZone'[c],
                      Sent(r, c, n)', t # r, UserOf[t] = UserOf[r]
               PROVE  SentOff(t, c, n)'
  BY DEF EndsComeFirst, SentOff
<1>4. CASE c # e
  <2>1. toZone'[c] = toZone[c] /\ n \in DOMAIN toZone[c] /\ Sent(r, c, n)
    BY <1>2, <1>3, <1>4 DEF Sent
  <2>2. SentOff(t, c, n)
    BY <1>3, <2>1, EndsComeFirstIs
  <2>3. conn[c] = "up"
    BY <2>1 DEF ConnsServe
  <2>4. ASSUME NEW i \in Hosts[c], t \in inside'[i]
        PROVE  t \in inside[i]
    <3>1. i \in Instances
      BY GatewayAssumption
    <3>2. CASE Sent(t, e, 1) /\ i = toZone[e][1].at
      <4>1. i \in Hosts[e]
        BY <1>2, <3>2 DEF ConnsServe
      <4>2. QED
        BY <1>1, <1>4, <2>3, <4>1, OneServes
    <3>3. QED
      BY <2>4, <3>1, <3>2, InsideReceives
  <2>5. QED
    BY <2>1, <2>2, <2>4, FirstKept
<1>5. CASE c = e
  <2>1. n \in Nat \ {0} /\ n + 1 \in DOMAIN toZone[e] /\ toZone'[e][n] = toZone[e][n + 1]
    BY <1>2, <1>3, <1>5
  <2>2. PICK l \in Nat \ {0} : l = n + 1
    BY <2>1
  <2>3. l \in DOMAIN toZone[e] /\ Sent(r, e, l)
    BY <1>3, <1>5, <2>1, <2>2 DEF Sent
  <2>4. SentOff(t, e, l)
    BY <1>3, <2>3, EndsComeFirstIs
  <2>5. ASSUME NEW i \in Hosts[e], t \in inside'[i]
        PROVE  \E k \in DOMAIN toZone'[e] : k < n /\ Farewell(t, i, e, 0, k)'
    <3>0. i \in Instances
      BY GatewayAssumption
    <3>1. CASE Sent(t, e, 1) /\ i = toZone[e][1].at
      <4>1. 1 < l
        BY <2>1, <2>2
      <4>2. PICK k \in DOMAIN toZone[e] : k < l /\ Farewell(t, i, e, 1, k)
        BY <1>2, <2>4, <3>1, <4>1 DEF SentOff
      <4>3. k \in Nat /\ k # 1 /\ k > 1
        BY <1>2, <4>2 DEF Farewell
      <4>4. Farewell(t, i, e, 0, k)
        BY <4>2, <4>3 DEF Farewell
      <4>5. k - 1 \in DOMAIN toZone'[e] /\ Farewell(t, i, e, 0, k - 1)'
        BY <1>1, <4>3, <4>4, FarewellMoves
      <4>6. k - 1 < n
        BY <2>1, <2>2, <4>2, <4>3
      <4>7. QED
        BY <4>5, <4>6
    <3>2. CASE t \in inside[i] /\ ~Farewell(t, i, e, 0, 1)
      <4>1. PICK k \in DOMAIN toZone[e] : k < l /\ Farewell(t, i, e, 0, k)
        BY <2>4, <3>2 DEF SentOff
      <4>2. k \in Nat /\ k # 1
        BY <1>2, <3>2, <4>1
      <4>3. k - 1 \in DOMAIN toZone'[e] /\ Farewell(t, i, e, 0, k - 1)'
        BY <1>1, <4>1, <4>2, FarewellMoves
      <4>4. k - 1 < n
        BY <2>1, <2>2, <4>1, <4>2
      <4>5. QED
        BY <4>3, <4>4
    <3>3. QED
      BY <2>5, <3>0, <3>1, <3>2, InsideReceives
  <2>6. ASSUME NEW m \in DOMAIN toZone'[e], m < n, Sent(t, e, m)'
        PROVE  \E k \in DOMAIN toZone'[e] : k < n /\ Farewell(t, toZone[e][m].at, e, m, k)'
    <3>1. m \in Nat \ {0} /\ m + 1 \in DOMAIN toZone[e] /\ toZone'[e][m] = toZone[e][m + 1]
      BY <1>2
    <3>2. PICK p \in Nat \ {0} : p = m + 1
      BY <3>1
    <3>3. p \in DOMAIN toZone[e] /\ Sent(t, e, p) /\ p < l
      BY <2>1, <2>2, <2>6, <3>1, <3>2 DEF Sent
    <3>4. PICK i : i = toZone[e][p].at
      OBVIOUS
    <3>5. PICK k \in DOMAIN toZone[e] : k < l /\ Farewell(t, i, e, p, k)
      BY <2>4, <3>3, <3>4 DEF SentOff
    <3>6. k \in Nat /\ k # 1
      BY <1>2, <3>2, <3>5 DEF Farewell
    <3>7. k - 1 \in DOMAIN toZone'[e] /\ Farewell(t, i, e, p - 1, k - 1)'
      BY <1>1, <3>5, <3>6, FarewellMoves
    <3>8. p - 1 = m /\ k - 1 < n /\ toZone'[e][m].at = i
      BY <2>1, <2>2, <3>1, <3>2, <3>4, <3>5, <3>6
    <3>9. QED
      BY <3>7, <3>8
  <2>7. QED
    BY <1>5, <2>5, <2>6 DEF SentOff
<1>6. QED
  BY <1>4, <1>5

\* The order holds after every step.
LEMMA FirstStep ==
  ASSUME TypeOK, TypeOK', RegisteredAreBound, TasksHoldState, CloseIsLast, ConnsServe, OnePermission,
         EndsFollow, EndsComeFirst, Next
  PROVE  EndsComeFirst'
<1>1. CASE \E s \in Sessions : RouteReady(s)
  BY <1>1, FirstReady
<1>2. CASE \E s \in Sessions : TellZone(s)
  BY <1>2, FirstTell
<1>3. CASE \E c \in Conns : ConnBreaks(c)
  BY <1>3, FirstBreaks
<1>4. CASE \E c \in Conns : ZoneReceives(c)
  BY <1>4, FirstReceives
<1>5. ASSUME NEW c \in Conns, Handshake(c) \/ ConnClose(c) \/ UnregisterZones(c)
      PROVE  UNCHANGED <<toZone, inside>>
  BY <1>5 DEF Handshake, ConnClose, UnregisterZones, zoneVars
<1>6. ASSUME NEW c \in Conns, NEW s \in Sessions, NEW i \in Instances, NEW j \in Instances,
             ZonePortal(c, s, i, j[1])
      PROVE  toZone' = toZone /\ \A k \in Instances : inside'[k] \subseteq inside[k]
  BY <1>6 DEF ZonePortal, TypeOK
<1>7. CASE toZone' = toZone /\ \A i \in Instances : inside'[i] \subseteq inside[i]
  <2>1. \A c \in Conns : Hosts[c] \subseteq Instances
    BY GatewayAssumption
  <2>2. SUFFICES ASSUME NEW c \in Conns, NEW r \in Sessions, NEW t \in Sessions,
                        NEW n \in DOMAIN toZone'[c],
                        Sent(r, c, n)', t # r, UserOf[t] = UserOf[r]
                 PROVE  SentOff(t, c, n)'
    BY DEF EndsComeFirst, SentOff
  <2>3. Sent(r, c, n) /\ n \in DOMAIN toZone[c]
    BY <1>7, <2>2 DEF Sent
  <2>4. SentOff(t, c, n)
    BY <2>2, <2>3, EndsComeFirstIs
  <2>5. QED
    BY <1>7, <2>1, <2>4, FirstKept
<1>8. QED
  BY <1>1, <1>2, <1>3, <1>4, <1>5, <1>6, <1>7, ZoneActions

-----------------------------------------------------------------------------
\* In a new gateway nobody has a permission.
LEMMA InitPInv == Init => PInv
<1> SUFFICES ASSUME Init PROVE PInv
  OBVIOUS
<1>1. TasksHoldState
  BY DEF Init, TasksHoldState
<1>2. CloseIsLast
  BY DEF Init, CloseIsLast, Has, Once, CloseBehindReady
<1>3. ConnsServe
  BY GatewayAssumption DEF Init, ConnsServe
<1>4. \A s \in Sessions : ~mayReady[s] /\ ~Asked(s) /\ ~IsSent(s) /\ ~IsInside(s) /\ ~HasLeft(s)
  BY DEF Init, Asked, Has, IsSent, IsInside, HasLeft
<1>5. OnePermission
  BY <1>4 DEF Init, OnePermission, OneAtATime, Once, SentOnce, LeavesOnce, AtTarget
<1>6. EndsFollow /\ EndsComeFirst
  BY DEF Init, EndsFollow, EndsComeFirst
<1>7. QED
  BY <1>1, <1>2, <1>3, <1>5, <1>6 DEF PInv

\* Permissions and ends are inductive, as long as no read is handled after the close.
LEMMA PStep ==
  ASSUME ReadsAfterClose = FALSE, IInv, IInv', PInv, [Next]_vars
  PROVE  PInv'
<1>1. CASE Next
  <2>1. /\ TypeOK /\ TypeOK' /\ NewIsFresh /\ RegisteredAreBound
        /\ TasksHoldState /\ CloseIsLast /\ ConnsServe /\ OnePermission /\ EndsFollow /\ EndsComeFirst
    BY DEF IInv, PInv
  <2>2. TasksHoldState'
    BY <1>1, <2>1, TasksStep
  <2>3. CloseIsLast'
    BY <1>1, <2>1, CloseLastStep
  <2>4. ConnsServe'
    BY <1>1, <2>1, ServeStep
  <2>5. OnePermission'
    BY <1>1, <2>1, PermStep
  <2>6. EndsFollow'
    BY <1>1, <2>1, FollowStep
  <2>7. EndsComeFirst'
    BY <1>1, <2>1, FirstStep
  <2>8. QED
    BY <2>2, <2>3, <2>4, <2>5, <2>6, <2>7 DEF PInv
<1>2. CASE UNCHANGED vars
  <2>1. /\ TasksHoldState /\ CloseIsLast /\ ConnsServe /\ OnePermission /\ EndsFollow /\ EndsComeFirst
        /\ UNCHANGED vars
    BY <1>2 DEF PInv
  <2>2. TasksHoldState'
    BY <2>1 DEF TasksHoldState, vars, sessionVars, taskVars
  <2>3. CloseIsLast'
    BY <2>1 DEF CloseIsLast, vars, sessionVars, netVars, managerVars
  <2>4. ConnsServe'
    BY <2>1 DEF ConnsServe, vars, connVars, zoneVars
  <2>5. OnePermission'
    <3>1. UNCHANGED <<mayReady, strand, state, target, toZone, fromZone, inside>>
      BY <2>1 DEF vars, netVars, sessionVars, connVars, zoneVars
    <3>2. \A s \in Sessions :
            /\ Asked(s)' = Asked(s) /\ IsSent(s)' = IsSent(s)
            /\ IsInside(s)' = IsInside(s) /\ HasLeft(s)' = HasLeft(s)
            /\ SentOnce(s)' = SentOnce(s) /\ LeavesOnce(s)' = LeavesOnce(s)
            /\ AtTarget(s)' = AtTarget(s)
      BY <3>1 DEF Asked, IsSent, Sent, IsInside, HasLeft, Leaves, SentOnce, LeavesOnce, AtTarget
    <3>3. QED
      BY <2>1, <3>1, <3>2 DEF OnePermission, OneAtATime
  <2>6. UNCHANGED <<registered, io, toZone, inside>>
    BY <2>1 DEF vars, managerVars, connVars, zoneVars
  <2>7. EndsFollow'
    BY <2>1, <2>6 DEF EndsFollow, Alive, Farewell, Sent
  <2>8. EndsComeFirst'
    BY <2>1, <2>6 DEF EndsComeFirst, Farewell, Sent
  <2>9. QED
    BY <2>2, <2>3, <2>4, <2>5, <2>7, <2>8 DEF PInv
<1>3. QED
  BY <1>1, <1>2

\* One permission at a time, and the end behind it, in every state.
THEOREM Permissions ==
  ASSUME ReadsAfterClose = FALSE
  PROVE  Spec => [](IInv /\ PInv)
<1>1. Spec => []IInv
  BY Invariance
<1>2. IInv /\ IInv' /\ PInv /\ [Next]_vars => PInv'
  BY PStep
<1>3. QED
  BY <1>1, <1>2, InitPInv, PTL DEF Spec

\* The end of a session is told to its zone (ZoneManager.cpp:51), for any number of
\* sessions, accounts, connections and instances: whoever is still inside an instance is
\* registered, or about to be told of, or a packet for that very instance is under way.
\* The notice is sent to the session's target of that moment; it reaches the character
\* since the target cannot have moved on while the character is inside or its READY on
\* its way.
THEOREM EndIsTold ==
  ASSUME ReadsAfterClose = FALSE
  PROVE  Spec => []ZoneIsTold
<1>1. IInv /\ PInv => ZoneIsTold
  <2> SUFFICES ASSUME PInv, NEW i \in Instances, NEW s \in inside[i], TypeOK
               PROVE  s \in registered \/ io = <<"bye", s>> \/ OnItsWay(s, i)
    BY DEF ZoneIsTold, IInv
  <2>1. s \in Sessions
    BY DEF TypeOK
  <2>2. Alive(s) \/ \E c \in Conns : \E k \in DOMAIN toZone[c] : Farewell(s, i, c, 0, k)
    BY <2>1 DEF PInv, EndsFollow
  <2>3. QED
    BY <2>2 DEF Alive, OnItsWay, Farewell
<1>2. QED
  BY <1>1, Permissions, PTL

\* EntersAlone, as far as the instances of the READY's own connection go.
AloneAtServer ==
  \A c \in Conns : toZone[c] # <<>> /\ Head(toZone[c]).kind = "ready" =>
    \A i \in Hosts[c] : \A t \in inside[i] :
      UserOf[t] = UserOf[Head(toZone[c]).s] => t = Head(toZone[c]).s

\* A character comes in alone, however many zone servers there are: when a READY is next
\* to be handled, no instance of that zone server holds the character for another session
\* of the account, since that session's notice went out on the same connection before it.
THEOREM ComesInAloneHere ==
  ASSUME ReadsAfterClose = FALSE
  PROVE  Spec => []AloneAtServer
<1>1. IInv /\ PInv => AloneAtServer
  <2> SUFFICES ASSUME IInv, PInv, NEW c \in Conns, toZone[c] # <<>>,
                      Head(toZone[c]).kind = "ready",
                      NEW i \in Hosts[c], NEW t \in inside[i],
                      UserOf[t] = UserOf[Head(toZone[c]).s], t # Head(toZone[c]).s
               PROVE  FALSE
    BY DEF AloneAtServer
  <2>0. i \in Instances
    BY GatewayAssumption
  <2>1. TypeOK /\ EndsComeFirst /\ toZone[c] \in Seq(ZonePacket) /\ t \in Sessions
    BY <2>0 DEF IInv, PInv, TypeOK
  <2>2. 1 \in DOMAIN toZone[c] /\ toZone[c][1] = Head(toZone[c]) /\ DOMAIN toZone[c] \subseteq Nat
    BY <2>1
  <2>3. PICK s \in Sessions : s = Head(toZone[c]).s
    BY <2>1, <2>2, PacketIs
  <2>4. Sent(s, c, 1)
    BY <2>2, <2>3 DEF Sent
  <2>5. PICK k \in DOMAIN toZone[c] : k < 1 /\ Farewell(t, i, c, 0, k)
    BY <2>1, <2>2, <2>3, <2>4 DEF EndsComeFirst
  <2>6. k \in Nat /\ k > 0
    BY <2>2, <2>5 DEF Farewell
  <2>7. QED
    BY <2>5, <2>6
<1>2. QED
  BY <1>1, Permissions, PTL

\* All the instances belong to one zone server, which may connect again and again.
OneZoneServer == \A c, d \in Conns : Hosts[c] \cap Hosts[d] # {}

\* With one zone server, as the repository starts it, no instance at all holds the
\* character.  With two, the notice and the READY may be on different connections, and
\* nothing orders them.
THEOREM ComesInAlone ==
  ASSUME ReadsAfterClose = FALSE, OneZoneServer
  PROVE  Spec => []EntersAlone
<1>1. IInv /\ PInv /\ AloneAtServer => EntersAlone
  <2> SUFFICES ASSUME IInv, PInv, AloneAtServer, NEW c \in Conns, toZone[c] # <<>>,
                      Head(toZone[c]).kind = "ready",
                      NEW i \in Instances, NEW t \in inside[i],
                      UserOf[t] = UserOf[Head(toZone[c]).s]
               PROVE  t = Head(toZone[c]).s
    BY DEF EntersAlone
  <2>1. TypeOK /\ ConnsServe /\ toZone[c] \in Seq(ZonePacket)
    BY DEF IInv, PInv, TypeOK
  <2>2. 1 \in DOMAIN toZone[c]
    BY <2>1
  <2>3. i \in Hosts[c]
    <3>1. PICK d \in Conns : conn[d] = "up" /\ i \in Hosts[d]
      BY <2>1 DEF ConnsServe
    <3>2. conn[c] = "up"
      BY <2>1, <2>2 DEF ConnsServe
    <3>3. PICK j : j \in Hosts[c] /\ j \in Hosts[d]
      BY DEF OneZoneServer
    <3>4. c = d
      BY <2>1, <3>1, <3>2, <3>3, OneServes
    <3>5. QED
      BY <3>1, <3>4
  <2>4. QED
    BY <2>3 DEF AloneAtServer
<1>2. QED
  BY <1>1, ComesInAloneHere, Permissions, PTL
=============================================================================
