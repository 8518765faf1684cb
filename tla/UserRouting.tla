---------------------------- MODULE UserRouting -----------------------------
(***************************************************************************)
(* The user plane of the mesh on top of AodvRouter, with which it shares   *)
(* the route table, the seen-packet set, the ACK buffer, the application   *)
(* task and the medium: class AODVRouter of src/src/aodvRouter.cpp as a    *)
(* whole.  A user is at home on the node its phone is connected to; the    *)
(* global user table (GUT) of every node is a cache of the users' homes,   *)
(* filled by broadcasts (BROADCAST_INFO), by replies to user requests      *)
(* (UREQ, UREP) and by moves (MOVE_USER_REQ), and corrected by UERRs.      *)
(*                                                                         *)
(* The tasks are those of AodvRouter.  sendUserMessage reads the GUT, the  *)
(* set of gateways and the route table one after the other: run by the     *)
(* application task, it is split where the router task can come between;   *)
(* run by the router task itself, it is part of the handler.               *)
(* The calls of UserSessionManager are taken as made at once here:         *)
(* UserSessions has what may come between them.                            *)
(***************************************************************************)
EXTENDS AodvRouter, SequencesExt

CONSTANTS
    User,          \* user identifiers
    Workloads,     \* what the phones, the gateways and the timers may do: sets of scripts
    IdsPerPacket,  \* user changes put into one BROADCAST_INFO (57)
    IdsThatFit,    \* user changes that fit into one with its tag (55)
    INBOX_MAX      \* messages kept in an inbox (10)

UserFlags == {"NONE", "REQ_ACK", "ENC_MSG", "ENC_ACK", "TO_GATEWAY", "FROM_GATEWAY"}

Msg == [packetID : PacketID, fromUserID : User, toUserID : User, flags : UserFlags]

(* One thing that happens at a node, from outside the router. *)
Call ==
    [call : {"message"}, node : Node, fromUserID : User, toUserID : User, flags : UserFlags]
      \cup [call : {"announce", "leave"}, node : Node, user : User]
      \cup [call : {"move"}, node : Node, user : User, oldNodeID : Node]
      \cup [call : {"key"}, node : Node, fromUserID : User, toUserID : User]
      \cup [call : {"broadcast", "uplinkUp", "uplinkDown", "reboot"}, node : Node]

(* Where the users are when a behaviour begins, announced to their node and   *)
(* not to the mesh, and what happens then: scripts run side by side.         *)
Workload == [home : [User -> Node], away : SUBSET User, gwOnline : SUBSET Node,
             scripts : Seq(Seq(Call))]

ASSUME UserAssumption ==
    /\ IsFiniteSet(User)
    /\ Node \cap User = {}
    /\ Workloads \subseteq Workload
    /\ IdsPerPacket \in Nat \ {0}
    /\ IdsThatFit \in 0..IdsPerPacket
    /\ INBOX_MAX \in Nat \ {0}

VARIABLES
    users,           \* the users each node's session manager knows
    online,          \* those of them whose phone is connected
    inbox,           \* the messages parked for each user
    diff,            \* changes of users not broadcast yet
    discoveredNodes, \* the nodes a node has had a broadcast of
    gut,             \* _gut: by user, the home node or NoRoute
    userMsgBuffer,   \* _userMsgBuffer: by user, messages waiting for a home
    userRouteBuffer, \* _userRouteBuffer: by node, messages waiting for a route
    moveReqBuffer,   \* _moveReqBuffer: by node, moved users waiting for a route
    gateways,        \* _gateways
    closestGw,       \* _closestGw, or NoRoute
    userKeys,        \* _userKeys: the users whose public key the node has
    gatewayState,    \* what the router last told the phones of the gateways
    gwOnline,        \* the nodes whose gateway manager is online
    todo,            \* what is left of the scripts
    messages,        \* history: the user messages accepted
    uplinked         \* history: the packets handed to a gateway manager

homeVars == <<users, online, inbox, diff>>
bufferVars == <<userMsgBuffer, userRouteBuffer, moveReqBuffer>>
gatewayVars == <<gateways, closestGw, gatewayState>>
outsideVars == <<gwOnline, todo, messages, uplinked>>
userVars == <<homeVars, discoveredNodes, gut, bufferVars, gatewayVars, userKeys, outsideVars>>
allVars == <<vars, userVars>>

-----------------------------------------------------------------------------
(* Frames of the user plane. *)

UREQFrame == FrameOf("UREQ", [userID : User])
UREPFrame == FrameOf("UREP", [destNodeID : Node, userID : User])
UERRFrame == FrameOf("UERR", [userID : User, nodeID : Node])
PubKeyReqFrame == FrameOf("PUBKEY_REQ", [senderUserID : User, targetUserID : User])
PubKeyRespFrame == FrameOf("PUBKEY_RESP", [userID : User])
MoveUserReqFrame == FrameOf("MOVE_USER_REQ", [userID : User, destNodeID : Node])

FlaggedFrame(type, flags, ext) ==
    [packetType : {type}, packetID : PacketID, originNodeID : Node,
     prevHopID : Node, destNodeID : Address, hopCount : HopCount,
     flags : flags, ext : ext]

UserMsgFrame ==
    FlaggedFrame("USER_MSG", UserFlags,
                 [fromUserID : User, toUserID : User, toNodeID : Node])

BroadcastInfoFrame ==
    FlaggedFrame("BROADCAST_INFO", {"NONE", "I_AM_GATEWAY"},
                 [added : SUBSET User, removed : SUBSET User])

UserFrame ==
    UREQFrame \cup UREPFrame \cup UERRFrame \cup PubKeyReqFrame \cup PubKeyRespFrame
      \cup MoveUserReqFrame \cup UserMsgFrame \cup BroadcastInfoFrame

(* Where the application task is inside sendUserMessage; its last steps are   *)
(* those of sendData.                                                        *)
UserSending ==
    [step : {"anyGateway", "gateway", "home", "askHome"}, msg : Msg]
      \cup [step : {"route", "askRoute"}, msg : Msg, dest : Node]
      \cup [step : {"transmit", "store"}, frame : UserMsgFrame \cup MoveUserReqFrame]

(* What the phones are shown. *)
UserMessageShown ==
    [type : {"BLE_UnicastUser", "BLE_ENC_UnicastUser", "BLE_USER_GATEWAY"},
     packetID : PacketID]
Shown == UserMessageShown \cup [type : {"BLE_PUBKEY_RESP"}, user : User]

UserTypeOK ==
    /\ routeTable \in [Node -> [Node -> Route \cup {NoRoute}]]
    /\ receivedPacketIDs \in [Node -> SUBSET PacketID]
    /\ \A n \in Node : \A e \in ackBuffer[n] :
           e.attempts \in 0..MAX_RETRANS /\ e.frame \in DATAFrame \cup UserMsgFrame
    /\ sender \in [Node -> Sending \cup UserSending \cup {Idle}]
    /\ air \in SUBSET (Node \X (Frame \cup UserFrame))
    /\ issued \in [Node -> 0..MaxPacketIDs]
    /\ client \in [Node -> Seq(Notification \cup Shown)]
    /\ users \in [Node -> SUBSET User]
    /\ \A n \in Node : online[n] \subseteq users[n]
    /\ inbox \in [Node -> [User -> Seq(Msg)]]
    /\ \A n \in Node, u \in User : Len(inbox[n][u]) <= INBOX_MAX
    /\ diff \in [Node -> [added : SUBSET User, removed : SUBSET User]]
    /\ discoveredNodes \in [Node -> SUBSET Node]
    /\ gut \in [Node -> [User -> Node \cup {NoRoute}]]
    /\ userMsgBuffer \in [Node -> [User -> Seq(Msg)]]
    /\ userRouteBuffer \in [Node -> [Node -> Seq(Msg)]]
    /\ moveReqBuffer \in [Node -> [Node -> Seq(User)]]
    /\ gateways \in [Node -> SUBSET Node]
    /\ closestGw \in [Node -> Node \cup {NoRoute}]
    /\ userKeys \in [Node -> SUBSET User]
    /\ gatewayState \in [Node -> BOOLEAN]
    /\ gwOnline \in SUBSET Node
    /\ todo \in Seq(Seq(Call))
    /\ messages \in SUBSET Msg
    /\ uplinked \in SUBSET PacketID

EmptyUserPlane ==
    /\ discoveredNodes = [n \in Node |-> {}]
    /\ gut = [n \in Node |-> [u \in User |-> NoRoute]]
    /\ userMsgBuffer = [n \in Node |-> [u \in User |-> <<>>]]
    /\ userRouteBuffer = [n \in Node |-> [d \in Node |-> <<>>]]
    /\ moveReqBuffer = [n \in Node |-> [d \in Node |-> <<>>]]
    /\ gateways = [n \in Node |-> {}]
    /\ closestGw = [n \in Node |-> NoRoute]
    /\ gatewayState = [n \in Node |-> FALSE]

(* The users of a workload have announced themselves to their nodes. *)
Settled(w) ==
    LET at(n) == {u \in User : w.home[u] = n}
    IN /\ users = [n \in Node |-> at(n)]
       /\ online = [n \in Node |-> at(n) \ w.away]
       /\ inbox = [n \in Node |-> [u \in User |-> <<>>]]
       /\ diff = [n \in Node |-> [added |-> at(n), removed |-> {}]]
       /\ userKeys = [n \in Node |-> at(n)]
       /\ gwOnline = w.gwOnline
       /\ todo = w.scripts
       /\ messages = {}
       /\ uplinked = {}

UserInit == Init /\ EmptyUserPlane /\ \E w \in Workloads : Settled(w)

-----------------------------------------------------------------------------
(* The frames a node originates. *)

sendUREQ(n, pid, u) == Originate(n, "UREQ", pid, n, BROADCAST_ADDR, "NONE", [userID |-> u])

sendUREP(n, pid, origin, home, u, nextHop) ==
    Originate(n, "UREP", pid, origin, nextHop, "NONE", [destNodeID |-> home, userID |-> u])

sendUERR(n, pid, origin, u, nextHop) ==
    Originate(n, "UERR", pid, origin, nextHop, "NONE", [userID |-> u, nodeID |-> n])

userMsgFrame(n, m, nextHop, home) ==
    Originate(n, "USER_MSG", m.packetID, n, nextHop, m.flags,
              [fromUserID |-> m.fromUserID, toUserID |-> m.toUserID, toNodeID |-> home])

moveUserReqFrame(n, pid, nextHop, u, oldNodeID) ==
    Originate(n, "MOVE_USER_REQ", pid, n, nextHop, "NONE",
              [userID |-> u, destNodeID |-> oldNodeID])

pubKeyReqFrame(n, pid, dest, sender_, target) ==
    Originate(n, "PUBKEY_REQ", pid, n, dest, "NONE",
              [senderUserID |-> sender_, targetUserID |-> target])

sendPubKeyResp(n, pid, origin, u, nextHop) ==
    Originate(n, "PUBKEY_RESP", pid, origin, nextHop, "NONE", [userID |-> u])

Tell(n, notes) == client' = [client EXCEPT ![n] = @ \o notes]

-----------------------------------------------------------------------------
(* sendUserMessage as the router task runs it: for the messages ms of node n, *)
(* with the routes rt and the homes g.  A message without a home or a route   *)
(* is parked, without its flags, and the home or the route is asked for with  *)
(* a packet identifier from the (k+1)-st on.                                  *)

HasHome(g, m) == g[m.toUserID] # NoRoute

HasWay(rt, g, m) == HasHome(g, m) /\ rt[g[m.toUserID]] # NoRoute

Park(m) == [m EXCEPT !.flags = "NONE"]

ParkAll(ms) == [i \in DOMAIN ms |-> Park(ms[i])]

Resend(n, rt, g, ms, k) ==
    LET frameOf(i) ==
            LET m == ms[i]
                home == g[m.toUserID]
            IN IF ~HasHome(g, m) THEN sendUREQ(n, NewID(n, k + i), m.toUserID)
               ELSE IF rt[home] = NoRoute THEN sendRREQ(n, NewID(n, k + i), home)
               ELSE userMsgFrame(n, m, rt[home].nextHop, home)
    IN {frameOf(i) : i \in DOMAIN ms}

(* Those of ms that are in the set T, in their order. *)
Only(ms, T) ==
    LET only[i \in 0..Len(ms)] ==
            IF i = 0 THEN <<>>
            ELSE IF ms[i] \in T THEN Append(only[i - 1], ms[i])
            ELSE only[i - 1]
    IN only[Len(ms)]

WaitForHome(buffer, g, ms) ==
    [u \in User |-> buffer[u] \o
        ParkAll(Only(ms, {m \in Msg : m.toUserID = u /\ ~HasHome(g, m)}))]

WaitForRoute(buffer, rt, g, ms) ==
    [d \in Node |-> buffer[d] \o
        ParkAll(Only(ms, {m \in Msg : g[m.toUserID] = d /\ ~HasWay(rt, g, m)}))]

-----------------------------------------------------------------------------
(* Gateways. *)

(* recomputeClosestGateway: which of several nearest ones is left open. *)
Closest(rt, gws) ==
    LET routed == {g \in gws : rt[g] # NoRoute /\ rt[g].hopcount < 255}
    IN IF routed = {} THEN {NoRoute}
       ELSE {g \in routed : \A h \in routed : rt[g].hopcount <= rt[h].hopcount}

(* addGateway and removeGateway, for the routes known before the broadcast. *)
NoteGateway(n, origin, isGateway) ==
    LET gws == IF isGateway THEN gateways[n] \cup {origin} ELSE gateways[n] \ {origin}
        recompute == IF isGateway THEN origin \notin gateways[n]
                     ELSE origin \in gateways[n] /\ closestGw[n] = origin
    IN /\ gateways' = [gateways EXCEPT ![n] = gws]
       /\ IF recompute
          THEN \E best \in Closest(routeTable[n], gws) :
                   closestGw' = [closestGw EXCEPT ![n] = best]
          ELSE UNCHANGED closestGw
       /\ gatewayState' = [gatewayState EXCEPT ![n] = gws # {}]

-----------------------------------------------------------------------------
(* The handlers of the user plane, run by the router task. *)

quietVars == <<dataBuffer, expired, sender, sent, restarts>>

Learn(n, rt) == routeTable' = [routeTable EXCEPT ![n] = rt]

Believe(n, g) == gut' = [gut EXCEPT ![n] = g]

(* Towards the node the frame is an answer for, along the route. *)
Onward(n, f, rt, dest) ==
    IF rt[dest] = NoRoute THEN {} ELSE {Forwarded(n, f, rt[dest].nextHop)}

userReplyThreshold == 2

(* Mutant: the origin is taken to be as far as the previous hop says it is. *)
LearnFromUREQShort(n, f) ==
    LearnRoutes(routeTable[n], f.originNodeID, f.prevHopID, f.hopCount)

LearnFromUREQ(n, f) ==
    LearnRoutes(routeTable[n], f.originNodeID, f.prevHopID, HopPlusOne(f.hopCount))

(* A node that has the user in its GUT and a long enough route to the home    *)
(* answers, too, and names itself.                                           *)
HandleUREQ(n, f) ==
    LET u == f.ext.userID
        rt == LearnFromUREQ(n, f)
        home == gut[n][u]
        knowsWay == /\ home # NoRoute
                    /\ rt[home] # NoRoute
                    /\ rt[home].hopcount >= userReplyThreshold
    IN /\ Learn(n, rt)
       /\ IF u \in users[n] \/ knowsWay
          THEN /\ Emit(n, f, {sendUREP(n, NewID(n, 1), f.originNodeID, n, u, f.prevHopID)})
               /\ Draw(n, 1)
          ELSE /\ Emit(n, f, {Forwarded(n, f, BROADCAST_ADDR)})
               /\ UNCHANGED issued
       /\ UNCHANGED <<ackBuffer, client, quietVars, userVars>>

(* Mutant: the home is taken to be as far as the node that answers. *)
LearnFromUREPAtOrigin(n, f) ==
    LearnRoutes(routeTable[n], f.originNodeID, f.prevHopID, HopPlusOne(f.hopCount))

LearnFromUREP(n, f) ==
    LearnRoutes(routeTable[n], f.ext.destNodeID, f.prevHopID, HopPlusOne(f.hopCount))

(* Mutant: the buffer is read, not taken. *)
popBufferedUserMessagesCopied(buffer, u) == buffer

popBufferedUserMessages(buffer, u) == [buffer EXCEPT ![u] = <<>>]

HandleUREP(n, f) ==
    LET u == f.ext.userID
        rt == LearnFromUREP(n, f)
        g == [gut[n] EXCEPT ![u] = f.ext.destNodeID]
        pending == userMsgBuffer[n][u]
    IN /\ Learn(n, rt)
       /\ Believe(n, g)
       /\ IF n = f.originNodeID
          THEN /\ Emit(n, f, Resend(n, rt, g, pending, 0))
               /\ Draw(n, Len(pending))
               /\ userMsgBuffer' = [userMsgBuffer EXCEPT ![n] =
                                        popBufferedUserMessages(@, u)]
               /\ userRouteBuffer' = [userRouteBuffer EXCEPT ![n] =
                                          WaitForRoute(@, rt, g, pending)]
          ELSE /\ Emit(n, f, Onward(n, f, rt, f.originNodeID))
               /\ UNCHANGED <<issued, userMsgBuffer, userRouteBuffer>>
       /\ UNCHANGED <<ackBuffer, client, quietVars, homeVars, discoveredNodes, moveReqBuffer,
                      gatewayVars, userKeys, outsideVars>>

HandleUERR(n, f) ==
    LET u == f.ext.userID
        rt == updateRoute(routeTable[n], f.prevHopID, f.prevHopID, 1)
    IN /\ Learn(n, rt)
       /\ Believe(n, IF gut[n][u] = f.ext.nodeID THEN [gut[n] EXCEPT ![u] = NoRoute]
                                                 ELSE gut[n])
       /\ Emit(n, f, IF n = f.originNodeID THEN {} ELSE Onward(n, f, rt, f.originNodeID))
       /\ UNCHANGED <<ackBuffer, client, issued, quietVars, homeVars, discoveredNodes,
                      bufferVars, gatewayVars, userKeys, outsideVars>>

(* handleUserMessage acknowledges to the previous hop first, if asked to, then *)
(* the message is for the gateway manager of this node, for a user at home   *)
(* here, or for another node.                                                *)
HopAck(n, f) ==
    IF f.flags \in {"REQ_ACK", "ENC_ACK"}
    THEN {sendACK(n, NewID(n, 1), f.prevHopID, f.packetID)} ELSE {}

HopAcksDrawn(f) == Cardinality({"REQ_ACK", "ENC_ACK"} \cap {f.flags})

MsgOf(f) == [packetID |-> f.packetID, fromUserID |-> f.ext.fromUserID,
             toUserID |-> f.ext.toUserID, flags |-> f.flags]

BleTypeOf(m) ==
    CASE m.flags = "FROM_GATEWAY" -> "BLE_USER_GATEWAY"
      [] m.flags \in {"ENC_MSG", "ENC_ACK"} -> "BLE_ENC_UnicastUser"
      [] OTHER -> "BLE_UnicastUser"

ShownAs(m) == [type |-> BleTypeOf(m), packetID |-> m.packetID]

queueOffline(box, m) ==
    Append(IF Len(box) = INBOX_MAX THEN Tail(box) ELSE box, m)

TakeForUplink(n, f) ==
    /\ f.ext.toNodeID = n
    /\ f.flags = "TO_GATEWAY"
    /\ uplinked' = uplinked \cup {f.packetID : here \in gwOnline \cap {n}}
    /\ Emit(n, f, {})
    /\ UNCHANGED <<ackBuffer, client, inbox, issued>>

DeliverUserMessage(n, f) ==
    LET u == f.ext.toUserID
    IN /\ f.ext.toNodeID = n
       /\ f.flags # "TO_GATEWAY"
       /\ u \in users[n]
       /\ IF u \in online[n]
          THEN Tell(n, <<ShownAs(MsgOf(f))>>) /\ UNCHANGED inbox
          ELSE /\ inbox' = [inbox EXCEPT ![n][u] = queueOffline(@, MsgOf(f))]
               /\ UNCHANGED client
       /\ Emit(n, f, HopAck(n, f))
       /\ Draw(n, HopAcksDrawn(f))
       /\ UNCHANGED <<ackBuffer, uplinked>>

RefuseUserMessage(n, f) ==
    LET uerr == sendUERR(n, NewID(n, HopAcksDrawn(f) + 1), f.originNodeID,
                         f.ext.toUserID, f.prevHopID)
    IN /\ f.ext.toNodeID = n
       /\ f.flags # "TO_GATEWAY"
       /\ f.ext.toUserID \notin users[n]
       /\ Emit(n, f, HopAck(n, f) \cup {uerr})
       /\ Draw(n, HopAcksDrawn(f) + 1)
       /\ UNCHANGED <<ackBuffer, client, inbox, uplinked>>

ForwardUserMessage(n, f) ==
    LET dest == f.ext.toNodeID
        onward == Forwarded(n, f, routeTable[n][dest].nextHop)
    IN /\ dest # n
       /\ routeTable[n][dest] # NoRoute
       /\ Draw(n, HopAcksDrawn(f))
       /\ \/ /\ Emit(n, f, HopAck(n, f) \cup {onward})
             /\ IF MustStore(onward) THEN StoreIfRouted(n, onward)
                                     ELSE UNCHANGED ackBuffer
          \/ /\ QueueMayFill
             /\ Emit(n, f, HopAck(n, f))
             /\ UNCHANGED ackBuffer
       /\ UNCHANGED <<client, inbox, uplinked>>

RejectUserMessage(n, f) ==
    LET dest == f.ext.toNodeID
        rerr == sendRERR(n, NewID(n, HopAcksDrawn(f) + 1), n, f.originNodeID, dest,
                         f.packetID)
    IN /\ dest # n
       /\ routeTable[n][dest] = NoRoute
       /\ Emit(n, f, HopAck(n, f) \cup {rerr})
       /\ Draw(n, HopAcksDrawn(f) + 1)
       /\ UNCHANGED <<ackBuffer, client, inbox, uplinked>>

HandleUserMessage(n, f) ==
    /\ \/ TakeForUplink(n, f)
       \/ DeliverUserMessage(n, f)
       \/ RefuseUserMessage(n, f)
       \/ ForwardUserMessage(n, f)
       \/ RejectUserMessage(n, f)
    /\ UNCHANGED <<routeTable, quietVars, users, online, diff, discoveredNodes, gut,
                   bufferVars, gatewayVars, userKeys, gwOnline, todo, messages>>

MAX_HOPS == 5

(* Forwarded, with the destination address it came with. *)
Repeated(n, f) ==
    IF HopPlusOne(f.hopCount) >= MAX_HOPS THEN {} ELSE {Forwarded(n, f, f.destNodeID)}

HandlePubKeyReq(n, f) ==
    LET e == f.ext
        has == e.targetUserID \in userKeys[n]
    IN /\ IF has
          THEN /\ userKeys' = [userKeys EXCEPT ![n] = @ \cup {e.senderUserID}]
               /\ Tell(n, <<[type |-> "BLE_PUBKEY_RESP", user |-> e.senderUserID]>>)
               /\ Emit(n, f, {sendPubKeyResp(n, NewID(n, 1), f.originNodeID,
                                             e.targetUserID, f.prevHopID)})
               /\ Draw(n, 1)
          ELSE /\ Emit(n, f, Repeated(n, f))
               /\ UNCHANGED <<userKeys, client, issued>>
       /\ UNCHANGED <<routeTable, ackBuffer, quietVars, homeVars, discoveredNodes, gut,
                      bufferVars, gatewayVars, outsideVars>>

HandlePubKeyResp(n, f) ==
    LET u == f.ext.userID
    IN /\ userKeys' = [userKeys EXCEPT ![n] = @ \cup {u}]
       /\ IF n = f.originNodeID
          THEN /\ Tell(n, <<[type |-> "BLE_PUBKEY_RESP", user |-> u]>>)
               /\ Emit(n, f, {})
          ELSE /\ Emit(n, f, Onward(n, f, routeTable[n], f.originNodeID))
               /\ UNCHANGED client
       /\ UNCHANGED <<routeTable, ackBuffer, issued, quietVars, homeVars, discoveredNodes,
                      gut, bufferVars, gatewayVars, outsideVars>>

(* The old home sends the inbox after its user, message by message with the   *)
(* identifiers they came with, and forgets the user.                         *)
InboxFlags(m) == IF m.flags \in {"ENC_MSG", "ENC_ACK"} THEN "ENC_MSG" ELSE "NONE"

(* Mutant: the phone's session outlives its user. *)
removeUserOnly(n, u) ==
    /\ users' = [users EXCEPT ![n] = @ \ {u}]
    /\ inbox' = [inbox EXCEPT ![n][u] = <<>>]
    /\ diff' = [diff EXCEPT ![n].added = @ \ {u}, ![n].removed = @ \cup {u}]
    /\ UNCHANGED online

remove(n, u) ==
    /\ users' = [users EXCEPT ![n] = @ \ {u}]
    /\ online' = [online EXCEPT ![n] = @ \ {u}]
    /\ inbox' = [inbox EXCEPT ![n][u] = <<>>]
    /\ diff' = [diff EXCEPT ![n].added = @ \ {u}, ![n].removed = @ \cup {u}]

HandleMoveUserReq(n, f) ==
    LET u == f.ext.userID
        rt == updateRoute(routeTable[n], f.prevHopID, f.prevHopID, 1)
        g == [gut[n] EXCEPT ![u] = f.originNodeID]
        parked == inbox[n][u]
        box == [i \in DOMAIN parked |-> [parked[i] EXCEPT !.flags = InboxFlags(parked[i])]]
    IN /\ Learn(n, rt)
       /\ Believe(n, g)
       /\ IF n = f.ext.destNodeID
          THEN /\ Emit(n, f, Resend(n, rt, g, box, 0))
               /\ Draw(n, Len(box))
               /\ remove(n, u)
               /\ userRouteBuffer' = [userRouteBuffer EXCEPT ![n] =
                                          WaitForRoute(@, rt, g, box)]
          ELSE /\ Emit(n, f, Onward(n, f, rt, f.ext.destNodeID))
               /\ UNCHANGED <<issued, homeVars, userRouteBuffer>>
       /\ UNCHANGED <<ackBuffer, client, quietVars, discoveredNodes, userMsgBuffer,
                      moveReqBuffer, gatewayVars, userKeys, outsideVars>>

HandleBroadcastInfo(n, f) ==
    LET home == f.originNodeID
        near == updateRoute(routeTable[n], f.prevHopID, f.prevHopID, 1)
        rt == IF home = n THEN near
              ELSE updateRoute(near, home, f.prevHopID, HopPlusOne(f.hopCount))
    IN /\ Learn(n, rt)
       /\ NoteGateway(n, home, f.flags = "I_AM_GATEWAY")
       /\ discoveredNodes' = [discoveredNodes EXCEPT ![n] = @ \cup {f.prevHopID, home}]
       /\ Believe(n, [u \in User |-> CASE u \in f.ext.removed -> NoRoute
                                       [] u \in f.ext.added \ f.ext.removed -> home
                                       [] OTHER -> gut[n][u]])
       /\ Emit(n, f, Repeated(n, f))
       /\ UNCHANGED <<ackBuffer, client, issued, quietVars, homeVars, bufferVars, userKeys,
                      outsideVars>>

(* handleRREP as a whole: data packets, moved users and user messages have     *)
(* waited for the route.                                                     *)
flushMoveReqBuffer(n, moved, dest, nextHop) ==
    {moveUserReqFrame(n, NewID(n, i), nextHop, moved[i], dest) : i \in DOMAIN moved}

FlushRREP(n, f) ==
    LET target == f.ext.RREPDestNodeID
        rt == LearnFromRREP(n, f)
        nextHop == rt[target].nextHop
        moved == moveReqBuffer[n][target]
        pending == userRouteBuffer[n][target]
        back == rt[f.originNodeID]
        onward == IF n = f.originNodeID \/ back = NoRoute THEN {}
                  ELSE {[Forwarded(n, f, back.nextHop) EXCEPT
                           !.ext.numHops = HopPlusOne(@)]}
    IN /\ Learn(n, rt)
       /\ dataBuffer' = [dataBuffer EXCEPT ![n][target] = {}]
       /\ moveReqBuffer' = [moveReqBuffer EXCEPT ![n][target] = <<>>]
       /\ userMsgBuffer' = [userMsgBuffer EXCEPT ![n] = WaitForHome(@, gut[n], pending)]
       /\ userRouteBuffer' = [userRouteBuffer EXCEPT ![n] =
                WaitForRoute([@ EXCEPT ![target] = <<>>], rt, gut[n], pending)]
       /\ Draw(n, Len(moved) + Len(pending))
       /\ Emit(n, f, UNION {flushDataQueue(n, target, nextHop),
                            flushMoveReqBuffer(n, moved, target, nextHop),
                            Resend(n, rt, gut[n], pending, Len(moved)),
                            onward})
       /\ UNCHANGED <<ackBuffer, expired, sender, client, sent, restarts, homeVars,
                      discoveredNodes, gut, gatewayVars, userKeys, outsideVars>>

UserHandler(n, f) ==
    \/ f.packetType = "UREQ" /\ HandleUREQ(n, f)
    \/ f.packetType = "UREP" /\ HandleUREP(n, f)
    \/ f.packetType = "UERR" /\ HandleUERR(n, f)
    \/ f.packetType = "USER_MSG" /\ HandleUserMessage(n, f)
    \/ f.packetType = "PUBKEY_REQ" /\ HandlePubKeyReq(n, f)
    \/ f.packetType = "PUBKEY_RESP" /\ HandlePubKeyResp(n, f)
    \/ f.packetType = "MOVE_USER_REQ" /\ HandleMoveUserReq(n, f)
    \/ f.packetType = "BROADCAST_INFO" /\ HandleBroadcastInfo(n, f)
    \/ f.packetType = "RREP" /\ FlushRREP(n, f)

(* All of the user plane is in RAM, too; phones and server connect again. *)
LoseUserState(n) ==
    /\ users' = [users EXCEPT ![n] = {}]
    /\ online' = [online EXCEPT ![n] = {}]
    /\ inbox' = [inbox EXCEPT ![n] = [u \in User |-> <<>>]]
    /\ diff' = [diff EXCEPT ![n] = [added |-> {}, removed |-> {}]]
    /\ discoveredNodes' = [discoveredNodes EXCEPT ![n] = {}]
    /\ gut' = [gut EXCEPT ![n] = [u \in User |-> NoRoute]]
    /\ userMsgBuffer' = [userMsgBuffer EXCEPT ![n] = [u \in User |-> <<>>]]
    /\ userRouteBuffer' = [userRouteBuffer EXCEPT ![n] = [d \in Node |-> <<>>]]
    /\ moveReqBuffer' = [moveReqBuffer EXCEPT ![n] = [d \in Node |-> <<>>]]
    /\ gateways' = [gateways EXCEPT ![n] = {}]
    /\ closestGw' = [closestGw EXCEPT ![n] = NoRoute]
    /\ gatewayState' = [gatewayState EXCEPT ![n] = FALSE]
    /\ userKeys' = [userKeys EXCEPT ![n] = {}]
    /\ gwOnline' = gwOnline \ {n}
    /\ UNCHANGED <<messages, uplinked>>

UserHandlePacket(n, f) ==
    \/ /\ \/ tryImplicitAck(n, f)
          \/ DropDuplicate(n, f)
          \/ Overhear(n, f)
          \/ f.packetType # "RREP" /\ HandleFrame(n, f)
       /\ UNCHANGED userVars
    \/ /\ FirstSight(n, f)
       /\ AddressedTo(n, f)
       /\ UserHandler(n, f)
    \/ /\ CrashOnRERR(n, f)
       /\ LoseUserState(n)
       /\ UNCHANGED todo

UserRouterTask(n) ==
    \E f \in {copy[2] : copy \in {c \in air : c[1] = n}} : UserHandlePacket(n, f)

-----------------------------------------------------------------------------
(* What comes from outside the router.  The application task takes a message, *)
(* a move or a request for a key when it is idle (processQueue).             *)

Accepted(n, c) == [packetID |-> NewID(n, 1), fromUserID |-> c.fromUserID,
                   toUserID |-> c.toUserID, flags |-> c.flags]

Start(n, s) == sender' = [sender EXCEPT ![n] = s]

MessageCall(n, c) ==
    LET m == Accepted(n, c)
    IN /\ c.call = "message"
       /\ sender[n] = Idle
       /\ Draw(n, 1)
       /\ messages' = messages \cup {m}
       /\ IF m.flags # "TO_GATEWAY"
          THEN Start(n, [step |-> "home", msg |-> m]) /\ UNCHANGED uplinked
          ELSE IF n \in gwOnline
          THEN uplinked' = uplinked \cup {m.packetID} /\ UNCHANGED sender
          ELSE /\ IF gateways[n] # {} THEN Start(n, [step |-> "anyGateway", msg |-> m])
                                      ELSE UNCHANGED sender
               /\ UNCHANGED uplinked
       /\ UNCHANGED <<routeTable, receivedPacketIDs, dataBuffer, ackBuffer, expired, air,
                      client, sent, restarts, homeVars, discoveredNodes, gut, bufferVars,
                      gatewayVars, userKeys, gwOnline>>

MoveCall(n, c) ==
    LET route == routeTable[n][c.oldNodeID]
        asking == IF route = NoRoute THEN sendRREQ(n, NewID(n, 1), c.oldNodeID)
                  ELSE moveUserReqFrame(n, NewID(n, 1), route.nextHop, c.user, c.oldNodeID)
    IN /\ c.call = "move"
       /\ sender[n] = Idle
       /\ Draw(n, 1)
       /\ air' = air \cup OnAir(n, {asking})
       /\ moveReqBuffer' = IF route # NoRoute THEN moveReqBuffer
                           ELSE [moveReqBuffer EXCEPT ![n][c.oldNodeID] = Append(@, c.user)]
       /\ UNCHANGED <<routeTable, receivedPacketIDs, dataBuffer, ackBuffer, expired, sender,
                      client, sent, restarts, homeVars, discoveredNodes, gut,
                      userMsgBuffer, userRouteBuffer, gatewayVars, userKeys, gwOnline,
                      messages, uplinked>>

KeyCall(n, c) ==
    LET home == gut[n][c.toUserID]
        dest == IF home = NoRoute THEN BROADCAST_ADDR ELSE home
    IN /\ c.call = "key"
       /\ sender[n] = Idle
       /\ IF c.toUserID \in userKeys[n]
          THEN /\ Tell(n, <<[type |-> "BLE_PUBKEY_RESP", user |-> c.toUserID]>>)
               /\ UNCHANGED <<air, issued>>
          ELSE /\ IF c.fromUserID \in userKeys[n]
                  THEN /\ air' = air \cup OnAir(n, {pubKeyReqFrame(n, NewID(n, 1), dest,
                                                        c.fromUserID, c.toUserID)})
                       /\ Draw(n, 1)
                  ELSE UNCHANGED <<air, issued>>
               /\ UNCHANGED client
       /\ UNCHANGED <<routeTable, receivedPacketIDs, dataBuffer, ackBuffer, expired, sender,
                      sent, restarts, homeVars, discoveredNodes, gut, bufferVars,
                      gatewayVars, userKeys, gwOnline, messages, uplinked>>

(* A phone connects and announces its user's key: the node welcomes the user  *)
(* and hands over the inbox.                                                 *)
AnnounceCall(n, c) ==
    LET u == c.user
        box == inbox[n][u]
    IN /\ c.call = "announce"
       /\ users' = [users EXCEPT ![n] = @ \cup {u}]
       /\ online' = [online EXCEPT ![n] = @ \cup {u}]
       /\ diff' = IF u \in users[n] THEN diff
                  ELSE [diff EXCEPT ![n].added = @ \cup {u}, ![n].removed = @ \ {u}]
       /\ userKeys' = [userKeys EXCEPT ![n] = @ \cup {u}]
       /\ inbox' = [inbox EXCEPT ![n][u] = <<>>]
       /\ Tell(n, [i \in DOMAIN box |-> ShownAs(box[i])])
       /\ UNCHANGED <<routeTable, receivedPacketIDs, dataBuffer, ackBuffer, expired, sender,
                      air, issued, sent, restarts, discoveredNodes, gut, bufferVars,
                      gatewayVars, gwOnline, messages, uplinked>>

LeaveCall(n, c) ==
    /\ c.call = "leave"
    /\ online' = [online EXCEPT ![n] = @ \ {c.user}]
    /\ UNCHANGED <<vars, users, inbox, diff, discoveredNodes, gut, bufferVars, gatewayVars,
                   userKeys, gwOnline, messages, uplinked>>

(* sendBroadcastInfo.  The changes are cut into packets of at most             *)
(* IdsPerPacket, those added first, and all of them carry one identifier;    *)
(* transmitPacket drops a packet with more than IdsThatFit.                  *)
broadcastInfoFrame(n, pid, added, removed) ==
    Originate(n, "BROADCAST_INFO", pid, n, BROADCAST_ADDR,
              IF n \in gwOnline THEN "I_AM_GATEWAY" ELSE "NONE",
              [added |-> added, removed |-> removed])

DiffPackets(n, pid, added, removed) ==
    LET ids == added \o removed
        part(k) == {i \in DOMAIN ids : (i - 1) \div IdsPerPacket = k}
        packet(k) == broadcastInfoFrame(n, pid,
                         {ids[i] : i \in {j \in part(k) : j <= Len(added)}},
                         {ids[i] : i \in {j \in part(k) : j > Len(added)}})
    IN IF ids = <<>> THEN {broadcastInfoFrame(n, pid, {}, {})}
       ELSE {packet(k) : k \in {j \in 0..Len(ids) :
                                   Cardinality(part(j)) \in 1..IdsThatFit}}

BroadcastCall(n, c) ==
    /\ c.call = "broadcast"
    /\ \E added \in SetToSeqs(diff[n].added), removed \in SetToSeqs(diff[n].removed) :
           air' = air \cup OnAir(n, DiffPackets(n, NewID(n, 1), added, removed))
    /\ Draw(n, 1)
    /\ diff' = [diff EXCEPT ![n] = [added |-> {}, removed |-> {}]]
    /\ UNCHANGED <<routeTable, receivedPacketIDs, dataBuffer, ackBuffer, expired, sender,
                   client, sent, restarts, users, online, inbox, discoveredNodes, gut,
                   bufferVars, gatewayVars, userKeys, gwOnline, messages, uplinked>>

UplinkCall(n, c) ==
    /\ \/ c.call = "uplinkUp" /\ gwOnline' = gwOnline \cup {n}
       \/ c.call = "uplinkDown" /\ gwOnline' = gwOnline \ {n}
    /\ UNCHANGED <<vars, homeVars, discoveredNodes, gut, bufferVars, gatewayVars, userKeys,
                   messages, uplinked>>

Reboot(n) == LoseState(n) /\ LoseUserState(n)

RebootCall(n, c) ==
    /\ c.call = "reboot"
    /\ Reboot(n)
    /\ restarts' = restarts + 1
    /\ UNCHANGED <<air, issued, sent>>

(* The next call of one of the scripts. *)
Outside(n) ==
    \E i \in DOMAIN todo :
        /\ todo[i] # <<>>
        /\ LET c == Head(todo[i])
           IN /\ c.node = n
              /\ \/ MessageCall(n, c)
                 \/ MoveCall(n, c)
                 \/ KeyCall(n, c)
                 \/ AnnounceCall(n, c)
                 \/ LeaveCall(n, c)
                 \/ BroadcastCall(n, c)
                 \/ UplinkCall(n, c)
                 \/ RebootCall(n, c)
        /\ todo' = [todo EXCEPT ![i] = Tail(@)]

-----------------------------------------------------------------------------
(* sendUserMessage, run by the application task. *)

SendingLeaves == <<routeTable, receivedPacketIDs, dataBuffer, ackBuffer, expired, client,
                   sent, homeVars, discoveredNodes, gut, moveReqBuffer,
                   gatewayVars, userKeys, outsideVars>>

(* _gateways.empty(), without the mutex. *)
AnyGateway(n) ==
    /\ sender[n].step = "anyGateway"
    /\ Start(n, IF gateways[n] = {} THEN Idle ELSE [sender[n] EXCEPT !.step = "gateway"])
    /\ UNCHANGED <<SendingLeaves, air, issued, restarts, userMsgBuffer, userRouteBuffer>>

(* With the mutex.  Without a nearest gateway the first one is taken. *)
PickGateway(n) ==
    /\ sender[n].step = "gateway"
    /\ \E dest \in IF closestGw[n] # NoRoute THEN {closestGw[n]} ELSE gateways[n] :
           Start(n, [step |-> "route", msg |-> sender[n].msg, dest |-> dest])
    /\ UNCHANGED <<SendingLeaves, air, issued, restarts, userMsgBuffer, userRouteBuffer>>

(* There is none any more: begin() of the empty set is dereferenced. *)
PickNoGateway(n) ==
    /\ sender[n].step = "gateway"
    /\ closestGw[n] = NoRoute
    /\ gateways[n] = {}
    /\ restarts < MaxRestarts
    /\ Reboot(n)
    /\ restarts' = restarts + 1
    /\ UNCHANGED <<air, issued, sent, todo>>

ReadHome(n) ==
    LET m == sender[n].msg
    IN /\ sender[n].step = "home"
       /\ Start(n, IF HasHome(gut[n], m)
                   THEN [step |-> "route", msg |-> m, dest |-> gut[n][m.toUserID]]
                   ELSE [step |-> "askHome", msg |-> m])
       /\ UNCHANGED <<SendingLeaves, air, issued, restarts, userMsgBuffer, userRouteBuffer>>

ReadRoute(n) ==
    LET s == sender[n]
        route == routeTable[n][s.dest]
    IN /\ s.step = "route"
       /\ Start(n, IF route = NoRoute THEN [s EXCEPT !.step = "askRoute"]
                   ELSE [step |-> "transmit",
                         frame |-> userMsgFrame(n, s.msg, route.nextHop, s.dest)])
       /\ UNCHANGED <<SendingLeaves, air, issued, restarts, userMsgBuffer, userRouteBuffer>>

(* addUserMessage, then sendUREQ. *)
AskHome(n) ==
    LET m == sender[n].msg
    IN /\ sender[n].step = "askHome"
       /\ userMsgBuffer' = [userMsgBuffer EXCEPT ![n][m.toUserID] = Append(@, Park(m))]
       /\ air' = air \cup OnAir(n, {sendUREQ(n, NewID(n, 1), m.toUserID)})
       /\ Draw(n, 1)
       /\ Start(n, Idle)
       /\ UNCHANGED <<SendingLeaves, restarts, userRouteBuffer>>

(* addPendingUserRouteMessage, then sendRREQ. *)
AskRoute(n) ==
    LET s == sender[n]
    IN /\ s.step = "askRoute"
       /\ userRouteBuffer' = [userRouteBuffer EXCEPT ![n][s.dest] = Append(@, Park(s.msg))]
       /\ air' = air \cup OnAir(n, {sendRREQ(n, NewID(n, 1), s.dest)})
       /\ Draw(n, 1)
       /\ Start(n, Idle)
       /\ UNCHANGED <<SendingLeaves, restarts, userMsgBuffer>>

sendUserMessage(n) ==
    \/ AnyGateway(n)
    \/ PickGateway(n)
    \/ PickNoGateway(n)
    \/ ReadHome(n)
    \/ ReadRoute(n)
    \/ AskHome(n)
    \/ AskRoute(n)

-----------------------------------------------------------------------------
UserNext ==
    \E n \in Node :
        \/ UserRouterTask(n)
        \/ sendUserMessage(n)
        \/ (ApplicationTask(n) \/ TimerWorker(n)) /\ UNCHANGED userVars
        \/ Outside(n)

UserSpec == UserInit /\ [][UserNext]_allVars

=============================================================================
