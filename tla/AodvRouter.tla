----------------------------- MODULE AodvRouter -----------------------------
(***************************************************************************)
(* The node-to-node plane of the mesh firmware: class AODVRouter of        *)
(* src/src/aodvRouter.cpp on every node, and the radio medium between      *)
(* them.  Each node runs three tasks that touch this state:                *)
(*   - the router task, which dequeues one received frame at a time and    *)
(*     runs handlePacket on it.  It is the only writer of the route table  *)
(*     and of the seen-packet set, so a handler is one step;               *)
(*   - an application task (NetworkMessageHandler::processQueue), which    *)
(*     calls sendData.  sendData takes the mutex once per helper, so it is *)
(*     split where the router task can come between two of its helpers;    *)
(*   - the timer worker, which calls cleanupAckBuffer.  It moves the       *)
(*     entries out under the mutex and reports them after releasing it.    *)
(*                                                                         *)
(* The medium keeps a copy of a frame for every node in range.  A copy may *)
(* be received once, late, out of order, or never (a lost frame).          *)
(***************************************************************************)
EXTENDS Naturals, Sequences, FiniteSets

CONSTANTS
    Node,           \* node identifiers
    Link,           \* <<a, b>> \in Link: b can hear a
    MQTTNode,       \* nodes whose Wi-Fi was up at start: only they have an MQTTManager
    BROADCAST_ADDR, \* the destination "everyone in range"
    NoRoute,        \* what the route table holds for an unknown destination
    Undecipherable, \* what a header field read out of ciphertext holds
    Requests,       \* the sendData calls the applications may make
    QueueMayFill,   \* may enqueueTxPacket refuse a data packet?
    MAX_RETRANS,    \* retransmissions before a pending packet is given up (3)
    MaxSends,       \* bound: sendData calls in a behaviour
    MaxPacketIDs,   \* bound: packet identifiers a node may draw
    MaxRestarts     \* bound: reboots in a behaviour

PacketID == Node \X (1..MaxPacketIDs)

(* BaseHeader.hopCount, RREPHeader.numHops and RouteEntry.hopcount are uint8_t. *)
HopCount == 0..255
HopWidth == 256

Address == Node \cup {BROADCAST_ADDR}
Flags == {"NONE", "REQ_ACK"}
Route == [nextHop : Node, hopcount : HopCount]

ASSUME NodeAssumption == IsFiniteSet(Node)
ASSUME ModelValues == /\ BROADCAST_ADDR \notin Node
                      /\ Undecipherable \notin Node
                      /\ NoRoute \notin Route
                      /\ NoRoute \notin Node
ASSUME LinkAssumption == Link \in SUBSET (Node \X Node)
ASSUME MQTTAssumption == MQTTNode \in SUBSET Node
ASSUME RequestsAssumption ==
    Requests \in SUBSET [from : Node, to : Address, flags : Flags]
ASSUME BoundsAssumption == /\ QueueMayFill \in BOOLEAN
                           /\ MAX_RETRANS \in Nat
                           /\ MaxSends \in Nat
                           /\ MaxPacketIDs \in Nat
                           /\ MaxRestarts \in Nat

-----------------------------------------------------------------------------
(* Frames: the base header every packet starts with, and the header of its type. *)

FrameOf(type, ext) ==
    [packetType : {type}, packetID : PacketID, originNodeID : Node,
     prevHopID : Node, destNodeID : Address, hopCount : HopCount,
     flags : Flags, ext : ext]

RREQFrame == FrameOf("RREQ", [RREQDestNodeID : Node])
RREPFrame == FrameOf("RREP", [RREPDestNodeID : Node, numHops : HopCount])
RERRFrame == FrameOf("RERR", [reporterNodeID : Node, brokenNodeID : Node,
                              originalDestNodeID : Node \cup {Undecipherable},
                              originalPacketID : PacketID])
ACKFrame  == FrameOf("ACK",  [originalPacketID : PacketID])
DATAFrame == FrameOf("DATA", [finalDestID : Address])

Frame == RREQFrame \cup RREPFrame \cup RERRFrame \cup ACKFrame \cup DATAFrame

(* What a node tells the phones connected to it. *)
Notification ==
    [type : {"BLE_Node", "BLE_Broadcast", "BLE_ACK", "BLE_ACK_FAILURE"},
     packetID : PacketID]

(* An ackBufferEntry: the transmitted bytes and the retransmissions made of them. *)
AckEntry == [frame : DATAFrame, attempts : 0..MAX_RETRANS]

(* Where the application task is inside sendData. *)
Idle == [step |-> "idle"]
Sending ==
    [step : {"buffer"}, packetID : PacketID, dest : Node]
      \cup [step : {"transmit", "store"}, frame : DATAFrame]

VARIABLES
    routeTable,         \* _routeTable of every node
    receivedPacketIDs,  \* the seen-packet set of every node
    dataBuffer,         \* _dataBuffer: packets waiting for a route, by destination
    ackBuffer,          \* packets waiting for an acknowledgement
    expired,            \* entries cleanupAckBuffer has moved out and not yet reported
    sender,             \* the application task, inside sendData
    air,                \* copies of frames not received yet: <<receiver, frame>>
    issued,             \* identifiers drawn with esp_random so far
    client,             \* what a node has told its phones since it booted
    sent,               \* history: the packets accepted from applications
    restarts            \* reboots so far

vars == <<routeTable, receivedPacketIDs, dataBuffer, ackBuffer, expired,
          sender, air, issued, client, sent, restarts>>

TypeOK ==
    /\ routeTable \in [Node -> [Node -> Route \cup {NoRoute}]]
    /\ receivedPacketIDs \in [Node -> SUBSET PacketID]
    /\ dataBuffer \in [Node -> [Node -> SUBSET PacketID]]
    /\ ackBuffer \in [Node -> SUBSET AckEntry]
    /\ expired \in [Node -> SUBSET AckEntry]
    /\ sender \in [Node -> Sending \cup {Idle}]
    /\ air \in SUBSET (Node \X Frame)
    /\ issued \in [Node -> 0..MaxPacketIDs]
    /\ client \in [Node -> Seq(Notification)]
    /\ sent \in SUBSET [packetID : PacketID, origin : Node, finalDestID : Address]
    /\ restarts \in 0..MaxRestarts

Init ==
    /\ routeTable = [n \in Node |-> [d \in Node |-> NoRoute]]
    /\ receivedPacketIDs = [n \in Node |-> {}]
    /\ dataBuffer = [n \in Node |-> [d \in Node |-> {}]]
    /\ ackBuffer = [n \in Node |-> {}]
    /\ expired = [n \in Node |-> {}]
    /\ sender = [n \in Node |-> Idle]
    /\ air = {}
    /\ issued = [n \in Node |-> 0]
    /\ client = [n \in Node |-> <<>>]
    /\ sent = {}
    /\ restarts = 0

-----------------------------------------------------------------------------
(* Identifiers and the medium. *)

(* The k-th identifier node n draws next.  esp_random is modelled as never    *)
(* drawing the same number twice.                                            *)
NewID(n, k) == <<n, issued[n] + k>>

Draw(n, k) ==
    /\ issued[n] + k <= MaxPacketIDs
    /\ issued' = [issued EXCEPT ![n] = @ + k]

Neighbours(n) == {m \in Node : <<n, m>> \in Link}

(* enqueueTxPacket, and the radio that sends the packet: one copy for every   *)
(* node in range, whatever address the frame carries.                        *)
OnAir(n, frames) == Neighbours(n) \X frames

(* Mutant: the hop count is passed on as received. *)
HopUnchanged(h) == h % HopWidth

(* hopCount++ on a uint8_t. *)
HopPlusOne(h) == (h + 1) % HopWidth

-----------------------------------------------------------------------------
(* The frames a node originates. *)

Originate(n, type, pid, origin, dest, flags, ext) ==
    [packetType |-> type, packetID |-> pid, originNodeID |-> origin,
     prevHopID |-> n, destNodeID |-> dest, hopCount |-> 0, flags |-> flags,
     ext |-> ext]

sendRREQ(n, pid, target) ==
    Originate(n, "RREQ", pid, n, BROADCAST_ADDR, "NONE", [RREQDestNodeID |-> target])

(* Mutant: an intermediate node answers as if it were the target. *)
sendRREPZeroHops(n, pid, origin, target, nextHop, hops) ==
    Originate(n, "RREP", pid, origin, nextHop, "NONE",
              [RREPDestNodeID |-> target, numHops |-> 0])

sendRREP(n, pid, origin, target, nextHop, hops) ==
    Originate(n, "RREP", pid, origin, nextHop, "NONE",
              [RREPDestNodeID |-> target, numHops |-> hops])

(* Addressed to the origin itself, which need not be in range. *)
sendRERR(n, pid, broken, origin, originalDest, originalPid) ==
    Originate(n, "RERR", pid, origin, origin, "NONE",
              [reporterNodeID |-> n, brokenNodeID |-> broken,
               originalDestNodeID |-> originalDest, originalPacketID |-> originalPid])

sendACK(n, pid, dest, originalPid) ==
    Originate(n, "ACK", pid, n, dest, "NONE", [originalPacketID |-> originalPid])

dataFrame(n, pid, nextHop, dest, flags) ==
    Originate(n, "DATA", pid, n, nextHop, flags, [finalDestID |-> dest])

(* A received frame sent on: n is the new immediate sender, one hop further. *)
Forwarded(n, f, nextHop) ==
    [f EXCEPT !.prevHopID = n, !.destNodeID = nextHop, !.hopCount = HopPlusOne(@)]

-----------------------------------------------------------------------------
(* The route table; rt is the table of one node. *)

(* Mutant: the last answer wins. *)
updateRouteLast(rt, dest, nextHop, hops) ==
    [rt EXCEPT ![dest] = [nextHop |-> nextHop, hopcount |-> hops]]

updateRoute(rt, dest, nextHop, hops) ==
    IF rt[dest] = NoRoute \/ hops < rt[dest].hopcount
    THEN [rt EXCEPT ![dest] = [nextHop |-> nextHop, hopcount |-> hops]]
    ELSE rt

(* handleRREQ and handleRREP learn the far end through the immediate sender,  *)
(* then the immediate sender itself.                                         *)
LearnRoutes(rt, dest, prevHop, hops) ==
    updateRoute(updateRoute(rt, dest, prevHop, hops), prevHop, prevHop, 1)

removeItemRoutingTable(rt, dest) ==
    [d \in Node |-> IF d = dest THEN NoRoute ELSE rt[d]]

invalidateRoute(rt, broken, finalDest) ==
    [d \in Node |-> IF \/ d \in {broken, finalDest}
                       \/ rt[d] # NoRoute /\ rt[d].nextHop = broken
                    THEN NoRoute ELSE rt[d]]

routeReplyThreshold == 2

-----------------------------------------------------------------------------
(* The ACK buffer.  It is a map from packet identifiers. *)

Pending(n, pid) == {e \in ackBuffer[n] : e.frame.packetID = pid}

storeAckPacket(n, f) ==
    (ackBuffer[n] \ Pending(n, f.packetID)) \cup {[frame |-> f, attempts |-> 0]}

(* The end of transmitPacket.  A unicast packet that wants an acknowledgement *)
(* is kept only if there still is a route to the neighbour it was sent to.   *)
(* A bit of REQ_ACK is in ENC_ACK, too.                                      *)
MustStore(f) == f.destNodeID # BROADCAST_ADDR /\ f.flags \in {"REQ_ACK", "ENC_ACK"}

StoreIfRouted(n, f) ==
    ackBuffer' = IF routeTable[n][f.destNodeID] # NoRoute
                 THEN [ackBuffer EXCEPT ![n] = storeAckPacket(n, f)]
                 ELSE ackBuffer

Notify(n, type, pid) ==
    client' = [client EXCEPT ![n] = Append(@, [type |-> type, packetID |-> pid])]

-----------------------------------------------------------------------------
(* handlePacket: what happens to a frame before its type is looked at. *)

(* Every frame that carries the identifier of a pending packet is taken as   *)
(* its acknowledgement, and goes no further.                                 *)
tryImplicitAck(n, f) ==
    /\ Pending(n, f.packetID) # {}
    /\ ackBuffer' = [ackBuffer EXCEPT ![n] = @ \ Pending(n, f.packetID)]
    /\ air' = air \ {<<n, f>>}
    /\ UNCHANGED <<routeTable, receivedPacketIDs, dataBuffer, expired, sender,
                   issued, client, sent, restarts>>

(* Mutant: broken duplicate detection. *)
isNeverDuplicate(n, f) == FALSE

isDuplicatePacketID(n, f) == f.packetID \in receivedPacketIDs[n]

DropDuplicate(n, f) ==
    /\ Pending(n, f.packetID) = {}
    /\ isDuplicatePacketID(n, f)
    /\ air' = air \ {<<n, f>>}
    /\ UNCHANGED <<routeTable, receivedPacketIDs, dataBuffer, ackBuffer, expired,
                   sender, issued, client, sent, restarts>>

(* All a node knows is in RAM. *)
LoseState(n) ==
    /\ routeTable' = [routeTable EXCEPT ![n] = [d \in Node |-> NoRoute]]
    /\ receivedPacketIDs' = [receivedPacketIDs EXCEPT ![n] = {}]
    /\ dataBuffer' = [dataBuffer EXCEPT ![n] = [d \in Node |-> {}]]
    /\ ackBuffer' = [ackBuffer EXCEPT ![n] = {}]
    /\ expired' = [expired EXCEPT ![n] = {}]
    /\ sender' = [sender EXCEPT ![n] = Idle]
    /\ client' = [client EXCEPT ![n] = <<>>]

storePacketID(n, f) ==
    receivedPacketIDs' = [receivedPacketIDs EXCEPT ![n] = @ \cup {f.packetID}]

(* The identifier is stored before the address is looked at. *)
FirstSight(n, f) ==
    /\ Pending(n, f.packetID) = {}
    /\ ~isDuplicatePacketID(n, f)
    /\ storePacketID(n, f)

AddressedTo(n, f) ==
    /\ f.prevHopID # n
    /\ f.destNodeID \in {n, BROADCAST_ADDR}

Overhear(n, f) ==
    /\ FirstSight(n, f)
    /\ ~AddressedTo(n, f)
    /\ air' = air \ {<<n, f>>}
    /\ UNCHANGED <<routeTable, dataBuffer, ackBuffer, expired, sender, issued,
                   client, sent, restarts>>

(* A handler consumes its copy of the frame and sends frames of its own. *)
Emit(n, f, out) == air' = (air \ {<<n, f>>}) \cup OnAir(n, out)

-----------------------------------------------------------------------------
(* The handlers, run by the router task. *)

HandleRREQ(n, f) ==
    LET target == f.ext.RREQDestNodeID
        rt == LearnRoutes(routeTable[n], f.originNodeID, f.prevHopID,
                          HopPlusOne(f.hopCount))
        reply(hops) == sendRREP(n, NewID(n, 1), f.originNodeID, target, f.prevHopID, hops)
        knowsTarget == /\ rt[target] # NoRoute
                       /\ rt[target].hopcount >= routeReplyThreshold
    IN /\ routeTable' = [routeTable EXCEPT ![n] = rt]
       /\ \/ /\ target = n
             /\ Emit(n, f, {reply(0)})
             /\ Draw(n, 1)
          \/ /\ target # n
             /\ knowsTarget
             /\ Emit(n, f, {reply(rt[target].hopcount)})
             /\ Draw(n, 1)
          \/ /\ target # n
             /\ ~knowsTarget
             /\ Emit(n, f, {Forwarded(n, f, BROADCAST_ADDR)})
             /\ UNCHANGED issued
       /\ UNCHANGED <<dataBuffer, ackBuffer, expired, sender, client, sent, restarts>>

(* The packets that waited for the route go out without their flags: the     *)
(* buffer does not keep them.                                                *)
(* Mutant: looks the buffer up under the next hop. *)
flushNextHopQueue(n, target, nextHop) ==
    {dataFrame(n, pid, nextHop, target, "NONE") : pid \in dataBuffer[n][nextHop]}

flushDataQueue(n, target, nextHop) ==
    {dataFrame(n, pid, nextHop, target, "NONE") : pid \in dataBuffer[n][target]}

(* Mutant: only the node that asked learns the route. *)
LearnFromRREPAtOrigin(n, f) ==
    IF n = f.originNodeID
    THEN LearnRoutes(routeTable[n], f.ext.RREPDestNodeID, f.prevHopID,
                     HopPlusOne(f.ext.numHops))
    ELSE updateRoute(routeTable[n], f.prevHopID, f.prevHopID, 1)

LearnFromRREP(n, f) ==
    LearnRoutes(routeTable[n], f.ext.RREPDestNodeID, f.prevHopID,
                HopPlusOne(f.ext.numHops))

HandleRREP(n, f) ==
    LET target == f.ext.RREPDestNodeID
        hops == HopPlusOne(f.ext.numHops)
        rt == LearnFromRREP(n, f)
        flushed == IF rt[target] = NoRoute THEN {}
                   ELSE flushDataQueue(n, target, rt[target].nextHop)
        back == rt[f.originNodeID]
        onward == IF n = f.originNodeID \/ back = NoRoute THEN {}
                  ELSE {[Forwarded(n, f, back.nextHop) EXCEPT !.ext.numHops = hops]}
    IN /\ routeTable' = [routeTable EXCEPT ![n] = rt]
       /\ dataBuffer' = IF rt[target] = NoRoute THEN dataBuffer
                        ELSE [dataBuffer EXCEPT ![n][target] = {}]
       /\ Emit(n, f, flushed \cup onward)
       /\ UNCHANGED <<ackBuffer, expired, sender, issued, client, sent, restarts>>

(* Without an MQTTManager, handleRERR reads a member of a null pointer once   *)
(* it has removed the route (868), and the node reboots.                     *)
DereferencesNull(n, f) ==
    f.ext.brokenNodeID = f.ext.reporterNodeID /\ n \notin MQTTNode

CrashOnRERR(n, f) ==
    /\ Pending(n, f.packetID) = {}
    /\ ~isDuplicatePacketID(n, f)
    /\ AddressedTo(n, f)
    /\ f.packetType = "RERR"
    /\ DereferencesNull(n, f)
    /\ LoseState(n)
    /\ air' = air \ {<<n, f>>}
    /\ UNCHANGED <<issued, sent, restarts>>

HandleRERR(n, f) ==
    LET e == f.ext
        rt == IF e.brokenNodeID # e.reporterNodeID
              THEN invalidateRoute(routeTable[n], e.brokenNodeID, e.originalDestNodeID)
              ELSE removeItemRoutingTable(routeTable[n], e.originalDestNodeID)
        back == rt[f.originNodeID]
        onward == IF n = f.originNodeID \/ back = NoRoute THEN {}
                  ELSE {Forwarded(n, f, back.nextHop)}
    IN /\ ~DereferencesNull(n, f)
       /\ routeTable' = [routeTable EXCEPT ![n] = rt]
       /\ Emit(n, f, onward)
       /\ UNCHANGED <<dataBuffer, ackBuffer, expired, sender, issued, client, sent,
                      restarts>>

(* handleData acknowledges to the previous hop first, if asked to. *)
WantsAck(f) == f.flags = "REQ_ACK"

AckOf(n, f) ==
    IF WantsAck(f) THEN {sendACK(n, NewID(n, 1), f.prevHopID, f.packetID)} ELSE {}

AcksDrawn(f) == IF WantsAck(f) THEN 1 ELSE 0

DeliverData(n, f) ==
    /\ f.ext.finalDestID = n
    /\ Emit(n, f, AckOf(n, f))
    /\ Draw(n, AcksDrawn(f))
    /\ Notify(n, "BLE_Node", f.packetID)
    /\ UNCHANGED <<routeTable, dataBuffer, ackBuffer, expired, sender, sent, restarts>>

RelayBroadcast(n, f) ==
    /\ f.ext.finalDestID = BROADCAST_ADDR
    /\ Emit(n, f, AckOf(n, f) \cup {Forwarded(n, f, BROADCAST_ADDR)})
    /\ Draw(n, AcksDrawn(f))
    /\ Notify(n, "BLE_Broadcast", f.packetID)
    /\ UNCHANGED <<routeTable, dataBuffer, ackBuffer, expired, sender, sent, restarts>>

(* The transmit queue may be full: then the packet is dropped, and is not     *)
(* stored for retransmission either.                                         *)
ForwardData(n, f) ==
    LET dest == f.ext.finalDestID
        onward == Forwarded(n, f, routeTable[n][dest].nextHop)
    IN /\ dest \notin {n, BROADCAST_ADDR}
       /\ routeTable[n][dest] # NoRoute
       /\ Draw(n, AcksDrawn(f))
       /\ \/ /\ Emit(n, f, AckOf(n, f) \cup {onward})
             /\ IF MustStore(onward) THEN StoreIfRouted(n, onward)
                                     ELSE UNCHANGED ackBuffer
          \/ /\ QueueMayFill
             /\ Emit(n, f, AckOf(n, f))
             /\ UNCHANGED ackBuffer
       /\ UNCHANGED <<routeTable, dataBuffer, expired, sender, client, sent, restarts>>

RejectData(n, f) ==
    LET dest == f.ext.finalDestID
        rerr == sendRERR(n, NewID(n, AcksDrawn(f) + 1), n, f.originNodeID, dest,
                         f.packetID)
    IN /\ dest \notin {n, BROADCAST_ADDR}
       /\ routeTable[n][dest] = NoRoute
       /\ Emit(n, f, AckOf(n, f) \cup {rerr})
       /\ Draw(n, AcksDrawn(f) + 1)
       /\ UNCHANGED <<routeTable, dataBuffer, ackBuffer, expired, sender, client, sent,
                      restarts>>

HandleData(n, f) ==
    \/ DeliverData(n, f)
    \/ RelayBroadcast(n, f)
    \/ ForwardData(n, f)
    \/ RejectData(n, f)

(* handleACK and removeFromACKBuffer: the phone is told if its own packet is  *)
(* acknowledged.  The type and the origin are in the base header, which is   *)
(* not encrypted.                                                            *)
(* Mutant: asks who sent the packet last, not who sent it first. *)
SentByMe(n, e) == e.frame.prevHopID = n

OriginatedByMe(n, e) == e.frame.originNodeID = n

HandleACK(n, f) ==
    LET pid == f.ext.originalPacketID
        pending == Pending(n, pid)
    IN /\ Emit(n, f, {})
       /\ ackBuffer' = [ackBuffer EXCEPT ![n] = @ \ pending]
       /\ IF \E e \in pending : OriginatedByMe(n, e)
          THEN Notify(n, "BLE_ACK", pid)
          ELSE UNCHANGED client
       /\ UNCHANGED <<routeTable, dataBuffer, expired, sender, issued, sent, restarts>>

HandleFrame(n, f) ==
    /\ FirstSight(n, f)
    /\ AddressedTo(n, f)
    /\ \/ f.packetType = "RREQ" /\ HandleRREQ(n, f)
       \/ f.packetType = "RREP" /\ HandleRREP(n, f)
       \/ f.packetType = "RERR" /\ HandleRERR(n, f)
       \/ f.packetType = "DATA" /\ HandleData(n, f)
       \/ f.packetType = "ACK"  /\ HandleACK(n, f)

handlePacket(n, f) ==
    \/ tryImplicitAck(n, f)
    \/ DropDuplicate(n, f)
    \/ Overhear(n, f)
    \/ HandleFrame(n, f)
    \/ CrashOnRERR(n, f)

(* One turn of routerTask. *)
RouterTask(n) == \E f \in {copy[2] : copy \in {c \in air : c[1] = n}} : handlePacket(n, f)

-----------------------------------------------------------------------------
(* sendData, run by the application task. *)

Accept(n, pid, dest) ==
    sent' = sent \cup {[packetID |-> pid, origin |-> n, finalDestID |-> dest]}

(* getRoute.  The task goes on from what it read here. *)
sendData(n, r) ==
    LET pid == NewID(n, 1)
        route == routeTable[n][r.to]
    IN /\ r.from = n
       /\ sender[n] = Idle
       /\ Cardinality(sent) < MaxSends
       /\ Draw(n, 1)
       /\ Accept(n, pid, r.to)
       /\ \/ /\ r.to = BROADCAST_ADDR
             /\ air' = air \cup OnAir(n, {dataFrame(n, pid, BROADCAST_ADDR, r.to, r.flags)})
             /\ UNCHANGED sender
          \/ /\ r.to # BROADCAST_ADDR
             /\ sender' = [sender EXCEPT ![n] =
                   IF route = NoRoute
                   THEN [step |-> "buffer", packetID |-> pid, dest |-> r.to]
                   ELSE [step |-> "transmit",
                         frame |-> dataFrame(n, pid, route.nextHop, r.to, r.flags)]]
             /\ UNCHANGED air
       /\ UNCHANGED <<routeTable, receivedPacketIDs, dataBuffer, ackBuffer, expired,
                      client, restarts>>

(* insertDataBuffer, then sendRREQ. *)
SendDataBuffer(n) ==
    LET s == sender[n]
    IN /\ s.step = "buffer"
       /\ dataBuffer' = [dataBuffer EXCEPT ![n][s.dest] = @ \cup {s.packetID}]
       /\ air' = air \cup OnAir(n, {sendRREQ(n, NewID(n, 1), s.dest)})
       /\ Draw(n, 1)
       /\ sender' = [sender EXCEPT ![n] = Idle]
       /\ UNCHANGED <<routeTable, receivedPacketIDs, ackBuffer, expired, client, sent,
                      restarts>>

(* transmitPacket up to enqueueTxPacket. *)
SendDataTransmit(n) ==
    LET s == sender[n]
    IN /\ s.step = "transmit"
       /\ air' = air \cup OnAir(n, {s.frame})
       /\ sender' = [sender EXCEPT ![n] =
                       IF MustStore(s.frame) THEN [s EXCEPT !.step = "store"] ELSE Idle]
       /\ UNCHANGED <<routeTable, receivedPacketIDs, dataBuffer, ackBuffer, expired,
                      issued, client, sent, restarts>>

(* The transmit queue was full: the packet is dropped. *)
SendDataDrop(n) ==
    /\ QueueMayFill
    /\ sender[n].step = "transmit"
    /\ sender' = [sender EXCEPT ![n] = Idle]
    /\ UNCHANGED <<routeTable, receivedPacketIDs, dataBuffer, ackBuffer, expired, air,
                   issued, client, sent, restarts>>

(* The rest of transmitPacket.  The answer may have come back already. *)
SendDataStore(n) ==
    /\ sender[n].step = "store"
    /\ StoreIfRouted(n, sender[n].frame)
    /\ sender' = [sender EXCEPT ![n] = Idle]
    /\ UNCHANGED <<routeTable, receivedPacketIDs, dataBuffer, expired, air, issued,
                   client, sent, restarts>>

ApplicationTask(n) ==
    \/ \E r \in Requests : sendData(n, r)
    \/ SendDataBuffer(n)
    \/ SendDataTransmit(n)
    \/ SendDataDrop(n)
    \/ SendDataStore(n)

-----------------------------------------------------------------------------
(* cleanupAckBuffer, run by the timer worker. *)

(* Mutant: one retransmission too many. *)
MayRetryAtLimit(e) == e.attempts <= MAX_RETRANS

MayRetry(e) == e.attempts < MAX_RETRANS

(* Mutant: the attempt is not counted. *)
RetriedUncounted(e) == e

Retried(e) == [e EXCEPT !.attempts = @ + 1]

(* The pass under the mutex.  Which entries are older than ACK_TIMEOUT is    *)
(* left open.                                                                *)
CleanupAckBuffer(n) ==
    /\ expired[n] = {}
    /\ \E due \in SUBSET ackBuffer[n] :
        LET retry == {e \in due : MayRetry(e)}
        IN /\ due # {}
           /\ ackBuffer' = [ackBuffer EXCEPT ![n] =
                  (@ \ due) \cup {Retried(e) : e \in retry}]
           /\ expired' = [expired EXCEPT ![n] = due \ retry]
           /\ air' = air \cup OnAir(n, {e.frame : e \in retry})
    /\ UNCHANGED <<routeTable, receivedPacketIDs, dataBuffer, sender, issued, client,
                   sent, restarts>>

(* The pass over the entries moved out.  Their bytes are ciphertext after    *)
(* the base header, so the final destination is not what was sent.           *)
ReportExpired(n) ==
    \E e \in expired[n] :
        LET f == e.frame
        IN /\ expired' = [expired EXCEPT ![n] = @ \ {e}]
           /\ air' = air \cup OnAir(n, {sendRERR(n, NewID(n, 1), n, f.originNodeID,
                                                Undecipherable, f.packetID)})
           /\ Draw(n, 1)
           /\ Notify(n, "BLE_ACK_FAILURE", f.packetID)
           /\ UNCHANGED <<routeTable, receivedPacketIDs, dataBuffer, ackBuffer, sender,
                          sent, restarts>>

TimerWorker(n) == CleanupAckBuffer(n) \/ ReportExpired(n)

-----------------------------------------------------------------------------
(* A reboot at any time. *)
Restart(n) ==
    /\ restarts < MaxRestarts
    /\ restarts' = restarts + 1
    /\ LoseState(n)
    /\ UNCHANGED <<air, issued, sent>>

-----------------------------------------------------------------------------
Next ==
    \E n \in Node :
        \/ RouterTask(n)
        \/ ApplicationTask(n)
        \/ TimerWorker(n)
        \/ Restart(n)

Spec == Init /\ [][Next]_vars

(* The timers keep firing and their worker keeps running, whatever happens to *)
(* the other tasks and to the frames.                                        *)
TimerFairness == \A n \in Node : WF_vars(TimerWorker(n))

(* Weak fairness of every task, on a medium that loses nothing: every copy in *)
(* the air is received in the end.                                           *)
Fairness ==
    /\ TimerFairness
    /\ \A n \in Node : /\ WF_vars(RouterTask(n))
                       /\ WF_vars(SendDataBuffer(n))
                       /\ WF_vars(SendDataTransmit(n))
                       /\ WF_vars(SendDataStore(n))

=============================================================================
