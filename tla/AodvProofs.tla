----------------------------- MODULE AodvProofs -----------------------------
(***************************************************************************)
(* Proofs about the node plane (AodvRouter), for every set of nodes,       *)
(* topology, workload and bound: its types, and the lemmas about frames    *)
(* and handlers the other proof modules share; that floods end; and that   *)
(* routes promise no fewer hops than there are, do not loop, and lead data *)
(* packets through nodes that have one.                                    *)
(***************************************************************************)
EXTENDS AodvProperties, FiniteSetTheorems, Integers, TLAPS

(* A frame built by Originate is a frame of its type. *)
LEMMA OriginateType ==
    ASSUME NEW n \in Node, NEW type, NEW pid \in PacketID, NEW origin \in Node,
           NEW dest \in Address, NEW flags \in Flags, NEW E, NEW ext \in E
    PROVE  Originate(n, type, pid, origin, dest, flags, ext) \in FrameOf(type, E)
BY DEF Originate, FrameOf, HopCount

(* The packet type tells which header a frame carries. *)
LEMMA FrameKinds ==
    ASSUME NEW f \in Frame
    PROVE  /\ f.packetType = "RREQ" => f \in RREQFrame
           /\ f.packetType = "RREP" => f \in RREPFrame
           /\ f.packetType = "RERR" => f \in RERRFrame
           /\ f.packetType = "ACK" => f \in ACKFrame
           /\ f.packetType = "DATA" => f \in DATAFrame
BY DEF Frame, RREQFrame, RREPFrame, RERRFrame, ACKFrame, DATAFrame, FrameOf

(* The uint8_t increment stays in range, and adds one unless it wraps. *)
LEMMA HopType ==
    ASSUME NEW h \in HopCount
    PROVE  /\ HopPlusOne(h) \in HopCount
           /\ h < 255 => HopPlusOne(h) = h + 1
BY DEF HopPlusOne, HopCount, HopWidth

(* A frame sent on keeps its type. *)
LEMMA ForwardedType ==
    ASSUME NEW n \in Node, NEW type, NEW E, NEW f \in FrameOf(type, E),
           NEW nextHop \in Address
    PROVE  Forwarded(n, f, nextHop) \in FrameOf(type, E)
<1>1. f.hopCount \in HopCount
  BY DEF FrameOf
<1>2. HopPlusOne(f.hopCount) \in HopCount
  BY <1>1, HopType
<1> QED BY <1>2 DEF Forwarded, FrameOf

Table == [Node -> Route \cup {NoRoute}]

(* What a table holds for a known destination is a route. *)
LEMMA RouteType ==
    ASSUME NEW rt \in Table, NEW d \in Node, rt[d] # NoRoute
    PROVE  /\ rt[d] \in Route
           /\ rt[d].nextHop \in Node
           /\ rt[d].hopcount \in HopCount
BY DEF Table, Route

(* updateRoute keeps a table a table. *)
LEMMA UpdateRoute ==
    ASSUME NEW rt \in Table, NEW dest \in Node, NEW nextHop \in Node, NEW hops \in HopCount
    PROVE  updateRoute(rt, dest, nextHop, hops) \in Table
BY DEF updateRoute, Table, Route

(* So does learning both ends of a frame. *)
LEMMA LearnType ==
    ASSUME NEW rt \in Table, NEW dest \in Node, NEW prevHop \in Node, NEW hops \in HopCount
    PROVE  LearnRoutes(rt, dest, prevHop, hops) \in Table
<1>1. 1 \in HopCount
  BY DEF HopCount
<1> QED BY <1>1, UpdateRoute DEF LearnRoutes

(* The frames a node originates are frames. *)
LEMMA SendType ==
    ASSUME NEW n \in Node, NEW pid \in PacketID
    PROVE  /\ \A d \in Node : sendRREQ(n, pid, d) \in RREQFrame
           /\ \A o, d, m \in Node, h \in HopCount : sendRREP(n, pid, o, d, m, h) \in RREPFrame
           /\ \A b, o \in Node, d \in Node \cup {Undecipherable}, p \in PacketID :
                  sendRERR(n, pid, b, o, d, p) \in RERRFrame
           /\ \A d \in Node, p \in PacketID : sendACK(n, pid, d, p) \in ACKFrame
           /\ \A m, d \in Address, x \in Flags : dataFrame(n, pid, m, d, x) \in DATAFrame
<1>1. /\ Node \subseteq Address
      /\ BROADCAST_ADDR \in Address
      /\ "NONE" \in Flags
  BY DEF Address, Flags
<1>2. \A d \in Node : sendRREQ(n, pid, d) \in RREQFrame
  BY <1>1, OriginateType DEF sendRREQ, RREQFrame
<1>3. \A o, d, m \in Node, h \in HopCount : sendRREP(n, pid, o, d, m, h) \in RREPFrame
  BY <1>1, OriginateType DEF sendRREP, RREPFrame
<1>4. \A b, o \in Node, d \in Node \cup {Undecipherable}, p \in PacketID :
          sendRERR(n, pid, b, o, d, p) \in RERRFrame
  BY <1>1, OriginateType DEF sendRERR, RERRFrame
<1>5. \A d \in Node, p \in PacketID : sendACK(n, pid, d, p) \in ACKFrame
  BY <1>1, OriginateType DEF sendACK, ACKFrame
<1>6. \A m, d \in Address, x \in Flags : dataFrame(n, pid, m, d, x) \in DATAFrame
  BY <1>1, OriginateType DEF dataFrame, DATAFrame
<1> QED BY <1>2, <1>3, <1>4, <1>5, <1>6

(* What a handler reads from the base header. *)
LEMMA FrameFields ==
    ASSUME NEW f \in Frame
    PROVE  /\ f.packetID \in PacketID
           /\ f.originNodeID \in Node
           /\ f.prevHopID \in Node
           /\ f.destNodeID \in Address
           /\ f.hopCount \in HopCount
           /\ f.flags \in Flags
BY DEF Frame, RREQFrame, RREPFrame, RERRFrame, ACKFrame, DATAFrame, FrameOf

(* Drawing an identifier stays within the bound, and gives an identifier. *)
LEMMA DrawType ==
    ASSUME TypeOK, NEW n \in Node, NEW k \in 0..2, Draw(n, k)
    PROVE  /\ issued' \in [Node -> 0..MaxPacketIDs]
           /\ \A j \in 1..k : NewID(n, j) \in PacketID
BY BoundsAssumption DEF TypeOK, Draw, NewID, PacketID

(* Sending keeps the medium well typed. *)
LEMMA AirType ==
    ASSUME TypeOK, NEW n \in Node, NEW out \in SUBSET Frame
    PROVE  /\ air \cup OnAir(n, out) \in SUBSET (Node \X Frame)
           /\ \A f : (air \ {<<n, f>>}) \cup OnAir(n, out) \in SUBSET (Node \X Frame)
BY DEF TypeOK, OnAir, Neighbours

(* Telling a phone keeps the notifications well typed. *)
LEMMA NotifyType ==
    ASSUME TypeOK, NEW n \in Node, NEW pid \in PacketID,
           NEW type \in {"BLE_Node", "BLE_Broadcast", "BLE_ACK", "BLE_ACK_FAILURE"},
           Notify(n, type, pid)
    PROVE  client' \in [Node -> Seq(Notification)]
<1>1. [type |-> type, packetID |-> pid] \in Notification
  BY DEF Notification
<1> QED BY <1>1 DEF TypeOK, Notify

(* Storing a transmitted packet keeps the ACK buffer well typed. *)
LEMMA StoreType ==
    ASSUME TypeOK, NEW n \in Node, NEW f \in DATAFrame,
           MustStore(f), StoreIfRouted(n, f)
    PROVE  ackBuffer' \in [Node -> SUBSET AckEntry]
<1>1. [frame |-> f, attempts |-> 0] \in AckEntry
  BY BoundsAssumption DEF AckEntry
<1> QED BY <1>1 DEF TypeOK, StoreIfRouted, storeAckPacket, Pending

(* handleRREQ preserves the types. *)
LEMMA RREQType ==
    ASSUME TypeOK, NEW n \in Node, NEW f \in RREQFrame,
           receivedPacketIDs' \in [Node -> SUBSET PacketID], HandleRREQ(n, f)
    PROVE  TypeOK'
<1> DEFINE target == f.ext.RREQDestNodeID
           rt == LearnRoutes(routeTable[n], f.originNodeID, f.prevHopID,
                             HopPlusOne(f.hopCount))
           reply(hops) == sendRREP(n, NewID(n, 1), f.originNodeID, target, f.prevHopID, hops)
<1>1. /\ f \in Frame
      /\ target \in Node
      /\ f.originNodeID \in Node
      /\ f.prevHopID \in Node
      /\ f.hopCount \in HopCount
  BY DEF Frame, RREQFrame, FrameOf
<1>2. rt \in Table
  BY <1>1, HopType, LearnType DEF TypeOK, Table
<1>3. routeTable' \in [Node -> Table]
  BY <1>2 DEF HandleRREQ, TypeOK, Table
<1>4. /\ issued' \in [Node -> 0..MaxPacketIDs]
      /\ air' \in SUBSET (Node \X Frame)
  <2>1. CASE Draw(n, 1) /\ \E h \in HopCount : Emit(n, f, {reply(h)})
    <3>1. PICK h \in HopCount : Emit(n, f, {reply(h)})
      BY <2>1
    <3>2. /\ NewID(n, 1) \in PacketID
          /\ issued' \in [Node -> 0..MaxPacketIDs]
      BY <2>1, DrawType
    <3>3. reply(h) \in Frame
      BY <1>1, <3>2, SendType DEF Frame
    <3> QED BY <3>1, <3>2, <3>3, AirType DEF Emit
  <2>2. CASE UNCHANGED issued /\ Emit(n, f, {Forwarded(n, f, BROADCAST_ADDR)})
    <3>1. Forwarded(n, f, BROADCAST_ADDR) \in Frame
      BY ForwardedType DEF Frame, RREQFrame, Address
    <3> QED BY <2>2, <3>1, AirType DEF Emit, TypeOK
  <2>3. /\ 0 \in HopCount
        /\ rt[target] # NoRoute => rt[target].hopcount \in HopCount
    <3>1. 0 \in HopCount
      BY DEF HopCount
    <3> HIDE DEF rt, target
    <3> QED BY <1>1, <1>2, <3>1, RouteType
  <2> QED BY <2>1, <2>2, <2>3 DEF HandleRREQ
<1> QED BY <1>3, <1>4 DEF TypeOK, Table, HandleRREQ

(* handleRREP preserves the types. *)
LEMMA RREPType ==
    ASSUME TypeOK, NEW n \in Node, NEW f \in RREPFrame,
           receivedPacketIDs' \in [Node -> SUBSET PacketID], HandleRREP(n, f)
    PROVE  TypeOK'
<1> DEFINE target == f.ext.RREPDestNodeID
           hops == HopPlusOne(f.ext.numHops)
           rt == LearnFromRREP(n, f)
           flushed == IF rt[target] = NoRoute THEN {}
                      ELSE flushDataQueue(n, target, rt[target].nextHop)
           back == rt[f.originNodeID]
           onward == IF n = f.originNodeID \/ back = NoRoute THEN {}
                     ELSE {[Forwarded(n, f, back.nextHop) EXCEPT !.ext.numHops = hops]}
<1>1. /\ target \in Node
      /\ f.originNodeID \in Node
      /\ f.prevHopID \in Node
      /\ f.ext.numHops \in HopCount
  BY DEF RREPFrame, FrameOf
<1>2. hops \in HopCount
  BY <1>1, HopType
<1>3. rt \in Table
  BY <1>1, <1>2, LearnType DEF LearnFromRREP, TypeOK, Table
<1>4. Node \subseteq Address /\ "NONE" \in Flags
  BY DEF Address, Flags
<1>5. flushed \in SUBSET Frame
  <2> SUFFICES ASSUME rt[target] # NoRoute
               PROVE  flushDataQueue(n, target, rt[target].nextHop) \in SUBSET Frame
    OBVIOUS
  <2> HIDE DEF rt, target
  <2>1. rt[target].nextHop \in Address
    BY <1>1, <1>3, <1>4, RouteType
  <2>2. \A pid \in dataBuffer[n][target] :
            dataFrame(n, pid, rt[target].nextHop, target, "NONE") \in DATAFrame
    BY <1>1, <1>4, <2>1, SendType DEF TypeOK
  <2> QED BY <2>2 DEF flushDataQueue, Frame
<1>6. onward \in SUBSET Frame
  <2> SUFFICES ASSUME back # NoRoute
               PROVE  [Forwarded(n, f, back.nextHop) EXCEPT !.ext.numHops = hops] \in RREPFrame
    BY DEF Frame
  <2> HIDE DEF rt, hops
  <2>1. back.nextHop \in Address
    BY <1>1, <1>3, <1>4, RouteType
  <2>2. Forwarded(n, f, back.nextHop) \in RREPFrame
    BY <2>1, ForwardedType DEF RREPFrame
  <2> QED BY <1>2, <2>2 DEF RREPFrame, FrameOf
<1>7. air' \in SUBSET (Node \X Frame)
  <2>1. Emit(n, f, flushed \cup onward)
    BY DEF HandleRREP
  <2> HIDE DEF flushed, onward
  <2> QED BY <1>5, <1>6, <2>1, AirType DEF Emit
<1>8. routeTable' \in [Node -> Table]
  BY <1>3 DEF HandleRREP, TypeOK, Table
<1>9. dataBuffer' \in [Node -> [Node -> SUBSET PacketID]]
  BY <1>1 DEF HandleRREP, TypeOK
<1> QED BY <1>7, <1>8, <1>9 DEF TypeOK, Table, HandleRREP

(* handleRERR preserves the types. *)
LEMMA RERRType ==
    ASSUME TypeOK, NEW n \in Node, NEW f \in RERRFrame,
           receivedPacketIDs' \in [Node -> SUBSET PacketID], HandleRERR(n, f)
    PROVE  TypeOK'
<1> DEFINE e == f.ext
           rt == IF e.brokenNodeID # e.reporterNodeID
                 THEN invalidateRoute(routeTable[n], e.brokenNodeID, e.originalDestNodeID)
                 ELSE removeItemRoutingTable(routeTable[n], e.originalDestNodeID)
           back == rt[f.originNodeID]
           onward == IF n = f.originNodeID \/ back = NoRoute THEN {}
                     ELSE {Forwarded(n, f, back.nextHop)}
<1>1. f.originNodeID \in Node
  BY DEF RERRFrame, FrameOf
<1>2. rt \in Table
  BY DEF invalidateRoute, removeItemRoutingTable, TypeOK, Table
<1>3. onward \in SUBSET Frame
  <2> SUFFICES ASSUME back # NoRoute
               PROVE  Forwarded(n, f, back.nextHop) \in RERRFrame
    BY DEF Frame
  <2> HIDE DEF rt
  <2>1. back.nextHop \in Address
    BY <1>1, <1>2, RouteType DEF Address
  <2> QED BY <2>1, ForwardedType DEF RERRFrame
<1>4. air' \in SUBSET (Node \X Frame)
  <2>1. Emit(n, f, onward)
    BY DEF HandleRERR
  <2> HIDE DEF onward
  <2> QED BY <1>3, <2>1, AirType DEF Emit
<1>5. routeTable' \in [Node -> Table]
  BY <1>2 DEF HandleRERR, TypeOK, Table
<1> QED BY <1>4, <1>5 DEF TypeOK, Table, HandleRERR

(* The acknowledgement handleData sends, and the identifiers it draws. *)
LEMMA AckOfType ==
    ASSUME TypeOK, NEW n \in Node, NEW f \in DATAFrame, NEW k \in 0..1,
           Draw(n, AcksDrawn(f) + k)
    PROVE  /\ issued' \in [Node -> 0..MaxPacketIDs]
           /\ AckOf(n, f) \in SUBSET Frame
           /\ k = 1 => NewID(n, AcksDrawn(f) + 1) \in PacketID
<1>1. AcksDrawn(f) \in 0..1 /\ AcksDrawn(f) + k \in 0..2
  BY DEF AcksDrawn
<1>2. /\ issued' \in [Node -> 0..MaxPacketIDs]
      /\ \A j \in 1..(AcksDrawn(f) + k) : NewID(n, j) \in PacketID
  BY <1>1, DrawType
<1>3. AckOf(n, f) \in SUBSET Frame
  <2> SUFFICES ASSUME WantsAck(f)
               PROVE  sendACK(n, NewID(n, 1), f.prevHopID, f.packetID) \in ACKFrame
    BY DEF AckOf, Frame
  <2>1. NewID(n, 1) \in PacketID
    BY <1>1, <1>2 DEF AcksDrawn
  <2>2. f.prevHopID \in Node /\ f.packetID \in PacketID
    BY DEF DATAFrame, FrameOf
  <2> QED BY <2>1, <2>2, SendType
<1> QED BY <1>1, <1>2, <1>3

(* handleData preserves the types. *)
LEMMA DATAType ==
    ASSUME TypeOK, NEW n \in Node, NEW f \in DATAFrame,
           receivedPacketIDs' \in [Node -> SUBSET PacketID], HandleData(n, f)
    PROVE  TypeOK'
<1>1. /\ f.packetID \in PacketID
      /\ f.originNodeID \in Node
      /\ f.ext.finalDestID \in Address
      /\ f \in Frame
      /\ BROADCAST_ADDR \in Address
      /\ Node \subseteq Address
  BY DEF DATAFrame, FrameOf, Frame, Address
<1>2. AcksDrawn(f) \in 0..1
  BY DEF AcksDrawn
<1>3. CASE DeliverData(n, f)
  <2>1. AckOf(n, f) \in SUBSET Frame /\ issued' \in [Node -> 0..MaxPacketIDs]
    BY <1>2, <1>3, AckOfType DEF DeliverData
  <2>2. air' \in SUBSET (Node \X Frame)
    BY <1>3, <2>1, AirType DEF DeliverData, Emit
  <2>3. client' \in [Node -> Seq(Notification)]
    BY <1>1, <1>3, NotifyType DEF DeliverData
  <2> QED BY <1>3, <2>1, <2>2, <2>3 DEF TypeOK, DeliverData
<1>4. CASE RelayBroadcast(n, f)
  <2>1. AckOf(n, f) \in SUBSET Frame /\ issued' \in [Node -> 0..MaxPacketIDs]
    BY <1>2, <1>4, AckOfType DEF RelayBroadcast
  <2>2. Forwarded(n, f, BROADCAST_ADDR) \in Frame
    BY <1>1, ForwardedType DEF DATAFrame, Frame
  <2>3. air' \in SUBSET (Node \X Frame)
    BY <1>4, <2>1, <2>2, AirType DEF RelayBroadcast, Emit
  <2>4. client' \in [Node -> Seq(Notification)]
    BY <1>1, <1>4, NotifyType DEF RelayBroadcast
  <2> QED BY <1>4, <2>1, <2>3, <2>4 DEF TypeOK, RelayBroadcast
<1>5. CASE ForwardData(n, f)
  <2> DEFINE dest == f.ext.finalDestID
             onward == Forwarded(n, f, routeTable[n][dest].nextHop)
  <2>1. AckOf(n, f) \in SUBSET Frame /\ issued' \in [Node -> 0..MaxPacketIDs]
    BY <1>2, <1>5, AckOfType DEF ForwardData
  <2>2. dest \in Node /\ routeTable[n] \in Table
    BY <1>1, <1>5 DEF ForwardData, Address, TypeOK, Table
  <2>3. routeTable[n][dest].nextHop \in Address
    BY <1>1, <1>5, <2>2, RouteType DEF ForwardData
  <2>4. onward \in DATAFrame
    BY <2>3, ForwardedType DEF DATAFrame
  <2>5. onward \in Frame
    BY <2>4 DEF Frame
  <2>6. \/ Emit(n, f, AckOf(n, f) \cup {onward})
        \/ Emit(n, f, AckOf(n, f))
    BY <1>5 DEF ForwardData
  <2>7. air' \in SUBSET (Node \X Frame)
    <3> HIDE DEF onward
    <3> QED BY <2>1, <2>5, <2>6, AirType DEF Emit
  <2>8. ackBuffer' \in [Node -> SUBSET AckEntry]
    <3>1. \/ ackBuffer' = ackBuffer
          \/ MustStore(onward) /\ StoreIfRouted(n, onward)
      BY <1>5 DEF ForwardData
    <3> HIDE DEF onward
    <3> QED BY <2>4, <3>1, StoreType DEF TypeOK
  <2> QED BY <1>5, <2>1, <2>7, <2>8 DEF TypeOK, ForwardData
<1>6. CASE RejectData(n, f)
  <2> DEFINE dest == f.ext.finalDestID
             rerr == sendRERR(n, NewID(n, AcksDrawn(f) + 1), n, f.originNodeID, dest,
                              f.packetID)
  <2>1. /\ AckOf(n, f) \in SUBSET Frame
        /\ issued' \in [Node -> 0..MaxPacketIDs]
        /\ NewID(n, AcksDrawn(f) + 1) \in PacketID
    BY <1>2, <1>6, AckOfType DEF RejectData
  <2>2. dest \in Node
    BY <1>1, <1>6 DEF RejectData, Address
  <2>3. rerr \in Frame
    BY <1>1, <2>1, <2>2, SendType DEF Frame
  <2>4. Emit(n, f, AckOf(n, f) \cup {rerr})
    BY <1>6 DEF RejectData
  <2>5. air' \in SUBSET (Node \X Frame)
    <3> HIDE DEF rerr
    <3> QED BY <2>1, <2>3, <2>4, AirType DEF Emit
  <2> QED BY <1>6, <2>1, <2>5 DEF TypeOK, RejectData
<1> QED BY <1>3, <1>4, <1>5, <1>6 DEF HandleData

(* handleACK preserves the types. *)
LEMMA ACKType ==
    ASSUME TypeOK, NEW n \in Node, NEW f \in ACKFrame,
           receivedPacketIDs' \in [Node -> SUBSET PacketID], HandleACK(n, f)
    PROVE  TypeOK'
<1>1. f.ext.originalPacketID \in PacketID
  BY DEF ACKFrame, FrameOf
<1>2. air' \in SUBSET (Node \X Frame)
  BY AirType DEF HandleACK, Emit
<1>3. client' \in [Node -> Seq(Notification)]
  BY <1>1, NotifyType DEF HandleACK, TypeOK
<1> QED BY <1>2, <1>3 DEF TypeOK, HandleACK

(* handlePacket preserves the types. *)
LEMMA PacketType ==
    ASSUME TypeOK, NEW n \in Node, NEW f \in Frame, handlePacket(n, f)
    PROVE  TypeOK'
<1>1. CASE tryImplicitAck(n, f)
  BY <1>1 DEF TypeOK, tryImplicitAck
<1>2. CASE DropDuplicate(n, f)
  BY <1>2 DEF TypeOK, DropDuplicate
<1>3. ASSUME FirstSight(n, f)
      PROVE  receivedPacketIDs' \in [Node -> SUBSET PacketID]
  BY <1>3, FrameFields DEF TypeOK, FirstSight, storePacketID
<1>4. CASE Overhear(n, f)
  BY <1>3, <1>4 DEF TypeOK, Overhear
<1>5. CASE HandleFrame(n, f)
  <2>1. receivedPacketIDs' \in [Node -> SUBSET PacketID]
    BY <1>3, <1>5 DEF HandleFrame
  <2> QED
    BY <1>5, <2>1, FrameKinds, RREQType, RREPType, RERRType, DATAType, ACKType
    DEF HandleFrame
<1>6. CASE CrashOnRERR(n, f)
  BY <1>6 DEF TypeOK, CrashOnRERR, LoseState
<1> QED BY <1>1, <1>2, <1>4, <1>5, <1>6 DEF handlePacket

(* The first pass of cleanupAckBuffer sends and keeps pending packets only. *)
LEMMA RetriedFrames ==
    ASSUME TypeOK, NEW n \in Node, CleanupAckBuffer(n)
    PROVE  /\ \A m \in Node : \A e \in ackBuffer'[m] :
                  \E k \in ackBuffer[m] : e.frame = k.frame
           /\ \E out : /\ air' = air \cup OnAir(n, out)
                       /\ \A g \in out : \E e \in ackBuffer[n] : g = e.frame
<1>1. PICK due \in SUBSET ackBuffer[n] :
          LET retry == {e \in due : MayRetry(e)}
          IN /\ ackBuffer' = [ackBuffer EXCEPT ![n] =
                    (@ \ due) \cup {Retried(e) : e \in retry}]
             /\ air' = air \cup OnAir(n, {e.frame : e \in retry})
  BY DEF CleanupAckBuffer
<1> DEFINE retry == {e \in due : MayRetry(e)}
           retried == {e.frame : e \in retry}
<1>2. \A e \in ackBuffer[n] : Retried(e).frame = e.frame
  BY DEF TypeOK, AckEntry, Retried
<1>3. \A m \in Node : m # n => ackBuffer'[m] = ackBuffer[m]
  BY <1>1 DEF TypeOK
<1>4. ackBuffer'[n] = (ackBuffer[n] \ due) \cup {Retried(e) : e \in retry}
  BY <1>1 DEF TypeOK
<1>5. \A m \in Node : \A e \in ackBuffer'[m] : \E k \in ackBuffer[m] : e.frame = k.frame
  BY <1>2, <1>3, <1>4
<1>6. air' = air \cup OnAir(n, retried)
  BY <1>1
<1>7. \A g \in retried : \E e \in ackBuffer[n] : g = e.frame
  OBVIOUS
<1> HIDE DEF retried
<1> QED BY <1>5, <1>6, <1>7

(* Its second pass sends a RERR that names no destination. *)
LEMMA ReportedFrames ==
    ASSUME NEW n \in Node, ReportExpired(n)
    PROVE  /\ \E pid, o, p :
                  air' = air \cup OnAir(n, {sendRERR(n, pid, n, o, Undecipherable, p)})
           /\ UNCHANGED <<routeTable, receivedPacketIDs, ackBuffer, sender>>
<1>1. PICK e \in expired[n] :
          /\ air' = air \cup OnAir(n, {sendRERR(n, NewID(n, 1), n, e.frame.originNodeID,
                                               Undecipherable, e.frame.packetID)})
          /\ UNCHANGED <<routeTable, receivedPacketIDs, ackBuffer, sender>>
  BY DEF ReportExpired
<1> QED BY <1>1

(* The router task handles one frame that is in the air. *)
LEMMA RouterFrame ==
    ASSUME TypeOK, NEW n \in Node, RouterTask(n)
    PROVE  \E f \in Frame : <<n, f>> \in air /\ handlePacket(n, f)
<1>1. PICK copy \in air : copy[1] = n /\ handlePacket(n, copy[2])
  BY DEF RouterTask
<1>2. copy \in Node \X Frame
  BY DEF TypeOK
<1>3. copy = <<n, copy[2]>> /\ copy[2] \in Frame
  BY <1>1, <1>2
<1> QED BY <1>1, <1>3

(* The frames that no handler answers: they are dropped or only erase pending *)
(* packets.                                                                  *)
Unanswered(n, f) ==
    \/ tryImplicitAck(n, f)
    \/ DropDuplicate(n, f)
    \/ Overhear(n, f)
    \/ HandleFrame(n, f) /\ f.packetType = "ACK"

(* The router task sends nothing for a frame it does not hand to a handler. *)
LEMMA UnansweredFrames ==
    ASSUME TypeOK, NEW n \in Node, NEW f, Unanswered(n, f)
    PROVE  /\ UNCHANGED <<routeTable, sender>>
           /\ air' \subseteq air \cup OnAir(n, {})
           /\ \A m \in Node : ackBuffer'[m] \subseteq ackBuffer[m]
<1>1. CASE tryImplicitAck(n, f)
  BY <1>1 DEF tryImplicitAck, TypeOK
<1>2. CASE DropDuplicate(n, f) \/ Overhear(n, f)
  BY <1>2 DEF DropDuplicate, Overhear
<1>3. CASE HandleFrame(n, f) /\ f.packetType = "ACK"
  <2>1. HandleACK(n, f)
    BY <1>3 DEF HandleFrame
  <2> QED BY <2>1 DEF HandleACK, Emit, TypeOK
<1> QED BY <1>1, <1>2, <1>3 DEF Unanswered

(* What transmitPacket stores is the packet it was given. *)
LEMMA StoredFrames ==
    ASSUME TypeOK, NEW n \in Node, NEW f, UNCHANGED ackBuffer \/ StoreIfRouted(n, f)
    PROVE  \A m \in Node : \A e \in ackBuffer'[m] :
               e \in ackBuffer[m] \/ (m = n /\ e.frame = f)
<1>1. CASE UNCHANGED ackBuffer
  BY <1>1
<1>2. CASE ackBuffer' = [ackBuffer EXCEPT ![n] = storeAckPacket(n, f)]
  BY <1>2 DEF storeAckPacket, TypeOK
<1> QED BY <1>1, <1>2 DEF StoreIfRouted

(* sendData preserves the types. *)
LEMMA ApplicationType ==
    ASSUME TypeOK, NEW n \in Node, ApplicationTask(n)
    PROVE  TypeOK'
<1>0. /\ Node \subseteq Address
      /\ BROADCAST_ADDR \in Address
      /\ "NONE" \in Flags
  BY DEF Address, Flags
<1>1. ASSUME NEW r \in Requests, sendData(n, r)
      PROVE  TypeOK'
  <2> DEFINE pid == NewID(n, 1)
             route == routeTable[n][r.to]
  <2>1. r.to \in Address /\ r.flags \in Flags
    BY RequestsAssumption
  <2>2. pid \in PacketID /\ issued' \in [Node -> 0..MaxPacketIDs]
    BY <1>1, DrawType DEF sendData
  <2>3. sent' \in SUBSET [packetID : PacketID, origin : Node, finalDestID : Address]
    BY <1>1, <2>1, <2>2 DEF sendData, Accept, TypeOK
  <2>4. CASE r.to = BROADCAST_ADDR
    <3>1. dataFrame(n, pid, BROADCAST_ADDR, r.to, r.flags) \in Frame
      BY <1>0, <2>1, <2>2, SendType DEF Frame
    <3>2. air' \in SUBSET (Node \X Frame) /\ sender' = sender
      BY <1>1, <2>4, <3>1, AirType DEF sendData
    <3> QED BY <1>1, <2>2, <2>3, <3>2 DEF TypeOK, sendData
  <2>5. CASE r.to # BROADCAST_ADDR
    <3>1. r.to \in Node /\ routeTable[n] \in Table
      BY <2>1, <2>5 DEF Address, TypeOK, Table
    <3>2. [step |-> "buffer", packetID |-> pid, dest |-> r.to] \in Sending
      BY <2>2, <3>1 DEF Sending
    <3>3. ASSUME route # NoRoute
          PROVE  [step |-> "transmit",
                  frame |-> dataFrame(n, pid, route.nextHop, r.to, r.flags)] \in Sending
      <4>1. route.nextHop \in Address
        BY <1>0, <3>1, <3>3, RouteType
      <4>2. dataFrame(n, pid, route.nextHop, r.to, r.flags) \in DATAFrame
        BY <2>1, <2>2, <4>1, SendType
      <4> QED BY <4>2 DEF Sending
    <3>4. sender' \in [Node -> Sending \cup {Idle}] /\ air' = air
      <4> DEFINE s == IF route = NoRoute
                      THEN [step |-> "buffer", packetID |-> pid, dest |-> r.to]
                      ELSE [step |-> "transmit",
                            frame |-> dataFrame(n, pid, route.nextHop, r.to, r.flags)]
      <4>1. sender' = [sender EXCEPT ![n] = s] /\ air' = air
        BY <1>1, <2>5 DEF sendData
      <4>2. s \in Sending
        BY <3>2, <3>3
      <4> HIDE DEF s
      <4> QED BY <4>1, <4>2 DEF TypeOK
    <3> QED BY <1>1, <2>2, <2>3, <3>4 DEF TypeOK, sendData
  <2> QED BY <2>4, <2>5
<1>2. sender[n] \in Sending \cup {Idle}
  BY DEF TypeOK
<1>3. CASE SendDataBuffer(n)
  <2>1. sender[n].packetID \in PacketID /\ sender[n].dest \in Node
    BY <1>2, <1>3 DEF SendDataBuffer, Sending, Idle
  <2>2. NewID(n, 1) \in PacketID /\ issued' \in [Node -> 0..MaxPacketIDs]
    BY <1>3, DrawType DEF SendDataBuffer
  <2>3. sendRREQ(n, NewID(n, 1), sender[n].dest) \in Frame
    BY <2>1, <2>2, SendType DEF Frame
  <2>4. air' \in SUBSET (Node \X Frame)
    BY <1>3, <2>3, AirType DEF SendDataBuffer
  <2>5. dataBuffer' \in [Node -> [Node -> SUBSET PacketID]]
    BY <1>3, <2>1 DEF SendDataBuffer, TypeOK
  <2> QED BY <1>3, <2>2, <2>4, <2>5 DEF TypeOK, SendDataBuffer
<1>4. ASSUME sender[n].step \in {"transmit", "store"}
      PROVE  /\ sender[n].frame \in DATAFrame
             /\ [sender[n] EXCEPT !.step = "store"] \in Sending
  BY <1>2, <1>4 DEF Sending, Idle
<1>5. CASE SendDataTransmit(n)
  <2>1. sender[n].frame \in Frame
    BY <1>4, <1>5 DEF SendDataTransmit, Frame
  <2>2. air' \in SUBSET (Node \X Frame)
    BY <1>5, <2>1, AirType DEF SendDataTransmit
  <2>3. sender' \in [Node -> Sending \cup {Idle}]
    BY <1>4, <1>5 DEF SendDataTransmit, TypeOK
  <2> QED BY <1>5, <2>2, <2>3 DEF TypeOK, SendDataTransmit
<1>6. CASE SendDataDrop(n)
  BY <1>6 DEF TypeOK, SendDataDrop
<1>7. CASE SendDataStore(n)
  <2>1. ackBuffer' \in [Node -> SUBSET AckEntry]
    <3>1. [frame |-> sender[n].frame, attempts |-> 0] \in AckEntry
      BY <1>4, <1>7, BoundsAssumption DEF SendDataStore, AckEntry
    <3> QED BY <1>7, <3>1 DEF TypeOK, SendDataStore, StoreIfRouted, storeAckPacket, Pending
  <2> QED BY <1>7, <2>1 DEF TypeOK, SendDataStore
<1> QED BY <1>1, <1>3, <1>5, <1>6, <1>7 DEF ApplicationTask

(* cleanupAckBuffer preserves the types. *)
LEMMA TimerType ==
    ASSUME TypeOK, NEW n \in Node, TimerWorker(n)
    PROVE  TypeOK'
<1>1. CASE CleanupAckBuffer(n)
  <2>1. PICK due \in SUBSET ackBuffer[n] :
            LET retry == {e \in due : MayRetry(e)}
            IN /\ ackBuffer' = [ackBuffer EXCEPT ![n] =
                      (@ \ due) \cup {Retried(e) : e \in retry}]
               /\ expired' = [expired EXCEPT ![n] = due \ retry]
               /\ air' = air \cup OnAir(n, {e.frame : e \in retry})
    BY <1>1 DEF CleanupAckBuffer
  <2>2. \A e \in due : /\ e \in AckEntry
                       /\ e.frame \in Frame
                       /\ MayRetry(e) => Retried(e) \in AckEntry
    <3>1. due \subseteq AckEntry
      BY DEF TypeOK
    <3>2. \A e \in AckEntry : e.frame \in Frame
      BY DEF AckEntry, Frame
    <3>3. ASSUME NEW e \in AckEntry, MayRetry(e)
          PROVE  Retried(e) \in AckEntry
      <4>1. e.attempts \in 0..MAX_RETRANS /\ e.attempts < MAX_RETRANS
        BY <3>3 DEF AckEntry, MayRetry
      <4>2. e.attempts + 1 \in 0..MAX_RETRANS
        BY <4>1, BoundsAssumption
      <4> QED BY <4>2 DEF AckEntry, Retried
    <3> QED BY <3>1, <3>2, <3>3
  <2>3. ackBuffer' \in [Node -> SUBSET AckEntry] /\ expired' \in [Node -> SUBSET AckEntry]
    BY <2>1, <2>2 DEF TypeOK
  <2>4. {e.frame : e \in {d \in due : MayRetry(d)}} \in SUBSET Frame
    BY <2>2
  <2>5. air' \in SUBSET (Node \X Frame)
    BY <2>1, <2>4, AirType
  <2> QED BY <1>1, <2>3, <2>5 DEF TypeOK, CleanupAckBuffer
<1>2. CASE ReportExpired(n)
  <2>1. PICK e \in expired[n] :
            /\ expired' = [expired EXCEPT ![n] = @ \ {e}]
            /\ air' = air \cup OnAir(n, {sendRERR(n, NewID(n, 1), n, e.frame.originNodeID,
                                                 Undecipherable, e.frame.packetID)})
            /\ Draw(n, 1)
            /\ Notify(n, "BLE_ACK_FAILURE", e.frame.packetID)
    BY <1>2 DEF ReportExpired
  <2>2. /\ e.frame.originNodeID \in Node
        /\ e.frame.packetID \in PacketID
    BY DEF TypeOK, AckEntry, DATAFrame, FrameOf
  <2>3. NewID(n, 1) \in PacketID /\ issued' \in [Node -> 0..MaxPacketIDs]
    BY <2>1, DrawType
  <2>4. sendRERR(n, NewID(n, 1), n, e.frame.originNodeID, Undecipherable,
                 e.frame.packetID) \in Frame
    BY <2>2, <2>3, SendType DEF Frame
  <2>5. air' \in SUBSET (Node \X Frame)
    BY <2>1, <2>4, AirType
  <2>6. client' \in [Node -> Seq(Notification)]
    BY <2>1, <2>2, NotifyType
  <2>7. expired' \in [Node -> SUBSET AckEntry]
    BY <2>1 DEF TypeOK
  <2> QED BY <1>2, <2>3, <2>5, <2>6, <2>7 DEF TypeOK, ReportExpired
<1> QED BY <1>1, <1>2 DEF TimerWorker

(* A reboot preserves the types. *)
LEMMA RestartType ==
    ASSUME TypeOK, NEW n \in Node, Restart(n)
    PROVE  TypeOK'
BY BoundsAssumption DEF TypeOK, Restart, LoseState

(* Every variable of the router keeps its type, whatever tasks and frames     *)
(* interleave, on any number of nodes and any topology.                      *)
THEOREM TypeCorrect == Spec => []TypeOK
<1>1. Init => TypeOK
  BY BoundsAssumption DEF Init, TypeOK
<1>2. TypeOK /\ [Next]_vars => TypeOK'
  <2> SUFFICES ASSUME TypeOK, [Next]_vars
               PROVE  TypeOK'
    OBVIOUS
  <2>1. CASE UNCHANGED vars
    BY <2>1 DEF TypeOK, vars
  <2>2. ASSUME NEW n \in Node, RouterTask(n)
        PROVE  TypeOK'
    BY <2>2, RouterFrame, PacketType
  <2> QED BY <2>1, <2>2, ApplicationType, TimerType, RestartType DEF Next
<1> QED BY <1>1, <1>2, PTL DEF Spec

-----------------------------------------------------------------------------
(* Floods end, though frames carry no time to live: a frame makes a hop only   *)
(* at a node that has not seen its identifier yet.                           *)

Seen(pid) == {n \in Node : pid \in receivedPacketIDs[n]}

Bounded(f) == f.hopCount <= Cardinality(Seen(f.packetID))

FloodInv ==
    /\ \A copy \in air : Bounded(copy[2])
    /\ \A n \in Node : \A e \in ackBuffer[n] : Bounded(e.frame)
    /\ \A n \in Node : sender[n].step \in {"transmit", "store"} => Bounded(sender[n].frame)

(* The frames a handler of f sends: its own, and f one hop further. *)
Follows(g, f) ==
    \/ g.hopCount = 0
    \/ g.hopCount = HopPlusOne(f.hopCount) /\ g.packetID = f.packetID

(* The nodes that have seen an identifier are finitely many, before and after. *)
LEMMA SeenFinite ==
    ASSUME NEW p
    PROVE  /\ IsFiniteSet(Seen(p))
           /\ Cardinality(Seen(p)) \in Nat
           /\ IsFiniteSet(Seen(p)')
           /\ Cardinality(Seen(p)') \in Nat
BY NodeAssumption, FS_Subset, FS_CardinalityType DEF Seen

(* One hop adds at most one to the counter: wrapping only lowers it. *)
LEMMA HopGrowth ==
    ASSUME NEW h \in HopCount
    PROVE  HopPlusOne(h) <= h + 1
BY DEF HopPlusOne, HopWidth, HopCount

(* While no node forgets identifiers, a bounded frame stays bounded. *)
LEMMA BoundedStays ==
    ASSUME NEW f \in Frame, Bounded(f),
           \A n \in Node : receivedPacketIDs[n] \subseteq receivedPacketIDs'[n]
    PROVE  Bounded(f)'
<1>1. Seen(f.packetID) \subseteq Seen(f.packetID)'
  BY DEF Seen
<1>2. Cardinality(Seen(f.packetID)) <= Cardinality(Seen(f.packetID)')
  BY <1>1, SeenFinite, FS_Subset
<1>3. f.hopCount \in Nat
  BY FrameFields DEF HopCount
<1>4. f.hopCount <= Cardinality(Seen(f.packetID)')
  BY <1>2, <1>3, SeenFinite DEF Bounded
<1> QED BY <1>4 DEF Bounded

(* A first sight pays for the hop the frame makes. *)
LEMMA FollowerBounded ==
    ASSUME TypeOK, NEW n \in Node, NEW f \in Frame, Bounded(f), FirstSight(n, f),
           NEW g, Follows(g, f)
    PROVE  Bounded(g)'
<1>1. CASE g.hopCount = 0
  BY <1>1, SeenFinite DEF Bounded
<1>2. CASE g.hopCount = HopPlusOne(f.hopCount) /\ g.packetID = f.packetID
  <2>1. /\ n \notin Seen(f.packetID)
        /\ Seen(f.packetID)' = Seen(f.packetID) \cup {n}
    BY DEF Seen, FirstSight, isDuplicatePacketID, storePacketID, TypeOK
  <2>2. Cardinality(Seen(f.packetID)') = Cardinality(Seen(f.packetID)) + 1
    BY <2>1, SeenFinite, FS_AddElement
  <2>3. /\ f.hopCount \in Nat
        /\ HopPlusOne(f.hopCount) \in Nat
        /\ HopPlusOne(f.hopCount) <= f.hopCount + 1
    <3>1. HopCount \subseteq Nat
      BY DEF HopCount
    <3> QED BY <3>1, FrameFields, HopType, HopGrowth
  <2>4. g.hopCount <= Cardinality(Seen(g.packetID)')
    BY <1>2, <2>2, <2>3, SeenFinite DEF Bounded
  <2> QED BY <2>4 DEF Bounded
<1> QED BY <1>1, <1>2 DEF Follows

(* What a step has to show. *)
LEMMA FloodStep ==
    ASSUME TypeOK, FloodInv, NEW n \in Node, NEW out, \A f \in out : Bounded(f)',
           \A m \in Node : receivedPacketIDs[m] \subseteq receivedPacketIDs'[m],
           air' \subseteq air \cup OnAir(n, out),
           \A m \in Node : \A e \in ackBuffer'[m] :
               \/ \E k \in ackBuffer[m] : e.frame = k.frame
               \/ Bounded(e.frame)',
           \A m \in Node : sender'[m].step \in {"transmit", "store"} =>
               \/ /\ sender[m].step \in {"transmit", "store"}
                  /\ sender'[m].frame = sender[m].frame
               \/ Bounded(sender[m].frame)'
    PROVE  FloodInv'
<1>1. \A f \in Frame : Bounded(f) => Bounded(f)'
  BY BoundedStays
<1>2. (\A copy \in air : Bounded(copy[2]))'
  <2> SUFFICES ASSUME NEW copy \in air'
               PROVE  Bounded(copy[2])'
    OBVIOUS
  <2>1. CASE copy \in air
    <3>1. copy[2] \in Frame /\ Bounded(copy[2])
      BY <2>1 DEF TypeOK, FloodInv
    <3> QED BY <1>1, <3>1
  <2>2. CASE copy \in OnAir(n, out)
    <3>1. copy[2] \in out
      BY <2>2 DEF OnAir
    <3> QED BY <3>1
  <2> QED BY <2>1, <2>2
<1>3. (\A m \in Node : \A e \in ackBuffer[m] : Bounded(e.frame))'
  <2>1. \A m \in Node : \A e \in ackBuffer'[m] : Bounded(e.frame)'
    <3>1. \A m \in Node : \A k \in ackBuffer[m] : k.frame \in Frame /\ Bounded(k.frame)
      BY DEF TypeOK, FloodInv, AckEntry, Frame
    <3> QED BY <1>1, <3>1
  <2> QED BY <2>1
<1>4. (\A m \in Node : sender[m].step \in {"transmit", "store"} => Bounded(sender[m].frame))'
  <2> SUFFICES ASSUME NEW m \in Node, sender'[m].step \in {"transmit", "store"}
               PROVE  Bounded(sender[m].frame)'
    OBVIOUS
  <2>1. CASE /\ sender[m].step \in {"transmit", "store"}
             /\ sender'[m].frame = sender[m].frame
    <3>1. sender[m].frame \in DATAFrame
      <4>1. sender[m] \in Sending \cup {Idle}
        BY DEF TypeOK
      <4> QED BY <2>1, <4>1 DEF Sending, Idle
    <3>2. PICK f \in Frame : f = sender[m].frame
      BY <3>1 DEF Frame
    <3>3. Bounded(f)
      BY <2>1, <3>2 DEF FloodInv
    <3>4. Bounded(f)'
      BY <1>1, <3>3
    <3> QED BY <2>1, <3>2, <3>4
  <2> QED BY <2>1
<1> QED BY <1>2, <1>3, <1>4 DEF FloodInv

(* A frame sent on follows the frame received. *)
LEMMA ForwardedFollows ==
    ASSUME NEW n, NEW m, NEW f \in Frame
    PROVE  /\ Follows(Forwarded(n, f, m), f)
           /\ \A h : f \in RREPFrame =>
                  Follows([Forwarded(n, f, m) EXCEPT !.ext.numHops = h], f)
<1>1. /\ Forwarded(n, f, m).hopCount = HopPlusOne(f.hopCount)
      /\ Forwarded(n, f, m).packetID = f.packetID
  BY DEF Forwarded, Frame, RREQFrame, RREPFrame, RERRFrame, ACKFrame, DATAFrame, FrameOf
<1>2. \A h : f \in RREPFrame =>
          LET g == [Forwarded(n, f, m) EXCEPT !.ext.numHops = h]
          IN g.hopCount = HopPlusOne(f.hopCount) /\ g.packetID = f.packetID
  BY DEF Forwarded, RREPFrame, FrameOf
<1> QED BY <1>1, <1>2 DEF Follows

(* A node's own frame has made no hop. *)
LEMMA OriginatedFollows ==
    ASSUME NEW n, NEW f
    PROVE  /\ \A pid, o, d, m, h : Follows(sendRREP(n, pid, o, d, m, h), f)
           /\ \A pid, b, o, d, p : Follows(sendRERR(n, pid, b, o, d, p), f)
           /\ \A pid, d, p : Follows(sendACK(n, pid, d, p), f)
           /\ \A pid, m, d, x : Follows(dataFrame(n, pid, m, d, x), f)
BY DEF Follows, Originate, sendRREP, sendRERR, sendACK, dataFrame

(* What a handler sends and keeps follows the frame it was given. *)
HandledBy(n, f) ==
    /\ \E out : Emit(n, f, out) /\ \A g \in out : Follows(g, f)
    /\ \A m \in Node : \A e \in ackBuffer'[m] : e \in ackBuffer[m] \/ Follows(e.frame, f)
    /\ UNCHANGED sender

(* What handleRREQ, handleRREP and handleRERR send follows the frame. *)
LEMMA RouteHandlers ==
    ASSUME TypeOK, NEW n \in Node, NEW f \in Frame,
           \/ f \in RREQFrame /\ HandleRREQ(n, f)
           \/ f \in RREPFrame /\ HandleRREP(n, f)
           \/ f \in RERRFrame /\ HandleRERR(n, f)
    PROVE  HandledBy(n, f)
<1>1. UNCHANGED <<ackBuffer, sender>>
  BY DEF HandleRREQ, HandleRREP, HandleRERR
<1>2. CASE f \in RREQFrame /\ HandleRREQ(n, f)
  <2>1. PICK g : Emit(n, f, {g}) /\ Follows(g, f)
    BY <1>2, ForwardedFollows, OriginatedFollows DEF HandleRREQ
  <2> QED BY <1>1, <2>1 DEF HandledBy
<1>3. CASE f \in RREPFrame /\ HandleRREP(n, f)
  <2> DEFINE target == f.ext.RREPDestNodeID
             rt == LearnFromRREP(n, f)
             flushed == IF rt[target] = NoRoute THEN {}
                        ELSE flushDataQueue(n, target, rt[target].nextHop)
             back == rt[f.originNodeID]
             onward == IF n = f.originNodeID \/ back = NoRoute THEN {}
                       ELSE {[Forwarded(n, f, back.nextHop) EXCEPT
                                 !.ext.numHops = HopPlusOne(f.ext.numHops)]}
  <2>1. Emit(n, f, flushed \cup onward)
    BY <1>3 DEF HandleRREP
  <2>2. \A g \in flushed : Follows(g, f)
    <3> HIDE DEF rt, target
    <3> QED BY OriginatedFollows DEF flushDataQueue
  <2>3. \A g \in onward : Follows(g, f)
    <3> HIDE DEF back
    <3> QED BY <1>3, ForwardedFollows
  <2> HIDE DEF flushed, onward
  <2> QED BY <1>1, <2>1, <2>2, <2>3 DEF HandledBy
<1>4. CASE f \in RERRFrame /\ HandleRERR(n, f)
  <2>1. PICK out : Emit(n, f, out) /\ \A g \in out : Follows(g, f)
    BY <1>4, ForwardedFollows DEF HandleRERR
  <2> QED BY <1>1, <2>1 DEF HandledBy
<1> QED BY <1>2, <1>3, <1>4

(* So does what handleData sends and stores. *)
LEMMA DataHandler ==
    ASSUME TypeOK, NEW n \in Node, NEW f \in DATAFrame, HandleData(n, f)
    PROVE  HandledBy(n, f)
<1>1. \A m : Follows(Forwarded(n, f, m), f)
  BY ForwardedFollows DEF Frame
<1>2. \A g \in AckOf(n, f) : Follows(g, f)
  BY OriginatedFollows DEF AckOf
<1>3. UNCHANGED sender
  BY DEF HandleData, DeliverData, RelayBroadcast, ForwardData, RejectData
<1>4. \E out : Emit(n, f, out) /\ \A g \in out : Follows(g, f)
  <2>1. CASE DeliverData(n, f)
    BY <1>2, <2>1 DEF DeliverData
  <2>2. CASE RelayBroadcast(n, f) \/ ForwardData(n, f)
    BY <1>1, <1>2, <2>2 DEF RelayBroadcast, ForwardData
  <2>3. CASE RejectData(n, f)
    BY <1>2, <2>3, OriginatedFollows DEF RejectData
  <2> QED BY <2>1, <2>2, <2>3 DEF HandleData
<1>5. \A m \in Node : \A e \in ackBuffer'[m] : e \in ackBuffer[m] \/ Follows(e.frame, f)
  <2>1. PICK m : UNCHANGED ackBuffer \/ StoreIfRouted(n, Forwarded(n, f, m))
    BY DEF HandleData, DeliverData, RelayBroadcast, ForwardData, RejectData
  <2> QED BY <1>1, <2>1, StoredFrames
<1> QED BY <1>3, <1>4, <1>5 DEF HandledBy

(* handlePacket preserves the invariant. *)
LEMMA PacketFloods ==
    ASSUME MQTTNode = Node, TypeOK, FloodInv,
           NEW n \in Node, NEW f \in Frame, <<n, f>> \in air, handlePacket(n, f)
    PROVE  FloodInv'
<1>0. ~CrashOnRERR(n, f)
  BY DEF CrashOnRERR, DereferencesNull
<1>1. \A m \in Node : receivedPacketIDs[m] \subseteq receivedPacketIDs'[m]
  BY <1>0
  DEF handlePacket, tryImplicitAck, DropDuplicate, Overhear, HandleFrame, FirstSight,
      storePacketID, TypeOK
<1>2. CASE HandleFrame(n, f) /\ f.packetType # "ACK"
  <2>1. HandledBy(n, f) /\ FirstSight(n, f)
    BY <1>2, FrameKinds, RouteHandlers, DataHandler DEF HandleFrame
  <2>2. \A g : Follows(g, f) => Bounded(g)'
    BY <2>1, FollowerBounded DEF FloodInv
  <2>3. PICK out : Emit(n, f, out) /\ \A g \in out : Follows(g, f)
    BY <2>1 DEF HandledBy
  <2>4. \A g \in out : Bounded(g)'
    BY <2>2, <2>3
  <2>5. \A m \in Node : \A e \in ackBuffer'[m] :
            (\E k \in ackBuffer[m] : e.frame = k.frame) \/ Bounded(e.frame)'
    BY <2>1, <2>2 DEF HandledBy
  <2>6. air' \subseteq air \cup OnAir(n, out) /\ UNCHANGED sender
    BY <2>1, <2>3 DEF HandledBy, Emit
  <2> QED BY <1>1, <2>4, <2>5, <2>6, FloodStep
<1>3. CASE Unanswered(n, f)
  <2>1. \A m \in Node : \A e \in ackBuffer'[m] : \E k \in ackBuffer[m] : e.frame = k.frame
    BY <1>3, UnansweredFrames
  <2>2. \A g \in {} : Bounded(g)'
    OBVIOUS
  <2> QED BY <1>1, <1>3, <2>1, <2>2, UnansweredFrames, FloodStep
<1> QED BY <1>0, <1>2, <1>3 DEF handlePacket, Unanswered

(* A frame that has made no hop is bounded. *)
LEMMA StartBounded ==
    ASSUME NEW g, g.hopCount = 0
    PROVE  Bounded(g)'
BY SeenFinite DEF Bounded

(* sendData preserves the invariant. *)
LEMMA ApplicationFloods ==
    ASSUME TypeOK, FloodInv, NEW n \in Node, ApplicationTask(n)
    PROVE  FloodInv'
<1>1. \A m \in Node : receivedPacketIDs[m] \subseteq receivedPacketIDs'[m]
  BY DEF ApplicationTask, sendData, SendDataBuffer, SendDataTransmit, SendDataDrop,
         SendDataStore
<1>2. \A pid, m, d, x : /\ dataFrame(n, pid, m, d, x).hopCount = 0
                        /\ sendRREQ(n, pid, d).hopCount = 0
  BY DEF dataFrame, sendRREQ, Originate
<1>3. OnAir(n, {}) = {} /\ \A g \in {} : Bounded(g)'
  BY DEF OnAir
<1>4. ASSUME sender[n].step \in {"transmit", "store"}
      PROVE  \A g : g = sender[n].frame => Bounded(g)'
  <2>1. sender[n].frame \in Frame /\ Bounded(sender[n].frame)
    <3>1. sender[n] \in Sending \cup {Idle}
      BY DEF TypeOK
    <3> QED BY <1>4, <3>1 DEF Sending, Idle, Frame, FloodInv
  <2>2. PICK f \in Frame : f = sender[n].frame
    BY <2>1
  <2>3. Bounded(f)'
    BY <1>1, <2>1, <2>2, BoundedStays
  <2> QED BY <2>2, <2>3
<1>5. CASE \E r \in Requests : sendData(n, r)
  <2>1. PICK r \in Requests : sendData(n, r)
    BY <1>5
  <2>2. UNCHANGED ackBuffer
    BY <2>1 DEF sendData
  <2>3. CASE r.to = BROADCAST_ADDR
    <3>1. PICK g : g = dataFrame(n, NewID(n, 1), BROADCAST_ADDR, r.to, r.flags)
      OBVIOUS
    <3>2. Bounded(g)'
      BY <1>2, <3>1, StartBounded
    <3>3. air' = air \cup OnAir(n, {g}) /\ UNCHANGED sender
      BY <2>1, <2>3, <3>1 DEF sendData
    <3> QED BY <1>1, <2>2, <3>2, <3>3, FloodStep
  <2>4. CASE r.to # BROADCAST_ADDR
    <3>1. air' = air /\ \A m \in Node : m # n => sender'[m] = sender[m]
      BY <2>1, <2>4 DEF sendData, TypeOK
    <3>2. sender'[n].step \in {"transmit", "store"} => Bounded(sender[n].frame)'
      <4>1. SUFFICES ASSUME sender'[n].step \in {"transmit", "store"}
                     PROVE  Bounded(sender[n].frame)'
        OBVIOUS
      <4>2. PICK g : g = dataFrame(n, NewID(n, 1), routeTable[n][r.to].nextHop, r.to, r.flags)
        OBVIOUS
      <4>3. sender'[n].frame = g
        BY <2>1, <2>4, <4>1, <4>2 DEF sendData, TypeOK
      <4>4. Bounded(g)'
        BY <1>2, <4>2, StartBounded
      <4> QED BY <4>3, <4>4
    <3> QED BY <1>1, <1>3, <2>2, <3>1, <3>2, FloodStep
  <2> QED BY <2>3, <2>4
<1>6. CASE SendDataBuffer(n)
  <2>1. PICK g : air' = air \cup OnAir(n, {g}) /\ g.hopCount = 0
    BY <1>2, <1>6 DEF SendDataBuffer
  <2>2. Bounded(g)'
    BY <2>1, StartBounded
  <2>3. UNCHANGED ackBuffer /\ \A m \in Node : sender'[m] = sender[m] \/ sender'[m] = Idle
    BY <1>6 DEF SendDataBuffer, TypeOK
  <2> QED BY <1>1, <2>1, <2>2, <2>3, FloodStep DEF Idle
<1>7. CASE SendDataTransmit(n)
  <2>1. PICK g : g = sender[n].frame
    OBVIOUS
  <2>2. Bounded(g)'
    BY <1>4, <1>7, <2>1 DEF SendDataTransmit
  <2>3. air' = air \cup OnAir(n, {g}) /\ UNCHANGED ackBuffer
    BY <1>7, <2>1 DEF SendDataTransmit
  <2>4. \A m \in Node : \/ sender'[m] = sender[m]
                        \/ sender'[m] = Idle
                        \/ sender[m].step = "transmit" /\ sender'[m].frame = sender[m].frame
    BY <1>7 DEF SendDataTransmit, TypeOK
  <2> QED BY <1>1, <2>2, <2>3, <2>4, FloodStep DEF Idle
<1>8. CASE SendDataDrop(n)
  <2>1. \A m \in Node : sender'[m] = sender[m] \/ sender'[m] = Idle
    BY <1>8 DEF SendDataDrop, TypeOK
  <2>2. ackBuffer' = ackBuffer /\ air' \subseteq air \cup OnAir(n, {})
    BY <1>8 DEF SendDataDrop
  <2>3. \A m \in Node : sender'[m].step \in {"transmit", "store"} => sender'[m] = sender[m]
    BY <2>1 DEF Idle
  <2> QED BY <1>1, <1>3, <2>2, <2>3, FloodStep
<1>9. CASE SendDataStore(n)
  <2>1. PICK g : g = sender[n].frame
    OBVIOUS
  <2>2. Bounded(g)'
    BY <1>4, <1>9, <2>1 DEF SendDataStore
  <2>3. \A m \in Node : \A e \in ackBuffer'[m] : e \in ackBuffer[m] \/ e.frame = g
    BY <1>9, <2>1, StoredFrames DEF SendDataStore
  <2>4. UNCHANGED air /\ \A m \in Node : sender'[m] = sender[m] \/ sender'[m] = Idle
    BY <1>9 DEF SendDataStore, TypeOK
  <2>5. \A m \in Node : \A e \in ackBuffer'[m] :
            (\E k \in ackBuffer[m] : e.frame = k.frame) \/ Bounded(e.frame)'
    BY <2>2, <2>3
  <2> QED BY <1>1, <1>3, <2>4, <2>5, FloodStep DEF Idle
<1> QED BY <1>5, <1>6, <1>7, <1>8, <1>9 DEF ApplicationTask

(* cleanupAckBuffer preserves the invariant. *)
LEMMA TimerFloods ==
    ASSUME TypeOK, FloodInv, NEW n \in Node, TimerWorker(n)
    PROVE  FloodInv'
<1>1. UNCHANGED <<receivedPacketIDs, sender>>
  BY DEF TimerWorker, CleanupAckBuffer, ReportExpired
<1>2. \A m \in Node : receivedPacketIDs[m] \subseteq receivedPacketIDs'[m]
  BY <1>1
<1>3. CASE CleanupAckBuffer(n)
  <2>1. /\ \A m \in Node : \A e \in ackBuffer'[m] : \E k \in ackBuffer[m] : e.frame = k.frame
        /\ \E out : /\ air' = air \cup OnAir(n, out)
                    /\ \A g \in out : \E e \in ackBuffer[n] : g = e.frame
    BY <1>3, RetriedFrames
  <2>2. PICK out : /\ air' = air \cup OnAir(n, out)
                   /\ \A g \in out : \E e \in ackBuffer[n] : g = e.frame
    BY <2>1
  <2>3. \A g \in out : Bounded(g)'
    <3>1. \A g \in out : g \in Frame /\ Bounded(g)
      BY <2>2 DEF FloodInv, TypeOK, AckEntry, Frame
    <3> QED BY <1>2, <3>1, BoundedStays
  <2> QED BY <1>1, <1>2, <2>1, <2>2, <2>3, FloodStep
<1>4. CASE ReportExpired(n)
  <2>1. PICK pid, o, p :
            air' = air \cup OnAir(n, {sendRERR(n, pid, n, o, Undecipherable, p)})
    BY <1>4, ReportedFrames
  <2>2. PICK g : g = sendRERR(n, pid, n, o, Undecipherable, p)
    OBVIOUS
  <2>3. Bounded(g)'
    <3>1. g.hopCount = 0
      BY <2>2 DEF sendRERR, Originate
    <3> QED BY <3>1, StartBounded
  <2>4. air' = air \cup OnAir(n, {g}) /\ UNCHANGED ackBuffer
    BY <1>4, <2>1, <2>2, ReportedFrames
  <2> QED BY <1>1, <1>2, <2>3, <2>4, FloodStep
<1> QED BY <1>3, <1>4 DEF TimerWorker

(* If no node reboots, a frame on the air has made no more hops than there    *)
(* are nodes that have seen its identifier: on any number of nodes and any   *)
(* topology, and whether or not the hop counters wrap.                       *)
THEOREM FloodsEnd ==
    ASSUME MaxRestarts = 0, MQTTNode = Node
    PROVE  Spec => []FloodsDieOut
<1>1. Init => FloodInv
  BY DEF Init, FloodInv, Idle
<1>2. TypeOK /\ FloodInv /\ [Next]_vars => FloodInv'
  <2> SUFFICES ASSUME TypeOK, FloodInv, [Next]_vars
               PROVE  FloodInv'
    OBVIOUS
  <2>1. CASE UNCHANGED vars
    BY <2>1 DEF FloodInv, Bounded, Seen, vars
  <2>2. ASSUME NEW n \in Node, RouterTask(n)
        PROVE  FloodInv'
    BY <2>2, RouterFrame, PacketFloods
  <2>3. ASSUME NEW n \in Node, Restart(n)
        PROVE  FALSE
    BY <2>3 DEF Restart, TypeOK
  <2> QED BY <2>1, <2>2, <2>3, ApplicationFloods, TimerFloods DEF Next
<1>3. FloodInv => FloodsDieOut
  BY DEF FloodInv, FloodsDieOut, Bounded, Seen
<1> QED BY <1>1, <1>2, <1>3, TypeCorrect, PTL DEF Spec

-----------------------------------------------------------------------------
(* Routes.  The theorems assume that no hop counter is about to wrap.          *)

HopsFit == \A copy \in air : /\ copy[2].hopCount < 255
                             /\ copy[2].packetType = "RREP" => copy[2].ext.numHops < 255

-----------------------------------------------------------------------------
(* Hop counts are never too small. *)

(* What a frame says of the distance of the node it comes from is true. *)
Truthful(f) ==
    /\ f.packetType = "RREQ" => Dist[f.prevHopID][f.originNodeID] <= f.hopCount
    /\ f.packetType = "RREP" =>
           Dist[f.prevHopID][f.ext.RREPDestNodeID] <= f.ext.numHops

TruthfulTable(n, rt) == \A d \in Node : rt[d] # NoRoute => Dist[n][d] <= rt[d].hopcount

(* The frames node n may send: its own, and truthful. *)
Sendable(n, f) == f.prevHopID = n /\ Truthful(f)

HopInv ==
    /\ \A n \in Node : TruthfulTable(n, routeTable[n])
    /\ \A copy \in air : /\ <<copy[2].prevHopID, copy[1]>> \in Link
                         /\ Truthful(copy[2])
    /\ \A n \in Node : \A e \in ackBuffer[n] : Sendable(n, e.frame)
    /\ \A n \in Node : sender[n].step \in {"transmit", "store"} =>
                           Sendable(n, sender[n].frame)

(* updateRoute keeps a table truthful when the offered hop count is true. *)
LEMMA UpdateTruthful ==
    ASSUME NEW n \in Node, NEW rt \in Table, TruthfulTable(n, rt), NEW dest \in Node,
           NEW nextHop \in Node, NEW hops \in HopCount, Dist[n][dest] <= hops
    PROVE  TruthfulTable(n, updateRoute(rt, dest, nextHop, hops))
BY DEF TruthfulTable, updateRoute, Table

(* So does learning both ends of a frame from a neighbour. *)
LEMMA LearnTruthful ==
    ASSUME NEW n \in Node, NEW rt \in Table, TruthfulTable(n, rt), NEW dest \in Node,
           NEW prevHop \in Node, NEW hops \in HopCount, hops < 255,
           <<prevHop, n>> \in Link, Dist[prevHop][dest] <= hops
    PROVE  TruthfulTable(n, LearnRoutes(rt, dest, prevHop, HopPlusOne(hops)))
<1>1. /\ Dist[n][dest] <= Dist[prevHop][dest] + 1
      /\ Dist[n][prevHop] <= Dist[prevHop][prevHop] + 1
      /\ Dist[prevHop][prevHop] = 0
      /\ Dist[prevHop][dest] \in Nat
      /\ Dist[n][dest] \in Nat
      /\ Dist[n][prevHop] \in Nat
  BY DistAssumption
<1>2. HopPlusOne(hops) = hops + 1 /\ HopPlusOne(hops) \in HopCount
  BY HopType
<1>3. Dist[n][dest] <= HopPlusOne(hops) /\ Dist[n][prevHop] <= 1
  BY <1>1, <1>2 DEF HopCount
<1>4. updateRoute(rt, dest, prevHop, HopPlusOne(hops)) \in Table
  BY <1>2, UpdateRoute
<1>5. TruthfulTable(n, updateRoute(rt, dest, prevHop, HopPlusOne(hops)))
  BY <1>2, <1>3, UpdateTruthful
<1>6. 1 \in HopCount
  BY DEF HopCount
<1> QED BY <1>3, <1>4, <1>5, <1>6, UpdateTruthful DEF LearnRoutes

(* Every copy a node puts on the air comes over a link, and is truthful if    *)
(* the frame is.                                                             *)
LEMMA SendTruthful ==
    ASSUME HopInv, NEW n \in Node, NEW out, \A f \in out : Sendable(n, f)
    PROVE  \A copy \in air \cup OnAir(n, out) :
               /\ <<copy[2].prevHopID, copy[1]>> \in Link
               /\ Truthful(copy[2])
BY DEF HopInv, OnAir, Neighbours, Sendable

(* What a node originates is truthful, if a reply claims a true distance. *)
LEMMA OriginatesSendable ==
    ASSUME NEW n \in Node, NEW pid, NEW o, NEW d \in Node, NEW m, NEW b, NEW x, NEW p,
           NEW h \in HopCount, Dist[n][d] <= h
    PROVE  /\ Sendable(n, sendRREQ(n, pid, d))
           /\ Sendable(n, sendRREP(n, pid, o, d, m, h))
           /\ Sendable(n, sendRERR(n, pid, b, o, x, p))
           /\ Sendable(n, sendACK(n, pid, m, p))
           /\ Sendable(n, dataFrame(n, pid, m, d, x))
BY DistAssumption
DEF Sendable, Truthful, Originate, sendRREQ, sendRREP, sendRERR, sendACK, dataFrame

(* A frame sent on one hop further stays truthful. *)
LEMMA ForwardSendable ==
    ASSUME NEW n \in Node, NEW f \in Frame, NEW m, Truthful(f),
           <<f.prevHopID, n>> \in Link, f.hopCount < 255
    PROVE  /\ f.packetType # "RREP" => Sendable(n, Forwarded(n, f, m))
           /\ f.packetType = "RREP" /\ f.ext.numHops < 255 =>
                  Sendable(n, [Forwarded(n, f, m) EXCEPT !.ext.numHops =
                                                      HopPlusOne(f.ext.numHops)])
<1>1. f.prevHopID \in Node /\ f.originNodeID \in Node /\ f.hopCount \in HopCount
  BY FrameFields
<1>2. HopPlusOne(f.hopCount) = f.hopCount + 1
  BY <1>1, HopType
<1>3. \A d \in Node : /\ Dist[n][d] <= Dist[f.prevHopID][d] + 1
                      /\ Dist[n][d] \in Nat
                      /\ Dist[f.prevHopID][d] \in Nat
  BY <1>1, DistAssumption
<1>4. CASE f.packetType = "RREQ"
  <2>1. f \in RREQFrame
    BY <1>4, FrameKinds
  <2>2. Dist[n][f.originNodeID] <= HopPlusOne(f.hopCount)
    BY <1>1, <1>2, <1>3, <1>4 DEF Truthful, HopCount
  <2>3. /\ Forwarded(n, f, m).packetType = "RREQ"
        /\ Forwarded(n, f, m).prevHopID = n
        /\ Forwarded(n, f, m).originNodeID = f.originNodeID
        /\ Forwarded(n, f, m).hopCount = HopPlusOne(f.hopCount)
    BY <2>1, <1>4 DEF Forwarded, RREQFrame, FrameOf
  <2> QED BY <1>4, <2>2, <2>3 DEF Sendable, Truthful
<1>5. CASE f.packetType = "RREP"
  <2> SUFFICES ASSUME f.ext.numHops < 255
               PROVE  Sendable(n, [Forwarded(n, f, m) EXCEPT !.ext.numHops =
                                                          HopPlusOne(f.ext.numHops)])
    BY <1>5
  <2>1. f \in RREPFrame
    BY <1>5, FrameKinds
  <2> DEFINE g == [Forwarded(n, f, m) EXCEPT !.ext.numHops = HopPlusOne(f.ext.numHops)]
  <2>2. /\ f.ext.RREPDestNodeID \in Node
        /\ f.ext.numHops \in HopCount
    BY <2>1 DEF RREPFrame, FrameOf
  <2>3. HopPlusOne(f.ext.numHops) = f.ext.numHops + 1
    BY <2>2, HopType
  <2>4. Dist[n][f.ext.RREPDestNodeID] <= HopPlusOne(f.ext.numHops)
    BY <1>3, <1>5, <2>2, <2>3 DEF Truthful, HopCount
  <2>5. /\ g.packetType = "RREP"
        /\ g.prevHopID = n
        /\ g.ext.RREPDestNodeID = f.ext.RREPDestNodeID
        /\ g.ext.numHops = HopPlusOne(f.ext.numHops)
    BY <2>1, <1>5 DEF Forwarded, RREPFrame, FrameOf
  <2> QED BY <2>4, <2>5 DEF Sendable, Truthful
<1>6. CASE f.packetType \notin {"RREQ", "RREP"}
  <2>1. /\ Forwarded(n, f, m).packetType = f.packetType
        /\ Forwarded(n, f, m).prevHopID = n
    BY DEF Forwarded, Frame, RREQFrame, RREPFrame, RERRFrame, ACKFrame, DATAFrame, FrameOf
  <2> QED BY <1>6, <2>1 DEF Sendable, Truthful
<1> QED BY <1>4, <1>5, <1>6

(* What a step has to show: the frames it sends, those it keeps, and the      *)
(* routes it changes are truthful.                                           *)
LEMMA HopStep ==
    ASSUME HopInv, NEW n \in Node, NEW out, \A f \in out : Sendable(n, f),
           air' \subseteq air \cup OnAir(n, out),
           \A m \in Node : routeTable'[m] = routeTable[m] \/ TruthfulTable(m, routeTable'[m]),
           \A m \in Node : \A e \in ackBuffer'[m] :
               e \in ackBuffer[m] \/ Sendable(m, e.frame),
           \A m \in Node : sender'[m].step \in {"transmit", "store"} =>
               \/ sender'[m] = sender[m]
               \/ Sendable(m, sender'[m].frame)
    PROVE  HopInv'
<1>1. \A copy \in air' : /\ <<copy[2].prevHopID, copy[1]>> \in Link
                         /\ Truthful(copy[2])
  BY SendTruthful
<1>2. \A m \in Node : TruthfulTable(m, routeTable'[m])
  BY DEF HopInv
<1>3. (\A m \in Node : TruthfulTable(m, routeTable[m]))'
  BY <1>2 DEF TruthfulTable
<1>4. (\A m \in Node : \A e \in ackBuffer[m] : Sendable(m, e.frame))'
  <2>1. \A m \in Node : \A e \in ackBuffer'[m] : Sendable(m, e.frame)
    BY DEF HopInv
  <2> QED BY <2>1 DEF Sendable, Truthful
<1>5. (\A m \in Node : sender[m].step \in {"transmit", "store"} =>
                          Sendable(m, sender[m].frame))'
  <2>1. \A m \in Node : sender'[m].step \in {"transmit", "store"} =>
                           Sendable(m, sender'[m].frame)
    BY DEF HopInv
  <2> QED BY <2>1 DEF Sendable, Truthful
<1> QED BY <1>1, <1>3, <1>4, <1>5 DEF HopInv, Truthful

(* handleRREQ learns and sends true distances only. *)
LEMMA RREQHops ==
    ASSUME TypeOK, HopsFit, HopInv, NEW n \in Node, NEW f \in RREQFrame,
           <<n, f>> \in air, f.packetType = "RREQ", HandleRREQ(n, f)
    PROVE  HopInv'
<1> DEFINE target == f.ext.RREQDestNodeID
           rt == LearnRoutes(routeTable[n], f.originNodeID, f.prevHopID,
                             HopPlusOne(f.hopCount))
           reply(hops) == sendRREP(n, NewID(n, 1), f.originNodeID, target, f.prevHopID, hops)
<1>1. /\ f \in Frame
      /\ target \in Node
      /\ f.originNodeID \in Node
      /\ f.prevHopID \in Node
      /\ f.hopCount \in HopCount
  BY DEF Frame, RREQFrame, FrameOf
<1>2. /\ <<f.prevHopID, n>> \in Link
      /\ Truthful(f)
      /\ f.hopCount < 255
  BY DEF HopInv, HopsFit
<1>3. rt \in Table /\ TruthfulTable(n, rt)
  <2>1. routeTable[n] \in Table /\ TruthfulTable(n, routeTable[n])
    BY DEF TypeOK, Table, HopInv
  <2> QED BY <1>1, <1>2, <2>1, HopType, LearnType, LearnTruthful DEF Truthful
<1>4. \A h \in HopCount : Dist[n][target] <= h => Sendable(n, reply(h))
  BY <1>1, OriginatesSendable
<1>5. Sendable(n, Forwarded(n, f, BROADCAST_ADDR))
  BY <1>1, <1>2, ForwardSendable
<1>6. PICK out : Emit(n, f, out) /\ \A g \in out : Sendable(n, g)
  <2>1. Dist[n][n] = 0 /\ 0 \in HopCount
    BY DistAssumption DEF HopCount
  <2>2. target = n => Sendable(n, reply(0))
    BY <1>4, <2>1
  <2>3. rt[target] # NoRoute => Sendable(n, reply(rt[target].hopcount))
    <3> HIDE DEF rt, target, reply
    <3> QED BY <1>1, <1>3, <1>4, RouteType DEF TruthfulTable
  <2> QED BY <1>5, <2>2, <2>3 DEF HandleRREQ
<1>7. routeTable' = [routeTable EXCEPT ![n] = rt]
  BY DEF HandleRREQ
<1>8. \A m \in Node : routeTable'[m] = routeTable[m] \/ TruthfulTable(m, routeTable'[m])
  BY <1>3, <1>7 DEF TypeOK
<1> QED BY <1>6, <1>8, HopStep DEF Emit, HandleRREQ

(* handleRREP learns and sends true distances only. *)
LEMMA RREPHops ==
    ASSUME TypeOK, HopsFit, HopInv, NEW n \in Node, NEW f \in RREPFrame,
           <<n, f>> \in air, f.packetType = "RREP", HandleRREP(n, f)
    PROVE  HopInv'
<1> DEFINE target == f.ext.RREPDestNodeID
           hops == HopPlusOne(f.ext.numHops)
           rt == LearnFromRREP(n, f)
           flushed == IF rt[target] = NoRoute THEN {}
                      ELSE flushDataQueue(n, target, rt[target].nextHop)
           back == rt[f.originNodeID]
           onward == IF n = f.originNodeID \/ back = NoRoute THEN {}
                     ELSE {[Forwarded(n, f, back.nextHop) EXCEPT !.ext.numHops = hops]}
<1>1. /\ f \in Frame
      /\ target \in Node
      /\ f.prevHopID \in Node
      /\ f.ext.numHops \in HopCount
  BY DEF Frame, RREPFrame, FrameOf
<1>2. /\ <<f.prevHopID, n>> \in Link
      /\ Truthful(f)
      /\ f.hopCount < 255
      /\ f.ext.numHops < 255
  BY DEF HopInv, HopsFit
<1>3. TruthfulTable(n, rt)
  <2>1. routeTable[n] \in Table /\ TruthfulTable(n, routeTable[n])
    BY DEF TypeOK, Table, HopInv
  <2> QED BY <1>1, <1>2, <2>1, LearnTruthful DEF Truthful, LearnFromRREP
<1>4. \A g \in flushed : Sendable(n, g)
  <2>1. \A pid, m, d, x : Sendable(n, dataFrame(n, pid, m, d, x))
    BY DEF Sendable, Truthful, dataFrame, Originate
  <2> HIDE DEF rt, target
  <2> QED BY <2>1 DEF flushDataQueue
<1>5. \A g \in onward : Sendable(n, g)
  <2> HIDE DEF rt
  <2> QED BY <1>1, <1>2, ForwardSendable
<1>6. routeTable' = [routeTable EXCEPT ![n] = rt] /\ Emit(n, f, flushed \cup onward)
  BY DEF HandleRREP
<1>7. \A m \in Node : routeTable'[m] = routeTable[m] \/ TruthfulTable(m, routeTable'[m])
  BY <1>3, <1>6 DEF TypeOK
<1>8. \A g \in flushed \cup onward : Sendable(n, g)
  BY <1>4, <1>5
<1>9. air' \subseteq air \cup OnAir(n, flushed \cup onward)
  BY <1>6 DEF Emit
<1> HIDE DEF flushed, onward
<1> QED BY <1>7, <1>8, <1>9, HopStep DEF HandleRREP

(* handleRERR only erases routes. *)
LEMMA RERRHops ==
    ASSUME TypeOK, HopsFit, HopInv, NEW n \in Node, NEW f \in RERRFrame,
           <<n, f>> \in air, f.packetType = "RERR", HandleRERR(n, f)
    PROVE  HopInv'
<1> DEFINE e == f.ext
           rt == IF e.brokenNodeID # e.reporterNodeID
                 THEN invalidateRoute(routeTable[n], e.brokenNodeID, e.originalDestNodeID)
                 ELSE removeItemRoutingTable(routeTable[n], e.originalDestNodeID)
<1>1. f \in Frame /\ <<f.prevHopID, n>> \in Link /\ Truthful(f) /\ f.hopCount < 255
  BY DEF HopInv, HopsFit, Frame
<1>2. \A d \in Node : rt[d] = NoRoute \/ rt[d] = routeTable[n][d]
  BY DEF invalidateRoute, removeItemRoutingTable
<1>3. TruthfulTable(n, routeTable[n])
  BY DEF HopInv
<1>4. TruthfulTable(n, rt)
  <2> HIDE DEF rt
  <2> QED BY <1>2, <1>3 DEF TruthfulTable
<1>5. routeTable' = [routeTable EXCEPT ![n] = rt]
  BY DEF HandleRERR
<1>6. \A m \in Node : routeTable'[m] = routeTable[m] \/ TruthfulTable(m, routeTable'[m])
  BY <1>4, <1>5 DEF TypeOK
<1>7. PICK out : Emit(n, f, out) /\ \A g \in out : Sendable(n, g)
  <2>1. \A m : Sendable(n, Forwarded(n, f, m))
    BY <1>1, ForwardSendable
  <2> QED BY <2>1 DEF HandleRERR
<1> QED BY <1>6, <1>7, HopStep DEF HandleRERR, Emit

(* handleData leaves the routes alone. *)
LEMMA DATAHops ==
    ASSUME TypeOK, HopsFit, HopInv, NEW n \in Node, NEW f \in DATAFrame,
           <<n, f>> \in air, f.packetType = "DATA", HandleData(n, f)
    PROVE  HopInv'
<1>1. f \in Frame /\ <<f.prevHopID, n>> \in Link /\ Truthful(f) /\ f.hopCount < 255
  BY DEF HopInv, HopsFit, Frame
<1>2. /\ \A m : Sendable(n, Forwarded(n, f, m))
      /\ \A pid, d, p : Sendable(n, sendACK(n, pid, d, p))
      /\ \A pid, b, o, d, p : Sendable(n, sendRERR(n, pid, b, o, d, p))
  <2>1. \A m : Sendable(n, Forwarded(n, f, m))
    BY <1>1, ForwardSendable
  <2>2. /\ \A pid, d, p : Sendable(n, sendACK(n, pid, d, p))
        /\ \A pid, b, o, d, p : Sendable(n, sendRERR(n, pid, b, o, d, p))
    BY DEF Sendable, Truthful, Originate, sendACK, sendRERR
  <2> QED BY <2>1, <2>2
<1>3. \A g \in AckOf(n, f) : Sendable(n, g)
  BY <1>2 DEF AckOf
<1>4. PICK out : Emit(n, f, out) /\ \A g \in out : Sendable(n, g)
  BY <1>2, <1>3 DEF HandleData, DeliverData, RelayBroadcast, ForwardData, RejectData
<1>5. UNCHANGED <<routeTable, sender>>
  BY DEF HandleData, DeliverData, RelayBroadcast, ForwardData, RejectData
<1>6. \A m \in Node : \A e \in ackBuffer'[m] : e \in ackBuffer[m] \/ Sendable(m, e.frame)
  <2>1. PICK m : UNCHANGED ackBuffer \/ StoreIfRouted(n, Forwarded(n, f, m))
    BY DEF HandleData, DeliverData, RelayBroadcast, ForwardData, RejectData
  <2> QED BY <1>2, <2>1, StoredFrames
<1> QED BY <1>4, <1>5, <1>6, HopStep DEF Emit

(* A node that loses its state leaves no untrue route: it leaves none. *)
LEMMA LoseStateHops ==
    ASSUME TypeOK, HopInv, NEW n \in Node, LoseState(n), air' \subseteq air
    PROVE  HopInv'
<1>1. \A m \in Node : routeTable'[m] = routeTable[m] \/ TruthfulTable(m, routeTable'[m])
  BY DEF LoseState, TruthfulTable, TypeOK
<1>2. /\ \A m \in Node : ackBuffer'[m] \subseteq ackBuffer[m]
      /\ air' \subseteq air \cup OnAir(n, {})
  BY DEF LoseState, TypeOK
<1>3. \A m \in Node : sender'[m].step \in {"transmit", "store"} => sender'[m] = sender[m]
  BY DEF LoseState, TypeOK, Idle
<1>4. \A g \in {} : Sendable(n, g)
  OBVIOUS
<1> QED BY <1>1, <1>2, <1>3, <1>4, HopStep

(* handlePacket preserves the invariant. *)
LEMMA PacketHops ==
    ASSUME TypeOK, HopsFit, HopInv, NEW n \in Node, NEW f \in Frame,
           <<n, f>> \in air, handlePacket(n, f)
    PROVE  HopInv'
<1>1. CASE HandleFrame(n, f) /\ f.packetType # "ACK"
  BY <1>1, FrameKinds, RREQHops, RREPHops, RERRHops, DATAHops DEF HandleFrame
<1>2. CASE Unanswered(n, f)
  <2>1. \A g \in {} : Sendable(n, g)
    OBVIOUS
  <2> QED BY <1>2, <2>1, UnansweredFrames, HopStep
<1>3. CASE CrashOnRERR(n, f)
  BY <1>3, LoseStateHops DEF CrashOnRERR
<1> QED BY <1>1, <1>2, <1>3 DEF handlePacket, Unanswered

(* sendData preserves the invariant. *)
LEMMA ApplicationHops ==
    ASSUME TypeOK, HopInv, NEW n \in Node, ApplicationTask(n)
    PROVE  HopInv'
<1>1. \A pid, m, d, x : Sendable(n, dataFrame(n, pid, m, d, x)) /\ Sendable(n, sendRREQ(n, pid, d))
  BY DistAssumption DEF Sendable, Truthful, Originate, dataFrame, sendRREQ
<1>2. sender[n].step \in {"transmit", "store"} => Sendable(n, sender[n].frame)
  BY DEF HopInv
<1>3. CASE \E r \in Requests : sendData(n, r)
  <2>1. PICK r \in Requests : sendData(n, r)
    BY <1>3
  <2>2. UNCHANGED <<routeTable, ackBuffer>>
    BY <2>1 DEF sendData
  <2>3. PICK out : air' = air \cup OnAir(n, out) /\ \A g \in out : Sendable(n, g)
    <3>1. OnAir(n, {}) = {}
      BY DEF OnAir
    <3> QED BY <1>1, <2>1, <3>1 DEF sendData
  <2>4. \A m \in Node : sender'[m].step \in {"transmit", "store"} =>
            \/ sender'[m] = sender[m]
            \/ Sendable(m, sender'[m].frame)
    BY <1>1, <2>1 DEF sendData, TypeOK
  <2> QED BY <2>2, <2>3, <2>4, HopStep
<1>4. CASE SendDataBuffer(n) \/ SendDataTransmit(n) \/ SendDataDrop(n) \/ SendDataStore(n)
  <2>1. PICK out : air' = air \cup OnAir(n, out) /\ \A g \in out : Sendable(n, g)
    <3>1. OnAir(n, {}) = {}
      BY DEF OnAir
    <3> QED
      BY <1>1, <1>2, <1>4, <3>1
      DEF SendDataBuffer, SendDataTransmit, SendDataDrop, SendDataStore
  <2>2. \A m \in Node : \A e \in ackBuffer'[m] : e \in ackBuffer[m] \/ Sendable(m, e.frame)
    BY <1>2, <1>4
    DEF SendDataBuffer, SendDataTransmit, SendDataDrop, SendDataStore, StoreIfRouted,
        storeAckPacket, TypeOK
  <2>3. \A m \in Node : sender'[m].step \in {"transmit", "store"} =>
            \/ sender'[m] = sender[m]
            \/ Sendable(m, sender'[m].frame)
    <3>1. SendDataTransmit(n) => sender'[n] = Idle \/ sender'[n].frame = sender[n].frame
      BY DEF SendDataTransmit, TypeOK
    <3>2. ~SendDataTransmit(n) => sender'[n] = Idle
      BY <1>4 DEF SendDataBuffer, SendDataDrop, SendDataStore, TypeOK
    <3>3. \A m \in Node : m # n => sender'[m] = sender[m]
      BY <1>4 DEF SendDataBuffer, SendDataTransmit, SendDataDrop, SendDataStore, TypeOK
    <3>4. Idle.step \notin {"transmit", "store"}
      BY DEF Idle
    <3>5. SendDataTransmit(n) => sender[n].step = "transmit"
      BY DEF SendDataTransmit
    <3> QED BY <1>2, <3>1, <3>2, <3>3, <3>4, <3>5
  <2>4. UNCHANGED routeTable
    BY <1>4 DEF SendDataBuffer, SendDataTransmit, SendDataDrop, SendDataStore
  <2> QED BY <2>1, <2>2, <2>3, <2>4, HopStep
<1> QED BY <1>3, <1>4 DEF ApplicationTask

(* cleanupAckBuffer preserves the invariant. *)
LEMMA TimerHops ==
    ASSUME TypeOK, HopInv, NEW n \in Node, TimerWorker(n)
    PROVE  HopInv'
<1>1. UNCHANGED <<routeTable, sender>>
  BY DEF TimerWorker, CleanupAckBuffer, ReportExpired
<1>2. \A e \in ackBuffer[n] : Sendable(n, e.frame)
  BY DEF HopInv
<1>3. CASE CleanupAckBuffer(n)
  <2>1. /\ \A m \in Node : \A e \in ackBuffer'[m] : \E k \in ackBuffer[m] : e.frame = k.frame
        /\ \E out : /\ air' = air \cup OnAir(n, out)
                    /\ \A g \in out : \E e \in ackBuffer[n] : g = e.frame
    BY <1>3, RetriedFrames
  <2>2. \A m \in Node : \A e \in ackBuffer'[m] : Sendable(m, e.frame)
    BY <2>1 DEF HopInv
  <2>3. PICK out : air' = air \cup OnAir(n, out) /\ \A g \in out : Sendable(n, g)
    BY <1>2, <2>1
  <2> QED BY <1>1, <2>2, <2>3, HopStep
<1>4. CASE ReportExpired(n)
  <2>1. PICK pid, o, p :
            air' = air \cup OnAir(n, {sendRERR(n, pid, n, o, Undecipherable, p)})
    BY <1>4, ReportedFrames
  <2>2. Sendable(n, sendRERR(n, pid, n, o, Undecipherable, p))
    BY DEF Sendable, Truthful, Originate, sendRERR
  <2>3. UNCHANGED ackBuffer
    BY <1>4, ReportedFrames
  <2> QED BY <1>1, <2>1, <2>2, <2>3, HopStep
<1> QED BY <1>3, <1>4 DEF TimerWorker

(* On any number of nodes and any topology, with any losses, erasures of      *)
(* routes and reboots: as long as no hop counter wraps, a route never        *)
(* promises fewer hops than the topology has.                                *)
THEOREM HopCountsTruthful == Spec /\ []HopsFit => []HopCountsNeverUnderestimate
<1>1. Init => HopInv
  BY DEF Init, HopInv, TruthfulTable, Idle
<1>2. TypeOK /\ HopsFit /\ HopInv /\ [Next]_vars => HopInv'
  <2> SUFFICES ASSUME TypeOK, HopsFit, HopInv, [Next]_vars
               PROVE  HopInv'
    OBVIOUS
  <2>1. CASE UNCHANGED vars
    BY <2>1 DEF HopInv, TruthfulTable, Truthful, Sendable, vars
  <2>2. ASSUME NEW n \in Node, RouterTask(n)
        PROVE  HopInv'
    BY <2>2, RouterFrame, PacketHops
  <2>3. ASSUME NEW n \in Node, Restart(n)
        PROVE  HopInv'
    BY <2>3, LoseStateHops DEF Restart
  <2> QED BY <2>1, <2>2, <2>3, ApplicationHops, TimerHops DEF Next
<1>3. HopInv => HopCountsNeverUnderestimate
  BY DEF HopInv, TruthfulTable, HopCountsNeverUnderestimate, HasRoute
<1> QED BY <1>1, <1>2, <1>3, TypeCorrect, PTL DEF Spec

-----------------------------------------------------------------------------
(* Without sequence numbers and without reboots, the routes do not loop and  *)
(* data packets never meet a node without a route.  The argument: a route,   *)
(* once there, is only ever replaced by a shorter one, and what a frame says *)
(* of the node it comes from stays true.                                     *)

Closer(m, d, hops) ==
    \/ m = d
    \/ HasRoute(m, d) /\ routeTable[m][d].hopcount <= hops

(* What the sender of a frame had when it sent it, it still has. *)
Backed(f) ==
    /\ f.packetType = "RREQ" => Closer(f.prevHopID, f.originNodeID, f.hopCount)
    /\ f.packetType = "RREP" => Closer(f.prevHopID, f.ext.RREPDestNodeID, f.ext.numHops)
    /\ f.packetType = "RERR" => /\ f.ext.brokenNodeID = f.ext.reporterNodeID
                                /\ f.ext.originalDestNodeID = Undecipherable
    /\ f.packetType = "DATA" => CanServe(f)

LoopInv ==
    /\ NextHopIsCloser
    /\ \A copy \in air : Backed(copy[2])
    /\ \A n \in Node : \A e \in ackBuffer[n] : Backed(e.frame)
    /\ \A n \in Node : sender[n].step \in {"transmit", "store"} => Backed(sender[n].frame)

RoutesTyped == routeTable \in [Node -> Table]

RoutesImprove ==
    \A n, d \in Node : HasRoute(n, d) =>
        /\ HasRoute(n, d)'
        /\ routeTable'[n][d].hopcount <= routeTable[n][d].hopcount

(* What a table holds for a known destination is a route. *)
LEMMA RouteOf ==
    ASSUME RoutesTyped, NEW n \in Node, NEW d \in Node, HasRoute(n, d)
    PROVE  routeTable[n][d].nextHop \in Node /\ routeTable[n][d].hopcount \in Int
<1>1. routeTable[n] \in Table
  BY DEF RoutesTyped
<1> QED BY <1>1, RouteType DEF HasRoute, HopCount

(* The type invariant types the tables. *)
LEMMA TypedRoutes == TypeOK => RoutesTyped
BY DEF TypeOK, RoutesTyped, Table

(* While routes only improve, a node as close as it was stays so. *)
LEMMA CloserStays ==
    ASSUME RoutesTyped, RoutesTyped', RoutesImprove, NEW m \in Node, NEW d \in Node,
           NEW h \in HopCount, Closer(m, d, h)
    PROVE  Closer(m, d, h)'
<1>1. CASE m = d
  BY <1>1 DEF Closer
<1>2. CASE m # d
  <2>1. HasRoute(m, d) /\ routeTable[m][d].hopcount <= h
    BY <1>2 DEF Closer
  <2>2. HasRoute(m, d)' /\ routeTable'[m][d].hopcount <= routeTable[m][d].hopcount
    BY <2>1 DEF RoutesImprove
  <2>3. /\ routeTable[m][d].hopcount \in Int
        /\ routeTable'[m][d].hopcount \in Int
        /\ h \in Int
    <3>1. routeTable[m] \in Table /\ routeTable'[m] \in Table
      BY DEF RoutesTyped
    <3>2. routeTable[m][d] # NoRoute /\ routeTable'[m][d] # NoRoute
      BY <2>1, <2>2 DEF HasRoute
    <3>3. routeTable[m][d].hopcount \in HopCount /\ routeTable'[m][d].hopcount \in HopCount
      BY <3>1, <3>2, RouteType
    <3>4. HopCount \subseteq Int
      BY DEF HopCount
    <3> QED BY <3>3, <3>4
  <2>4. routeTable'[m][d].hopcount <= h
    BY <2>1, <2>2, <2>3
  <2> QED BY <2>2, <2>4 DEF Closer
<1> QED BY <1>1, <1>2

(* While routes only improve, what backs a frame keeps backing it. *)
LEMMA BackedStays ==
    ASSUME TypeOK, TypeOK', RoutesImprove, NEW f \in Frame, Backed(f)
    PROVE  Backed(f)'
<1>1. f.prevHopID \in Node /\ f.originNodeID \in Node /\ f.hopCount \in HopCount
  BY FrameFields
<1>2. \A m, d \in Node, h \in HopCount : Closer(m, d, h) => Closer(m, d, h)'
  <2>1. RoutesTyped /\ RoutesTyped'
    BY DEF RoutesTyped, TypeOK, Table
  <2> QED BY <2>1, CloserStays
<1>3. CASE f.packetType = "RREQ"
  BY <1>1, <1>2, <1>3 DEF Backed
<1>4. CASE f.packetType = "RREP"
  <2>1. f.ext.RREPDestNodeID \in Node /\ f.ext.numHops \in HopCount
    BY <1>4, FrameKinds DEF RREPFrame, FrameOf
  <2> QED BY <1>1, <1>2, <1>4, <2>1 DEF Backed
<1>5. CASE f.packetType = "DATA"
  <2>1. f.ext.finalDestID \in Address
    BY <1>5, FrameKinds DEF DATAFrame, FrameOf
  <2>2. CanServe(f)
    BY <1>5 DEF Backed
  <2>3. CanServe(f)'
    <3>1. CASE f.ext.finalDestID \in {f.destNodeID, BROADCAST_ADDR}
      BY <3>1 DEF CanServe
    <3>2. CASE f.ext.finalDestID # BROADCAST_ADDR /\ f.destNodeID \in Node /\
               HasRoute(f.destNodeID, f.ext.finalDestID)
      BY <2>1, <3>2 DEF CanServe, RoutesImprove, Address
    <3> QED BY <2>2, <3>1, <3>2 DEF CanServe
  <2> QED BY <1>5, <2>3 DEF Backed
<1>6. CASE f.packetType \notin {"RREQ", "RREP", "DATA"}
  BY <1>6 DEF Backed
<1> QED BY <1>3, <1>4, <1>5, <1>6

(* What a step has to show. *)
LEMMA LoopStep ==
    ASSUME TypeOK, TypeOK', LoopInv, RoutesImprove, NextHopIsCloser',
           NEW n \in Node, NEW out, \A f \in out : Backed(f)',
           air' \subseteq air \cup OnAir(n, out),
           \A m \in Node : \A e \in ackBuffer'[m] :
               \/ \E k \in ackBuffer[m] : e.frame = k.frame
               \/ Backed(e.frame)',
           \A m \in Node : sender'[m].step \in {"transmit", "store"} =>
               \/ /\ sender[m].step \in {"transmit", "store"}
                  /\ sender'[m].frame = sender[m].frame
               \/ Backed(sender[m].frame)'
    PROVE  LoopInv'
<1>1. \A f \in Frame : Backed(f) => Backed(f)'
  BY BackedStays
<1>2. (\A copy \in air : Backed(copy[2]))'
  <2>1. \A copy \in air' : Backed(copy[2])'
    <3> SUFFICES ASSUME NEW copy \in air'
                 PROVE  Backed(copy[2])'
      OBVIOUS
    <3>1. CASE copy \in air
      <4>1. copy[2] \in Frame /\ Backed(copy[2])
        BY <3>1 DEF TypeOK, LoopInv
      <4> QED BY <1>1, <4>1
    <3>2. CASE copy \in OnAir(n, out)
      <4>1. copy[2] \in out
        BY <3>2 DEF OnAir
      <4> QED BY <4>1
    <3> QED BY <3>1, <3>2
  <2> QED BY <2>1
<1>3. (\A m \in Node : \A e \in ackBuffer[m] : Backed(e.frame))'
  <2>1. \A m \in Node : \A e \in ackBuffer'[m] : Backed(e.frame)'
    <3>1. \A m \in Node : \A k \in ackBuffer[m] : k.frame \in Frame /\ Backed(k.frame)
      BY DEF TypeOK, LoopInv, AckEntry, Frame
    <3> QED BY <1>1, <3>1
  <2> QED BY <2>1
<1>4. (\A m \in Node : sender[m].step \in {"transmit", "store"} => Backed(sender[m].frame))'
  <2> SUFFICES ASSUME NEW m \in Node, sender'[m].step \in {"transmit", "store"}
               PROVE  Backed(sender[m].frame)'
    OBVIOUS
  <2>1. CASE /\ sender[m].step \in {"transmit", "store"}
             /\ sender'[m].frame = sender[m].frame
    <3>1. sender[m].frame \in DATAFrame
      <4>1. sender[m] \in Sending \cup {Idle}
        BY DEF TypeOK
      <4> QED BY <2>1, <4>1 DEF Sending, Idle
    <3>2. PICK f \in Frame : f = sender[m].frame
      BY <3>1 DEF Frame
    <3>3. Backed(f)
      BY <2>1, <3>2 DEF LoopInv
    <3>4. Backed(f)'
      BY <1>1, <3>3
    <3> QED BY <2>1, <3>2, <3>4
  <2> QED BY <2>1
<1> QED BY <1>2, <1>3, <1>4 DEF LoopInv

(* After updateRoute: the old route or the offered one, whichever is shorter. *)
LEMMA UpdatedRoute ==
    ASSUME NEW rt \in Table, NEW dest \in Node, NEW nextHop \in Node, NEW hops \in HopCount
    PROVE  LET new == updateRoute(rt, dest, nextHop, hops)
           IN /\ new \in Table
              /\ \A d \in Node : d # dest => new[d] = rt[d]
              /\ new[dest] # NoRoute
              /\ \/ new[dest] = rt[dest] /\ rt[dest].hopcount <= hops
                 \/ /\ new[dest] = [nextHop |-> nextHop, hopcount |-> hops]
                    /\ rt[dest] # NoRoute => hops < rt[dest].hopcount
<1> DEFINE entry == [nextHop |-> nextHop, hopcount |-> hops]
           new == updateRoute(rt, dest, nextHop, hops)
<1>1. entry # NoRoute
  <2>1. entry \in Route
    BY DEF Route
  <2> QED BY <2>1, ModelValues
<1>2. new \in Table
  BY UpdateRoute
<1>3. CASE rt[dest] = NoRoute \/ hops < rt[dest].hopcount
  <2>1. new = [rt EXCEPT ![dest] = entry]
    BY <1>3 DEF updateRoute
  <2>2. new[dest] = entry /\ \A d \in Node : d # dest => new[d] = rt[d]
    BY <2>1 DEF Table
  <2> QED BY <1>1, <1>2, <1>3, <2>2
<1>4. CASE rt[dest] # NoRoute /\ ~(hops < rt[dest].hopcount)
  <2>1. new = rt
    BY <1>4 DEF updateRoute
  <2>2. rt[dest].hopcount \in HopCount
    BY <1>4, RouteType
  <2>3. rt[dest].hopcount <= hops
    BY <1>4, <2>2 DEF HopCount
  <2> QED BY <1>2, <1>4, <2>1, <2>3
<1> QED BY <1>3, <1>4

(* The table new of a node that had the table rt and learned from a frame of  *)
(* prevHop, which is that many hops less from dest.                          *)
Learned(rt, new, prevHop, dest, hops) ==
    /\ new \in Table
    /\ \A d \in Node :
           \/ new[d] = rt[d]
           \/ /\ new[d].nextHop = prevHop
              /\ \/ d = prevHop /\ new[d].hopcount = 1
                 \/ d = dest /\ new[d].hopcount = hops
              /\ rt[d] # NoRoute => new[d].hopcount <= rt[d].hopcount
    /\ \A d \in Node : rt[d] # NoRoute => new[d] # NoRoute

(* Such is what handleRREQ and handleRREP do to a table. *)
LEMMA LearnedRoute ==
    ASSUME NEW rt \in Table, NEW dest \in Node, NEW prevHop \in Node, NEW hops \in HopCount,
           1 <= hops
    PROVE  LET new == LearnRoutes(rt, dest, prevHop, hops)
           IN /\ Learned(rt, new, prevHop, dest, hops)
              /\ new[dest] # NoRoute
              /\ new[dest].hopcount <= hops
<1> DEFINE mid == updateRoute(rt, dest, prevHop, hops)
           new == updateRoute(mid, prevHop, prevHop, 1)
<1>1. 1 \in HopCount
  BY DEF HopCount
<1>2. /\ mid \in Table
      /\ \A d \in Node : d # dest => mid[d] = rt[d]
      /\ mid[dest] # NoRoute
      /\ \/ mid[dest] = rt[dest] /\ rt[dest].hopcount <= hops
         \/ /\ mid[dest] = [nextHop |-> prevHop, hopcount |-> hops]
            /\ rt[dest] # NoRoute => hops < rt[dest].hopcount
  BY UpdatedRoute
<1> HIDE DEF mid
<1>3. /\ new \in Table
      /\ \A d \in Node : d # prevHop => new[d] = mid[d]
      /\ new[prevHop] # NoRoute
      /\ \/ new[prevHop] = mid[prevHop] /\ mid[prevHop].hopcount <= 1
         \/ /\ new[prevHop] = [nextHop |-> prevHop, hopcount |-> 1]
            /\ mid[prevHop] # NoRoute => 1 < mid[prevHop].hopcount
  BY <1>1, <1>2, UpdatedRoute
<1> HIDE DEF new
<1>4. /\ hops \in Int
      /\ \A d \in Node : rt[d] # NoRoute => rt[d].hopcount \in Int
      /\ \A d \in Node : mid[d] # NoRoute => mid[d].hopcount \in Int
  <2>1. HopCount \subseteq Int
    BY DEF HopCount
  <2> QED BY <1>2, <2>1, RouteType
<1>5. ASSUME NEW d \in Node
      PROVE  /\ \/ new[d] = rt[d]
                \/ /\ new[d].nextHop = prevHop
                   /\ \/ d = prevHop /\ new[d].hopcount = 1
                      \/ d = dest /\ new[d].hopcount = hops
                   /\ rt[d] # NoRoute => new[d].hopcount <= rt[d].hopcount
             /\ rt[d] # NoRoute => new[d] # NoRoute
  <2>1. CASE d # prevHop
    BY <1>2, <1>3, <1>4, <2>1
  <2>2. CASE d = prevHop /\ d # dest
    BY <1>2, <1>3, <1>4, <2>2
  <2>3. CASE d = prevHop /\ d = dest
    BY <1>2, <1>3, <1>4, <2>3
  <2> QED BY <2>1, <2>2, <2>3
<1>6. new[dest] # NoRoute /\ new[dest].hopcount <= hops
  <2>1. mid[dest].hopcount <= hops
    BY <1>2, <1>4
  <2>2. CASE dest # prevHop
    BY <1>2, <1>3, <2>1, <2>2
  <2>3. CASE dest = prevHop
    BY <1>2, <1>3, <1>4, <2>1, <2>3
  <2> QED BY <2>2, <2>3
<1>7. new = LearnRoutes(rt, dest, prevHop, hops)
  BY DEF new, mid, LearnRoutes
<1> QED BY <1>3, <1>5, <1>6, <1>7 DEF Learned

(* Learning from a neighbour that is as close as it says keeps every next hop closer. *)
LEMMA LearnLoop ==
    ASSUME RoutesTyped, NextHopIsCloser, NEW n \in Node, NEW dest \in Node,
           NEW prevHop \in Node \ {n}, NEW hops \in HopCount, hops < 255,
           Closer(prevHop, dest, hops),
           NEW new, Learned(routeTable[n], new, prevHop, dest, HopPlusOne(hops)),
           routeTable' = [routeTable EXCEPT ![n] = new]
    PROVE  /\ RoutesTyped'
           /\ RoutesImprove
           /\ NextHopIsCloser'
<1> DEFINE h == HopPlusOne(hops)
           old == routeTable[n]
<1>1. h = hops + 1 /\ h \in HopCount /\ hops \in Int /\ 1 <= h
  <2>1. HopPlusOne(hops) = hops + 1 /\ HopPlusOne(hops) \in HopCount
    BY HopType
  <2> QED BY <2>1 DEF HopCount
<1>2. old \in Table /\ new \in Table
  BY DEF RoutesTyped, Learned
<1>3. /\ \A d \in Node :
            \/ new[d] = old[d]
            \/ /\ new[d].nextHop = prevHop
               /\ d = prevHop \/ (d = dest /\ new[d].hopcount = h)
               /\ old[d] # NoRoute => new[d].hopcount <= old[d].hopcount
      /\ \A d \in Node : old[d] # NoRoute => new[d] # NoRoute
  BY DEF Learned
<1>4. /\ routeTable'[n] = new
      /\ \A m \in Node : m # n => routeTable'[m] = routeTable[m]
  BY DEF RoutesTyped
<1>0. RoutesTyped'
  BY <1>2 DEF RoutesTyped
<1>5. /\ \A m, d \in Node : HasRoute(m, d) => /\ routeTable[m][d].hopcount \in Int
                                              /\ routeTable[m][d].nextHop \in Node
      /\ \A m, d \in Node : HasRoute(m, d)' => /\ routeTable'[m][d].hopcount \in Int
                                               /\ routeTable'[m][d].nextHop \in Node
  <2>1. \A m \in Node : routeTable[m] \in Table /\ routeTable'[m] \in Table
    BY <1>0 DEF RoutesTyped
  <2>2. HopCount \subseteq Int
    BY DEF HopCount
  <2> QED BY <2>1, <2>2, RouteType DEF HasRoute
<1> HIDE DEF old, h
<1>6. RoutesImprove
  <2> SUFFICES ASSUME NEW m \in Node, NEW d \in Node, HasRoute(m, d)
               PROVE  /\ HasRoute(m, d)'
                      /\ routeTable'[m][d].hopcount <= routeTable[m][d].hopcount
    BY DEF RoutesImprove
  <2>1. CASE m = n
    BY <1>3, <1>4, <1>5, <2>1 DEF HasRoute, old
  <2>2. CASE m # n
    BY <1>4, <1>5, <2>2 DEF HasRoute
  <2> QED BY <2>1, <2>2
<1>7. NextHopIsCloser'
  <2> SUFFICES ASSUME NEW k \in Node, NEW d \in Node, HasRoute(k, d)',
                      routeTable'[k][d].nextHop # d
               PROVE  /\ HasRoute(routeTable[k][d].nextHop, d)'
                      /\ routeTable'[routeTable'[k][d].nextHop][d].hopcount
                           < routeTable'[k][d].hopcount
    BY DEF NextHopIsCloser
  <2>0. PICK m \in Node : m = routeTable'[k][d].nextHop
    BY <1>5
  <2>1. CASE routeTable'[k][d] = routeTable[k][d]
    <3>1. HasRoute(k, d)
      BY <2>1 DEF HasRoute
    <3>2. HasRoute(m, d) /\ routeTable[m][d].hopcount < routeTable[k][d].hopcount
      BY <2>0, <2>1, <3>1 DEF NextHopIsCloser
    <3>3. HasRoute(m, d)' /\ routeTable'[m][d].hopcount <= routeTable[m][d].hopcount
      BY <1>6, <3>1, <3>2 DEF RoutesImprove
    <3>4. routeTable'[m][d].hopcount < routeTable'[k][d].hopcount
      BY <1>5, <2>1, <3>1, <3>2, <3>3
    <3> QED BY <2>0, <3>3, <3>4
  <2>2. CASE routeTable'[k][d] # routeTable[k][d]
    <3>1. k = n
      BY <1>4, <2>2
    <3>2. m = prevHop /\ d = dest /\ routeTable'[n][d].hopcount = h
      BY <1>3, <1>4, <2>0, <2>2, <3>1 DEF old
    <3>3. HasRoute(prevHop, dest) /\ routeTable[prevHop][dest].hopcount <= hops
      BY <2>0, <3>1, <3>2 DEF Closer
    <3>4. HasRoute(prevHop, dest)' /\ routeTable'[prevHop][dest] = routeTable[prevHop][dest]
      BY <1>4, <3>3 DEF HasRoute
    <3>5. routeTable'[m][d].hopcount < routeTable'[k][d].hopcount
      BY <1>1, <1>5, <3>1, <3>2, <3>3, <3>4
    <3> QED BY <2>0, <3>2, <3>4, <3>5
  <2> QED BY <2>1, <2>2
<1> QED BY <1>0, <1>6, <1>7

(* Learning both ends of a frame, as handleRREQ and handleRREP do. *)
LEMMA LearnBoth ==
    ASSUME RoutesTyped, NextHopIsCloser, NEW n \in Node, NEW dest \in Node,
           NEW prevHop \in Node \ {n}, NEW hops \in HopCount, hops < 255,
           Closer(prevHop, dest, hops),
           routeTable' = [routeTable EXCEPT ![n] =
                             LearnRoutes(routeTable[n], dest, prevHop, HopPlusOne(hops))]
    PROVE  /\ RoutesImprove
           /\ NextHopIsCloser'
           /\ HasRoute(n, dest)'
           /\ routeTable'[n][dest].hopcount <= HopPlusOne(hops)
<1>1. routeTable[n] \in Table
  BY DEF RoutesTyped
<1>2. HopPlusOne(hops) \in HopCount /\ 1 <= HopPlusOne(hops)
  <2>1. HopPlusOne(hops) \in HopCount /\ HopPlusOne(hops) = hops + 1
    BY HopType
  <2> QED BY <2>1 DEF HopCount
<1>3. PICK new : new = LearnRoutes(routeTable[n], dest, prevHop, HopPlusOne(hops))
  OBVIOUS
<1>4. /\ Learned(routeTable[n], new, prevHop, dest, HopPlusOne(hops))
      /\ new[dest] # NoRoute
      /\ new[dest].hopcount <= HopPlusOne(hops)
  BY <1>1, <1>2, <1>3, LearnedRoute
<1>5. routeTable' = [routeTable EXCEPT ![n] = new] /\ routeTable'[n] = new
  BY <1>3 DEF RoutesTyped
<1> QED BY <1>4, <1>5, LearnLoop DEF HasRoute

(* What a step that changes no route has to show. *)
LEMMA SameRoutes ==
    ASSUME RoutesTyped, NextHopIsCloser, UNCHANGED routeTable
    PROVE  RoutesImprove /\ NextHopIsCloser'
<1>1. RoutesImprove
  <2>1. \A m, d \in Node : HasRoute(m, d) => routeTable[m][d].hopcount \in Int
    BY RouteOf
  <2> QED BY <2>1 DEF RoutesImprove, HasRoute
<1> QED BY <1>1 DEF NextHopIsCloser, HasRoute

(* A data packet sent to the next hop of a route can be served there. *)
LEMMA RouteServes ==
    ASSUME RoutesTyped, NextHopIsCloser, NEW n \in Node, NEW d \in Node, HasRoute(n, d),
           NEW f, f.ext.finalDestID = d, f.destNodeID = routeTable[n][d].nextHop
    PROVE  CanServe(f)
BY RouteOf DEF NextHopIsCloser, CanServe

(* handleRREQ preserves the invariant. *)
LEMMA RREQLoops ==
    ASSUME TypeOK, TypeOK', HopsFit, LoopInv, NEW n \in Node, NEW f \in RREQFrame,
           <<n, f>> \in air, f.packetType = "RREQ", AddressedTo(n, f), HandleRREQ(n, f)
    PROVE  LoopInv'
<1> DEFINE target == f.ext.RREQDestNodeID
           h == HopPlusOne(f.hopCount)
           rt == LearnRoutes(routeTable[n], f.originNodeID, f.prevHopID, h)
<1>1. /\ f \in Frame
      /\ target \in Node
      /\ f.originNodeID \in Node
      /\ f.prevHopID \in Node \ {n}
      /\ f.hopCount \in HopCount
      /\ f.hopCount < 255
      /\ Closer(f.prevHopID, f.originNodeID, f.hopCount)
  BY DEF Frame, RREQFrame, FrameOf, AddressedTo, HopsFit, LoopInv, Backed
<1>2. routeTable' = [routeTable EXCEPT ![n] = rt]
  BY DEF HandleRREQ
<1>3. /\ RoutesImprove
      /\ NextHopIsCloser'
      /\ HasRoute(n, f.originNodeID)'
      /\ routeTable'[n][f.originNodeID].hopcount <= h
  BY <1>1, <1>2, LearnBoth, TypedRoutes DEF LoopInv
<1>4. rt = routeTable'[n]
  BY <1>2 DEF TypeOK
<1>5. \A pid, m, hops :
          n = target \/ (HasRoute(n, target)' /\ routeTable'[n][target].hopcount <= hops)
          => Backed(sendRREP(n, pid, f.originNodeID, target, m, hops))'
  BY DEF Backed, sendRREP, Originate, Closer
<1>6. Backed(Forwarded(n, f, BROADCAST_ADDR))'
  <2> DEFINE g == Forwarded(n, f, BROADCAST_ADDR)
  <2>1. /\ g.packetType = "RREQ"
        /\ g.prevHopID = n
        /\ g.originNodeID = f.originNodeID
        /\ g.hopCount = h
    BY DEF Forwarded, RREQFrame, FrameOf
  <2> QED BY <1>3, <2>1 DEF Backed, Closer
<1>7. PICK out : Emit(n, f, out) /\ \A g \in out : Backed(g)'
  <2>1. rt[target] # NoRoute => /\ HasRoute(n, target)'
                                /\ routeTable'[n][target].hopcount <= rt[target].hopcount
    <3>1. routeTable'[n] \in Table
      BY DEF TypeOK, Table
    <3>2. routeTable'[n][target] # NoRoute => routeTable'[n][target].hopcount \in Int
      <4>1. HopCount \subseteq Int
        BY DEF HopCount
      <4> HIDE DEF target
      <4> QED BY <1>1, <3>1, <4>1, RouteType
    <3> HIDE DEF rt, target
    <3> QED BY <1>4, <3>2 DEF HasRoute
  <2>2. \/ Emit(n, f, {Forwarded(n, f, BROADCAST_ADDR)})
        \/ \E pid, m, hops :
               /\ target = n \/ (rt[target] # NoRoute /\ hops = rt[target].hopcount)
               /\ Emit(n, f, {sendRREP(n, pid, f.originNodeID, target, m, hops)})
    BY DEF HandleRREQ
  <2> HIDE DEF rt, target
  <2>3. CASE Emit(n, f, {Forwarded(n, f, BROADCAST_ADDR)})
    <3>1. PICK g : Emit(n, f, {g}) /\ Backed(g)'
      <4>1. PICK g : g = Forwarded(n, f, BROADCAST_ADDR)
        OBVIOUS
      <4> QED BY <1>6, <2>3, <4>1
    <3> QED BY <3>1
  <2>4. CASE \E pid, m, hops :
               /\ target = n \/ (rt[target] # NoRoute /\ hops = rt[target].hopcount)
               /\ Emit(n, f, {sendRREP(n, pid, f.originNodeID, target, m, hops)})
    <3>1. PICK pid, m, hops :
               /\ target = n \/ (rt[target] # NoRoute /\ hops = rt[target].hopcount)
               /\ Emit(n, f, {sendRREP(n, pid, f.originNodeID, target, m, hops)})
      BY <2>4
    <3>2. PICK g : g = sendRREP(n, pid, f.originNodeID, target, m, hops)
      OBVIOUS
    <3>3. Backed(g)'
      BY <1>5, <2>1, <3>1, <3>2
    <3> QED BY <3>1, <3>2, <3>3
  <2> QED BY <2>2, <2>3, <2>4
<1> QED BY <1>3, <1>7, LoopStep DEF Emit, HandleRREQ

(* handleRREP preserves the invariant. *)
LEMMA RREPLoops ==
    ASSUME TypeOK, TypeOK', HopsFit, LoopInv, NEW n \in Node, NEW f \in RREPFrame,
           <<n, f>> \in air, f.packetType = "RREP", AddressedTo(n, f), HandleRREP(n, f)
    PROVE  LoopInv'
<1> DEFINE target == f.ext.RREPDestNodeID
           hops == HopPlusOne(f.ext.numHops)
           rt == LearnFromRREP(n, f)
           flushed == IF rt[target] = NoRoute THEN {}
                      ELSE flushDataQueue(n, target, rt[target].nextHop)
           back == rt[f.originNodeID]
           onward == IF n = f.originNodeID \/ back = NoRoute THEN {}
                     ELSE {[Forwarded(n, f, back.nextHop) EXCEPT !.ext.numHops = hops]}
<1>1. /\ f \in Frame
      /\ target \in Node
      /\ f.prevHopID \in Node \ {n}
      /\ f.ext.numHops \in HopCount
      /\ f.ext.numHops < 255
      /\ Closer(f.prevHopID, target, f.ext.numHops)
  BY DEF Frame, RREPFrame, FrameOf, AddressedTo, HopsFit, LoopInv, Backed
<1>2. /\ routeTable' = [routeTable EXCEPT ![n] = LearnRoutes(routeTable[n], target,
                                                            f.prevHopID, hops)]
      /\ rt = routeTable'[n]
  BY DEF HandleRREP, LearnFromRREP, TypeOK
<1>3. /\ RoutesImprove
      /\ NextHopIsCloser'
      /\ HasRoute(n, target)'
      /\ routeTable'[n][target].hopcount <= hops
  BY <1>1, <1>2, LearnBoth, TypedRoutes DEF LoopInv
<1>4. \A g \in flushed : Backed(g)'
  <2>1. PICK m \in Node : m = rt[target].nextHop
    <3>1. rt \in Table
      BY <1>2 DEF TypeOK, Table
    <3>2. rt[target] # NoRoute
      BY <1>2, <1>3 DEF HasRoute
    <3> HIDE DEF rt, target
    <3> QED BY <1>1, <3>1, <3>2, RouteType
  <2>2. m = target \/ HasRoute(m, target)'
    BY <1>1, <1>2, <1>3, <2>1 DEF NextHopIsCloser
  <2>3. \A pid : CanServe(dataFrame(n, pid, m, target, "NONE"))'
    BY <2>1, <2>2 DEF CanServe, dataFrame, Originate
  <2>4. \A pid : Backed(dataFrame(n, pid, m, target, "NONE"))'
    BY <2>3 DEF Backed, dataFrame, Originate
  <2>5. \A g \in flushed : \E pid : g = dataFrame(n, pid, m, target, "NONE")
    <3> HIDE DEF rt, target
    <3> QED BY <2>1 DEF flushDataQueue
  <2> HIDE DEF flushed
  <2> QED BY <2>4, <2>5
<1>5. \A g \in onward : Backed(g)'
  <2> SUFFICES ASSUME NEW m
               PROVE  Backed([Forwarded(n, f, m) EXCEPT !.ext.numHops = hops])'
    OBVIOUS
  <2> DEFINE g == [Forwarded(n, f, m) EXCEPT !.ext.numHops = hops]
  <2>1. /\ g.packetType = "RREP"
        /\ g.prevHopID = n
        /\ g.ext.RREPDestNodeID = target
        /\ g.ext.numHops = hops
    BY DEF Forwarded, RREPFrame, FrameOf
  <2> QED BY <1>3, <2>1 DEF Backed, Closer
<1>6. Emit(n, f, flushed \cup onward)
  BY DEF HandleRREP
<1>7. PICK out : air' \subseteq air \cup OnAir(n, out) /\ \A g \in out : Backed(g)'
  <2> HIDE DEF flushed, onward
  <2> QED BY <1>4, <1>5, <1>6 DEF Emit
<1> QED BY <1>3, <1>7, LoopStep DEF HandleRREP

(* handleRERR erases nothing: its RERR names no destination. *)
LEMMA RERRLoops ==
    ASSUME TypeOK, TypeOK', LoopInv, NEW n \in Node, NEW f \in RERRFrame,
           <<n, f>> \in air, f.packetType = "RERR", HandleRERR(n, f)
    PROVE  LoopInv'
<1>1. /\ f.ext.brokenNodeID = f.ext.reporterNodeID
      /\ f.ext.originalDestNodeID = Undecipherable
      /\ Undecipherable \notin Node
  BY ModelValues DEF LoopInv, Backed
<1>2. removeItemRoutingTable(routeTable[n], Undecipherable) = routeTable[n]
  BY <1>1 DEF removeItemRoutingTable, TypeOK
<1>3. UNCHANGED routeTable
  BY <1>1, <1>2 DEF HandleRERR, TypeOK
<1>4. \A m : Backed(Forwarded(n, f, m))'
  <2> SUFFICES ASSUME NEW m
               PROVE  Backed(Forwarded(n, f, m))'
    OBVIOUS
  <2>1. /\ Forwarded(n, f, m).packetType = "RERR"
        /\ Forwarded(n, f, m).ext = f.ext
    BY DEF Forwarded, RERRFrame, FrameOf
  <2> QED BY <1>1, <2>1 DEF Backed
<1>5. PICK out : Emit(n, f, out) /\ \A g \in out : Backed(g)'
  BY <1>4 DEF HandleRERR
<1> QED BY <1>3, <1>5, SameRoutes, TypedRoutes, LoopStep DEF HandleRERR, Emit, LoopInv

(* Sending a data packet on changes its next hop, not its destination. *)
LEMMA ForwardedData ==
    ASSUME NEW n, NEW m, NEW f \in DATAFrame
    PROVE  /\ Forwarded(n, f, m).packetType = "DATA"
           /\ Forwarded(n, f, m).destNodeID = m
           /\ Forwarded(n, f, m).ext = f.ext
BY DEF Forwarded, DATAFrame, FrameOf

(* handleData preserves the invariant. *)
LEMMA DATALoops ==
    ASSUME TypeOK, TypeOK', LoopInv, NEW n \in Node, NEW f \in DATAFrame,
           <<n, f>> \in air, f.packetType = "DATA", AddressedTo(n, f), HandleData(n, f)
    PROVE  LoopInv'
<1>1. CanServe(f) /\ f.ext.finalDestID \in Address
  BY DEF LoopInv, Backed, DATAFrame, FrameOf
<1>2. UNCHANGED <<routeTable, sender>>
  BY DEF HandleData, DeliverData, RelayBroadcast, ForwardData, RejectData
<1>3. RoutesImprove /\ NextHopIsCloser'
  BY <1>2, SameRoutes, TypedRoutes DEF LoopInv
<1>4. \A pid, d, p : Backed(sendACK(n, pid, d, p))'
  BY DEF Backed, sendACK, Originate
<1>5. \A g \in AckOf(n, f) : Backed(g)'
  <2>1. \A g \in AckOf(n, f) : \E pid, d, p : g = sendACK(n, pid, d, p)
    BY DEF AckOf
  <2> QED BY <1>4, <2>1
<1>6. CASE DeliverData(n, f)
  BY <1>2, <1>3, <1>5, <1>6, LoopStep DEF DeliverData, Emit
<1>7. CASE RelayBroadcast(n, f)
  <2>1. PICK g : g = Forwarded(n, f, BROADCAST_ADDR)
    OBVIOUS
  <2>2. Backed(g)'
    BY <1>7, <2>1, ForwardedData DEF RelayBroadcast, Backed, CanServe
  <2>3. air' \subseteq air \cup OnAir(n, AckOf(n, f) \cup {g})
    BY <1>7, <2>1 DEF RelayBroadcast, Emit
  <2>4. UNCHANGED ackBuffer
    BY <1>7 DEF RelayBroadcast
  <2>5. \A k \in AckOf(n, f) \cup {g} : Backed(k)'
    BY <1>5, <2>2
  <2> QED BY <1>2, <1>3, <2>3, <2>4, <2>5, LoopStep
<1>8. CASE ForwardData(n, f)
  <2> DEFINE dest == f.ext.finalDestID
  <2>1. dest \in Node /\ HasRoute(n, dest)
    BY <1>1, <1>8 DEF ForwardData, Address, HasRoute
  <2>2. PICK m : m = routeTable[n][dest].nextHop
    OBVIOUS
  <2>3. PICK g : g = Forwarded(n, f, m)
    OBVIOUS
  <2>4. g.packetType = "DATA" /\ g.destNodeID = m /\ g.ext.finalDestID = dest
    BY <2>3, ForwardedData
  <2>5. CanServe(g)
    <3> HIDE DEF dest
    <3> QED BY <2>1, <2>2, <2>4, RouteServes, TypedRoutes DEF LoopInv
  <2>6. Backed(g)'
    BY <1>2, <2>4, <2>5 DEF Backed, CanServe, HasRoute
  <2>7. air' \subseteq air \cup OnAir(n, AckOf(n, f) \cup {g})
    BY <1>8, <2>2, <2>3 DEF ForwardData, Emit, OnAir
  <2>8. \A k \in Node : \A e \in ackBuffer'[k] : e \in ackBuffer[k] \/ e.frame = g
    <3>1. UNCHANGED ackBuffer \/ StoreIfRouted(n, g)
      BY <1>8, <2>2, <2>3 DEF ForwardData
    <3> QED BY <3>1, StoredFrames
  <2>9. \A k \in AckOf(n, f) \cup {g} : Backed(k)'
    BY <1>5, <2>6
  <2>10. \A k \in Node : \A e \in ackBuffer'[k] :
             \/ \E j \in ackBuffer[k] : e.frame = j.frame
             \/ Backed(e.frame)'
    BY <2>6, <2>8
  <2> QED BY <1>2, <1>3, <2>7, <2>9, <2>10, LoopStep
<1>9. CASE RejectData(n, f)
  <2>1. FALSE
    BY <1>1, <1>9, ModelValues DEF RejectData, CanServe, HasRoute, AddressedTo
  <2> QED BY <2>1
<1> QED BY <1>6, <1>7, <1>8, <1>9 DEF HandleData

(* handlePacket preserves the invariant. *)
LEMMA PacketLoops ==
    ASSUME MQTTNode = Node, TypeOK, TypeOK', HopsFit, LoopInv,
           NEW n \in Node, NEW f \in Frame, <<n, f>> \in air, handlePacket(n, f)
    PROVE  LoopInv'
<1>1. CASE HandleFrame(n, f) /\ f.packetType # "ACK"
  BY <1>1, FrameKinds, RREQLoops, RREPLoops, RERRLoops, DATALoops DEF HandleFrame
<1>2. CASE Unanswered(n, f)
  <2>1. RoutesImprove /\ NextHopIsCloser'
    BY <1>2, UnansweredFrames, SameRoutes, TypedRoutes DEF LoopInv
  <2>2. \A m \in Node : \A e \in ackBuffer'[m] : \E k \in ackBuffer[m] : e.frame = k.frame
    BY <1>2, UnansweredFrames
  <2>3. \A g \in {} : Backed(g)'
    OBVIOUS
  <2> QED BY <1>2, <2>1, <2>2, <2>3, UnansweredFrames, LoopStep
<1>3. ~CrashOnRERR(n, f)
  BY DEF CrashOnRERR, DereferencesNull
<1> QED BY <1>1, <1>2, <1>3 DEF handlePacket, Unanswered

(* sendData preserves the invariant. *)
LEMMA ApplicationLoops ==
    ASSUME TypeOK, TypeOK', LoopInv, NEW n \in Node, ApplicationTask(n)
    PROVE  LoopInv'
<1>1. UNCHANGED routeTable
  BY DEF ApplicationTask, sendData, SendDataBuffer, SendDataTransmit, SendDataDrop,
         SendDataStore
<1>2. RoutesImprove /\ NextHopIsCloser'
  BY <1>1, SameRoutes, TypedRoutes DEF LoopInv
<1>3. OnAir(n, {}) = {} /\ \A g \in {} : Backed(g)'
  BY DEF OnAir
<1>4. \A pid, m, d, x : dataFrame(n, pid, m, d, x).packetType = "DATA" /\
                        dataFrame(n, pid, m, d, x).destNodeID = m /\
                        dataFrame(n, pid, m, d, x).ext.finalDestID = d
  BY DEF dataFrame, Originate
<1>5. ASSUME sender[n].step \in {"transmit", "store"}
      PROVE  \A f : f = sender[n].frame => Backed(f)'
  <2>1. sender[n].frame \in Frame /\ Backed(sender[n].frame)
    <3>1. sender[n] \in Sending \cup {Idle}
      BY DEF TypeOK
    <3> QED BY <1>5, <3>1 DEF Sending, Idle, Frame, LoopInv
  <2>2. PICK f \in Frame : f = sender[n].frame
    BY <2>1
  <2>3. Backed(f)'
    BY <1>2, <2>1, <2>2, BackedStays
  <2> QED BY <2>2, <2>3
<1>6. CASE \E r \in Requests : sendData(n, r)
  <2>1. PICK r \in Requests : sendData(n, r)
    BY <1>6
  <2>2. r.to \in Address
    BY RequestsAssumption
  <2>3. UNCHANGED ackBuffer
    BY <2>1 DEF sendData
  <2>4. CASE r.to = BROADCAST_ADDR
    <3>1. PICK g : g = dataFrame(n, NewID(n, 1), BROADCAST_ADDR, r.to, r.flags)
      OBVIOUS
    <3>2. Backed(g)'
      BY <1>4, <2>4, <3>1 DEF Backed, CanServe
    <3>3. air' = air \cup OnAir(n, {g}) /\ UNCHANGED sender
      BY <2>1, <2>4, <3>1 DEF sendData
    <3> QED BY <1>2, <2>3, <3>2, <3>3, LoopStep
  <2>5. CASE r.to # BROADCAST_ADDR
    <3>1. r.to \in Node /\ air' = air
      BY <2>1, <2>2, <2>5 DEF sendData, Address
    <3>2. \A m \in Node : m # n => sender'[m] = sender[m]
      BY <2>1, <2>5 DEF sendData, TypeOK
    <3>3. sender'[n].step \in {"transmit", "store"} => Backed(sender[n].frame)'
      <4>1. SUFFICES ASSUME sender'[n].step \in {"transmit", "store"}
                     PROVE  Backed(sender[n].frame)'
        OBVIOUS
      <4>2. PICK m : m = routeTable[n][r.to].nextHop
        OBVIOUS
      <4>3. PICK g : g = dataFrame(n, NewID(n, 1), m, r.to, r.flags)
        OBVIOUS
      <4>4. HasRoute(n, r.to) /\ sender'[n].frame = g
        BY <2>1, <2>5, <4>1, <4>2, <4>3 DEF sendData, TypeOK, HasRoute
      <4>5. CanServe(g)
        BY <1>4, <3>1, <4>2, <4>3, <4>4, RouteServes, TypedRoutes DEF LoopInv
      <4>6. Backed(g)'
        BY <1>1, <1>4, <4>3, <4>5 DEF Backed, CanServe, HasRoute
      <4> QED BY <4>4, <4>6
    <3> QED BY <1>2, <1>3, <2>3, <3>1, <3>2, <3>3, LoopStep
  <2> QED BY <2>4, <2>5
<1>7. CASE SendDataBuffer(n)
  <2>1. PICK g : /\ air' = air \cup OnAir(n, {g})
                 /\ \E pid, d : g = sendRREQ(n, pid, d)
    BY <1>7 DEF SendDataBuffer
  <2>2. Backed(g)'
    BY <2>1 DEF Backed, sendRREQ, Originate, Closer
  <2>3. \A m \in Node : sender'[m] = sender[m] \/ sender'[m] = Idle
    BY <1>7 DEF SendDataBuffer, TypeOK
  <2>4. UNCHANGED ackBuffer
    BY <1>7 DEF SendDataBuffer
  <2> QED BY <1>2, <2>1, <2>2, <2>3, <2>4, LoopStep DEF Idle
<1>8. CASE SendDataTransmit(n)
  <2>1. PICK g : g = sender[n].frame
    OBVIOUS
  <2>2. Backed(g)'
    BY <1>5, <1>8, <2>1 DEF SendDataTransmit
  <2>3. air' = air \cup OnAir(n, {g}) /\ UNCHANGED ackBuffer
    BY <1>8, <2>1 DEF SendDataTransmit
  <2>4. \A m \in Node : \/ sender'[m] = sender[m]
                        \/ sender'[m] = Idle
                        \/ sender[m].step = "transmit" /\ sender'[m].frame = sender[m].frame
    BY <1>8 DEF SendDataTransmit, TypeOK
  <2> QED BY <1>2, <2>2, <2>3, <2>4, LoopStep DEF Idle
<1>9. CASE SendDataDrop(n)
  <2>1. \A m \in Node : sender'[m] = sender[m] \/ sender'[m] = Idle
    BY <1>9 DEF SendDataDrop, TypeOK
  <2>2. UNCHANGED <<ackBuffer, air>>
    BY <1>9 DEF SendDataDrop
  <2> QED BY <1>2, <1>3, <2>1, <2>2, LoopStep DEF Idle
<1>10. CASE SendDataStore(n)
  <2>1. PICK g : g = sender[n].frame
    OBVIOUS
  <2>2. Backed(g)'
    BY <1>5, <1>10, <2>1 DEF SendDataStore
  <2>3. \A m \in Node : sender'[m] = sender[m] \/ sender'[m] = Idle
    BY <1>10 DEF SendDataStore, TypeOK
  <2>4. \A m \in Node : \A e \in ackBuffer'[m] : e \in ackBuffer[m] \/ e.frame = g
    BY <1>10, <2>1, StoredFrames DEF SendDataStore
  <2>5. UNCHANGED air
    BY <1>10 DEF SendDataStore
  <2>6. \A m \in Node : \A e \in ackBuffer'[m] :
            (\E k \in ackBuffer[m] : e.frame = k.frame) \/ Backed(e.frame)'
    BY <2>2, <2>4
  <2> QED BY <1>2, <1>3, <2>3, <2>5, <2>6, LoopStep DEF Idle
<1> QED BY <1>6, <1>7, <1>8, <1>9, <1>10 DEF ApplicationTask

(* cleanupAckBuffer preserves the invariant. *)
LEMMA TimerLoops ==
    ASSUME TypeOK, TypeOK', LoopInv, NEW n \in Node, TimerWorker(n)
    PROVE  LoopInv'
<1>1. UNCHANGED <<routeTable, sender>>
  BY DEF TimerWorker, CleanupAckBuffer, ReportExpired
<1>2. RoutesImprove /\ NextHopIsCloser'
  BY <1>1, SameRoutes, TypedRoutes DEF LoopInv
<1>3. CASE CleanupAckBuffer(n)
  <2>1. /\ \A m \in Node : \A e \in ackBuffer'[m] : \E k \in ackBuffer[m] : e.frame = k.frame
        /\ \E out : /\ air' = air \cup OnAir(n, out)
                    /\ \A g \in out : \E e \in ackBuffer[n] : g = e.frame
    BY <1>3, RetriedFrames
  <2>2. PICK out : /\ air' = air \cup OnAir(n, out)
                   /\ \A g \in out : \E e \in ackBuffer[n] : g = e.frame
    BY <2>1
  <2>3. \A g \in out : Backed(g)'
    <3>1. \A g \in out : g \in Frame /\ Backed(g)
      BY <2>2 DEF LoopInv, TypeOK, AckEntry, Frame
    <3> QED BY <1>2, <3>1, BackedStays
  <2> QED BY <1>1, <1>2, <2>1, <2>2, <2>3, LoopStep
<1>4. CASE ReportExpired(n)
  <2>1. PICK pid, o, p :
            air' = air \cup OnAir(n, {sendRERR(n, pid, n, o, Undecipherable, p)})
    BY <1>4, ReportedFrames
  <2>2. PICK g : g = sendRERR(n, pid, n, o, Undecipherable, p)
    OBVIOUS
  <2>3. Backed(g)'
    BY <2>2 DEF Backed, sendRERR, Originate
  <2>4. air' = air \cup OnAir(n, {g}) /\ UNCHANGED ackBuffer
    BY <1>4, <2>1, <2>2, ReportedFrames
  <2> QED BY <1>1, <1>2, <2>3, <2>4, LoopStep
<1> QED BY <1>3, <1>4 DEF TimerWorker

(* The strengthened invariant holds throughout, while no node reboots: none    *)
(* is reset, and every node has the MQTTManager whose absence crashes it.    *)
LEMMA LoopInvariance ==
    ASSUME MaxRestarts = 0, MQTTNode = Node
    PROVE  Spec /\ []HopsFit => []LoopInv
<1>1. Init => LoopInv
  BY DEF Init, LoopInv, NextHopIsCloser, HasRoute, Idle
<1>2. TypeOK /\ TypeOK' /\ HopsFit /\ LoopInv /\ [Next]_vars => LoopInv'
  <2> SUFFICES ASSUME TypeOK, TypeOK', HopsFit, LoopInv, [Next]_vars
               PROVE  LoopInv'
    OBVIOUS
  <2>1. CASE UNCHANGED vars
    BY <2>1 DEF LoopInv, NextHopIsCloser, Backed, Closer, CanServe, HasRoute, vars
  <2>2. ASSUME NEW n \in Node, RouterTask(n)
        PROVE  LoopInv'
    BY <2>2, RouterFrame, PacketLoops
  <2>3. ASSUME NEW n \in Node, Restart(n)
        PROVE  FALSE
    BY <2>3 DEF Restart, TypeOK
  <2> QED BY <2>1, <2>2, <2>3, ApplicationLoops, TimerLoops DEF Next
<1> QED BY <1>1, <1>2, TypeCorrect, PTL DEF Spec

(* If no node reboots, and no hop counter wraps, on any number of nodes and    *)
(* any topology: following next hops, the distance to the destination        *)
(* decreases, so routes do not loop.                                         *)
THEOREM RoutesLoopFree ==
    ASSUME MaxRestarts = 0, MQTTNode = Node
    PROVE  Spec /\ []HopsFit => []NextHopIsCloser
<1>1. LoopInv => NextHopIsCloser
  BY DEF LoopInv
<1> QED BY <1>1, LoopInvariance, PTL

(* Under the same conditions every data packet is addressed to a node that    *)
(* can deliver or forward it.                                                *)
THEOREM DataServed ==
    ASSUME MaxRestarts = 0, MQTTNode = Node
    PROVE  Spec /\ []HopsFit => []DataFollowsRoutes
<1>1. TypeOK /\ LoopInv => DataFollowsRoutes
  BY DEF LoopInv, DataFollowsRoutes, Backed, TypeOK, AckEntry, DATAFrame, FrameOf
<1> QED BY <1>1, LoopInvariance, TypeCorrect, PTL

=============================================================================
