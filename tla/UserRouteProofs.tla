-------------------------- MODULE UserRouteProofs ---------------------------
(***************************************************************************)
(* Proofs about the mesh as a whole (UserRouting).                         *)
(*                                                                         *)
(* Routes: those that user requests, user replies, moves and broadcasts    *)
(* teach on the side promise no fewer hops than there are, and keep every  *)
(* next hop closer.  What a step does to the routes is worked out once,    *)
(* handler by handler (Moves); both invariants follow from it.             *)
(*                                                                         *)
(* Messages: one is in one place at a time (CopyInv).  A step moves none   *)
(* (Undisturbed), or hands some over from one place to others (HandsOver). *)
(***************************************************************************)
EXTENDS UserProofs

-----------------------------------------------------------------------------
(* What a frame says of the routes of the node it comes from. *)

Teaching == {"RREQ", "RREP", "UREQ", "UREP", "BROADCAST_INFO"}

Carrying == {"DATA", "USER_MSG"}

(* The node a frame teaches a route to, and how far its sender is from it. *)
Subject(f) ==
    IF f.packetType = "RREP" THEN f.ext.RREPDestNodeID
    ELSE IF f.packetType = "UREP" THEN f.ext.destNodeID
    ELSE f.originNodeID

Claimed(f) == IF f.packetType = "RREP" THEN f.ext.numHops ELSE f.hopCount

(* Where a packet is carried to. *)
Final(f) == IF f.packetType = "DATA" THEN f.ext.finalDestID ELSE f.ext.toNodeID

(* A RERR that erases nothing. *)
Harmless(f) == /\ f.ext.brokenNodeID = f.ext.reporterNodeID
               /\ f.ext.originalDestNodeID = Undecipherable

(* Node n, with the routes rt, may send g: what g claims is in the table, and *)
(* what it carries goes along the table.                                     *)
Supported(n, rt, g) ==
    /\ g.prevHopID = n
    /\ g.packetType \in Teaching =>
           \/ Subject(g) = n
           \/ rt[Subject(g)] # NoRoute /\ rt[Subject(g)].hopcount <= Claimed(g)
    /\ g.packetType \in Carrying =>
           \/ Final(g) = BROADCAST_ADDR
           \/ rt[Final(g)] # NoRoute /\ g.destNodeID = rt[Final(g)].nextHop

(* The frames node m keeps: for retransmission, or in the hands of the        *)
(* application task.                                                         *)
Kept(m, g) ==
    \/ \E e \in ackBuffer[m] : e.frame = g
    \/ sender[m].step \in {"transmit", "store"} /\ sender[m].frame = g

Heard(n, f) == f \in MeshFrame /\ <<n, f>> \in air /\ f.prevHopID # n

(* A frame on the air for n makes it erase routes, or report a route that is  *)
(* missing.                                                                  *)
Trouble(n) ==
    \E f \in MeshFrame :
        /\ <<n, f>> \in air
        /\ AddressedTo(n, f)
        /\ \/ f.packetType = "RERR" /\ ~Harmless(f)
           \/ /\ f.packetType \in Carrying
              /\ Final(f) \notin {n, BROADCAST_ADDR}
              /\ routeTable[n][Final(f)] = NoRoute

(* The table rt is what n has after the step: as before, or taught by a frame *)
(* it heard, or with fewer routes.                                           *)
RouteChange(n, rt) ==
    \/ rt = routeTable[n]
    \/ \E f : /\ Heard(n, f)
              /\ Learned(routeTable[n], rt, f.prevHopID, f.prevHopID, 1)
    \/ \E f : /\ Heard(n, f)
              /\ f.packetType \in Teaching
              /\ Learned(routeTable[n], rt, f.prevHopID, Subject(f), HopPlusOne(Claimed(f)))
    \/ /\ \A d \in Node : rt[d] \in {NoRoute, routeTable[n][d]}
       /\ Trouble(n) \/ MQTTNode # Node \/ restarts' # 0

(* A step of node n. *)
Moves(n) ==
    \E rt \in Table : \E out :
        /\ routeTable' = [routeTable EXCEPT ![n] = rt]
        /\ RouteChange(n, rt)
        /\ air' \subseteq air \cup OnAir(n, out)
        /\ \A g \in out : \/ Kept(n, g)
                          \/ /\ Supported(n, rt, g)
                             /\ g.packetType = "RERR" => Harmless(g) \/ Trouble(n)
        /\ \A m \in Node : \A e \in ackBuffer'[m] :
               Kept(m, e.frame) \/ (m = n /\ Supported(n, rt, e.frame))
        /\ \A m \in Node : sender'[m].step \in {"transmit", "store"} =>
               Kept(m, sender'[m].frame) \/ (m = n /\ Supported(n, rt, sender'[m].frame))
        /\ restarts' \in {restarts, restarts + 1}

(* What a frame that teaches says is of the right type, and its counter fits. *)
LEMMA TeachingFields ==
    ASSUME NEW f \in MeshFrame, f.packetType \in Teaching
    PROVE  /\ Subject(f) \in Node
           /\ Claimed(f) \in HopCount
           /\ f.prevHopID \in Node
<1>1. CASE f.packetType = "RREP"
  BY <1>1, MeshKinds DEF Subject, Claimed, RREPFrame, FrameOf
<1>2. CASE f.packetType = "UREP"
  BY <1>2, MeshKinds DEF Subject, Claimed, UREPFrame, FrameOf
<1>3. CASE f.packetType \notin {"RREP", "UREP"}
  BY <1>3, MeshFields DEF Subject, Claimed
<1> QED BY <1>1, <1>2, <1>3

(* Where a packet is carried to is an address, a node for a user message. *)
LEMMA CarryingFields ==
    ASSUME NEW f \in MeshFrame, f.packetType \in Carrying
    PROVE  /\ Final(f) \in Address
           /\ f.packetType = "USER_MSG" => Final(f) \in Node
<1>1. CASE f.packetType = "DATA"
  BY <1>1, MeshKinds DEF Final, DATAFrame, FrameOf
<1>2. CASE f.packetType = "USER_MSG"
  BY <1>2, MeshKinds DEF Final, UserMsgFrame, FlaggedFrame, Address
<1> QED BY <1>1, <1>2 DEF Carrying

(* What a frame that teaches claims can be one hop further without wrapping. *)
LEMMA TeachingFits ==
    ASSUME HopsFit, NEW n \in Node, NEW f \in MeshFrame, <<n, f>> \in air,
           f.packetType \in Teaching
    PROVE  /\ Claimed(f) < 255
           /\ HopPlusOne(Claimed(f)) = Claimed(f) + 1
           /\ HopPlusOne(Claimed(f)) \in HopCount
           /\ 1 <= HopPlusOne(Claimed(f))
<1>1. Claimed(f) \in HopCount
  BY TeachingFields
<1>2. Claimed(f) < 255
  BY DEF HopsFit, Claimed
<1>3. HopPlusOne(Claimed(f)) = Claimed(f) + 1 /\ HopPlusOne(Claimed(f)) \in HopCount
  BY <1>1, <1>2, HopType
<1> QED BY <1>1, <1>2, <1>3 DEF HopCount

(* Learning the immediate sender. *)
LEMMA LearnsNear ==
    ASSUME NEW rt \in Table, NEW p \in Node
    PROVE  Learned(rt, updateRoute(rt, p, p, 1), p, p, 1)
<1> DEFINE new == updateRoute(rt, p, p, 1)
<1>1. 1 \in HopCount
  BY DEF HopCount
<1>2. /\ new \in Table
      /\ \A d \in Node : d # p => new[d] = rt[d]
      /\ new[p] # NoRoute
      /\ \/ new[p] = rt[p] /\ rt[p].hopcount <= 1
         \/ /\ new[p] = [nextHop |-> p, hopcount |-> 1]
            /\ rt[p] # NoRoute => 1 < rt[p].hopcount
  BY <1>1, UpdatedRoute
<1> HIDE DEF new
<1>3. rt[p] # NoRoute => rt[p].hopcount \in Int
  BY RouteType DEF HopCount
<1> QED BY <1>2, <1>3 DEF Learned, new

(* Learning the immediate sender first and then the far end, as a broadcast   *)
(* does.                                                                     *)
LEMMA LearnsFar ==
    ASSUME NEW rt \in Table, NEW dest \in Node, NEW p \in Node, NEW hops \in HopCount,
           1 <= hops
    PROVE  /\ Learned(rt, updateRoute(updateRoute(rt, p, p, 1), dest, p, hops), p, dest, hops)
           /\ updateRoute(updateRoute(rt, p, p, 1), dest, p, hops)[dest] # NoRoute
           /\ updateRoute(updateRoute(rt, p, p, 1), dest, p, hops)[dest].hopcount <= hops
<1> DEFINE mid == updateRoute(rt, p, p, 1)
           new == updateRoute(mid, dest, p, hops)
<1>1. 1 \in HopCount
  BY DEF HopCount
<1>2. /\ mid \in Table
      /\ \A d \in Node : d # p => mid[d] = rt[d]
      /\ mid[p] # NoRoute
      /\ \/ mid[p] = rt[p] /\ rt[p].hopcount <= 1
         \/ /\ mid[p] = [nextHop |-> p, hopcount |-> 1]
            /\ rt[p] # NoRoute => 1 < rt[p].hopcount
  BY <1>1, UpdatedRoute
<1> HIDE DEF mid
<1>3. /\ new \in Table
      /\ \A d \in Node : d # dest => new[d] = mid[d]
      /\ new[dest] # NoRoute
      /\ \/ new[dest] = mid[dest] /\ mid[dest].hopcount <= hops
         \/ /\ new[dest] = [nextHop |-> p, hopcount |-> hops]
            /\ mid[dest] # NoRoute => hops < mid[dest].hopcount
  BY <1>2, UpdatedRoute
<1> HIDE DEF new
<1>4. /\ hops \in Int
      /\ \A d \in Node : rt[d] # NoRoute => rt[d].hopcount \in Int
      /\ \A d \in Node : mid[d] # NoRoute => mid[d].hopcount \in Int
  <2>1. HopCount \subseteq Int
    BY DEF HopCount
  <2> QED BY <1>2, <2>1, RouteType
<1>5. ASSUME NEW d \in Node
      PROVE  /\ \/ new[d] = rt[d]
                \/ /\ new[d].nextHop = p
                   /\ \/ d = p /\ new[d].hopcount = 1
                      \/ d = dest /\ new[d].hopcount = hops
                   /\ rt[d] # NoRoute => new[d].hopcount <= rt[d].hopcount
             /\ rt[d] # NoRoute => new[d] # NoRoute
  <2>1. CASE d # dest
    BY <1>2, <1>3, <1>4, <2>1
  <2>2. CASE d = dest /\ d # p
    BY <1>2, <1>3, <1>4, <2>2
  <2>3. CASE d = dest /\ d = p
    BY <1>2, <1>3, <1>4, <2>3
  <2> QED BY <2>1, <2>2, <2>3
<1>6. new[dest].hopcount <= hops
  BY <1>3, <1>4
<1>7. Learned(rt, new, p, dest, hops)
  BY <1>3, <1>5 DEF Learned
<1> QED BY <1>3, <1>6, <1>7 DEF new, mid

(* What a frame that teaches leaves in the table: its claim, one hop on. *)
LEMMA LearnsClaim ==
    ASSUME RoutesTyped, HopsFit, NEW n \in Node, NEW f \in MeshFrame, <<n, f>> \in air,
           f.packetType \in Teaching, f.prevHopID # n, NEW rt,
           rt = LearnRoutes(routeTable[n], Subject(f), f.prevHopID, HopPlusOne(Claimed(f)))
    PROVE  /\ rt \in Table
           /\ RouteChange(n, rt)
           /\ rt[Subject(f)] # NoRoute
           /\ rt[Subject(f)].hopcount <= HopPlusOne(Claimed(f))
<1>1. /\ Subject(f) \in Node
      /\ f.prevHopID \in Node
      /\ HopPlusOne(Claimed(f)) \in HopCount
      /\ 1 <= HopPlusOne(Claimed(f))
      /\ routeTable[n] \in Table
  BY TeachingFields, TeachingFits DEF RoutesTyped
<1> DEFINE new == LearnRoutes(routeTable[n], Subject(f), f.prevHopID, HopPlusOne(Claimed(f)))
<1>2. /\ Learned(routeTable[n], new, f.prevHopID, Subject(f), HopPlusOne(Claimed(f)))
      /\ new[Subject(f)] # NoRoute
      /\ new[Subject(f)].hopcount <= HopPlusOne(Claimed(f))
  BY <1>1, LearnedRoute
<1> HIDE DEF new
<1>3. rt = new
  BY DEF new
<1>4. RouteChange(n, rt)
  BY <1>2, <1>3 DEF RouteChange, Heard
<1> QED BY <1>2, <1>3, <1>4 DEF Learned

(* UERRs and moves teach the route to the immediate sender alone. *)
LEMMA NearChange ==
    ASSUME RoutesTyped, NEW n \in Node, NEW f \in MeshFrame, <<n, f>> \in air,
           f.prevHopID # n, NEW rt, rt = updateRoute(routeTable[n], f.prevHopID, f.prevHopID, 1)
    PROVE  rt \in Table /\ RouteChange(n, rt)
<1>1. f.prevHopID \in Node /\ routeTable[n] \in Table
  BY MeshFields DEF RoutesTyped
<1>2. Learned(routeTable[n], rt, f.prevHopID, f.prevHopID, 1)
  BY <1>1, LearnsNear
<1> QED BY <1>2 DEF RouteChange, Heard, Learned

(* A frame that neither teaches nor carries needs no support. *)
LEMMA PlainSupported ==
    ASSUME NEW n, NEW rt, NEW g, g.prevHopID = n, g.packetType \notin Teaching \cup Carrying
    PROVE  Supported(n, rt, g)
BY DEF Supported

(* What a node originates. *)
LEMMA OriginatesSupported ==
    ASSUME NEW n, NEW pid, NEW rt
    PROVE  /\ \A d : Supported(n, rt, sendRREQ(n, pid, d))
           /\ \A o, d, m, h : d = n \/ (rt[d] # NoRoute /\ rt[d].hopcount <= h) =>
                  Supported(n, rt, sendRREP(n, pid, o, d, m, h))
           /\ \A b, o, d, p : Supported(n, rt, sendRERR(n, pid, b, o, d, p))
           /\ \A d, p : Supported(n, rt, sendACK(n, pid, d, p))
           /\ \A d, x : Supported(n, rt, dataFrame(n, pid, BROADCAST_ADDR, BROADCAST_ADDR, x))
           /\ \A d, x : rt[d] # NoRoute =>
                  Supported(n, rt, dataFrame(n, pid, rt[d].nextHop, d, x))
<1>1. \A d : Supported(n, rt, sendRREQ(n, pid, d))
  BY DEF Supported, sendRREQ, Originate, Subject, Carrying
<1>2. \A o, d, m, h : d = n \/ (rt[d] # NoRoute /\ rt[d].hopcount <= h) =>
          Supported(n, rt, sendRREP(n, pid, o, d, m, h))
  BY DEF Supported, sendRREP, Originate, Subject, Claimed, Carrying
<1>3. /\ \A b, o, d, p : Supported(n, rt, sendRERR(n, pid, b, o, d, p))
      /\ \A d, p : Supported(n, rt, sendACK(n, pid, d, p))
  BY DEF Supported, sendRERR, sendACK, Originate, Teaching, Carrying
<1>4. /\ \A d, x : Supported(n, rt, dataFrame(n, pid, BROADCAST_ADDR, BROADCAST_ADDR, x))
      /\ \A d, x : rt[d] # NoRoute => Supported(n, rt, dataFrame(n, pid, rt[d].nextHop, d, x))
  BY DEF Supported, dataFrame, Originate, Teaching, Final
<1> QED BY <1>1, <1>2, <1>3, <1>4

(* What a node originates in the user plane. *)
LEMMA UserOriginatesSupported ==
    ASSUME NEW n, NEW pid, NEW rt
    PROVE  /\ \A u : Supported(n, rt, sendUREQ(n, pid, u))
           /\ \A o, u, m : Supported(n, rt, sendUREP(n, pid, o, n, u, m))
           /\ \A o, u, m : Supported(n, rt, sendUERR(n, pid, o, u, m))
           /\ \A m, u, o : Supported(n, rt, moveUserReqFrame(n, pid, m, u, o))
           /\ \A d, u, v : Supported(n, rt, pubKeyReqFrame(n, pid, d, u, v))
           /\ \A o, u, m : Supported(n, rt, sendPubKeyResp(n, pid, o, u, m))
           /\ \A x, y : Supported(n, rt, broadcastInfoFrame(n, pid, x, y))
           /\ \A m, d : rt[d] # NoRoute =>
                  Supported(n, rt, userMsgFrame(n, m, rt[d].nextHop, d))
<1>1. /\ \A u : Supported(n, rt, sendUREQ(n, pid, u))
      /\ \A o, u, m : Supported(n, rt, sendUREP(n, pid, o, n, u, m))
      /\ \A x, y : Supported(n, rt, broadcastInfoFrame(n, pid, x, y))
  BY DEF Supported, sendUREQ, sendUREP, broadcastInfoFrame, Originate, Subject, Carrying
<1>2. /\ \A o, u, m : Supported(n, rt, sendUERR(n, pid, o, u, m))
      /\ \A m, u, o : Supported(n, rt, moveUserReqFrame(n, pid, m, u, o))
      /\ \A d, u, v : Supported(n, rt, pubKeyReqFrame(n, pid, d, u, v))
      /\ \A o, u, m : Supported(n, rt, sendPubKeyResp(n, pid, o, u, m))
  BY DEF Supported, sendUERR, moveUserReqFrame, pubKeyReqFrame, sendPubKeyResp, Originate,
         Teaching, Carrying
<1>3. \A m, d : rt[d] # NoRoute => Supported(n, rt, userMsgFrame(n, m, rt[d].nextHop, d))
  BY DEF Supported, userMsgFrame, Originate, Teaching, Final
<1> QED BY <1>1, <1>2, <1>3

(* The packet types that are not RERR. *)
LEMMA NoReports ==
    ASSUME NEW n, NEW pid
    PROVE  /\ \A d : sendRREQ(n, pid, d).packetType # "RERR"
           /\ \A o, d, m, h : sendRREP(n, pid, o, d, m, h).packetType # "RERR"
           /\ \A d, p : sendACK(n, pid, d, p).packetType # "RERR"
           /\ \A m, d, x : dataFrame(n, pid, m, d, x).packetType # "RERR"
           /\ \A u : sendUREQ(n, pid, u).packetType # "RERR"
           /\ \A o, d, u, m : sendUREP(n, pid, o, d, u, m).packetType # "RERR"
           /\ \A o, u, m : sendUERR(n, pid, o, u, m).packetType # "RERR"
           /\ \A m, u, o : moveUserReqFrame(n, pid, m, u, o).packetType # "RERR"
           /\ \A d, u, v : pubKeyReqFrame(n, pid, d, u, v).packetType # "RERR"
           /\ \A o, u, m : sendPubKeyResp(n, pid, o, u, m).packetType # "RERR"
           /\ \A x, y : broadcastInfoFrame(n, pid, x, y).packetType # "RERR"
           /\ \A m, d, h : userMsgFrame(n, m, h, d).packetType # "RERR"
BY DEF sendRREQ, sendRREP, sendACK, dataFrame, sendUREQ, sendUREP, sendUERR, moveUserReqFrame,
       pubKeyReqFrame, sendPubKeyResp, broadcastInfoFrame, userMsgFrame, Originate

(* A frame sent on. *)
LEMMA ForwardSupported ==
    ASSUME NEW n \in Node, NEW f \in MeshFrame, NEW m, NEW rt,
           f.packetType \notin {"RREP"} \cup Carrying,
           f.packetType \in Teaching =>
               \/ Subject(f) = n
               \/ /\ rt[Subject(f)] # NoRoute
                  /\ rt[Subject(f)].hopcount <= HopPlusOne(Claimed(f))
    PROVE  Supported(n, rt, Forwarded(n, f, m))
<1> DEFINE g == Forwarded(n, f, m)
<1>1. /\ g.packetType = f.packetType
      /\ g.originNodeID = f.originNodeID
      /\ g.prevHopID = n
      /\ g.hopCount = HopPlusOne(f.hopCount)
      /\ g.ext = f.ext
  BY MeshForwarded
<1>2. Subject(g) = Subject(f) /\ Claimed(g) = HopPlusOne(Claimed(f))
  BY <1>1 DEF Subject, Claimed
<1> HIDE DEF g
<1>3. Supported(n, rt, g)
  BY <1>1, <1>2 DEF Supported
<1> QED BY <1>3 DEF g

(* A packet carried on along the table. *)
LEMMA CarrySupported ==
    ASSUME NEW n \in Node, NEW f \in MeshFrame, f.packetType \in Carrying, NEW rt,
           rt[Final(f)] # NoRoute
    PROVE  Supported(n, rt, Forwarded(n, f, rt[Final(f)].nextHop))
<1> DEFINE g == Forwarded(n, f, rt[Final(f)].nextHop)
<1>1. /\ g.packetType = f.packetType
      /\ g.prevHopID = n
      /\ g.destNodeID = rt[Final(f)].nextHop
      /\ g.ext = f.ext
  BY MeshForwarded
<1>2. Final(g) = Final(f)
  BY <1>1 DEF Final
<1> HIDE DEF g
<1>3. Supported(n, rt, g)
  BY <1>1, <1>2 DEF Supported, Carrying, Teaching
<1> QED BY <1>3 DEF g

(* What sendUserMessage sends for some messages. *)
LEMMA ResendSupported ==
    ASSUME NEW n, NEW rt, NEW g, NEW ms, NEW k
    PROVE  \A h \in Resend(n, rt, g, ms, k) : Supported(n, rt, h) /\ h.packetType # "RERR"
<1> DEFINE frameOf(i) ==
             IF ~HasHome(g, ms[i]) THEN sendUREQ(n, NewID(n, k + i), ms[i].toUserID)
             ELSE IF rt[g[ms[i].toUserID]] = NoRoute
             THEN sendRREQ(n, NewID(n, k + i), g[ms[i].toUserID])
             ELSE userMsgFrame(n, ms[i], rt[g[ms[i].toUserID]].nextHop, g[ms[i].toUserID])
<1>1. ASSUME NEW i \in DOMAIN ms
      PROVE  Supported(n, rt, frameOf(i)) /\ frameOf(i).packetType # "RERR"
  BY OriginatesSupported, UserOriginatesSupported, NoReports
<1>2. Resend(n, rt, g, ms, k) = {frameOf(i) : i \in DOMAIN ms}
  BY DEF Resend
<1> HIDE DEF frameOf
<1> QED BY <1>1, <1>2

-----------------------------------------------------------------------------
(* What every step does to the routes. *)

(* A step that takes the node's table to rt and sends out. *)
LEMMA MovesBy ==
    ASSUME NEW n \in Node, NEW rt \in Table, NEW out,
           routeTable' = [routeTable EXCEPT ![n] = rt], RouteChange(n, rt),
           air' \subseteq air \cup OnAir(n, out),
           \A g \in out : \/ Kept(n, g)
                          \/ /\ Supported(n, rt, g)
                             /\ g.packetType = "RERR" => Harmless(g) \/ Trouble(n),
           \A m \in Node : \A e \in ackBuffer'[m] :
               Kept(m, e.frame) \/ (m = n /\ Supported(n, rt, e.frame)),
           \A m \in Node : sender'[m].step \in {"transmit", "store"} =>
               Kept(m, sender'[m].frame) \/ (m = n /\ Supported(n, rt, sender'[m].frame)),
           restarts' \in {restarts, restarts + 1}
    PROVE  Moves(n)
BY DEF Moves

(* What was kept before the step is kept. *)
LEMMA StillKept ==
    /\ UNCHANGED ackBuffer =>
           \A m \in Node : \A e \in ackBuffer'[m] : Kept(m, e.frame)
    /\ UNCHANGED sender =>
           \A m \in Node : sender'[m].step \in {"transmit", "store"} =>
               Kept(m, sender'[m].frame)
BY DEF Kept

(* A handler that keeps no frame. *)
LEMMA HandlerMoves ==
    ASSUME NEW n \in Node, NEW f, NEW rt \in Table, NEW out, Learn(n, rt), RouteChange(n, rt),
           Emit(n, f, out),
           \A g \in out : /\ Supported(n, rt, g)
                          /\ g.packetType = "RERR" => Harmless(g) \/ Trouble(n),
           UNCHANGED <<ackBuffer, sender, restarts>>
    PROVE  Moves(n)
<1>1. air' \subseteq air \cup OnAir(n, out)
  BY DEF Emit
<1> QED BY <1>1, MovesBy, StillKept DEF Learn

(* A step that leaves the routes alone. *)
LEMMA SameTable ==
    ASSUME RoutesTyped, NEW n \in Node, UNCHANGED routeTable
    PROVE  \E rt \in Table : /\ rt = routeTable[n]
                             /\ Learn(n, rt)
                             /\ RouteChange(n, rt)
<1>1. routeTable[n] \in Table
  BY DEF RoutesTyped
<1>2. PICK rt \in Table : rt = routeTable[n]
  BY <1>1
<1>3. Learn(n, rt)
  BY <1>2 DEF Learn, RoutesTyped
<1> QED BY <1>2, <1>3 DEF RouteChange

(* handleRREQ *)
LEMMA RREQMoves ==
    ASSUME RoutesTyped, HopsFit, NEW n \in Node, NEW f \in RREQFrame, <<n, f>> \in air,
           f.prevHopID # n, HandleRREQ(n, f)
    PROVE  Moves(n)
<1>1. /\ f \in MeshFrame
      /\ f.packetType = "RREQ"
      /\ f.packetType \in Teaching
      /\ f.packetType \notin {"RREP"} \cup Carrying
      /\ Subject(f) = f.originNodeID
      /\ Claimed(f) = f.hopCount
      /\ f.ext.RREQDestNodeID \in Node
  BY DEF MeshFrame, Frame, RREQFrame, FrameOf, Teaching, Carrying, Subject, Claimed
<1>2. PICK rt : rt = LearnRoutes(routeTable[n], f.originNodeID, f.prevHopID,
                                 HopPlusOne(f.hopCount))
  OBVIOUS
<1>3. /\ rt \in Table
      /\ RouteChange(n, rt)
      /\ rt[Subject(f)] # NoRoute
      /\ rt[Subject(f)].hopcount <= HopPlusOne(Claimed(f))
  BY <1>1, <1>2, LearnsClaim
<1> DEFINE target == f.ext.RREQDestNodeID
           reply(h) == sendRREP(n, NewID(n, 1), f.originNodeID, target, f.prevHopID, h)
<1>4. /\ Learn(n, rt)
      /\ \/ target = n /\ Emit(n, f, {reply(0)})
         \/ rt[target] # NoRoute /\ Emit(n, f, {reply(rt[target].hopcount)})
         \/ Emit(n, f, {Forwarded(n, f, BROADCAST_ADDR)})
      /\ UNCHANGED <<ackBuffer, sender, restarts>>
  BY <1>2 DEF HandleRREQ, Learn
<1>5. Forwarded(n, f, BROADCAST_ADDR).packetType # "RERR"
  BY <1>1, MeshForwarded
<1>6. Supported(n, rt, Forwarded(n, f, BROADCAST_ADDR))
  BY <1>1, <1>3, ForwardSupported
<1>7. target = n => Supported(n, rt, reply(0))
  BY OriginatesSupported
<1>8. rt[target] # NoRoute => Supported(n, rt, reply(rt[target].hopcount))
  <2>1. rt[target] # NoRoute => rt[target].hopcount <= rt[target].hopcount
    <3>1. rt[target] # NoRoute => rt[target].hopcount \in Int
      <4> HIDE DEF target
      <4> QED BY <1>1, <1>3, RouteType DEF HopCount, target
    <3> QED BY <3>1
  <2> QED BY <2>1, OriginatesSupported
<1>9. \A h : reply(h).packetType # "RERR"
  BY NoReports
<1> HIDE DEF reply
<1>10. PICK out : Emit(n, f, out) /\ \A g \in out : Supported(n, rt, g) /\ g.packetType # "RERR"
  BY <1>4, <1>5, <1>6, <1>7, <1>8, <1>9
<1> QED BY <1>3, <1>4, <1>10, HandlerMoves

(* handleRERR: a RERR that erases makes trouble. *)
LEMMA RERRMoves ==
    ASSUME RoutesTyped, HopsFit, NEW n \in Node, NEW f \in RERRFrame, <<n, f>> \in air,
           AddressedTo(n, f), HandleRERR(n, f)
    PROVE  Moves(n)
<1> DEFINE e == f.ext
<1>1. PICK rt : rt = IF e.brokenNodeID # e.reporterNodeID
                     THEN invalidateRoute(routeTable[n], e.brokenNodeID, e.originalDestNodeID)
                     ELSE removeItemRoutingTable(routeTable[n], e.originalDestNodeID)
  OBVIOUS
<1>2. /\ f \in MeshFrame
      /\ f.packetType = "RERR"
      /\ f.packetType \notin Teaching
      /\ f.packetType \notin {"RREP"} \cup Carrying
      /\ routeTable[n] \in Table
  BY DEF MeshFrame, Frame, RERRFrame, FrameOf, Teaching, Carrying, RoutesTyped
<1>3. rt \in Table
  BY <1>1, <1>2 DEF invalidateRoute, removeItemRoutingTable, Table
<1>4. \A d \in Node : rt[d] \in {NoRoute, routeTable[n][d]}
  BY <1>1 DEF invalidateRoute, removeItemRoutingTable
<1>5. Harmless(f) => rt = routeTable[n]
  <2> SUFFICES ASSUME Harmless(f)
               PROVE  rt = routeTable[n]
    OBVIOUS
  <2>1. rt = [d \in Node |-> routeTable[n][d]]
    <3>1. rt = removeItemRoutingTable(routeTable[n], Undecipherable) /\ Undecipherable \notin Node
      BY <1>1, ModelValues DEF Harmless
    <3> QED BY <3>1 DEF removeItemRoutingTable
  <2> QED BY <1>2, <2>1 DEF Table
<1>6. ~Harmless(f) => Trouble(n)
  BY <1>2 DEF Trouble
<1>7. RouteChange(n, rt)
  BY <1>4, <1>5, <1>6 DEF RouteChange
<1>8. /\ Learn(n, rt)
      /\ UNCHANGED <<ackBuffer, sender, restarts>>
      /\ \E m : Emit(n, f, {}) \/ Emit(n, f, {Forwarded(n, f, m)})
  BY <1>1 DEF HandleRERR, Learn
<1>9. PICK m : Emit(n, f, {}) \/ Emit(n, f, {Forwarded(n, f, m)})
  BY <1>8
<1>10. Supported(n, rt, Forwarded(n, f, m))
  BY <1>2, ForwardSupported
<1>11. Harmless(Forwarded(n, f, m)) \/ Trouble(n)
  <2>1. Forwarded(n, f, m).ext = f.ext
    BY <1>2, MeshForwarded
  <2> QED BY <1>6, <2>1 DEF Harmless
<1>12. PICK out : /\ Emit(n, f, out)
                  /\ \A g \in out : Supported(n, rt, g) /\ (Harmless(g) \/ Trouble(n))
  BY <1>9, <1>10, <1>11
<1> QED BY <1>3, <1>7, <1>8, <1>12, HandlerMoves

(* Frames added to the ACK buffer. *)
LEMMA StoredKept ==
    ASSUME RouterTyped, NEW n \in Node, NEW g, UNCHANGED ackBuffer \/ StoreIfRouted(n, g)
    PROVE  \A m \in Node : \A e \in ackBuffer'[m] : Kept(m, e.frame) \/ (m = n /\ e.frame = g)
<1>1. ASSUME NEW m \in Node, NEW e \in ackBuffer'[m]
      PROVE  e \in ackBuffer[m] \/ (m = n /\ e.frame = g)
  <2>1. CASE UNCHANGED ackBuffer
    BY <1>1, <2>1
  <2>2. CASE ackBuffer' = [ackBuffer EXCEPT ![n] = storeAckPacket(n, g)]
    BY <1>1, <2>2 DEF storeAckPacket, RouterTyped
  <2> QED BY <2>1, <2>2 DEF StoreIfRouted
<1> QED BY <1>1 DEF Kept

(* A handler that leaves the routes alone and may keep one frame it sends. *)
LEMMA CarrierMoves ==
    ASSUME RouterTyped, NEW n \in Node, NEW f, NEW out, NEW k,
           UNCHANGED <<routeTable, sender, restarts>>, Emit(n, f, out),
           UNCHANGED ackBuffer \/ StoreIfRouted(n, k),
           \A rt : rt = routeTable[n] =>
               /\ UNCHANGED ackBuffer \/ Supported(n, rt, k)
               /\ \A g \in out : /\ Supported(n, rt, g)
                                 /\ g.packetType = "RERR" => Harmless(g) \/ Trouble(n)
    PROVE  Moves(n)
<1>1. PICK rt \in Table : rt = routeTable[n] /\ Learn(n, rt) /\ RouteChange(n, rt)
  BY SameTable DEF RouterTyped
<1>2. /\ UNCHANGED ackBuffer \/ Supported(n, rt, k)
      /\ \A g \in out : /\ Supported(n, rt, g)
                        /\ g.packetType = "RERR" => Harmless(g) \/ Trouble(n)
  BY <1>1
<1>3. air' \subseteq air \cup OnAir(n, out)
  BY DEF Emit
<1>4. \A m \in Node : \A e \in ackBuffer'[m] :
          Kept(m, e.frame) \/ (m = n /\ Supported(n, rt, e.frame))
  BY <1>2, StoredKept, StillKept
<1> QED BY <1>1, <1>2, <1>3, <1>4, MovesBy, StillKept DEF Learn

(* handleData: a packet that cannot be forwarded makes trouble. *)
LEMMA DATAMoves ==
    ASSUME RouterTyped, NEW n \in Node, NEW f \in DATAFrame, <<n, f>> \in air,
           AddressedTo(n, f), HandleData(n, f)
    PROVE  Moves(n)
<1>1. /\ f \in MeshFrame
      /\ f.packetType = "DATA"
      /\ f.packetType \in Carrying
      /\ Final(f) = f.ext.finalDestID
  BY DEF MeshFrame, Frame, DATAFrame, FrameOf, Carrying, Final
<1>2. UNCHANGED <<routeTable, sender, restarts>>
  BY DEF HandleData, DeliverData, RelayBroadcast, ForwardData, RejectData
<1>3. \A rt : \A g \in AckOf(n, f) : Supported(n, rt, g) /\ g.packetType # "RERR"
  BY OriginatesSupported, NoReports DEF AckOf
<1>4. CASE DeliverData(n, f)
  <2>1. Emit(n, f, AckOf(n, f)) /\ UNCHANGED ackBuffer
    BY <1>4 DEF DeliverData
  <2> QED BY <1>2, <1>3, <2>1, CarrierMoves
<1>5. CASE RelayBroadcast(n, f)
  <2>1. PICK k : k = Forwarded(n, f, BROADCAST_ADDR)
    OBVIOUS
  <2>2. /\ Emit(n, f, AckOf(n, f) \cup {k})
        /\ UNCHANGED ackBuffer
        /\ Final(f) = BROADCAST_ADDR
    BY <1>1, <1>5, <2>1 DEF RelayBroadcast
  <2>3. \A rt : Supported(n, rt, k) /\ k.packetType # "RERR"
    <3>1. k.packetType = "DATA" /\ k.prevHopID = n /\ k.ext = f.ext
      BY <1>1, <2>1, MeshForwarded
    <3> QED BY <1>1, <2>2, <3>1 DEF Supported, Teaching, Final
  <2>4. \A rt : \A g \in AckOf(n, f) \cup {k} : Supported(n, rt, g) /\ g.packetType # "RERR"
    BY <1>3, <2>3
  <2> QED BY <1>2, <2>2, <2>4, CarrierMoves
<1>6. CASE ForwardData(n, f)
  <2>1. PICK k : k = Forwarded(n, f, routeTable[n][Final(f)].nextHop)
    OBVIOUS
  <2>2. /\ Emit(n, f, AckOf(n, f) \cup {k}) \/ Emit(n, f, AckOf(n, f))
        /\ UNCHANGED ackBuffer \/ StoreIfRouted(n, k)
        /\ routeTable[n][Final(f)] # NoRoute
    BY <1>1, <1>6, <2>1 DEF ForwardData
  <2>3. \A rt : rt = routeTable[n] => Supported(n, rt, k) /\ k.packetType # "RERR"
    BY <1>1, <2>1, <2>2, CarrySupported, MeshForwarded
  <2>4. PICK out : Emit(n, f, out) /\ out \subseteq AckOf(n, f) \cup {k}
    BY <2>2
  <2>5. \A rt : rt = routeTable[n] =>
            \A g \in out : Supported(n, rt, g) /\ g.packetType # "RERR"
    BY <1>3, <2>3, <2>4
  <2> QED BY <1>2, <2>2, <2>3, <2>4, <2>5, CarrierMoves
<1>7. CASE RejectData(n, f)
  <2>1. PICK k : k = sendRERR(n, NewID(n, AcksDrawn(f) + 1), n, f.originNodeID,
                              f.ext.finalDestID, f.packetID)
    OBVIOUS
  <2>2. /\ Emit(n, f, AckOf(n, f) \cup {k})
        /\ UNCHANGED ackBuffer
        /\ Final(f) \notin {n, BROADCAST_ADDR}
        /\ routeTable[n][Final(f)] = NoRoute
    BY <1>1, <1>7, <2>1 DEF RejectData
  <2>3. Trouble(n)
    BY <1>1, <2>2 DEF Trouble
  <2>4. \A rt : Supported(n, rt, k)
    BY <2>1, OriginatesSupported
  <2>5. \A rt : \A g \in AckOf(n, f) \cup {k} : Supported(n, rt, g)
    BY <1>3, <2>4
  <2> QED BY <1>2, <2>2, <2>3, <2>5, CarrierMoves
<1> QED BY <1>4, <1>5, <1>6, <1>7 DEF HandleData

(* handleUREQ *)
LEMMA UREQMoves ==
    ASSUME RoutesTyped, HopsFit, NEW n \in Node, NEW f \in UREQFrame, <<n, f>> \in air,
           f.prevHopID # n, HandleUREQ(n, f)
    PROVE  Moves(n)
<1>1. /\ f \in MeshFrame
      /\ f.packetType = "UREQ"
      /\ f.packetType \in Teaching
      /\ f.packetType \notin {"RREP"} \cup Carrying
      /\ Subject(f) = f.originNodeID
      /\ Claimed(f) = f.hopCount
  BY DEF MeshFrame, UserFrame, UREQFrame, FrameOf, Teaching, Carrying, Subject, Claimed
<1>2. PICK rt : rt = LearnFromUREQ(n, f)
  OBVIOUS
<1>3. /\ rt \in Table
      /\ RouteChange(n, rt)
      /\ rt[Subject(f)] # NoRoute
      /\ rt[Subject(f)].hopcount <= HopPlusOne(Claimed(f))
  BY <1>1, <1>2, LearnsClaim DEF LearnFromUREQ
<1> DEFINE reply == sendUREP(n, NewID(n, 1), f.originNodeID, n, f.ext.userID, f.prevHopID)
<1>4. /\ Learn(n, rt)
      /\ Emit(n, f, {reply}) \/ Emit(n, f, {Forwarded(n, f, BROADCAST_ADDR)})
      /\ UNCHANGED <<ackBuffer, sender, restarts>>
  BY <1>2 DEF HandleUREQ, quietVars
<1>5. Forwarded(n, f, BROADCAST_ADDR).packetType # "RERR"
  BY <1>1, MeshForwarded
<1>6. Supported(n, rt, Forwarded(n, f, BROADCAST_ADDR))
  BY <1>1, <1>3, ForwardSupported
<1>7. Supported(n, rt, reply) /\ reply.packetType # "RERR"
  BY UserOriginatesSupported, NoReports
<1> HIDE DEF reply
<1>8. PICK out : Emit(n, f, out) /\ \A g \in out : Supported(n, rt, g) /\ g.packetType # "RERR"
  BY <1>4, <1>5, <1>6, <1>7
<1> QED BY <1>3, <1>4, <1>8, HandlerMoves

(* What a node sends towards where an answer goes. *)
LEMMA OnwardSupported ==
    ASSUME NEW n \in Node, NEW f \in MeshFrame, NEW d, NEW rt,
           f.packetType \notin {"RREP", "RERR"} \cup Carrying,
           f.packetType \in Teaching =>
               \/ Subject(f) = n
               \/ /\ rt[Subject(f)] # NoRoute
                  /\ rt[Subject(f)].hopcount <= HopPlusOne(Claimed(f))
    PROVE  \A g \in Onward(n, f, rt, d) : Supported(n, rt, g) /\ g.packetType # "RERR"
<1>1. \A m : Supported(n, rt, Forwarded(n, f, m)) /\ Forwarded(n, f, m).packetType # "RERR"
  BY ForwardSupported, MeshForwarded
<1> QED BY <1>1 DEF Onward

(* handleUREP *)
LEMMA UREPMoves ==
    ASSUME RoutesTyped, HopsFit, NEW n \in Node, NEW f \in UREPFrame, <<n, f>> \in air,
           f.prevHopID # n, HandleUREP(n, f)
    PROVE  Moves(n)
<1>1. /\ f \in MeshFrame
      /\ f.packetType = "UREP"
      /\ f.packetType \in Teaching
      /\ f.packetType \notin {"RREP", "RERR"} \cup Carrying
      /\ Subject(f) = f.ext.destNodeID
      /\ Claimed(f) = f.hopCount
  BY DEF MeshFrame, UserFrame, UREPFrame, FrameOf, Teaching, Carrying, Subject, Claimed
<1>2. PICK rt : rt = LearnFromUREP(n, f)
  OBVIOUS
<1>3. /\ rt \in Table
      /\ RouteChange(n, rt)
      /\ rt[Subject(f)] # NoRoute
      /\ rt[Subject(f)].hopcount <= HopPlusOne(Claimed(f))
  BY <1>1, <1>2, LearnsClaim DEF LearnFromUREP
<1> DEFINE g == [gut[n] EXCEPT ![f.ext.userID] = f.ext.destNodeID]
           pending == userMsgBuffer[n][f.ext.userID]
<1>4. /\ Learn(n, rt)
      /\ \/ Emit(n, f, Resend(n, rt, g, pending, 0))
         \/ Emit(n, f, Onward(n, f, rt, f.originNodeID))
      /\ UNCHANGED <<ackBuffer, sender, restarts>>
  BY <1>2 DEF HandleUREP, quietVars
<1> HIDE DEF g, pending
<1>5. \A h \in Resend(n, rt, g, pending, 0) : Supported(n, rt, h) /\ h.packetType # "RERR"
  BY ResendSupported
<1>6. \A h \in Onward(n, f, rt, f.originNodeID) : Supported(n, rt, h) /\ h.packetType # "RERR"
  BY <1>1, <1>3, OnwardSupported
<1>7. PICK out : Emit(n, f, out) /\ \A h \in out : Supported(n, rt, h) /\ h.packetType # "RERR"
  BY <1>4, <1>5, <1>6
<1> QED BY <1>3, <1>4, <1>7, HandlerMoves

(* handleUERR *)
LEMMA UERRMoves ==
    ASSUME RoutesTyped, NEW n \in Node, NEW f \in UERRFrame, <<n, f>> \in air,
           f.prevHopID # n, HandleUERR(n, f)
    PROVE  Moves(n)
<1>1. /\ f \in MeshFrame
      /\ f.packetType = "UERR"
      /\ f.packetType \notin Teaching
      /\ f.packetType \notin {"RREP", "RERR"} \cup Carrying
  BY DEF MeshFrame, UserFrame, UERRFrame, FrameOf, Teaching, Carrying
<1>2. PICK rt : rt = updateRoute(routeTable[n], f.prevHopID, f.prevHopID, 1)
  OBVIOUS
<1>3. rt \in Table /\ RouteChange(n, rt)
  BY <1>1, <1>2, NearChange
<1>4. /\ Learn(n, rt)
      /\ \/ Emit(n, f, {})
         \/ Emit(n, f, Onward(n, f, rt, f.originNodeID))
      /\ UNCHANGED <<ackBuffer, sender, restarts>>
  BY <1>2 DEF HandleUERR, quietVars
<1>5. \A h \in Onward(n, f, rt, f.originNodeID) : Supported(n, rt, h) /\ h.packetType # "RERR"
  BY <1>1, OnwardSupported
<1>6. PICK out : Emit(n, f, out) /\ \A h \in out : Supported(n, rt, h) /\ h.packetType # "RERR"
  BY <1>4, <1>5
<1> QED BY <1>3, <1>4, <1>6, HandlerMoves

(* handleMoveUserReq *)
LEMMA MoveUserMoves ==
    ASSUME RoutesTyped, NEW n \in Node, NEW f \in MoveUserReqFrame, <<n, f>> \in air,
           f.prevHopID # n, HandleMoveUserReq(n, f)
    PROVE  Moves(n)
<1>1. /\ f \in MeshFrame
      /\ f.packetType = "MOVE_USER_REQ"
      /\ f.packetType \notin Teaching
      /\ f.packetType \notin {"RREP", "RERR"} \cup Carrying
  BY DEF MeshFrame, UserFrame, MoveUserReqFrame, FrameOf, Teaching, Carrying
<1>2. PICK rt : rt = updateRoute(routeTable[n], f.prevHopID, f.prevHopID, 1)
  OBVIOUS
<1>3. rt \in Table /\ RouteChange(n, rt)
  BY <1>1, <1>2, NearChange
<1>4. /\ Learn(n, rt)
      /\ \/ \E g, ms : Emit(n, f, Resend(n, rt, g, ms, 0))
         \/ Emit(n, f, Onward(n, f, rt, f.ext.destNodeID))
      /\ UNCHANGED <<ackBuffer, sender, restarts>>
  BY <1>2 DEF HandleMoveUserReq, quietVars
<1>5. \A h \in Onward(n, f, rt, f.ext.destNodeID) : Supported(n, rt, h) /\ h.packetType # "RERR"
  BY <1>1, OnwardSupported
<1>6. PICK out : Emit(n, f, out) /\ \A h \in out : Supported(n, rt, h) /\ h.packetType # "RERR"
  <2>1. CASE \E g, ms : Emit(n, f, Resend(n, rt, g, ms, 0))
    BY <2>1, ResendSupported
  <2> QED BY <1>4, <1>5, <2>1
<1> QED BY <1>3, <1>4, <1>6, HandlerMoves

(* handlePubKeyReq and handlePubKeyResp *)
LEMMA PubKeyMoves ==
    ASSUME RoutesTyped, NEW n \in Node, NEW f \in MeshFrame,
           \/ f.packetType = "PUBKEY_REQ" /\ HandlePubKeyReq(n, f)
           \/ f.packetType = "PUBKEY_RESP" /\ HandlePubKeyResp(n, f)
    PROVE  Moves(n)
<1>1. /\ f.packetType \notin Teaching
      /\ f.packetType \notin {"RREP", "RERR"} \cup Carrying
  BY DEF Teaching, Carrying
<1>2. UNCHANGED routeTable
  BY DEF HandlePubKeyReq, HandlePubKeyResp
<1>3. PICK rt \in Table : rt = routeTable[n] /\ Learn(n, rt) /\ RouteChange(n, rt)
  BY <1>2, SameTable
<1>4. UNCHANGED <<ackBuffer, sender, restarts>>
  BY DEF HandlePubKeyReq, HandlePubKeyResp, quietVars
<1>5. \E o, u, m : \/ Emit(n, f, {sendPubKeyResp(n, NewID(n, 1), o, u, m)})
                   \/ Emit(n, f, Repeated(n, f))
                   \/ Emit(n, f, {})
                   \/ Emit(n, f, Onward(n, f, rt, f.originNodeID))
  <2>1. CASE HandlePubKeyReq(n, f)
    BY <2>1 DEF HandlePubKeyReq
  <2>2. CASE HandlePubKeyResp(n, f)
    BY <1>3, <2>2 DEF HandlePubKeyResp
  <2> QED BY <2>1, <2>2
<1>6. \A h \in Onward(n, f, rt, f.originNodeID) : Supported(n, rt, h) /\ h.packetType # "RERR"
  BY <1>1, OnwardSupported
<1>7. \A h \in Repeated(n, f) : Supported(n, rt, h) /\ h.packetType # "RERR"
  BY <1>1, ForwardSupported, MeshForwarded DEF Repeated
<1>8. \A o, u, m : /\ Supported(n, rt, sendPubKeyResp(n, NewID(n, 1), o, u, m))
                   /\ sendPubKeyResp(n, NewID(n, 1), o, u, m).packetType # "RERR"
  BY UserOriginatesSupported DEF sendPubKeyResp, Originate
<1>9. PICK out : Emit(n, f, out) /\ \A h \in out : Supported(n, rt, h) /\ h.packetType # "RERR"
  BY <1>5, <1>6, <1>7, <1>8
<1> QED BY <1>3, <1>4, <1>9, HandlerMoves

(* handleBroadcastInfo *)
LEMMA BroadcastMoves ==
    ASSUME RoutesTyped, HopsFit, NEW n \in Node, NEW f \in BroadcastInfoFrame, <<n, f>> \in air,
           f.prevHopID # n, HandleBroadcastInfo(n, f)
    PROVE  Moves(n)
<1>1. /\ f \in MeshFrame
      /\ f.packetType = "BROADCAST_INFO"
      /\ f.packetType \in Teaching
      /\ f.packetType \notin {"RREP", "RERR"} \cup Carrying
      /\ Subject(f) = f.originNodeID
      /\ Claimed(f) = f.hopCount
  BY DEF MeshFrame, UserFrame, BroadcastInfoFrame, FlaggedFrame, Teaching, Carrying, Subject,
         Claimed
<1> DEFINE near == updateRoute(routeTable[n], f.prevHopID, f.prevHopID, 1)
           far == updateRoute(near, f.originNodeID, f.prevHopID, HopPlusOne(f.hopCount))
<1>2. PICK rt : rt = IF f.originNodeID = n THEN near ELSE far
  OBVIOUS
<1>3. near \in Table /\ RouteChange(n, near)
  BY <1>1, NearChange
<1>4. /\ far \in Table
      /\ RouteChange(n, far)
      /\ far[Subject(f)] # NoRoute
      /\ far[Subject(f)].hopcount <= HopPlusOne(Claimed(f))
  <2>1. /\ Subject(f) \in Node
        /\ f.prevHopID \in Node
        /\ HopPlusOne(Claimed(f)) \in HopCount
        /\ 1 <= HopPlusOne(Claimed(f))
        /\ routeTable[n] \in Table
    BY <1>1, TeachingFields, TeachingFits DEF RoutesTyped
  <2>2. PICK q \in Table : q = routeTable[n]
    BY <2>1
  <2>3. PICK h \in HopCount : h = HopPlusOne(Claimed(f))
    BY <2>1
  <2>4. PICK new : new = updateRoute(updateRoute(q, f.prevHopID, f.prevHopID, 1),
                                     f.originNodeID, f.prevHopID, h)
    OBVIOUS
  <2>5. /\ Learned(q, new, f.prevHopID, f.originNodeID, h)
        /\ new[f.originNodeID] # NoRoute
        /\ new[f.originNodeID].hopcount <= h
    BY <1>1, <2>1, <2>3, <2>4, LearnsFar
  <2>6. far = new
    BY <1>1, <2>2, <2>3, <2>4
  <2> HIDE DEF far
  <2>7. RouteChange(n, far)
    BY <1>1, <2>2, <2>3, <2>5, <2>6 DEF RouteChange, Heard
  <2> QED BY <1>1, <2>3, <2>5, <2>6, <2>7 DEF Learned
<1>5. /\ Learn(n, rt)
      /\ Emit(n, f, Repeated(n, f))
      /\ UNCHANGED <<ackBuffer, sender, restarts>>
  BY <1>2 DEF HandleBroadcastInfo, quietVars
<1> HIDE DEF near, far
<1>6. rt \in Table /\ RouteChange(n, rt)
  BY <1>2, <1>3, <1>4
<1>7. \/ Subject(f) = n
      \/ /\ rt[Subject(f)] # NoRoute
         /\ rt[Subject(f)].hopcount <= HopPlusOne(Claimed(f))
  BY <1>1, <1>2, <1>4
<1>8. \A h \in Repeated(n, f) : Supported(n, rt, h) /\ h.packetType # "RERR"
  <2>1. Supported(n, rt, Forwarded(n, f, f.destNodeID))
    BY <1>1, <1>7, ForwardSupported
  <2> QED BY <1>1, <2>1, MeshForwarded DEF Repeated
<1> QED BY <1>5, <1>6, <1>8, HandlerMoves

(* handleUserMessage: a message that cannot be forwarded makes trouble. *)
LEMMA UserMessageMoves ==
    ASSUME RouterTyped, NEW n \in Node, NEW f \in UserMsgFrame, <<n, f>> \in air,
           AddressedTo(n, f), HandleUserMessage(n, f)
    PROVE  Moves(n)
<1>1. /\ f \in MeshFrame
      /\ f.packetType = "USER_MSG"
      /\ f.packetType \in Carrying
      /\ Final(f) = f.ext.toNodeID
      /\ Final(f) # BROADCAST_ADDR
  <2>1. f \in MeshFrame /\ f.packetType = "USER_MSG" /\ f.ext.toNodeID \in Node
    BY DEF MeshFrame, UserFrame, UserMsgFrame, FlaggedFrame
  <2> QED BY <2>1, ModelValues DEF Carrying, Final
<1>2. UNCHANGED <<routeTable, sender, restarts>>
  BY DEF HandleUserMessage, quietVars
<1>3. \A rt : \A g \in HopAck(n, f) : Supported(n, rt, g) /\ g.packetType # "RERR"
  BY OriginatesSupported, NoReports DEF HopAck
<1>4. CASE TakeForUplink(n, f) \/ DeliverUserMessage(n, f)
  <2>1. /\ Emit(n, f, HopAck(n, f)) \/ Emit(n, f, {})
        /\ UNCHANGED ackBuffer
    BY <1>4 DEF TakeForUplink, DeliverUserMessage
  <2>2. PICK out : Emit(n, f, out) /\ out \subseteq HopAck(n, f)
    BY <2>1
  <2>3. \A rt : \A g \in out : Supported(n, rt, g) /\ g.packetType # "RERR"
    BY <1>3, <2>2
  <2> QED BY <1>2, <2>1, <2>2, <2>3, CarrierMoves
<1>5. CASE RefuseUserMessage(n, f)
  <2>1. PICK k : k = sendUERR(n, NewID(n, HopAcksDrawn(f) + 1), f.originNodeID,
                              f.ext.toUserID, f.prevHopID)
    OBVIOUS
  <2>2. Emit(n, f, HopAck(n, f) \cup {k}) /\ UNCHANGED ackBuffer
    BY <1>5, <2>1 DEF RefuseUserMessage
  <2>3. \A rt : Supported(n, rt, k) /\ k.packetType # "RERR"
    BY <2>1, UserOriginatesSupported, NoReports
  <2>4. \A rt : \A g \in HopAck(n, f) \cup {k} : Supported(n, rt, g) /\ g.packetType # "RERR"
    BY <1>3, <2>3
  <2> QED BY <1>2, <2>2, <2>4, CarrierMoves
<1>6. CASE ForwardUserMessage(n, f)
  <2>1. PICK k : k = Forwarded(n, f, routeTable[n][Final(f)].nextHop)
    OBVIOUS
  <2>2. /\ Emit(n, f, HopAck(n, f) \cup {k}) \/ Emit(n, f, HopAck(n, f))
        /\ UNCHANGED ackBuffer \/ StoreIfRouted(n, k)
        /\ routeTable[n][Final(f)] # NoRoute
    BY <1>1, <1>6, <2>1 DEF ForwardUserMessage
  <2>3. \A rt : rt = routeTable[n] => Supported(n, rt, k) /\ k.packetType # "RERR"
    BY <1>1, <2>1, <2>2, CarrySupported, MeshForwarded
  <2>4. PICK out : Emit(n, f, out) /\ out \subseteq HopAck(n, f) \cup {k}
    BY <2>2
  <2>5. \A rt : rt = routeTable[n] =>
            \A g \in out : Supported(n, rt, g) /\ g.packetType # "RERR"
    BY <1>3, <2>3, <2>4
  <2> QED BY <1>2, <2>2, <2>3, <2>4, <2>5, CarrierMoves
<1>7. CASE RejectUserMessage(n, f)
  <2>1. PICK k : k = sendRERR(n, NewID(n, HopAcksDrawn(f) + 1), n, f.originNodeID,
                              f.ext.toNodeID, f.packetID)
    OBVIOUS
  <2>2. /\ Emit(n, f, HopAck(n, f) \cup {k})
        /\ UNCHANGED ackBuffer
        /\ Final(f) \notin {n, BROADCAST_ADDR}
        /\ routeTable[n][Final(f)] = NoRoute
    BY <1>1, <1>7, <2>1 DEF RejectUserMessage
  <2>3. Trouble(n)
    BY <1>1, <2>2 DEF Trouble
  <2>4. \A rt : Supported(n, rt, k)
    BY <2>1, OriginatesSupported
  <2>5. \A rt : \A g \in HopAck(n, f) \cup {k} : Supported(n, rt, g)
    BY <1>3, <2>4
  <2> QED BY <1>2, <2>2, <2>3, <2>5, CarrierMoves
<1> QED BY <1>4, <1>5, <1>6, <1>7 DEF HandleUserMessage

(* handleRREP, with what waited for the route. *)
LEMMA RREPMoves ==
    ASSUME RoutesTyped, HopsFit, NEW n \in Node, NEW f \in RREPFrame, <<n, f>> \in air,
           f.prevHopID # n, FlushRREP(n, f)
    PROVE  Moves(n)
<1>1. /\ f \in MeshFrame
      /\ f.packetType = "RREP"
      /\ f.packetType \in Teaching
      /\ Subject(f) = f.ext.RREPDestNodeID
      /\ Claimed(f) = f.ext.numHops
  BY DEF MeshFrame, Frame, RREPFrame, FrameOf, Teaching, Subject, Claimed
<1>2. PICK rt : rt = LearnFromRREP(n, f)
  OBVIOUS
<1>3. /\ rt \in Table
      /\ RouteChange(n, rt)
      /\ rt[Subject(f)] # NoRoute
      /\ rt[Subject(f)].hopcount <= HopPlusOne(Claimed(f))
  BY <1>1, <1>2, LearnsClaim DEF LearnFromRREP
<1> DEFINE target == f.ext.RREPDestNodeID
           nextHop == rt[target].nextHop
           moved == moveReqBuffer[n][target]
           pending == userRouteBuffer[n][target]
           back == rt[f.originNodeID]
           sentOn == [Forwarded(n, f, back.nextHop) EXCEPT !.ext.numHops = HopPlusOne(@)]
           onward == IF n = f.originNodeID \/ back = NoRoute THEN {} ELSE {sentOn}
           out == UNION {flushDataQueue(n, target, nextHop),
                         flushMoveReqBuffer(n, moved, target, nextHop),
                         Resend(n, rt, gut[n], pending, Len(moved)),
                         onward}
<1>4. Emit(n, f, out)
  BY <1>2 DEF FlushRREP
<1>5. Learn(n, rt) /\ UNCHANGED <<ackBuffer, sender, restarts>>
  BY <1>2 DEF FlushRREP
<1>6. \A g \in flushDataQueue(n, target, nextHop) : Supported(n, rt, g) /\ g.packetType # "RERR"
  <2>1. \A pid : /\ Supported(n, rt, dataFrame(n, pid, nextHop, target, "NONE"))
                 /\ dataFrame(n, pid, nextHop, target, "NONE").packetType # "RERR"
    BY <1>1, <1>3, OriginatesSupported, NoReports
  <2> QED BY <2>1 DEF flushDataQueue
<1>7. \A g \in flushMoveReqBuffer(n, moved, target, nextHop) :
          Supported(n, rt, g) /\ g.packetType # "RERR"
  BY UserOriginatesSupported, NoReports DEF flushMoveReqBuffer
<1>8. \A g \in Resend(n, rt, gut[n], pending, Len(moved)) :
          Supported(n, rt, g) /\ g.packetType # "RERR"
  BY ResendSupported
<1>9. Supported(n, rt, sentOn) /\ sentOn.packetType # "RERR"
  <2>1. PICK h : h = HopPlusOne(Claimed(f))
    OBVIOUS
  <2>2. sentOn = [Forwarded(n, f, back.nextHop) EXCEPT !.ext.numHops = h]
    <3>1. Forwarded(n, f, back.nextHop).ext = f.ext
      BY <1>1, MeshForwarded
    <3> QED BY <1>1, <2>1, <3>1
  <2>3. /\ sentOn.packetType = "RREP"
        /\ sentOn.prevHopID = n
        /\ sentOn.ext.RREPDestNodeID = f.ext.RREPDestNodeID
        /\ sentOn.ext.numHops = h
    <3> DEFINE g == [Forwarded(n, f, back.nextHop) EXCEPT !.ext.numHops = h]
    <3>1. /\ g.packetType = "RREP"
          /\ g.packetID = f.packetID
          /\ g.originNodeID = f.originNodeID
          /\ g.prevHopID = n
          /\ g.destNodeID = back.nextHop
          /\ g.ext.RREPDestNodeID = f.ext.RREPDestNodeID
          /\ g.ext.numHops = h
          /\ back.nextHop \in Address /\ h \in HopCount => g \in RREPFrame
      BY ReplyForwarded
    <3> HIDE DEF sentOn
    <3> QED BY <2>2, <3>1
  <2> HIDE DEF sentOn
  <2>4. Subject(sentOn) = Subject(f) /\ Claimed(sentOn) = h
    BY <1>1, <2>3 DEF Subject, Claimed
  <2>5. Supported(n, rt, sentOn)
    BY <1>3, <2>1, <2>3, <2>4 DEF Supported, Carrying
  <2> QED BY <2>3, <2>5
<1> HIDE DEF target, nextHop, moved, pending, sentOn
<1>10. \A g \in out : Supported(n, rt, g) /\ g.packetType # "RERR"
  BY <1>6, <1>7, <1>8, <1>9
<1> HIDE DEF out
<1> QED BY <1>3, <1>4, <1>5, <1>10, HandlerMoves

(* A step that consumes a frame and at most forgets what it kept. *)
LEMMA QuietMoves ==
    ASSUME RoutesTyped, NEW n \in Node, UNCHANGED <<routeTable, sender>>, air' \subseteq air,
           restarts' \in {restarts, restarts + 1},
           \A m \in Node : ackBuffer'[m] \subseteq ackBuffer[m]
    PROVE  Moves(n)
<1>1. PICK rt \in Table : rt = routeTable[n] /\ Learn(n, rt) /\ RouteChange(n, rt)
  BY SameTable
<1>2. PICK out : out = {}
  OBVIOUS
<1>3. air' \subseteq air \cup OnAir(n, out)
  OBVIOUS
<1>4. \A m \in Node : \A e \in ackBuffer'[m] :
          Kept(m, e.frame) \/ (m = n /\ Supported(n, rt, e.frame))
  BY DEF Kept
<1>5. \A m \in Node : sender'[m].step \in {"transmit", "store"} =>
          Kept(m, sender'[m].frame) \/ (m = n /\ Supported(n, rt, sender'[m].frame))
  BY StillKept
<1>6. \A g \in out : \/ Kept(n, g)
                    \/ /\ Supported(n, rt, g)
                       /\ g.packetType = "RERR" => Harmless(g) \/ Trouble(n)
  BY <1>2
<1> QED BY <1>1, <1>3, <1>4, <1>5, <1>6, MovesBy DEF Learn

(* A reboot. *)
LEMMA RebootMoves ==
    ASSUME RouterTyped, NEW n \in Node, LoseState(n), air' \subseteq air,
           restarts' \in {restarts, restarts + 1}, MQTTNode # Node \/ restarts' # 0
    PROVE  Moves(n)
<1>1. PICK rt : rt = [d \in Node |-> NoRoute]
  OBVIOUS
<1>2. rt \in Table
  BY <1>1 DEF Table
<1>3. RouteChange(n, rt)
  BY <1>1 DEF RouteChange
<1>4. routeTable' = [routeTable EXCEPT ![n] = rt]
  BY <1>1 DEF LoseState
<1>5. \A m \in Node : \A e \in ackBuffer'[m] : Kept(m, e.frame)
  BY DEF LoseState, Kept, RouterTyped
<1>6. \A m \in Node : sender'[m].step \in {"transmit", "store"} => Kept(m, sender'[m].frame)
  <2>1. ASSUME NEW m \in Node, sender'[m].step \in {"transmit", "store"}
        PROVE  sender'[m] = sender[m]
    BY <2>1 DEF LoseState, Idle, RouterTyped
  <2> QED BY <2>1 DEF Kept
<1>7. PICK out : out = {}
  OBVIOUS
<1>8. air' \subseteq air \cup OnAir(n, out)
  OBVIOUS
<1>9. \A g \in out : \/ Kept(n, g)
                    \/ /\ Supported(n, rt, g)
                       /\ g.packetType = "RERR" => Harmless(g) \/ Trouble(n)
  BY <1>7
<1> QED BY <1>2, <1>3, <1>4, <1>5, <1>6, <1>8, <1>9, MovesBy

(* handlePacket *)
LEMMA PacketMoves ==
    ASSUME UserTyped, HopsFit, NEW n \in Node, NEW f \in MeshFrame, <<n, f>> \in air,
           UserHandlePacket(n, f)
    PROVE  Moves(n)
<1>1. RouterTyped /\ RoutesTyped
  BY DEF UserTyped, RouterTyped
<1>2. CASE tryImplicitAck(n, f)
  <2>1. /\ UNCHANGED <<routeTable, sender, restarts>>
        /\ air' \subseteq air
        /\ \A m \in Node : ackBuffer'[m] \subseteq ackBuffer[m]
    BY <1>1, <1>2 DEF tryImplicitAck, RouterTyped
  <2> QED BY <1>1, <2>1, QuietMoves
<1>3. CASE DropDuplicate(n, f) \/ Overhear(n, f)
  <2>1. /\ UNCHANGED <<routeTable, sender, restarts, ackBuffer>>
        /\ air' \subseteq air
    BY <1>3 DEF DropDuplicate, Overhear
  <2> QED BY <1>1, <2>1, QuietMoves
<1>4. CASE f.packetType = "ACK" /\ HandleACK(n, f)
  <2>1. /\ UNCHANGED <<routeTable, sender, restarts>>
        /\ air' \subseteq air
        /\ \A m \in Node : ackBuffer'[m] \subseteq ackBuffer[m]
    BY <1>1, <1>4 DEF HandleACK, Emit, OnAir, RouterTyped
  <2> QED BY <1>1, <2>1, QuietMoves
<1>5. CASE f.packetType # "RREP" /\ HandleFrame(n, f)
  <2>1. AddressedTo(n, f) /\ f.prevHopID # n
    BY <1>5 DEF HandleFrame, AddressedTo
  <2>2. CASE f.packetType = "RREQ" /\ HandleRREQ(n, f)
    BY <1>1, <2>1, <2>2, RREQMoves, MeshKinds
  <2>3. CASE f.packetType = "RERR" /\ HandleRERR(n, f)
    BY <1>1, <2>1, <2>3, RERRMoves, MeshKinds
  <2>4. CASE f.packetType = "DATA" /\ HandleData(n, f)
    BY <1>1, <2>1, <2>4, DATAMoves, MeshKinds
  <2> QED BY <1>4, <1>5, <2>2, <2>3, <2>4 DEF HandleFrame
<1>6. CASE AddressedTo(n, f) /\ UserHandler(n, f)
  <2>1. f.prevHopID # n
    BY <1>6 DEF AddressedTo
  <2>2. CASE f.packetType = "UREQ" /\ HandleUREQ(n, f)
    BY <1>1, <2>1, <2>2, UREQMoves, MeshKinds
  <2>3. CASE f.packetType = "UREP" /\ HandleUREP(n, f)
    BY <1>1, <2>1, <2>3, UREPMoves, MeshKinds
  <2>4. CASE f.packetType = "UERR" /\ HandleUERR(n, f)
    BY <1>1, <2>1, <2>4, UERRMoves, MeshKinds
  <2>5. CASE f.packetType = "USER_MSG" /\ HandleUserMessage(n, f)
    BY <1>1, <1>6, <2>5, UserMessageMoves, MeshKinds
  <2>6. CASE \/ f.packetType = "PUBKEY_REQ" /\ HandlePubKeyReq(n, f)
             \/ f.packetType = "PUBKEY_RESP" /\ HandlePubKeyResp(n, f)
    BY <1>1, <2>6, PubKeyMoves
  <2>7. CASE f.packetType = "MOVE_USER_REQ" /\ HandleMoveUserReq(n, f)
    BY <1>1, <2>1, <2>7, MoveUserMoves, MeshKinds
  <2>8. CASE f.packetType = "BROADCAST_INFO" /\ HandleBroadcastInfo(n, f)
    BY <1>1, <2>1, <2>8, BroadcastMoves, MeshKinds
  <2>9. CASE f.packetType = "RREP" /\ FlushRREP(n, f)
    BY <1>1, <2>1, <2>9, RREPMoves, MeshKinds
  <2> QED BY <1>6, <2>2, <2>3, <2>4, <2>5, <2>6, <2>7, <2>8, <2>9 DEF UserHandler
<1>7. CASE CrashOnRERR(n, f)
  <2>1. MQTTNode # Node
    BY <1>7 DEF CrashOnRERR, DereferencesNull
  <2>2. LoseState(n) /\ air' \subseteq air /\ UNCHANGED restarts
    BY <1>7 DEF CrashOnRERR
  <2> QED BY <1>1, <2>1, <2>2, RebootMoves
<1> QED BY <1>2, <1>3, <1>5, <1>6, <1>7 DEF UserHandlePacket

(* A step of another task, which leaves the routes alone. *)
LEMMA TaskMoves ==
    ASSUME RouterTyped, NEW n \in Node, NEW out, NEW s, UNCHANGED <<routeTable, restarts>>,
           air' \subseteq air \cup OnAir(n, out),
           sender' = [sender EXCEPT ![n] = s],
           s.step \in {"transmit", "store"} =>
               Kept(n, s.frame) \/ \A rt : rt = routeTable[n] => Supported(n, rt, s.frame),
           \A g \in out :
               Kept(n, g) \/ \A rt : rt = routeTable[n] =>
                                 /\ Supported(n, rt, g)
                                 /\ g.packetType = "RERR" => Harmless(g),
           \A m \in Node : \A e \in ackBuffer'[m] : Kept(m, e.frame)
    PROVE  Moves(n)
<1>1. PICK rt \in Table : rt = routeTable[n] /\ Learn(n, rt) /\ RouteChange(n, rt)
  BY SameTable DEF RouterTyped
<1>2. \A m \in Node : sender'[m].step \in {"transmit", "store"} =>
          Kept(m, sender'[m].frame) \/ (m = n /\ Supported(n, rt, sender'[m].frame))
  <2>1. ASSUME NEW m \in Node, sender'[m].step \in {"transmit", "store"}
        PROVE  Kept(m, sender'[m].frame) \/ (m = n /\ Supported(n, rt, sender'[m].frame))
    <3>1. CASE m = n
      <4>1. sender'[m] = s
        BY <3>1 DEF RouterTyped
      <4> QED BY <1>1, <2>1, <3>1, <4>1
    <3>2. CASE m # n
      <4>1. sender'[m] = sender[m]
        BY <3>2 DEF RouterTyped
      <4> QED BY <2>1, <4>1 DEF Kept
    <3> QED BY <3>1, <3>2
  <2> QED BY <2>1
<1>3. \A g \in out : \/ Kept(n, g)
                    \/ /\ Supported(n, rt, g)
                       /\ g.packetType = "RERR" => Harmless(g) \/ Trouble(n)
  BY <1>1
<1>4. \A m \in Node : \A e \in ackBuffer'[m] :
          Kept(m, e.frame) \/ (m = n /\ Supported(n, rt, e.frame))
  OBVIOUS
<1> QED BY <1>1, <1>2, <1>3, <1>4, MovesBy DEF Learn

(* The application task, in sendData. *)
LEMMA ApplicationMoves ==
    ASSUME RouterTyped, NEW n \in Node, ApplicationTask(n)
    PROVE  Moves(n)
<1>0. /\ Idle.step = "idle"
      /\ sender[n] \in MeshSending
      /\ sender = [sender EXCEPT ![n] = sender[n]]
  BY DEF Idle, RouterTyped
<1>1. ASSUME NEW r \in Requests, sendData(n, r)
      PROVE  Moves(n)
  <2>0. UNCHANGED <<routeTable, restarts, ackBuffer>>
    BY <1>1 DEF sendData
  <2>1. \A m \in Node : \A e \in ackBuffer'[m] : Kept(m, e.frame)
    BY <2>0, StillKept
  <2>2. CASE r.to = BROADCAST_ADDR
    <3>1. PICK g : g = dataFrame(n, NewID(n, 1), BROADCAST_ADDR, BROADCAST_ADDR, r.flags)
      OBVIOUS
    <3>2. \A rt : Supported(n, rt, g) /\ g.packetType # "RERR"
      BY <3>1, OriginatesSupported, NoReports
    <3>3. air' = air \cup OnAir(n, {g}) /\ sender' = sender
      BY <1>1, <2>2, <3>1 DEF sendData
    <3>4. sender[n].step \in {"transmit", "store"} => Kept(n, sender[n].frame)
      BY DEF Kept
    <3>5. PICK out : out = {g}
      OBVIOUS
    <3> QED BY <1>0, <2>0, <2>1, <3>2, <3>3, <3>4, <3>5, TaskMoves
  <2>3. CASE r.to # BROADCAST_ADDR
    <3>1. PICK s : s = IF routeTable[n][r.to] = NoRoute
                       THEN [step |-> "buffer", packetID |-> NewID(n, 1), dest |-> r.to]
                       ELSE [step |-> "transmit",
                             frame |-> dataFrame(n, NewID(n, 1), routeTable[n][r.to].nextHop,
                                                 r.to, r.flags)]
      OBVIOUS
    <3>2. sender' = [sender EXCEPT ![n] = s] /\ air' = air
      BY <1>1, <2>3, <3>1 DEF sendData
    <3>3. s.step \in {"transmit", "store"} =>
              \A rt : rt = routeTable[n] => Supported(n, rt, s.frame)
      BY <3>1, OriginatesSupported
    <3>4. PICK out : out = {}
      OBVIOUS
    <3>5. air' \subseteq air \cup OnAir(n, out)
      BY <3>2
    <3>6. \A g \in out : Kept(n, g)
      BY <3>4
    <3> QED BY <2>0, <2>1, <3>2, <3>3, <3>5, <3>6, TaskMoves
  <2> QED BY <2>2, <2>3
<1>2. CASE SendDataBuffer(n)
  <2>1. PICK g : g = sendRREQ(n, NewID(n, 1), sender[n].dest)
    OBVIOUS
  <2>2. \A rt : Supported(n, rt, g) /\ g.packetType # "RERR"
    BY <2>1, OriginatesSupported, NoReports
  <2>3. PICK out : out = {g}
    OBVIOUS
  <2>4. /\ UNCHANGED <<routeTable, restarts, ackBuffer>>
        /\ air' \subseteq air \cup OnAir(n, out)
        /\ sender' = [sender EXCEPT ![n] = Idle]
    BY <1>2, <2>1, <2>3 DEF SendDataBuffer
  <2>5. \A m \in Node : \A e \in ackBuffer'[m] : Kept(m, e.frame)
    BY <2>4, StillKept
  <2>6. \A h \in out :
            Kept(n, h) \/ \A rt : rt = routeTable[n] =>
                              /\ Supported(n, rt, h)
                              /\ h.packetType = "RERR" => Harmless(h)
    BY <2>2, <2>3
  <2> QED BY <1>0, <2>2, <2>3, <2>4, <2>5, <2>6, TaskMoves
<1>3. CASE SendDataTransmit(n)
  <2>1. PICK s : s = IF MustStore(sender[n].frame) THEN [sender[n] EXCEPT !.step = "store"]
                     ELSE Idle
    OBVIOUS
  <2>2. PICK out : out = {sender[n].frame}
    OBVIOUS
  <2>3. /\ UNCHANGED <<routeTable, restarts, ackBuffer>>
        /\ air' \subseteq air \cup OnAir(n, out)
        /\ sender' = [sender EXCEPT ![n] = s]
        /\ sender[n].step = "transmit"
    BY <1>3, <2>1, <2>2 DEF SendDataTransmit
  <2>4. Kept(n, sender[n].frame)
    BY <2>3 DEF Kept
  <2>5. s.step \in {"transmit", "store"} => s.frame = sender[n].frame
    BY <1>0, <2>1, <2>3 DEF MeshSending
  <2>6. \A m \in Node : \A e \in ackBuffer'[m] : Kept(m, e.frame)
    BY <2>3, StillKept
  <2>7. \A h \in out :
            Kept(n, h) \/ \A rt : rt = routeTable[n] =>
                              /\ Supported(n, rt, h)
                              /\ h.packetType = "RERR" => Harmless(h)
    BY <2>2, <2>4
  <2> QED BY <2>2, <2>3, <2>4, <2>5, <2>6, <2>7, TaskMoves
<1>4. CASE SendDataDrop(n) \/ SendDataStore(n)
  <2>1. PICK out : out = {}
    OBVIOUS
  <2>2. /\ UNCHANGED <<routeTable, restarts, air>>
        /\ UNCHANGED ackBuffer \/ StoreIfRouted(n, sender[n].frame)
        /\ sender' = [sender EXCEPT ![n] = Idle]
        /\ sender[n].step \in {"transmit", "store"}
    BY <1>4 DEF SendDataDrop, SendDataStore
  <2>3. \A m \in Node : \A e \in ackBuffer'[m] : Kept(m, e.frame)
    <3>1. Kept(n, sender[n].frame)
      BY <2>2 DEF Kept
    <3> QED BY <2>2, <3>1, StoredKept
  <2>4. air' \subseteq air \cup OnAir(n, out)
    BY <2>2
  <2>5. \A g \in out : Kept(n, g)
    BY <2>1
  <2> QED BY <1>0, <2>2, <2>3, <2>4, <2>5, TaskMoves
<1> QED BY <1>1, <1>2, <1>3, <1>4 DEF ApplicationTask

(* The timer worker sends what is kept, and reports that erase nothing. *)
LEMMA TimerMoves ==
    ASSUME RouterTyped, NEW n \in Node, TimerWorker(n)
    PROVE  Moves(n)
<1>0. sender = [sender EXCEPT ![n] = sender[n]]
  BY DEF RouterTyped
<1>1. sender[n].step \in {"transmit", "store"} => Kept(n, sender[n].frame)
  BY DEF Kept
<1>2. CASE CleanupAckBuffer(n)
  <2>1. PICK due \in SUBSET ackBuffer[n] :
            /\ ackBuffer' = [ackBuffer EXCEPT ![n] =
                   (@ \ due) \cup {Retried(e) : e \in {x \in due : MayRetry(x)}}]
            /\ air' = air \cup OnAir(n, {e.frame : e \in {x \in due : MayRetry(x)}})
    BY <1>2 DEF CleanupAckBuffer
  <2>2. PICK out : out = {e.frame : e \in {x \in due : MayRetry(x)}}
    OBVIOUS
  <2>3. \A g \in out : Kept(n, g)
    BY <2>2 DEF Kept
  <2>4. \A m \in Node : \A e \in ackBuffer'[m] : \E x \in ackBuffer[m] : e.frame = x.frame
    <3>1. \A x \in ackBuffer[n] : Retried(x).frame = x.frame
      <4>1. ackBuffer[n] \subseteq KeptEntry
        BY DEF RouterTyped
      <4> QED BY <4>1 DEF Retried, KeptEntry
    <3>2. ASSUME NEW m \in Node, NEW e \in ackBuffer'[m]
          PROVE  \E x \in ackBuffer[m] : e.frame = x.frame
      <4>1. CASE m # n
        <5>1. ackBuffer'[m] = ackBuffer[m]
          BY <2>1, <4>1 DEF RouterTyped
        <5> QED BY <3>2, <5>1
      <4>2. CASE m = n
        <5>1. ackBuffer'[m] = (ackBuffer[n] \ due)
                                  \cup {Retried(x) : x \in {y \in due : MayRetry(y)}}
          BY <2>1, <4>2 DEF RouterTyped
        <5>2. e \in ackBuffer[n] \/ \E x \in due : e = Retried(x)
          BY <3>2, <5>1
        <5> QED BY <3>1, <4>2, <5>2
      <4> QED BY <4>1, <4>2
    <3> QED BY <3>2
  <2>5. \A m \in Node : \A e \in ackBuffer'[m] : Kept(m, e.frame)
    BY <2>4 DEF Kept
  <2>6. /\ UNCHANGED <<routeTable, restarts, sender>>
        /\ air' \subseteq air \cup OnAir(n, out)
    BY <1>2, <2>1, <2>2 DEF CleanupAckBuffer
  <2> QED BY <1>0, <1>1, <2>3, <2>5, <2>6, TaskMoves
<1>3. CASE ReportExpired(n)
  <2>1. PICK e \in expired[n] :
            air' = air \cup OnAir(n, {sendRERR(n, NewID(n, 1), n, e.frame.originNodeID,
                                               Undecipherable, e.frame.packetID)})
    BY <1>3 DEF ReportExpired
  <2>2. PICK g : g = sendRERR(n, NewID(n, 1), n, e.frame.originNodeID, Undecipherable,
                              e.frame.packetID)
    OBVIOUS
  <2>3. \A rt : Supported(n, rt, g)
    BY <2>2, OriginatesSupported
  <2>4. Harmless(g)
    BY <2>2 DEF Harmless, sendRERR, Originate
  <2>5. PICK out : out = {g}
    OBVIOUS
  <2>6. /\ UNCHANGED <<routeTable, restarts, sender, ackBuffer>>
        /\ air' \subseteq air \cup OnAir(n, out)
    BY <1>3, <2>1, <2>2, <2>5 DEF ReportExpired
  <2>7. \A m \in Node : \A x \in ackBuffer'[m] : Kept(m, x.frame)
    BY <2>6, StillKept
  <2> QED BY <1>0, <1>1, <2>3, <2>4, <2>5, <2>6, <2>7, TaskMoves
<1> QED BY <1>2, <1>3 DEF TimerWorker

(* sendUserMessage: the message goes along the route that was read. *)
LEMMA SendUserMoves ==
    ASSUME UserTyped, NEW n \in Node, sendUserMessage(n)
    PROVE  Moves(n)
<1>0. /\ Idle.step = "idle"
      /\ sender[n] \in MeshSending
      /\ RouterTyped
  BY DEF Idle, UserTyped, RouterTyped
<1>1. ASSUME NEW s, Start(n, s), UNCHANGED <<routeTable, ackBuffer, restarts>>,
             UNCHANGED air \/ \/ \E u : air' = air \cup OnAir(n, {sendUREQ(n, NewID(n, 1), u)})
                              \/ \E d : air' = air \cup OnAir(n, {sendRREQ(n, NewID(n, 1), d)}),
             s.step \in {"transmit", "store"} =>
                 \A rt : rt = routeTable[n] => Supported(n, rt, s.frame)
      PROVE  Moves(n)
  <2>1. PICK out : /\ air' \subseteq air \cup OnAir(n, out)
                   /\ \A g \in out : \A rt : Supported(n, rt, g) /\ g.packetType # "RERR"
    <3>1. \A u : \A rt : /\ Supported(n, rt, sendUREQ(n, NewID(n, 1), u))
                         /\ sendUREQ(n, NewID(n, 1), u).packetType # "RERR"
      BY UserOriginatesSupported, NoReports
    <3>2. \A d : \A rt : /\ Supported(n, rt, sendRREQ(n, NewID(n, 1), d))
                         /\ sendRREQ(n, NewID(n, 1), d).packetType # "RERR"
      BY OriginatesSupported, NoReports
    <3>3. CASE UNCHANGED air
      <4>1. PICK out : out = {}
        OBVIOUS
      <4> QED BY <3>3, <4>1
    <3>4. CASE \E u : air' = air \cup OnAir(n, {sendUREQ(n, NewID(n, 1), u)})
      <4>1. PICK u : air' = air \cup OnAir(n, {sendUREQ(n, NewID(n, 1), u)})
        BY <3>4
      <4>2. PICK out : out = {sendUREQ(n, NewID(n, 1), u)}
        OBVIOUS
      <4> QED BY <3>1, <4>1, <4>2
    <3>5. CASE \E d : air' = air \cup OnAir(n, {sendRREQ(n, NewID(n, 1), d)})
      <4>1. PICK d : air' = air \cup OnAir(n, {sendRREQ(n, NewID(n, 1), d)})
        BY <3>5
      <4>2. PICK out : out = {sendRREQ(n, NewID(n, 1), d)}
        OBVIOUS
      <4> QED BY <3>2, <4>1, <4>2
    <3> QED BY <1>1, <3>3, <3>4, <3>5
  <2>2. \A m \in Node : \A e \in ackBuffer'[m] : Kept(m, e.frame)
    BY <1>1, StillKept
  <2> QED BY <1>0, <1>1, <2>1, <2>2, TaskMoves DEF Start
<1>2. CASE AnyGateway(n)
  <2>1. PICK s : Start(n, s) /\ s.step \notin {"transmit", "store"}
    <3>1. [sender[n] EXCEPT !.step = "gateway"].step = "gateway"
      BY <1>0, <1>2 DEF AnyGateway, MeshSending
    <3> QED BY <1>0, <1>2, <3>1 DEF AnyGateway
  <2> QED BY <1>1, <1>2, <2>1 DEF AnyGateway, SendingLeaves
<1>3. CASE PickGateway(n)
  <2>1. PICK s : Start(n, s) /\ s.step \notin {"transmit", "store"}
    BY <1>3 DEF PickGateway
  <2> QED BY <1>1, <1>3, <2>1 DEF PickGateway, SendingLeaves
<1>4. CASE PickNoGateway(n)
  <2>1. LoseState(n) /\ air' \subseteq air /\ restarts' = restarts + 1
    BY <1>4 DEF PickNoGateway, Reboot
  <2>2. restarts' # 0
    BY <1>0, <2>1 DEF RouterTyped
  <2> QED BY <1>0, <2>1, <2>2, RebootMoves
<1>5. CASE ReadHome(n)
  <2>1. PICK s : Start(n, s) /\ s.step \notin {"transmit", "store"}
    BY <1>5 DEF ReadHome
  <2> QED BY <1>1, <1>5, <2>1 DEF ReadHome, SendingLeaves
<1>6. CASE ReadRoute(n)
  <2>1. PICK d, m, s : /\ d = sender[n].dest
                       /\ m = sender[n].msg
                       /\ s = IF routeTable[n][d] = NoRoute
                              THEN [sender[n] EXCEPT !.step = "askRoute"]
                              ELSE [step |-> "transmit",
                                    frame |-> userMsgFrame(n, m, routeTable[n][d].nextHop, d)]
    OBVIOUS
  <2>2. Start(n, s)
    BY <1>6, <2>1 DEF ReadRoute
  <2>3. s.step \in {"transmit", "store"} =>
            \A rt : rt = routeTable[n] => Supported(n, rt, s.frame)
    <3>1. [sender[n] EXCEPT !.step = "askRoute"].step = "askRoute"
      BY <1>0, <1>6 DEF ReadRoute, MeshSending
    <3> QED BY <2>1, <3>1, UserOriginatesSupported
  <2> QED BY <1>1, <1>6, <2>2, <2>3 DEF ReadRoute, SendingLeaves
<1>7. CASE AskHome(n)
  BY <1>0, <1>1, <1>7 DEF AskHome, SendingLeaves
<1>8. CASE AskRoute(n)
  BY <1>0, <1>1, <1>8 DEF AskRoute, SendingLeaves
<1> QED BY <1>2, <1>3, <1>4, <1>5, <1>6, <1>7, <1>8 DEF sendUserMessage

(* A step that leaves the router as it is. *)
LEMMA StillMoves ==
    ASSUME RouterTyped, NEW n \in Node, UNCHANGED <<routeTable, ackBuffer, sender, air, restarts>>
    PROVE  Moves(n)
<1>1. \A m \in Node : ackBuffer'[m] \subseteq ackBuffer[m]
  OBVIOUS
<1> QED BY <1>1, QuietMoves DEF RouterTyped

(* Frames sent from outside. *)
LEMMA SendingMoves ==
    ASSUME RouterTyped, NEW n \in Node, UNCHANGED <<routeTable, ackBuffer, sender, restarts>>,
           NEW out, air' = air \cup OnAir(n, out),
           \A g \in out : \A rt : rt = routeTable[n] =>
               Supported(n, rt, g) /\ g.packetType # "RERR"
    PROVE  Moves(n)
<1>1. sender' = [sender EXCEPT ![n] = sender[n]]
  BY DEF RouterTyped
<1>2. sender[n].step \in {"transmit", "store"} => Kept(n, sender[n].frame)
  BY DEF Kept
<1>3. \A m \in Node : \A e \in ackBuffer'[m] : Kept(m, e.frame)
  BY StillKept
<1>4. air' \subseteq air \cup OnAir(n, out)
  OBVIOUS
<1>5. \A h \in out :
          Kept(n, h) \/ \A rt : rt = routeTable[n] =>
                            /\ Supported(n, rt, h)
                            /\ h.packetType = "RERR" => Harmless(h)
  OBVIOUS
<1> QED BY <1>1, <1>2, <1>3, <1>4, <1>5, TaskMoves

(* The packets of a broadcast. *)
LEMMA DiffSupported ==
    ASSUME NEW n, NEW pid, NEW rt, NEW added, NEW removed
    PROVE  \A g \in DiffPackets(n, pid, added, removed) :
               Supported(n, rt, g) /\ g.packetType # "RERR"
<1>1. \A x, y : /\ Supported(n, rt, broadcastInfoFrame(n, pid, x, y))
                /\ broadcastInfoFrame(n, pid, x, y).packetType # "RERR"
  BY UserOriginatesSupported, NoReports
<1>2. \A g \in DiffPackets(n, pid, added, removed) :
          \E x, y : g = broadcastInfoFrame(n, pid, x, y)
  BY DEF DiffPackets
<1> QED BY <1>1, <1>2

(* What comes from outside. *)
LEMMA OutsideMoves ==
    ASSUME RouterTyped, NEW n \in Node, Outside(n)
    PROVE  Moves(n)
<1>1. PICK c : \/ MessageCall(n, c)
               \/ MoveCall(n, c)
               \/ KeyCall(n, c)
               \/ AnnounceCall(n, c)
               \/ LeaveCall(n, c)
               \/ BroadcastCall(n, c)
               \/ UplinkCall(n, c)
               \/ RebootCall(n, c)
  BY DEF Outside
<1>2. CASE MessageCall(n, c)
  <2>1. UNCHANGED <<routeTable, ackBuffer, air, restarts>>
    BY <1>2 DEF MessageCall
  <2>2. PICK s : Start(n, s) /\ s.step \notin {"transmit", "store"}
    <3>1. Idle.step = "idle"
      BY DEF Idle
    <3>2. CASE sender' = sender
      <4>1. sender[n] = Idle /\ Start(n, sender[n])
        BY <1>2, <3>2 DEF MessageCall, Start, RouterTyped
      <4> QED BY <3>1, <4>1
    <3>3. CASE Start(n, [step |-> "home", msg |-> Accepted(n, c)])
      BY <3>3
    <3>4. CASE Start(n, [step |-> "anyGateway", msg |-> Accepted(n, c)])
      BY <3>4
    <3> QED BY <1>2, <3>2, <3>3, <3>4 DEF MessageCall
  <2>3. PICK out : out = {}
    OBVIOUS
  <2>4. air' \subseteq air \cup OnAir(n, out)
    BY <2>1
  <2>5. \A g \in out : Kept(n, g)
    BY <2>3
  <2>6. \A m \in Node : \A e \in ackBuffer'[m] : Kept(m, e.frame)
    BY <2>1, StillKept
  <2> QED BY <2>1, <2>2, <2>4, <2>5, <2>6, TaskMoves DEF Start
<1>3. CASE MoveCall(n, c)
  <2>1. PICK d : d = c.oldNodeID
    OBVIOUS
  <2>2. PICK asking : asking = IF routeTable[n][d] = NoRoute
                               THEN sendRREQ(n, NewID(n, 1), d)
                               ELSE moveUserReqFrame(n, NewID(n, 1), routeTable[n][d].nextHop,
                                                     c.user, d)
    OBVIOUS
  <2>3. PICK out : out = {asking}
    OBVIOUS
  <2>4. /\ UNCHANGED <<routeTable, ackBuffer, sender, restarts>>
        /\ air' = air \cup OnAir(n, out)
    BY <1>3, <2>1, <2>2, <2>3 DEF MoveCall
  <2>5. \A rt : Supported(n, rt, asking) /\ asking.packetType # "RERR"
    BY <2>2, OriginatesSupported, UserOriginatesSupported, NoReports
  <2>6. \A g \in out : \A rt : rt = routeTable[n] =>
            Supported(n, rt, g) /\ g.packetType # "RERR"
    BY <2>3, <2>5
  <2> QED BY <2>4, <2>6, SendingMoves
<1>4. CASE KeyCall(n, c)
  <2>1. UNCHANGED <<routeTable, ackBuffer, sender, restarts>>
    BY <1>4 DEF KeyCall
  <2>2. \/ UNCHANGED air
        \/ \E d, u, v : air' = air \cup OnAir(n, {pubKeyReqFrame(n, NewID(n, 1), d, u, v)})
    BY <1>4 DEF KeyCall
  <2>3. CASE UNCHANGED air
    BY <2>1, <2>3, StillMoves
  <2>4. ASSUME NEW d, NEW u, NEW v,
               air' = air \cup OnAir(n, {pubKeyReqFrame(n, NewID(n, 1), d, u, v)})
        PROVE  Moves(n)
    <3>1. PICK out : out = {pubKeyReqFrame(n, NewID(n, 1), d, u, v)}
      OBVIOUS
    <3>2. \A g \in out : \A rt : rt = routeTable[n] =>
              Supported(n, rt, g) /\ g.packetType # "RERR"
      BY <3>1, UserOriginatesSupported, NoReports
    <3>3. air' = air \cup OnAir(n, out)
      BY <2>4, <3>1
    <3> QED BY <2>1, <3>2, <3>3, SendingMoves
  <2> QED BY <2>2, <2>3, <2>4
<1>5. CASE AnnounceCall(n, c) \/ LeaveCall(n, c) \/ UplinkCall(n, c)
  <2>1. UNCHANGED <<routeTable, ackBuffer, sender, air, restarts>>
    BY <1>5 DEF AnnounceCall, LeaveCall, UplinkCall, vars
  <2> QED BY <2>1, StillMoves
<1>6. CASE BroadcastCall(n, c)
  <2>1. PICK added \in SetToSeqs(diff[n].added), removed \in SetToSeqs(diff[n].removed) :
            air' = air \cup OnAir(n, DiffPackets(n, NewID(n, 1), added, removed))
    BY <1>6 DEF BroadcastCall
  <2>2. PICK out : out = DiffPackets(n, NewID(n, 1), added, removed)
    OBVIOUS
  <2>3. \A g \in out : \A rt : rt = routeTable[n] =>
            Supported(n, rt, g) /\ g.packetType # "RERR"
    BY <2>2, DiffSupported
  <2>4. air' = air \cup OnAir(n, out)
    BY <2>1, <2>2
  <2>5. UNCHANGED <<routeTable, ackBuffer, sender, restarts>>
    BY <1>6 DEF BroadcastCall
  <2> QED BY <2>3, <2>4, <2>5, SendingMoves
<1>7. CASE RebootCall(n, c)
  <2>1. LoseState(n) /\ air' \subseteq air /\ restarts' = restarts + 1
    BY <1>7 DEF RebootCall, Reboot
  <2>2. restarts' # 0
    BY <2>1 DEF RouterTyped
  <2> QED BY <2>1, <2>2, RebootMoves
<1> QED BY <1>1, <1>2, <1>3, <1>4, <1>5, <1>6, <1>7

(* Every step of the mesh is a step of one node. *)
LEMMA UserMoves ==
    ASSUME UserTyped, HopsFit, UserNext
    PROVE  \E n \in Node : Moves(n)
<1>1. RouterTyped
  BY DEF UserTyped
<1>2. PICK n \in Node : \/ UserRouterTask(n)
                        \/ sendUserMessage(n)
                        \/ (ApplicationTask(n) \/ TimerWorker(n)) /\ UNCHANGED userVars
                        \/ Outside(n)
  BY DEF UserNext
<1>3. CASE UserRouterTask(n)
  BY <1>1, <1>3, MeshFrames, PacketMoves
<1> QED BY <1>1, <1>2, <1>3, SendUserMoves, ApplicationMoves, TimerMoves, OutsideMoves

-----------------------------------------------------------------------------
(* No route promises fewer hops than there are. *)

ClaimTrue(f) == f.packetType \in Teaching => Dist[f.prevHopID][Subject(f)] <= Claimed(f)

(* Routes are no shorter than the distance, nor is what a frame in the air    *)
(* claims, and it comes from a neighbour; a kept frame carries the node that  *)
(* keeps it as its immediate sender.                                         *)
UserHopInv ==
    /\ \A n \in Node : TruthfulTable(n, routeTable[n])
    /\ \A copy \in air : <<copy[2].prevHopID, copy[1]>> \in Link /\ ClaimTrue(copy[2])
    /\ \A n \in Node : \A e \in ackBuffer[n] : e.frame.prevHopID = n
    /\ \A n \in Node : sender[n].step \in {"transmit", "store"} =>
           sender[n].frame.prevHopID = n

(* The distances, and the hop counts, are numbers. *)
LEMMA Numbers ==
    /\ \A m, d \in Node : Dist[m][d] \in Int
    /\ \A m, n, d \in Node : <<m, n>> \in Link => Dist[n][d] <= Dist[m][d] + 1
    /\ \A d \in Node : Dist[d][d] = 0
    /\ \A h \in HopCount : h \in Int /\ 0 <= h
    /\ \A f \in MeshFrame : f.packetType \in Teaching => Claimed(f) \in Int /\ 0 <= Claimed(f)
<1>1. \A h \in HopCount : h \in Int /\ 0 <= h
  BY DEF HopCount
<1>2. \A m, n, d \in Node : <<m, n>> \in Link => Dist[n][d] <= Dist[m][d] + 1
  <2> SUFFICES ASSUME NEW m \in Node, NEW n \in Node, NEW d \in Node, <<m, n>> \in Link
               PROVE  Dist[n][d] <= Dist[m][d] + 1
    OBVIOUS
  <2>1. PICK link \in Link : link = <<m, n>>
    OBVIOUS
  <2>2. link[1] = m /\ link[2] = n
    BY <2>1
  <2> QED BY <2>2, DistAssumption
<1> QED BY <1>1, <1>2, DistAssumption, TeachingFields

(* Learning from a truthful frame of a neighbour. *)
LEMMA LearnedTruthful ==
    ASSUME NEW n \in Node, NEW rt \in Table, NEW new \in Table, TruthfulTable(n, rt),
           NEW p \in Node, <<p, n>> \in Link, NEW dest \in Node, NEW h \in Int,
           Dist[p][dest] < h, Learned(rt, new, p, dest, h)
    PROVE  TruthfulTable(n, new)
<1> SUFFICES ASSUME NEW d \in Node, new[d] # NoRoute
             PROVE  Dist[n][d] <= new[d].hopcount
  BY DEF TruthfulTable
<1>1. CASE new[d] = rt[d]
  BY <1>1 DEF TruthfulTable
<1>2. CASE d = p /\ new[d].hopcount = 1
  <2>1. Dist[n][p] <= Dist[p][p] + 1
    BY Numbers
  <2> QED BY <1>2, <2>1, Numbers
<1>3. CASE d = dest /\ new[d].hopcount = h
  <2>1. Dist[n][dest] <= Dist[p][dest] + 1
    BY Numbers
  <2> QED BY <1>3, <2>1, Numbers
<1> QED BY <1>1, <1>2, <1>3 DEF Learned

(* What a step does to the routes keeps them truthful. *)
LEMMA ChangeTruthful ==
    ASSUME UserTyped, HopsFit, UserHopInv, NEW n \in Node, NEW rt \in Table, RouteChange(n, rt)
    PROVE  TruthfulTable(n, rt)
<1>0. TruthfulTable(n, routeTable[n]) /\ routeTable[n] \in Table
  BY DEF UserHopInv, UserTyped, RouterTyped, RoutesTyped
<1>1. ASSUME NEW f, Heard(n, f)
      PROVE  /\ f \in MeshFrame
             /\ <<n, f>> \in air
             /\ f.prevHopID \in Node
             /\ <<f.prevHopID, n>> \in Link
             /\ ClaimTrue(f)
  <2>1. f \in MeshFrame /\ <<n, f>> \in air
    BY <1>1 DEF Heard
  <2>2. PICK copy \in air : copy = <<n, f>>
    BY <2>1
  <2>3. copy[1] = n /\ copy[2] = f
    BY <2>2
  <2> QED BY <2>1, <2>3, MeshFields DEF UserHopInv
<1>2. CASE rt = routeTable[n]
  BY <1>0, <1>2
<1>3. ASSUME NEW f, Heard(n, f), Learned(routeTable[n], rt, f.prevHopID, f.prevHopID, 1)
      PROVE  TruthfulTable(n, rt)
  <2>1. f.prevHopID \in Node /\ <<f.prevHopID, n>> \in Link
    BY <1>1, <1>3
  <2>2. Dist[f.prevHopID][f.prevHopID] < 1
    BY <2>1, Numbers
  <2> QED BY <1>0, <1>3, <2>1, <2>2, LearnedTruthful
<1>4. ASSUME NEW f, Heard(n, f), f.packetType \in Teaching,
             Learned(routeTable[n], rt, f.prevHopID, Subject(f), HopPlusOne(Claimed(f)))
      PROVE  TruthfulTable(n, rt)
  <2>1. /\ f \in MeshFrame
        /\ <<n, f>> \in air
        /\ f.prevHopID \in Node
        /\ <<f.prevHopID, n>> \in Link
        /\ Dist[f.prevHopID][Subject(f)] <= Claimed(f)
    BY <1>1, <1>4 DEF ClaimTrue
  <2>2. /\ Subject(f) \in Node
        /\ HopPlusOne(Claimed(f)) = Claimed(f) + 1
        /\ Claimed(f) \in Int
    BY <1>4, <2>1, TeachingFields, TeachingFits, Numbers
  <2>3. Dist[f.prevHopID][Subject(f)] < HopPlusOne(Claimed(f)) /\ HopPlusOne(Claimed(f)) \in Int
    BY <2>1, <2>2, Numbers
  <2> QED BY <1>0, <1>4, <2>1, <2>2, <2>3, LearnedTruthful
<1>5. CASE \A d \in Node : rt[d] \in {NoRoute, routeTable[n][d]}
  BY <1>0, <1>5 DEF TruthfulTable
<1> QED BY <1>2, <1>3, <1>4, <1>5 DEF RouteChange

(* A frame that is kept teaches nothing. *)
LEMMA KeptFrames ==
    ASSUME RouterTyped, NEW m \in Node, NEW g, Kept(m, g)
    PROVE  /\ g \in KeptFrame
           /\ g.packetType \in Carrying
           /\ g.packetType \notin Teaching
<1>1. g \in KeptFrame
  <2>1. CASE \E e \in ackBuffer[m] : e.frame = g
    BY <2>1 DEF RouterTyped, KeptEntry
  <2>2. CASE sender[m].step \in {"transmit", "store"} /\ sender[m].frame = g
    <3>1. sender[m] \in MeshSending
      BY DEF RouterTyped
    <3> QED BY <2>2, <3>1 DEF MeshSending, Idle
  <2> QED BY <2>1, <2>2 DEF Kept
<1> QED BY <1>1 DEF KeptFrame, DATAFrame, UserMsgFrame, FrameOf, FlaggedFrame, Teaching, Carrying

(* Every step keeps the invariant. *)
LEMMA UserHopStep ==
    ASSUME UserTyped, UserTyped', HopsFit, UserHopInv, [UserNext]_allVars
    PROVE  UserHopInv'
<1>1. CASE UNCHANGED allVars
  BY <1>1 DEF UserHopInv, allVars, vars, TruthfulTable, ClaimTrue
<1>2. CASE UserNext
  <2>1. PICK n \in Node : Moves(n)
    BY <1>2, UserMoves
  <2>0. PICK rt \in Table : \E out :
            /\ routeTable' = [routeTable EXCEPT ![n] = rt]
            /\ RouteChange(n, rt)
            /\ air' \subseteq air \cup OnAir(n, out)
            /\ \A g \in out : Kept(n, g) \/ Supported(n, rt, g)
            /\ \A m \in Node : \A e \in ackBuffer'[m] :
                   Kept(m, e.frame) \/ (m = n /\ Supported(n, rt, e.frame))
            /\ \A m \in Node : sender'[m].step \in {"transmit", "store"} =>
                   Kept(m, sender'[m].frame) \/ (m = n /\ Supported(n, rt, sender'[m].frame))
    BY <2>1 DEF Moves
  <2>2. PICK out :
            /\ routeTable' = [routeTable EXCEPT ![n] = rt]
            /\ RouteChange(n, rt)
            /\ air' \subseteq air \cup OnAir(n, out)
            /\ \A g \in out : Kept(n, g) \/ Supported(n, rt, g)
            /\ \A m \in Node : \A e \in ackBuffer'[m] :
                   Kept(m, e.frame) \/ (m = n /\ Supported(n, rt, e.frame))
            /\ \A m \in Node : sender'[m].step \in {"transmit", "store"} =>
                   Kept(m, sender'[m].frame) \/ (m = n /\ Supported(n, rt, sender'[m].frame))
    BY <2>0
  <2>3. TruthfulTable(n, rt)
    BY <2>2, ChangeTruthful
  <2>4. \A m \in Node : TruthfulTable(m, routeTable'[m])
    BY <2>2, <2>3 DEF UserHopInv, UserTyped, RouterTyped, RoutesTyped
  <2>5. \A m \in Node : \A g : Kept(m, g) => g.prevHopID = m
    BY DEF Kept, UserHopInv
  <2>6. \A g : Supported(n, rt, g) => g.prevHopID = n
    BY DEF Supported
  <2>7. \A copy \in air' : <<copy[2].prevHopID, copy[1]>> \in Link /\ ClaimTrue(copy[2])
    <3> SUFFICES ASSUME NEW copy \in air', copy \notin air
                 PROVE  <<copy[2].prevHopID, copy[1]>> \in Link /\ ClaimTrue(copy[2])
      BY DEF UserHopInv
    <3>1. /\ copy[2] \in out
          /\ <<n, copy[1]>> \in Link
          /\ copy[2] \in MeshFrame
      <4>1. copy \in OnAir(n, out)
        BY <2>2
      <4>2. copy \in Node \X MeshFrame
        BY DEF UserTyped, RouterTyped
      <4> QED BY <4>1, <4>2 DEF OnAir, Neighbours
    <3>2. copy[2].prevHopID = n
      BY <2>2, <2>5, <2>6, <3>1
    <3>3. ASSUME copy[2].packetType \in Teaching
          PROVE  Dist[n][Subject(copy[2])] <= Claimed(copy[2])
      <4>1. Supported(n, rt, copy[2])
        BY <2>2, <3>1, <3>3, KeptFrames DEF UserTyped
      <4>2. Subject(copy[2]) \in Node /\ Claimed(copy[2]) \in Int /\ 0 <= Claimed(copy[2])
        BY <3>1, <3>3, TeachingFields, Numbers
      <4>3. CASE Subject(copy[2]) = n
        BY <4>2, <4>3, Numbers
      <4>4. CASE /\ rt[Subject(copy[2])] # NoRoute
                 /\ rt[Subject(copy[2])].hopcount <= Claimed(copy[2])
        <5>1. rt[Subject(copy[2])].hopcount \in Int
          BY <4>2, <4>4, RouteType, Numbers
        <5>2. Dist[n][Subject(copy[2])] <= rt[Subject(copy[2])].hopcount
          BY <2>3, <4>2, <4>4 DEF TruthfulTable
        <5> QED BY <4>2, <4>4, <5>1, <5>2, Numbers
      <4> QED BY <3>3, <4>1, <4>3, <4>4 DEF Supported
    <3> QED BY <3>1, <3>2, <3>3 DEF ClaimTrue
  <2>8. \A m \in Node : \A e \in ackBuffer'[m] : e.frame.prevHopID = m
    BY <2>2, <2>5, <2>6
  <2>9. \A m \in Node : sender'[m].step \in {"transmit", "store"} => sender'[m].frame.prevHopID = m
    BY <2>2, <2>5, <2>6
  <2>10. (\A m \in Node : TruthfulTable(m, routeTable[m]))'
    BY <2>4 DEF TruthfulTable
  <2>11. (\A copy \in air : <<copy[2].prevHopID, copy[1]>> \in Link /\ ClaimTrue(copy[2]))'
    BY <2>7 DEF ClaimTrue
  <2> QED BY <2>8, <2>9, <2>10, <2>11 DEF UserHopInv
<1> QED BY <1>1, <1>2

(* It holds initially: nothing is known and nothing is in the air. *)
LEMMA UserHopInit == UserInit => UserHopInv
BY DEF UserInit, Init, UserHopInv, TruthfulTable, Idle

(* While no hop counter has overflowed: no route of the mesh, whichever packet *)
(* taught it, promises fewer hops than there are.                            *)
THEOREM UserHopCountsCorrect == UserSpec /\ []HopsFit => []HopCountsNeverUnderestimate
<1>1. UserTyped /\ UserTyped' /\ HopsFit /\ UserHopInv /\ [UserNext]_allVars => UserHopInv'
  BY UserHopStep
<1>2. UserHopInv => HopCountsNeverUnderestimate
  BY DEF UserHopInv, TruthfulTable, HopCountsNeverUnderestimate, HasRoute
<1> QED BY <1>1, <1>2, UserHopInit, UserInvariance, PTL DEF UserSpec

-----------------------------------------------------------------------------
(* Every next hop is closer, as long as nobody reboots. *)

(* A carried packet has arrived at its final destination with its addressee,  *)
(* or can go on from there.                                                  *)
Served(f) ==
    \/ Final(f) \in {f.destNodeID, BROADCAST_ADDR}
    \/ f.destNodeID \in Node /\ HasRoute(f.destNodeID, Final(f))

(* What a frame says is borne out by the table of the node it comes from. *)
UserBacked(f) ==
    /\ f.packetType \in Teaching => Closer(f.prevHopID, Subject(f), Claimed(f))
    /\ f.packetType \in Carrying => Served(f)
    /\ f.packetType = "RERR" => Harmless(f)

InOrder ==
    /\ NextHopIsCloser
    /\ \A copy \in air : UserBacked(copy[2])
    /\ \A n \in Node : \A e \in ackBuffer[n] : UserBacked(e.frame)
    /\ \A n \in Node : sender[n].step \in {"transmit", "store"} => UserBacked(sender[n].frame)

UserLoopInv == restarts = 0 => InOrder

(* In order, no frame makes trouble. *)
LEMMA NoTrouble ==
    ASSUME RouterTyped, InOrder, NEW n \in Node
    PROVE  ~Trouble(n)
<1> SUFFICES ASSUME Trouble(n)
             PROVE  FALSE
  OBVIOUS
<1>1. PICK f \in MeshFrame :
          /\ <<n, f>> \in air
          /\ AddressedTo(n, f)
          /\ \/ f.packetType = "RERR" /\ ~Harmless(f)
             \/ /\ f.packetType \in Carrying
                /\ Final(f) \notin {n, BROADCAST_ADDR}
                /\ routeTable[n][Final(f)] = NoRoute
  BY DEF Trouble
<1>2. UserBacked(f)
  <2>1. PICK copy \in air : copy = <<n, f>>
    BY <1>1
  <2> QED BY <2>1 DEF InOrder
<1>3. f.destNodeID \in {n, BROADCAST_ADDR} /\ BROADCAST_ADDR \notin Node
  BY <1>1, ModelValues DEF AddressedTo
<1> QED BY <1>1, <1>2, <1>3 DEF UserBacked, Served, HasRoute

(* A route that is taught by a frame that is backed keeps the order. *)
LEMMA ChangeInOrder ==
    ASSUME MQTTNode = Node, UserTyped, HopsFit, InOrder, restarts' = 0, NEW n \in Node,
           NEW rt \in Table, RouteChange(n, rt), routeTable' = [routeTable EXCEPT ![n] = rt]
    PROVE  RoutesImprove /\ NextHopIsCloser'
<1>0. RoutesTyped /\ NextHopIsCloser /\ RouterTyped
  BY DEF InOrder, UserTyped, RouterTyped
<1>1. CASE rt = routeTable[n]
  <2>1. UNCHANGED routeTable
    BY <1>0, <1>1 DEF RoutesTyped
  <2> QED BY <1>0, <2>1, SameRoutes
<1>2. ASSUME NEW f, Heard(n, f), Learned(routeTable[n], rt, f.prevHopID, f.prevHopID, 1)
      PROVE  RoutesImprove /\ NextHopIsCloser'
  <2>1. f.prevHopID \in Node \ {n}
    BY <1>2, MeshFields DEF Heard
  <2>2. PICK h \in HopCount : h = 0
    BY DEF HopCount
  <2>3. h < 255 /\ HopPlusOne(h) = 1
    BY <2>2, HopType
  <2>4. PICK p : p = f.prevHopID
    OBVIOUS
  <2>5. /\ p \in Node \ {n}
        /\ Closer(p, p, h)
        /\ Learned(routeTable[n], rt, p, p, HopPlusOne(h))
    BY <1>2, <2>1, <2>3, <2>4 DEF Closer
  <2> QED BY <1>0, <2>3, <2>5, LearnLoop
<1>3. ASSUME NEW f, Heard(n, f), f.packetType \in Teaching,
             Learned(routeTable[n], rt, f.prevHopID, Subject(f), HopPlusOne(Claimed(f)))
      PROVE  RoutesImprove /\ NextHopIsCloser'
  <2>1. f \in MeshFrame /\ <<n, f>> \in air /\ f.prevHopID # n
    BY <1>3 DEF Heard
  <2>2. /\ f.prevHopID \in Node \ {n}
        /\ Subject(f) \in Node
        /\ Claimed(f) \in HopCount
        /\ Claimed(f) < 255
    BY <1>3, <2>1, TeachingFields, TeachingFits
  <2>3. Closer(f.prevHopID, Subject(f), Claimed(f))
    <3>1. PICK copy \in air : copy = <<n, f>>
      BY <2>1
    <3> QED BY <1>3, <3>1 DEF InOrder, UserBacked
  <2> QED BY <1>0, <1>3, <2>2, <2>3, LearnLoop
<1>4. ~(Trouble(n) \/ MQTTNode # Node \/ restarts' # 0)
  BY <1>0, NoTrouble
<1> QED BY <1>1, <1>2, <1>3, <1>4 DEF RouteChange

(* What is backed stays backed. *)
LEMMA UserBackedStays ==
    ASSUME RoutesTyped, RoutesTyped', RoutesImprove, NEW f \in MeshFrame, UserBacked(f)
    PROVE  UserBacked(f)'
<1>1. f.packetType \in Teaching => Closer(f.prevHopID, Subject(f), Claimed(f))'
  <2> SUFFICES ASSUME f.packetType \in Teaching
               PROVE  Closer(f.prevHopID, Subject(f), Claimed(f))'
    OBVIOUS
  <2>1. PICK m, d, h : m = f.prevHopID /\ d = Subject(f) /\ h = Claimed(f)
    OBVIOUS
  <2>2. m \in Node /\ d \in Node /\ h \in HopCount /\ Closer(m, d, h)
    BY <2>1, TeachingFields DEF UserBacked
  <2>3. Closer(m, d, h)'
    BY <2>2, CloserStays
  <2> QED BY <2>1, <2>3
<1>2. f.packetType \in Carrying => Served(f)'
  <2> SUFFICES ASSUME f.packetType \in Carrying, Final(f) \notin {f.destNodeID, BROADCAST_ADDR}
               PROVE  f.destNodeID \in Node /\ HasRoute(f.destNodeID, Final(f))'
    BY DEF Served
  <2>1. f.destNodeID \in Node /\ HasRoute(f.destNodeID, Final(f))
    BY DEF UserBacked, Served
  <2>2. Final(f) \in Node
    BY CarryingFields DEF Address
  <2> QED BY <2>1, <2>2 DEF RoutesImprove
<1>3. f.packetType = "RERR" => Harmless(f)
  BY DEF UserBacked
<1> QED BY <1>1, <1>2, <1>3 DEF UserBacked

(* What the table supports is backed. *)
LEMMA SupportedBacked ==
    ASSUME RoutesTyped', NextHopIsCloser', NEW n \in Node, NEW f \in MeshFrame,
           NEW rt \in Table, rt = routeTable'[n], Supported(n, rt, f),
           f.packetType = "RERR" => Harmless(f)
    PROVE  UserBacked(f)'
<1>0. f.prevHopID = n
  BY DEF Supported
<1>1. f.packetType \in Teaching => Closer(f.prevHopID, Subject(f), Claimed(f))'
  BY <1>0 DEF Supported, Closer, HasRoute
<1>2. ASSUME f.packetType \in Carrying, Final(f) \notin {f.destNodeID, BROADCAST_ADDR}
      PROVE  f.destNodeID \in Node /\ HasRoute(f.destNodeID, Final(f))'
  <2>1. PICK d \in Node : d = Final(f)
    BY <1>2, CarryingFields DEF Address
  <2>2. rt[d] # NoRoute /\ f.destNodeID = rt[d].nextHop
    BY <1>2, <2>1 DEF Supported
  <2>3. f.destNodeID \in Node
    BY <2>2, RouteType
  <2>4. HasRoute(rt[d].nextHop, d)'
    BY <1>2, <2>1, <2>2 DEF NextHopIsCloser, HasRoute
  <2> QED BY <2>1, <2>2, <2>3, <2>4
<1>3. f.packetType \in Carrying => Served(f)'
  BY <1>2 DEF Served
<1> QED BY <1>1, <1>3 DEF UserBacked

(* Every step keeps the order, as long as nobody reboots. *)
LEMMA UserLoopStep ==
    ASSUME MQTTNode = Node, UserTyped, UserTyped', HopsFit, UserLoopInv, [UserNext]_allVars
    PROVE  UserLoopInv'
<1> SUFFICES ASSUME restarts' = 0
             PROVE  InOrder'
  BY DEF UserLoopInv
<1>1. CASE UNCHANGED allVars
  <2>1. UNCHANGED <<routeTable, air, ackBuffer, sender, restarts>>
    BY <1>1 DEF allVars, vars
  <2>2. InOrder
    BY <2>1 DEF UserLoopInv
  <2> QED BY <2>1, <2>2 DEF InOrder, NextHopIsCloser, HasRoute, UserBacked, Closer, Served
<1>2. CASE UserNext
  <2>1. PICK n \in Node : Moves(n)
    BY <1>2, UserMoves
  <2>2. PICK rt \in Table : \E out :
            /\ routeTable' = [routeTable EXCEPT ![n] = rt]
            /\ RouteChange(n, rt)
            /\ air' \subseteq air \cup OnAir(n, out)
            /\ \A g \in out : \/ Kept(n, g)
                              \/ /\ Supported(n, rt, g)
                                 /\ g.packetType = "RERR" => Harmless(g) \/ Trouble(n)
            /\ \A m \in Node : \A e \in ackBuffer'[m] :
                   Kept(m, e.frame) \/ (m = n /\ Supported(n, rt, e.frame))
            /\ \A m \in Node : sender'[m].step \in {"transmit", "store"} =>
                   Kept(m, sender'[m].frame) \/ (m = n /\ Supported(n, rt, sender'[m].frame))
            /\ restarts' \in {restarts, restarts + 1}
    BY <2>1 DEF Moves
  <2>3. PICK out :
            /\ routeTable' = [routeTable EXCEPT ![n] = rt]
            /\ RouteChange(n, rt)
            /\ air' \subseteq air \cup OnAir(n, out)
            /\ \A g \in out : \/ Kept(n, g)
                              \/ /\ Supported(n, rt, g)
                                 /\ g.packetType = "RERR" => Harmless(g) \/ Trouble(n)
            /\ \A m \in Node : \A e \in ackBuffer'[m] :
                   Kept(m, e.frame) \/ (m = n /\ Supported(n, rt, e.frame))
            /\ \A m \in Node : sender'[m].step \in {"transmit", "store"} =>
                   Kept(m, sender'[m].frame) \/ (m = n /\ Supported(n, rt, sender'[m].frame))
            /\ restarts' \in {restarts, restarts + 1}
    BY <2>2
  <2>4. InOrder /\ RouterTyped /\ RouterTyped' /\ RoutesTyped /\ RoutesTyped'
    <3>1. restarts = 0
      BY <2>3 DEF UserTyped, RouterTyped
    <3> QED BY <3>1 DEF UserLoopInv, UserTyped, RouterTyped
  <2>5. ~Trouble(n)
    BY <2>4, NoTrouble
  <2>6. RoutesImprove /\ NextHopIsCloser'
    BY <2>3, <2>4, ChangeInOrder
  <2>7. rt = routeTable'[n]
    BY <2>3, <2>4 DEF RoutesTyped
  <2>8. \A m \in Node : \A g : Kept(m, g) => g \in MeshFrame /\ UserBacked(g)
    <3>1. \A m \in Node : \A g : Kept(m, g) => g \in MeshFrame
      BY <2>4, KeptFrames DEF KeptFrame, MeshFrame, Frame, UserFrame
    <3> QED BY <2>4, <3>1 DEF Kept, InOrder
  <2>9. \A m \in Node : \A g : Kept(m, g) => UserBacked(g)'
    BY <2>4, <2>6, <2>8, UserBackedStays
  <2>10. \A g \in MeshFrame : Supported(n, rt, g) /\ (g.packetType = "RERR" => Harmless(g))
                                  => UserBacked(g)'
    BY <2>4, <2>6, <2>7, SupportedBacked
  <2>11. \A copy \in air' : UserBacked(copy[2])'
    <3> SUFFICES ASSUME NEW copy \in air'
                 PROVE  UserBacked(copy[2])'
      OBVIOUS
    <3>1. copy[2] \in MeshFrame
      BY <2>4 DEF RouterTyped
    <3>2. CASE copy \in air
      <4>1. UserBacked(copy[2])
        BY <2>4, <3>2 DEF InOrder
      <4> QED BY <2>4, <2>6, <3>1, <4>1, UserBackedStays
    <3>3. CASE copy \notin air
      <4>1. copy[2] \in out
        BY <2>3, <3>3 DEF OnAir
      <4> QED BY <2>3, <2>5, <2>9, <2>10, <3>1, <4>1
    <3> QED BY <3>2, <3>3
  <2>12. \A m \in Node : \A e \in ackBuffer'[m] : UserBacked(e.frame)'
    <3> SUFFICES ASSUME NEW m \in Node, NEW e \in ackBuffer'[m]
                 PROVE  UserBacked(e.frame)'
      OBVIOUS
    <3>1. /\ e.frame \in MeshFrame
          /\ e.frame.packetType # "RERR"
      <4>1. e \in KeptEntry
        BY <2>4 DEF RouterTyped
      <4> QED BY <4>1 DEF KeptEntry, KeptFrame, MeshFrame, Frame, UserFrame, DATAFrame,
                          UserMsgFrame, FrameOf, FlaggedFrame
    <3> QED BY <2>3, <2>9, <2>10, <3>1
  <2>13. \A m \in Node : sender'[m].step \in {"transmit", "store"} =>
             UserBacked(sender[m].frame)'
    <3> SUFFICES ASSUME NEW m \in Node, sender'[m].step \in {"transmit", "store"}
                 PROVE  UserBacked(sender[m].frame)'
      OBVIOUS
    <3>1. PICK g : g = sender'[m].frame
      OBVIOUS
    <3>2. g \in MeshFrame /\ g.packetType # "RERR"
      <4>1. sender'[m] \in MeshSending
        BY <2>4 DEF RouterTyped
      <4>2. g \in KeptFrame
        BY <3>1, <4>1 DEF MeshSending, Idle
      <4> QED BY <4>2 DEF KeptFrame, MeshFrame, Frame, UserFrame, DATAFrame, UserMsgFrame,
                          FrameOf, FlaggedFrame
    <3>3. UserBacked(g)'
      BY <2>3, <2>9, <2>10, <3>1, <3>2
    <3> QED BY <3>1, <3>3
  <2> QED BY <2>6, <2>11, <2>12, <2>13 DEF InOrder
<1> QED BY <1>1, <1>2

(* So does this one. *)
LEMMA UserLoopInit == UserInit => UserLoopInv
BY DEF UserInit, Init, UserLoopInv, InOrder, NextHopIsCloser, HasRoute, Idle

(* If every node is connected to the broker, and while no hop counter has      *)
(* overflowed: as long as nobody reboots, every next hop is closer, whichever *)
(* packet taught the route.                                                  *)
THEOREM UserRoutesCorrect ==
    ASSUME MQTTNode = Node
    PROVE  UserSpec /\ []HopsFit => []RoutesKeepOrder
<1>1. UserTyped /\ UserTyped' /\ HopsFit /\ UserLoopInv /\ [UserNext]_allVars => UserLoopInv'
  BY UserLoopStep
<1>2. UserLoopInv => RoutesKeepOrder
  BY DEF UserLoopInv, InOrder, RoutesKeepOrder
<1> QED BY <1>1, <1>2, UserLoopInit, UserInvariance, PTL DEF UserSpec

-----------------------------------------------------------------------------
(* A user message is in one place at a time, as long as nobody reboots. *)

(* The identifiers of the messages of s, and of those shown among the         *)
(* notifications c.                                                          *)
Ids(s) == {s[i].packetID : i \in DOMAIN s}

ShownIds(c) == {c[i].packetID : i \in {j \in DOMAIN c : c[j] \in UserMessageShown}}

(* No message is in s, or shown in c, twice. *)
NoRepeats(s) == \A i, j \in DOMAIN s : s[i].packetID = s[j].packetID => i = j

ShownOnce(c) ==
    \A i, j \in DOMAIN c :
        /\ c[i] \in UserMessageShown
        /\ c[j] \in UserMessageShown
        /\ c[i].packetID = c[j].packetID
        => i = j

(* The elements of a sequence that grows by one, ... *)
LEMMA AppendElements ==
    ASSUME NEW S, NEW s \in Seq(S), NEW m \in S
    PROVE  /\ Len(s) \in Nat
           /\ DOMAIN s = 1..Len(s)
           /\ DOMAIN Append(s, m) = 1..(Len(s) + 1)
           /\ \A i \in 1..Len(s) : Append(s, m)[i] = s[i]
           /\ Append(s, m)[Len(s) + 1] = m
OBVIOUS

(* ... by another sequence, ... *)
LEMMA ConcatElements ==
    ASSUME NEW S, NEW s \in Seq(S), NEW t \in Seq(S)
    PROVE  /\ Len(s) \in Nat /\ Len(t) \in Nat
           /\ DOMAIN s = 1..Len(s) /\ DOMAIN t = 1..Len(t)
           /\ DOMAIN (s \o t) = 1..(Len(s) + Len(t))
           /\ \A i \in 1..Len(s) : (s \o t)[i] = s[i]
           /\ \A i \in 1..Len(t) : (s \o t)[Len(s) + i] = t[i]
OBVIOUS

(* ... and of one that loses its first. *)
LEMMA TailElements ==
    ASSUME NEW S, NEW s \in Seq(S), s # <<>>
    PROVE  /\ Tail(s) \in Seq(S)
           /\ Len(s) \in Nat \ {0}
           /\ DOMAIN s = 1..Len(s)
           /\ DOMAIN Tail(s) = 1..(Len(s) - 1)
           /\ \A i \in 1..(Len(s) - 1) : Tail(s)[i] = s[i + 1]
OBVIOUS

(* A message more. *)
LEMMA IdsAppend ==
    ASSUME NEW S, NEW s \in Seq(S), NEW m \in S
    PROVE  /\ Ids(Append(s, m)) \subseteq Ids(s) \cup {m.packetID}
           /\ NoRepeats(s) /\ m.packetID \notin Ids(s) => NoRepeats(Append(s, m))
<1> DEFINE t == Append(s, m)
<1>1. /\ Len(s) \in Nat
      /\ DOMAIN s = 1..Len(s)
      /\ DOMAIN t = 1..(Len(s) + 1)
      /\ \A i \in 1..Len(s) : t[i] = s[i]
      /\ t[Len(s) + 1] = m
  BY AppendElements
<1> HIDE DEF t
<1>2. \A i \in DOMAIN t : i \in DOMAIN s \/ i = Len(s) + 1
  BY <1>1
<1>3. Ids(t) \subseteq Ids(s) \cup {m.packetID}
  BY <1>1, <1>2 DEF Ids
<1>4. ASSUME NoRepeats(s), m.packetID \notin Ids(s)
      PROVE  NoRepeats(t)
  <2>1. \A i \in DOMAIN s : t[i] = s[i] /\ s[i].packetID # m.packetID
    BY <1>1, <1>4 DEF Ids
  <2> QED BY <1>1, <1>2, <1>4, <2>1 DEF NoRepeats
<1> QED BY <1>3, <1>4 DEF t

(* Messages joined to others. *)
LEMMA IdsConcat ==
    ASSUME NEW S, NEW s \in Seq(S), NEW t \in Seq(S)
    PROVE  /\ Ids(s \o t) \subseteq Ids(s) \cup Ids(t)
           /\ NoRepeats(s) /\ NoRepeats(t) /\ Ids(s) \cap Ids(t) = {} => NoRepeats(s \o t)
<1> DEFINE q == s \o t
<1>1. /\ Len(s) \in Nat /\ Len(t) \in Nat
      /\ DOMAIN s = 1..Len(s) /\ DOMAIN t = 1..Len(t)
      /\ DOMAIN q = 1..(Len(s) + Len(t))
      /\ \A i \in 1..Len(s) : q[i] = s[i]
      /\ \A i \in 1..Len(t) : q[Len(s) + i] = t[i]
  BY ConcatElements
<1> HIDE DEF q
<1>2. ASSUME NEW i \in DOMAIN q
      PROVE  \/ i \in DOMAIN s /\ q[i] = s[i]
             \/ i - Len(s) \in DOMAIN t /\ q[i] = t[i - Len(s)] /\ i \notin DOMAIN s
  <2>1. CASE i \in DOMAIN s
    BY <1>1, <2>1
  <2>2. CASE i \notin DOMAIN s
    <3>1. i \in Nat /\ i - Len(s) \in 1..Len(t) /\ Len(s) + (i - Len(s)) = i
      BY <1>1, <2>2
    <3> QED BY <1>1, <2>2, <3>1
  <2> QED BY <2>1, <2>2
<1>3. Ids(q) \subseteq Ids(s) \cup Ids(t)
  BY <1>2 DEF Ids
<1>4. ASSUME NoRepeats(s), NoRepeats(t), Ids(s) \cap Ids(t) = {},
             NEW i \in DOMAIN q, NEW j \in DOMAIN q, q[i].packetID = q[j].packetID
      PROVE  i = j
  <2>1. \A k \in DOMAIN s, l \in DOMAIN t : s[k].packetID # t[l].packetID
    BY <1>4 DEF Ids
  <2>2. CASE i \in DOMAIN s /\ j \in DOMAIN s
    BY <1>1, <1>4, <2>2 DEF NoRepeats
  <2>3. CASE i \notin DOMAIN s /\ j \notin DOMAIN s
    <3>1. i - Len(s) = j - Len(s)
      BY <1>2, <1>4, <2>3 DEF NoRepeats
    <3> QED BY <1>1, <3>1
  <2>4. CASE ~(i \in DOMAIN s <=> j \in DOMAIN s)
    BY <1>2, <1>4, <2>1, <2>4
  <2> QED BY <2>2, <2>3, <2>4
<1>5. NoRepeats(s) /\ NoRepeats(t) /\ Ids(s) \cap Ids(t) = {} => NoRepeats(q)
  BY <1>4 DEF NoRepeats
<1> QED BY <1>3, <1>5 DEF q

(* A message less, the oldest. *)
LEMMA IdsTail ==
    ASSUME NEW S, NEW s \in Seq(S), s # <<>>
    PROVE  /\ Tail(s) \in Seq(S)
           /\ Ids(Tail(s)) \subseteq Ids(s)
           /\ NoRepeats(s) => NoRepeats(Tail(s))
<1> DEFINE t == Tail(s)
<1>1. /\ t \in Seq(S)
      /\ Len(s) \in Nat \ {0}
      /\ DOMAIN s = 1..Len(s)
      /\ DOMAIN t = 1..(Len(s) - 1)
      /\ \A i \in 1..(Len(s) - 1) : t[i] = s[i + 1]
  BY TailElements
<1> HIDE DEF t
<1>2. \A i \in DOMAIN t : i \in Nat /\ i + 1 \in DOMAIN s /\ t[i] = s[i + 1]
  BY <1>1
<1>3. Ids(t) \subseteq Ids(s)
  BY <1>2 DEF Ids
<1>4. ASSUME NoRepeats(s), NEW i \in DOMAIN t, NEW j \in DOMAIN t, t[i].packetID = t[j].packetID
      PROVE  i = j
  <2>1. i + 1 = j + 1
    BY <1>2, <1>4 DEF NoRepeats
  <2> QED BY <1>2, <2>1
<1>5. NoRepeats(s) => NoRepeats(t)
  BY <1>4 DEF NoRepeats
<1> QED BY <1>1, <1>3, <1>5 DEF t

(* No message at all. *)
LEMMA IdsEmpty == Ids(<<>>) = {} /\ NoRepeats(<<>>) /\ ShownIds(<<>>) = {} /\ ShownOnce(<<>>)
BY DEF Ids, NoRepeats, ShownIds, ShownOnce

(* Parking touches the flags only. *)
LEMMA IdsParked ==
    ASSUME NEW s \in Seq(Msg)
    PROVE  /\ ParkAll(s) \in Seq(Msg)
           /\ Ids(ParkAll(s)) = Ids(s)
           /\ NoRepeats(s) => NoRepeats(ParkAll(s))
<1> DEFINE t == ParkAll(s)
<1>1. t \in Seq(Msg)
  BY ParkedTyped
<1>2. DOMAIN t = DOMAIN s /\ \A i \in DOMAIN s : t[i] = Park(s[i])
  BY DEF ParkAll
<1>3. \A i \in DOMAIN s : Park(s[i]).packetID = s[i].packetID
  <2>1. \A i \in DOMAIN s : s[i] \in Msg
    BY InSequence
  <2> QED BY <2>1 DEF Park, Msg
<1> HIDE DEF t
<1> QED BY <1>1, <1>2, <1>3 DEF Ids, NoRepeats, t

(* Those of s that are in T, each at most once. *)
LEMMA IdsOnly ==
    ASSUME NEW S, NEW s \in Seq(S), NEW T
    PROVE  /\ Only(s, T) \in Seq(T)
           /\ \A x \in Ids(Only(s, T)) : \E i \in DOMAIN s : s[i] \in T /\ s[i].packetID = x
           /\ NoRepeats(s) => NoRepeats(Only(s, T))
<1> DEFINE q == Only(s, T)
<1>1. TakenFrom(q, s, T, Len(s))
  BY OnlyTaken
<1> HIDE DEF q
<1>2. q \in Seq(T)
  BY <1>1 DEF TakenFrom
<1>3. PICK at \in [DOMAIN q -> 1..Len(s)] :
          /\ \A k \in DOMAIN q : q[k] = s[at[k]]
          /\ \A j, k \in DOMAIN q : j < k => at[j] < at[k]
  BY <1>1 DEF TakenFrom
<1>4. \A k \in DOMAIN q : k \in Nat /\ q[k] \in T /\ at[k] \in DOMAIN s /\ at[k] \in Nat
  <2>1. \A k \in DOMAIN q : q[k] \in T /\ k \in 1..Len(q) /\ Len(q) \in Nat
    BY <1>2, InSequence
  <2>2. Len(s) \in Nat /\ DOMAIN s = 1..Len(s)
    OBVIOUS
  <2> QED BY <1>3, <2>1, <2>2
<1>5. \A x \in Ids(q) : \E i \in DOMAIN s : s[i] \in T /\ s[i].packetID = x
  BY <1>3, <1>4 DEF Ids
<1>6. ASSUME NoRepeats(s), NEW i \in DOMAIN q, NEW j \in DOMAIN q, q[i].packetID = q[j].packetID
      PROVE  i = j
  <2>1. at[i] = at[j]
    BY <1>3, <1>4, <1>6 DEF NoRepeats
  <2>2. ~(i < j) /\ ~(j < i)
    BY <1>3, <1>4, <2>1
  <2> QED BY <1>4, <2>2
<1>7. NoRepeats(s) => NoRepeats(q)
  BY <1>6 DEF NoRepeats
<1> QED BY <1>2, <1>5, <1>7 DEF q

(* What waits for something, and those of s that wait for it from now on. *)
LEMMA IdsWaiting ==
    ASSUME NEW w \in Seq(Msg), NEW s \in Seq(Msg), NEW T \in SUBSET Msg,
           NoRepeats(w), NoRepeats(s), Ids(w) \cap Ids(s) = {}
    PROVE  LET v == w \o ParkAll(Only(s, T))
           IN /\ NoRepeats(v)
              /\ \A x \in Ids(v) :
                     x \in Ids(w) \/ \E i \in DOMAIN s : s[i] \in T /\ s[i].packetID = x
<1> DEFINE q == Only(s, T)
<1>1. /\ q \in Seq(T)
      /\ \A x \in Ids(q) : \E i \in DOMAIN s : s[i] \in T /\ s[i].packetID = x
      /\ NoRepeats(q)
  BY IdsOnly
<1> HIDE DEF q
<1>2. q \in Seq(Msg)
  BY <1>1, SeqMonotone
<1>3. ParkAll(q) \in Seq(Msg) /\ Ids(ParkAll(q)) = Ids(q) /\ NoRepeats(ParkAll(q))
  BY <1>1, <1>2, IdsParked
<1>4. Ids(w) \cap Ids(ParkAll(q)) = {}
  <2>1. Ids(q) \subseteq Ids(s)
    BY <1>1 DEF Ids
  <2> QED BY <1>3, <2>1
<1>5. NoRepeats(w \o ParkAll(q)) /\ Ids(w \o ParkAll(q)) \subseteq Ids(w) \cup Ids(ParkAll(q))
  BY <1>3, <1>4, IdsConcat
<1> QED BY <1>1, <1>3, <1>5 DEF q

(* A message parked for a user who is offline. *)
LEMMA IdsQueued ==
    ASSUME NEW s \in Seq(Msg), NEW m \in Msg
    PROVE  /\ Ids(queueOffline(s, m)) \subseteq Ids(s) \cup {m.packetID}
           /\ NoRepeats(s) /\ m.packetID \notin Ids(s) => NoRepeats(queueOffline(s, m))
<1>1. CASE Len(s) = INBOX_MAX
  <2>1. s # <<>>
    BY <1>1, UserAssumption
  <2>2. PICK t : t = Tail(s)
    OBVIOUS
  <2>3. t \in Seq(Msg) /\ Ids(t) \subseteq Ids(s) /\ (NoRepeats(s) => NoRepeats(t))
    BY <2>1, <2>2, IdsTail
  <2>4. queueOffline(s, m) = Append(t, m)
    BY <1>1, <2>2 DEF queueOffline
  <2>5. /\ Ids(Append(t, m)) \subseteq Ids(t) \cup {m.packetID}
        /\ NoRepeats(t) /\ m.packetID \notin Ids(t) => NoRepeats(Append(t, m))
    BY <2>3, IdsAppend
  <2> QED BY <2>3, <2>4, <2>5
<1>2. CASE Len(s) # INBOX_MAX
  <2>1. queueOffline(s, m) = Append(s, m)
    BY <1>2 DEF queueOffline
  <2> QED BY <2>1, IdsAppend
<1> QED BY <1>1, <1>2

(* What has been shown, and what is shown next. *)
LEMMA ShownConcat ==
    ASSUME NEW S, NEW s \in Seq(S), NEW t \in Seq(S)
    PROVE  /\ ShownIds(s \o t) \subseteq ShownIds(s) \cup ShownIds(t)
           /\ ShownOnce(s) /\ ShownOnce(t) /\ ShownIds(s) \cap ShownIds(t) = {}
                => ShownOnce(s \o t)
<1> DEFINE q == s \o t
<1>1. /\ Len(s) \in Nat /\ Len(t) \in Nat
      /\ DOMAIN s = 1..Len(s) /\ DOMAIN t = 1..Len(t)
      /\ DOMAIN q = 1..(Len(s) + Len(t))
      /\ \A i \in 1..Len(s) : q[i] = s[i]
      /\ \A i \in 1..Len(t) : q[Len(s) + i] = t[i]
  BY ConcatElements
<1> HIDE DEF q
<1>2. ASSUME NEW i \in DOMAIN q
      PROVE  \/ i \in DOMAIN s /\ q[i] = s[i]
             \/ i - Len(s) \in DOMAIN t /\ q[i] = t[i - Len(s)] /\ i \notin DOMAIN s
  <2>1. CASE i \in DOMAIN s
    BY <1>1, <2>1
  <2>2. CASE i \notin DOMAIN s
    <3>1. i \in Nat /\ i - Len(s) \in 1..Len(t) /\ Len(s) + (i - Len(s)) = i
      BY <1>1, <2>2
    <3> QED BY <1>1, <2>2, <3>1
  <2> QED BY <2>1, <2>2
<1>3. ShownIds(q) \subseteq ShownIds(s) \cup ShownIds(t)
  BY <1>2 DEF ShownIds
<1>4. ASSUME ShownOnce(s), ShownOnce(t), ShownIds(s) \cap ShownIds(t) = {},
             NEW i \in DOMAIN q, NEW j \in DOMAIN q, q[i].packetID = q[j].packetID,
             q[i] \in UserMessageShown, q[j] \in UserMessageShown
      PROVE  i = j
  <2>1. \A k \in DOMAIN s, l \in DOMAIN t :
            s[k] \in UserMessageShown /\ t[l] \in UserMessageShown
                => s[k].packetID # t[l].packetID
    BY <1>4 DEF ShownIds
  <2>2. CASE i \in DOMAIN s /\ j \in DOMAIN s
    BY <1>1, <1>4, <2>2 DEF ShownOnce
  <2>3. CASE i \notin DOMAIN s /\ j \notin DOMAIN s
    <3>1. i - Len(s) = j - Len(s)
      BY <1>2, <1>4, <2>3 DEF ShownOnce
    <3> QED BY <1>1, <3>1
  <2>4. CASE ~(i \in DOMAIN s <=> j \in DOMAIN s)
    BY <1>2, <1>4, <2>1, <2>4
  <2> QED BY <2>2, <2>3, <2>4
<1>5. ShownOnce(s) /\ ShownOnce(t) /\ ShownIds(s) \cap ShownIds(t) = {} => ShownOnce(q)
  BY <1>4 DEF ShownOnce
<1> QED BY <1>3, <1>5 DEF q

(* One notification. *)
LEMMA ShownNote ==
    ASSUME NEW note
    PROVE  /\ ShownOnce(<<note>>)
           /\ ShownIds(<<note>>) \subseteq {note.packetID}
           /\ note \notin UserMessageShown => ShownIds(<<note>>) = {}
BY DEF ShownOnce, ShownIds

(* An inbox handed over to a phone. *)
LEMMA ShownBox ==
    ASSUME NEW s \in Seq(Msg)
    PROVE  LET t == [i \in DOMAIN s |-> ShownAs(s[i])]
           IN /\ ShownIds(t) \subseteq Ids(s)
              /\ NoRepeats(s) => ShownOnce(t)
BY DEF ShownIds, Ids, NoRepeats, ShownOnce, ShownAs

-----------------------------------------------------------------------------
(* Where a message can be: kept by a node for somebody, shown, in the hands   *)
(* of an application task, on its way to a node that has not seen it, handed *)
(* to a gateway manager; or its identifier has not been drawn yet.           *)

Place ==
    {<<"inbox", n, u>> : n \in Node, u \in User}
      \cup {<<"home", n, u>> : n \in Node, u \in User}
      \cup {<<"route", n, d>> : n \in Node, d \in Node}
      \cup {<<"shown", n>> : n \in Node}
      \cup {<<"sender", n>> : n \in Node}
      \cup {<<"way", d>> : d \in Node}
      \cup {<<"uplinked">>, <<"undrawn">>}

(* The user messages on the air, kept for retransmission or about to be sent. *)
Flights ==
    {f \in {copy[2] : copy \in air}
             \cup (UNION {{e.frame : e \in ackBuffer[m]} : m \in Node})
             \cup {sender[m].frame : m \in {k \in Node : sender[k].step \in {"transmit", "store"}}} :
         f.packetType = "USER_MSG"}

InInbox(x, p) ==
    \E n \in Node, u \in User : p = <<"inbox", n, u>> /\ x \in Ids(inbox[n][u])

WantsHome(x, p) ==
    \E n \in Node, u \in User : p = <<"home", n, u>> /\ x \in Ids(userMsgBuffer[n][u])

WantsRoute(x, p) ==
    \E n \in Node, d \in Node : p = <<"route", n, d>> /\ x \in Ids(userRouteBuffer[n][d])

IsShown(x, p) == \E n \in Node : p = <<"shown", n>> /\ x \in ShownIds(client[n])

InHand(x, p) ==
    \E n \in Node : /\ p = <<"sender", n>>
                    /\ sender[n].step \in {"anyGateway", "gateway", "home", "askHome", "route",
                                           "askRoute"}
                    /\ x = sender[n].msg.packetID

(* A node takes a message it has seen for a duplicate. *)
OnTheWay(x, p) ==
    \E d \in Node : /\ p = <<"way", d>>
                    /\ \E f \in Flights : f.packetID = x /\ f.ext.toNodeID = d
                    /\ x \notin receivedPacketIDs[d]

IsUplinked(x, p) == p = <<"uplinked">> /\ x \in uplinked

Undrawn(x, p) == p = <<"undrawn">> /\ x[2] > issued[x[1]]

Holds(x, p) ==
    \/ InInbox(x, p)
    \/ WantsHome(x, p)
    \/ WantsRoute(x, p)
    \/ IsShown(x, p)
    \/ InHand(x, p)
    \/ OnTheWay(x, p)
    \/ IsUplinked(x, p)
    \/ Undrawn(x, p)

(* A message is in one place, and there once. *)
Apart == \A x \in PacketID, p, q \in Place : Holds(x, p) /\ Holds(x, q) => p = q

Single ==
    /\ \A n \in Node, u \in User : NoRepeats(inbox[n][u])
    /\ \A n \in Node, u \in User : NoRepeats(userMsgBuffer[n][u])
    /\ \A n, d \in Node : NoRepeats(userRouteBuffer[n][d])
    /\ \A n \in Node : ShownOnce(client[n])

CopyInv == restarts = 0 => Apart /\ Single

(* A step that hands messages over: what is in a place after it was there     *)
(* before, or was in src, and R tells where it goes.                         *)
HandsOver(src, R) ==
    /\ src \in Place
    /\ \A x \in PacketID, p, q \in Place : <<x, p>> \in R /\ <<x, q>> \in R => p = q
    /\ \A x \in PacketID, p \in Place :
           Holds(x, p)' => \/ Holds(x, p) /\ p # src
                           \/ Holds(x, src) /\ <<x, p>> \in R

(* Such a step leaves every message in one place. *)
LEMMA HandedOver ==
    ASSUME Apart, NEW src, NEW R, HandsOver(src, R)
    PROVE  Apart'
<1> SUFFICES ASSUME NEW x \in PacketID, NEW p \in Place, NEW q \in Place,
                    Holds(x, p)', Holds(x, q)'
             PROVE  p = q
  BY DEF Apart
<1>1. src \in Place
  BY DEF HandsOver
<1>2. ASSUME NEW r \in Place, Holds(x, r)'
      PROVE  \/ Holds(x, r) /\ r # src
             \/ Holds(x, src) /\ <<x, r>> \in R
  BY <1>2 DEF HandsOver
<1>3. \A r, s \in Place : Holds(x, r) /\ Holds(x, s) => r = s
  BY DEF Apart
<1>4. <<x, p>> \in R /\ <<x, q>> \in R => p = q
  BY DEF HandsOver
<1> QED BY <1>1, <1>2, <1>3, <1>4

(* What a step leaves alone. *)
LEMMA StaysPut ==
    ASSUME NEW x, NEW p
    PROVE  /\ UNCHANGED inbox /\ InInbox(x, p)' => InInbox(x, p)
           /\ UNCHANGED userMsgBuffer /\ WantsHome(x, p)' => WantsHome(x, p)
           /\ UNCHANGED userRouteBuffer /\ WantsRoute(x, p)' => WantsRoute(x, p)
           /\ UNCHANGED client /\ IsShown(x, p)' => IsShown(x, p)
           /\ UNCHANGED sender /\ InHand(x, p)' => InHand(x, p)
           /\ UNCHANGED uplinked /\ IsUplinked(x, p)' => IsUplinked(x, p)
           /\ UNCHANGED issued /\ Undrawn(x, p)' => Undrawn(x, p)
BY DEF InInbox, WantsHome, WantsRoute, IsShown, InHand, IsUplinked, Undrawn

(* The kind of a place is the first thing its name says. *)
LEMMA Kinds ==
    ASSUME NEW x, NEW p
    PROVE  /\ InInbox(x, p) => p[1] = "inbox"
           /\ WantsHome(x, p) => p[1] = "home"
           /\ WantsRoute(x, p) => p[1] = "route"
           /\ IsShown(x, p) => p[1] = "shown"
           /\ InHand(x, p) => p[1] = "sender"
           /\ OnTheWay(x, p) => p[1] = "way"
           /\ IsUplinked(x, p) => p[1] = "uplinked"
           /\ Undrawn(x, p) => p[1] = "undrawn"
<1>1. InInbox(x, p) => p[1] = "inbox"
  BY DEF InInbox
<1>2. WantsHome(x, p) => p[1] = "home"
  BY DEF WantsHome
<1>3. WantsRoute(x, p) => p[1] = "route"
  BY DEF WantsRoute
<1>4. IsShown(x, p) => p[1] = "shown"
  BY DEF IsShown
<1>5. InHand(x, p) => p[1] = "sender"
  BY DEF InHand
<1>6. OnTheWay(x, p) => p[1] = "way"
  BY DEF OnTheWay
<1>7. IsUplinked(x, p) => p[1] = "uplinked"
  BY DEF IsUplinked
<1>8. Undrawn(x, p) => p[1] = "undrawn"
  BY DEF Undrawn
<1> QED BY <1>1, <1>2, <1>3, <1>4, <1>5, <1>6, <1>7, <1>8

(* A frame in flight is on the air or kept by somebody. *)
LEMMA InFlight ==
    ASSUME RouterTyped, NEW f
    PROVE  f \in Flights <=> /\ f.packetType = "USER_MSG"
                             /\ \/ \E m \in Node : <<m, f>> \in air
                                \/ \E m \in Node : Kept(m, f)
<1>1. (\E copy \in air : copy[2] = f) <=> \E m \in Node : <<m, f>> \in air
  <2>1. \A copy \in air : copy = <<copy[1], copy[2]>> /\ copy[1] \in Node
    BY DEF RouterTyped
  <2>2. \A m \in Node : <<m, f>>[2] = f
    OBVIOUS
  <2> QED BY <2>1, <2>2
<1>2. f \in UNION {{e.frame : e \in ackBuffer[m]} : m \in Node}
          <=> \E m \in Node : \E e \in ackBuffer[m] : e.frame = f
  OBVIOUS
<1>3. f \in {sender[m].frame : m \in {k \in Node : sender[k].step \in {"transmit", "store"}}}
          <=> \E m \in Node : sender[m].step \in {"transmit", "store"} /\ sender[m].frame = f
  OBVIOUS
<1> QED BY <1>1, <1>2, <1>3 DEF Flights, Kept

(* Of frame g nothing follows but what was in flight already, or W tells of: a *)
(* message and the place it goes to.                                         *)
Carries(g, W) ==
    g.packetType = "USER_MSG" =>
        \/ \E f \in Flights : f.packetID = g.packetID /\ f.ext.toNodeID = g.ext.toNodeID
        \/ <<g.packetID, <<"way", g.ext.toNodeID>>>> \in W

(* What is kept is in flight. *)
LEMMA KeptCarries ==
    ASSUME RouterTyped, NEW m \in Node, NEW g, Kept(m, g), NEW W
    PROVE  Carries(g, W)
BY InFlight DEF Carries

(* What is on its way after a step: what was before, and what W tells of. *)
LEMMA WayBy ==
    ASSUME RouterTyped, RouterTyped', NEW n \in Node, NEW W, NEW out,
           air' \subseteq air \cup OnAir(n, out),
           \A g \in out : Carries(g, W),
           \A m \in Node : \A e \in ackBuffer'[m] : Carries(e.frame, W),
           \A m \in Node : sender'[m].step \in {"transmit", "store"} => Carries(sender'[m].frame, W),
           \A d \in Node : receivedPacketIDs[d] \subseteq receivedPacketIDs'[d],
           NEW x, NEW p, OnTheWay(x, p)'
    PROVE  \/ OnTheWay(x, p)
           \/ \E d \in Node : /\ p = <<"way", d>>
                              /\ <<x, p>> \in W
                              /\ x \notin receivedPacketIDs'[d]
<1>1. PICK d \in Node : /\ p = <<"way", d>>
                        /\ x \notin receivedPacketIDs'[d]
                        /\ \E f \in Flights' : f.packetID = x /\ f.ext.toNodeID = d
  BY DEF OnTheWay
<1>2. PICK f \in Flights' : f.packetID = x /\ f.ext.toNodeID = d
  BY <1>1
<1>3. /\ f.packetType = "USER_MSG"
      /\ \/ \E m \in Node : <<m, f>> \in air'
         \/ \E m \in Node : \E e \in ackBuffer'[m] : e.frame = f
         \/ \E m \in Node : sender'[m].step \in {"transmit", "store"} /\ sender'[m].frame = f
  <2>1. \A copy \in air' : copy = <<copy[1], copy[2]>> /\ copy[1] \in Node
    BY DEF RouterTyped
  <2> QED BY <1>2, <2>1 DEF Flights
<1>4. Carries(f, W)
  <2>1. CASE \E m \in Node : <<m, f>> \in air'
    <3>1. PICK m \in Node : <<m, f>> \in air \/ <<m, f>> \in OnAir(n, out)
      BY <2>1
    <3>2. CASE <<m, f>> \in air
      BY <1>3, <3>2, InFlight DEF Carries
    <3>3. CASE <<m, f>> \in OnAir(n, out)
      BY <3>3 DEF OnAir
    <3> QED BY <3>1, <3>2, <3>3
  <2>2. CASE \E m \in Node : \E e \in ackBuffer'[m] : e.frame = f
    BY <2>2
  <2>3. CASE \E m \in Node : sender'[m].step \in {"transmit", "store"} /\ sender'[m].frame = f
    BY <2>3
  <2> QED BY <1>3, <2>1, <2>2, <2>3
<1>5. x \notin receivedPacketIDs[d]
  BY <1>1
<1> QED BY <1>1, <1>2, <1>3, <1>4, <1>5 DEF Carries, OnTheWay

(* A step that moves no message: it may take some away, tell the phones       *)
(* something else and draw identifiers.                                      *)
Undisturbed ==
    /\ UNCHANGED <<inbox, userMsgBuffer, userRouteBuffer, uplinked>>
    /\ \A x, p : OnTheWay(x, p)' => OnTheWay(x, p)
    /\ \A x, p : InHand(x, p)' => InHand(x, p)
    /\ \A m \in Node : \/ client'[m] = client[m]
                       \/ \E note : /\ note \notin UserMessageShown
                                    /\ client'[m] = client[m] \o <<note>>
    /\ \A m \in Node : issued[m] <= issued'[m]

(* Nothing is shown by a notification of something else. *)
LEMMA OtherNotes ==
    ASSUME RouterTyped, NEW m \in Node,
           \/ client'[m] = client[m]
           \/ \E note : /\ note \notin UserMessageShown
                        /\ client'[m] = client[m] \o <<note>>
    PROVE  /\ ShownIds(client'[m]) \subseteq ShownIds(client[m])
           /\ ShownOnce(client[m]) => ShownOnce(client'[m])
<1>1. CASE client'[m] = client[m]
  BY <1>1
<1>2. ASSUME NEW note, note \notin UserMessageShown, client'[m] = client[m] \o <<note>>
      PROVE  /\ ShownIds(client'[m]) \subseteq ShownIds(client[m])
             /\ ShownOnce(client[m]) => ShownOnce(client'[m])
  <2>1. PICK S : S = Note \cup {note}
    OBVIOUS
  <2>2. client[m] \in Seq(S)
    <3>1. client[m] \in Seq(Note) /\ Note \subseteq S
      BY <2>1 DEF RouterTyped
    <3> QED BY <3>1, SeqMonotone
  <2>3. <<note>> \in Seq(S)
    BY <2>1
  <2>4. ShownIds(<<note>>) = {} /\ ShownOnce(<<note>>)
    BY <1>2, ShownNote
  <2>5. /\ ShownIds(client[m] \o <<note>>) \subseteq ShownIds(client[m]) \cup ShownIds(<<note>>)
        /\ ShownOnce(client[m]) /\ ShownOnce(<<note>>)
             /\ ShownIds(client[m]) \cap ShownIds(<<note>>) = {}
                 => ShownOnce(client[m] \o <<note>>)
    BY <2>2, <2>3, ShownConcat
  <2> QED BY <1>2, <2>4, <2>5
<1> QED BY <1>1, <1>2

(* Such a step leaves every message in one place, and there once. *)
LEMMA NothingMoved ==
    ASSUME RouterTyped, RouterTyped', Apart, Single, Undisturbed
    PROVE  Apart' /\ Single'
<1>1. ASSUME NEW x \in PacketID, NEW p, Holds(x, p)'
      PROVE  Holds(x, p)
  <2>1. IsShown(x, p)' => IsShown(x, p)
    <3> SUFFICES ASSUME IsShown(x, p)'
                 PROVE  IsShown(x, p)
      OBVIOUS
    <3>1. PICK m \in Node : p = <<"shown", m>> /\ x \in ShownIds(client'[m])
      BY DEF IsShown
    <3>2. x \in ShownIds(client[m])
      BY <3>1, OtherNotes DEF Undisturbed
    <3> QED BY <3>1, <3>2 DEF IsShown
  <2>2. Undrawn(x, p)' => Undrawn(x, p)
    <3>1. /\ x[1] \in Node /\ x[2] \in Nat
          /\ issued[x[1]] \in Nat /\ issued'[x[1]] \in Nat
          /\ issued[x[1]] <= issued'[x[1]]
      BY DEF PacketID, RouterTyped, Undisturbed
    <3> QED BY <3>1 DEF Undrawn
  <2>3. /\ InInbox(x, p)' => InInbox(x, p)
        /\ WantsHome(x, p)' => WantsHome(x, p)
        /\ WantsRoute(x, p)' => WantsRoute(x, p)
        /\ IsUplinked(x, p)' => IsUplinked(x, p)
    BY StaysPut DEF Undisturbed
  <2>4. /\ OnTheWay(x, p)' => OnTheWay(x, p)
        /\ InHand(x, p)' => InHand(x, p)
    BY DEF Undisturbed
  <2> QED BY <1>1, <2>1, <2>2, <2>3, <2>4 DEF Holds
<1>2. Apart'
  BY <1>1 DEF Apart
<1>3. Single'
  <2>1. \A m \in Node : ShownOnce(client'[m])
    BY OtherNotes DEF Undisturbed, Single
  <2> QED BY <2>1 DEF Single, Undisturbed
<1> QED BY <1>2, <1>3

-----------------------------------------------------------------------------
(* The steps that move no message. *)

(* The frames that carry no message. *)
LEMMA NoMessages ==
    ASSUME NEW n, NEW pid
    PROVE  /\ \A d : sendRREQ(n, pid, d).packetType # "USER_MSG"
           /\ \A o, d, m, h : sendRREP(n, pid, o, d, m, h).packetType # "USER_MSG"
           /\ \A b, o, d, p : sendRERR(n, pid, b, o, d, p).packetType # "USER_MSG"
           /\ \A d, p : sendACK(n, pid, d, p).packetType # "USER_MSG"
           /\ \A m, d, x : dataFrame(n, pid, m, d, x).packetType # "USER_MSG"
           /\ \A u : sendUREQ(n, pid, u).packetType # "USER_MSG"
           /\ \A o, d, u, m : sendUREP(n, pid, o, d, u, m).packetType # "USER_MSG"
           /\ \A o, u, m : sendUERR(n, pid, o, u, m).packetType # "USER_MSG"
           /\ \A m, u, o : moveUserReqFrame(n, pid, m, u, o).packetType # "USER_MSG"
           /\ \A d, u, v : pubKeyReqFrame(n, pid, d, u, v).packetType # "USER_MSG"
           /\ \A o, u, m : sendPubKeyResp(n, pid, o, u, m).packetType # "USER_MSG"
           /\ \A x, y : broadcastInfoFrame(n, pid, x, y).packetType # "USER_MSG"
BY DEF sendRREQ, sendRREP, sendRERR, sendACK, dataFrame, sendUREQ, sendUREP, sendUERR,
       moveUserReqFrame, pubKeyReqFrame, sendPubKeyResp, broadcastInfoFrame, Originate

(* A frame sent on carries what it carried. *)
LEMMA ForwardCarries ==
    ASSUME RouterTyped, NEW n \in Node, NEW f \in MeshFrame, <<n, f>> \in air, NEW m, NEW W
    PROVE  Carries(Forwarded(n, f, m), W)
<1>1. /\ Forwarded(n, f, m).packetType = f.packetType
      /\ Forwarded(n, f, m).packetID = f.packetID
      /\ Forwarded(n, f, m).ext = f.ext
  BY MeshForwarded
<1>2. f.packetType = "USER_MSG" => f \in Flights
  BY InFlight
<1> QED BY <1>1, <1>2 DEF Carries

(* What a step sends on its way: what W tells of, to nodes that have not seen  *)
(* it.                                                                       *)
Sends(W) ==
    \A x, p : OnTheWay(x, p)' =>
        \/ OnTheWay(x, p)
        \/ \E d \in Node : /\ p = <<"way", d>>
                           /\ <<x, p>> \in W
                           /\ x \notin receivedPacketIDs'[d]

(* A handler. *)
LEMMA HandlerSends ==
    ASSUME RouterTyped, RouterTyped', NEW n \in Node, NEW f, NEW out, NEW k, NEW W,
           storePacketID(n, f), Emit(n, f, out), \A g \in out : Carries(g, W),
           \/ \A m \in Node : ackBuffer'[m] \subseteq ackBuffer[m]
           \/ StoreIfRouted(n, k) /\ Carries(k, W),
           UNCHANGED sender
    PROVE  Sends(W)
<1>1. air' \subseteq air \cup OnAir(n, out)
  BY DEF Emit
<1>2. \A m \in Node : \A e \in ackBuffer'[m] : Carries(e.frame, W)
  <2>1. CASE \A m \in Node : ackBuffer'[m] \subseteq ackBuffer[m]
    <3>1. \A m \in Node : \A e \in ackBuffer'[m] : Kept(m, e.frame)
      BY <2>1 DEF Kept
    <3> QED BY <3>1, KeptCarries
  <2>2. CASE StoreIfRouted(n, k) /\ Carries(k, W)
    <3>1. \A m \in Node : \A e \in ackBuffer'[m] : Kept(m, e.frame) \/ e.frame = k
      BY <2>2, StoredKept
    <3> QED BY <2>2, <3>1, KeptCarries
  <2> QED BY <2>1, <2>2
<1>3. \A m \in Node : sender'[m].step \in {"transmit", "store"} => Carries(sender'[m].frame, W)
  BY StillKept, KeptCarries
<1>4. \A d \in Node : receivedPacketIDs[d] \subseteq receivedPacketIDs'[d]
  BY DEF storePacketID, RouterTyped
<1>5. ASSUME NEW x, NEW p, OnTheWay(x, p)'
      PROVE  \/ OnTheWay(x, p)
             \/ \E d \in Node : /\ p = <<"way", d>>
                                /\ <<x, p>> \in W
                                /\ x \notin receivedPacketIDs'[d]
  BY <1>1, <1>2, <1>3, <1>4, <1>5, WayBy
<1> QED BY <1>5 DEF Sends

(* A step of another task, which sees no frame. *)
LEMMA TaskSends ==
    ASSUME RouterTyped, RouterTyped', NEW n \in Node, NEW out, NEW s, NEW W,
           air' \subseteq air \cup OnAir(n, out), \A g \in out : Carries(g, W),
           \A m \in Node : \A e \in ackBuffer'[m] : Kept(m, e.frame),
           sender' = [sender EXCEPT ![n] = s],
           s.step \in {"transmit", "store"} => Carries(s.frame, W),
           UNCHANGED receivedPacketIDs
    PROVE  Sends(W)
<1>1. \A m \in Node : \A e \in ackBuffer'[m] : Carries(e.frame, W)
  BY KeptCarries
<1>2. ASSUME NEW m \in Node, sender'[m].step \in {"transmit", "store"}
      PROVE  Carries(sender'[m].frame, W)
  <2>1. CASE m = n
    <3>1. sender'[m] = s
      BY <2>1 DEF RouterTyped
    <3> QED BY <1>2, <3>1
  <2>2. CASE m # n
    <3>1. sender'[m] = sender[m]
      BY <2>2 DEF RouterTyped
    <3>2. Kept(m, sender'[m].frame)
      BY <1>2, <3>1 DEF Kept
    <3> QED BY <3>2, KeptCarries
  <2> QED BY <2>1, <2>2
<1>3. \A d \in Node : receivedPacketIDs[d] \subseteq receivedPacketIDs'[d]
  OBVIOUS
<1>4. ASSUME NEW x, NEW p, OnTheWay(x, p)'
      PROVE  \/ OnTheWay(x, p)
             \/ \E d \in Node : /\ p = <<"way", d>>
                                /\ <<x, p>> \in W
                                /\ x \notin receivedPacketIDs'[d]
  BY <1>1, <1>2, <1>3, <1>4, WayBy
<1> QED BY <1>4 DEF Sends

(* The phones of a node are told something that is no message. *)
TellsOther(n) ==
    \/ UNCHANGED client
    \/ \E note : note \notin UserMessageShown /\ client' = [client EXCEPT ![n] = @ \o <<note>>]

(* Answers to data packets and requests for keys are no messages. *)
LEMMA OtherTold ==
    ASSUME RouterTyped, NEW n \in Node
    PROVE  /\ \A pid : \A t \in {"BLE_Node", "BLE_Broadcast", "BLE_ACK", "BLE_ACK_FAILURE"} :
                  Notify(n, t, pid) => TellsOther(n)
           /\ \A u : Tell(n, <<[type |-> "BLE_PUBKEY_RESP", user |-> u]>>) => TellsOther(n)
<1>1. ASSUME NEW pid, NEW t \in {"BLE_Node", "BLE_Broadcast", "BLE_ACK", "BLE_ACK_FAILURE"},
             Notify(n, t, pid)
      PROVE  TellsOther(n)
  <2>1. PICK note : note = [type |-> t, packetID |-> pid]
    OBVIOUS
  <2>2. note \notin UserMessageShown
    BY <2>1 DEF UserMessageShown
  <2>3. Append(client[n], note) = client[n] \o <<note>>
    <3>1. client[n] \in Seq(Note)
      BY DEF RouterTyped
    <3>2. PICK S : S = Note \cup {note}
      OBVIOUS
    <3>3. client[n] \in Seq(S) /\ note \in S
      BY <3>1, <3>2, SeqMonotone
    <3> QED BY <3>3
  <2>4. client' = [client EXCEPT ![n] = client[n] \o <<note>>]
    BY <1>1, <2>1, <2>3 DEF Notify, RouterTyped
  <2> QED BY <2>2, <2>4 DEF TellsOther
<1>2. ASSUME NEW u, Tell(n, <<[type |-> "BLE_PUBKEY_RESP", user |-> u]>>)
      PROVE  TellsOther(n)
  <2>1. [type |-> "BLE_PUBKEY_RESP", user |-> u] \notin UserMessageShown
    BY DEF UserMessageShown
  <2> QED BY <1>2, <2>1 DEF Tell, TellsOther
<1> QED BY <1>1, <1>2

(* What the application task has in its hands stays the same message. *)
KeepsHold(n, s) ==
    \/ s.step \notin {"anyGateway", "gateway", "home", "askHome", "route", "askRoute"}
    \/ /\ s.msg = sender[n].msg
       /\ sender[n].step \in {"anyGateway", "gateway", "home", "askHome", "route", "askRoute"}

(* So nobody gets a message into its hands. *)
LEMMA HandKept ==
    ASSUME RouterTyped, NEW n \in Node, NEW s, sender' = [sender EXCEPT ![n] = s],
           KeepsHold(n, s), NEW x, NEW p, InHand(x, p)'
    PROVE  InHand(x, p)
<1>1. PICK m \in Node :
          /\ p = <<"sender", m>>
          /\ sender'[m].step \in {"anyGateway", "gateway", "home", "askHome", "route", "askRoute"}
          /\ x = sender'[m].msg.packetID
  BY DEF InHand
<1>2. CASE m = n
  <2>1. sender'[m] = s
    BY <1>2 DEF RouterTyped
  <2> QED BY <1>1, <1>2, <2>1 DEF InHand, KeepsHold
<1>3. CASE m # n
  <2>1. sender'[m] = sender[m]
    BY <1>3 DEF RouterTyped
  <2> QED BY <1>1, <2>1 DEF InHand
<1> QED BY <1>2, <1>3

(* The identifiers drawn stay drawn. *)
LEMMA DrawnStay ==
    ASSUME RouterTyped, NEW n \in Node, UNCHANGED issued \/ \E k \in Nat : Draw(n, k)
    PROVE  \A m \in Node : issued[m] <= issued'[m]
<1>1. \A m \in Node : issued[m] \in Nat
  BY DEF RouterTyped
<1>2. CASE UNCHANGED issued
  BY <1>1, <1>2
<1>3. ASSUME NEW k \in Nat, Draw(n, k)
      PROVE  \A m \in Node : issued[m] <= issued'[m]
  <2>1. \A m \in Node : issued'[m] = IF m = n THEN issued[n] + k ELSE issued[m]
    BY <1>3 DEF Draw, RouterTyped
  <2> QED BY <1>1, <2>1
<1> QED BY <1>2, <1>3

(* A step that moves no message. *)
LEMMA MovesNothing ==
    ASSUME RouterTyped, NEW n \in Node, NEW s,
           UNCHANGED <<inbox, userMsgBuffer, userRouteBuffer, uplinked>>,
           Sends({}), TellsOther(n),
           sender' = [sender EXCEPT ![n] = s], KeepsHold(n, s),
           UNCHANGED issued \/ \E k \in Nat : Draw(n, k)
    PROVE  Undisturbed
<1>1. \A x, p : OnTheWay(x, p)' => OnTheWay(x, p)
  BY DEF Sends
<1>2. \A x, p : InHand(x, p)' => InHand(x, p)
  BY HandKept
<1>3. \A m \in Node : \/ client'[m] = client[m]
                      \/ \E note : /\ note \notin UserMessageShown
                                   /\ client'[m] = client[m] \o <<note>>
  BY DEF TellsOther, RouterTyped
<1>4. \A m \in Node : issued[m] <= issued'[m]
  BY DrawnStay
<1> QED BY <1>1, <1>2, <1>3, <1>4 DEF Undisturbed

(* A handler that moves no message. *)
LEMMA HandlerQuiet ==
    ASSUME RouterTyped, RouterTyped', NEW n \in Node, NEW f, NEW out, NEW k,
           storePacketID(n, f), Emit(n, f, out), \A g \in out : Carries(g, {}),
           \/ \A m \in Node : ackBuffer'[m] \subseteq ackBuffer[m]
           \/ StoreIfRouted(n, k) /\ Carries(k, {}),
           UNCHANGED <<sender, inbox, userMsgBuffer, userRouteBuffer, uplinked>>,
           TellsOther(n),
           UNCHANGED issued \/ \E j \in Nat : Draw(n, j)
    PROVE  Undisturbed
<1>1. Sends({})
  BY HandlerSends
<1>2. sender' = [sender EXCEPT ![n] = sender[n]]
  BY DEF RouterTyped
<1>3. KeepsHold(n, sender[n])
  BY DEF KeepsHold
<1> QED BY <1>1, <1>2, <1>3, MovesNothing

(* What the handlers of the node plane and most of the user plane leave.      *)
LEMMA DropQuiet ==
    ASSUME RouterTyped, RouterTyped', NEW n \in Node, air' \subseteq air,
           \A m \in Node : ackBuffer'[m] \subseteq ackBuffer[m],
           \A d \in Node : receivedPacketIDs[d] \subseteq receivedPacketIDs'[d],
           UNCHANGED <<sender, client, issued, inbox, userMsgBuffer, userRouteBuffer, uplinked>>
    PROVE  Undisturbed
<1>1. PICK out, W : out = {} /\ W = {}
  OBVIOUS
<1>2. air' \subseteq air \cup OnAir(n, out) /\ \A g \in out : Carries(g, W)
  BY <1>1
<1>3. \A m \in Node : \A e \in ackBuffer'[m] : Carries(e.frame, W)
  <2>1. \A m \in Node : \A e \in ackBuffer'[m] : Kept(m, e.frame)
    BY DEF Kept
  <2> QED BY <2>1, KeptCarries
<1>4. \A m \in Node : sender'[m].step \in {"transmit", "store"} => Carries(sender'[m].frame, W)
  BY StillKept, KeptCarries
<1>5. ASSUME NEW x, NEW p, OnTheWay(x, p)'
      PROVE  \/ OnTheWay(x, p)
             \/ \E d \in Node : /\ p = <<"way", d>>
                                /\ <<x, p>> \in W
                                /\ x \notin receivedPacketIDs'[d]
  BY <1>2, <1>3, <1>4, <1>5, WayBy
<1>6. Sends({})
  BY <1>1, <1>5 DEF Sends
<1>7. sender' = [sender EXCEPT ![n] = sender[n]] /\ KeepsHold(n, sender[n])
  BY DEF RouterTyped, KeepsHold
<1>8. TellsOther(n)
  BY DEF TellsOther
<1> QED BY <1>6, <1>7, <1>8, MovesNothing

(* The handlers of the node plane. *)
LEMMA NodePlaneQuiet ==
    ASSUME RouterTyped, RouterTyped', NEW n \in Node, NEW f \in MeshFrame, <<n, f>> \in air,
           f.packetType # "RREP", HandleFrame(n, f), UNCHANGED userVars
    PROVE  Undisturbed
<1>1. storePacketID(n, f)
  BY DEF HandleFrame, FirstSight
<1>2. UNCHANGED <<inbox, userMsgBuffer, userRouteBuffer, uplinked>>
  BY DEF userVars, homeVars, bufferVars, outsideVars
<1>3. \A m : Carries(Forwarded(n, f, m), {})
  BY ForwardCarries
<1>4. \A pid : /\ \A o, d, m, h : Carries(sendRREP(n, pid, o, d, m, h), {})
               /\ \A b, o, d, p : Carries(sendRERR(n, pid, b, o, d, p), {})
               /\ \A d, p : Carries(sendACK(n, pid, d, p), {})
  BY NoMessages DEF Carries
<1>5. CASE HandleRREQ(n, f)
  <2>1. PICK g : /\ Emit(n, f, {g})
                 /\ Carries(g, {})
    BY <1>3, <1>4, <1>5 DEF HandleRREQ
  <2>2. /\ UNCHANGED <<sender, ackBuffer, client>>
        /\ UNCHANGED issued \/ Draw(n, 1)
    BY <1>5 DEF HandleRREQ
  <2>3. PICK out : out = {g}
    OBVIOUS
  <2>4. Emit(n, f, out) /\ \A h \in out : Carries(h, {})
    BY <2>1, <2>3
  <2>5. /\ \A m \in Node : ackBuffer'[m] \subseteq ackBuffer[m]
        /\ TellsOther(n)
        /\ UNCHANGED issued \/ \E j \in Nat : Draw(n, j)
    BY <2>2 DEF TellsOther
  <2> QED BY <1>1, <1>2, <2>2, <2>4, <2>5, HandlerQuiet
<1>6. CASE HandleRERR(n, f)
  <2>1. PICK out : Emit(n, f, out) /\ \A h \in out : Carries(h, {})
    BY <1>3, <1>6 DEF HandleRERR
  <2>2. UNCHANGED <<sender, ackBuffer, client, issued>>
    BY <1>6 DEF HandleRERR
  <2>3. /\ \A m \in Node : ackBuffer'[m] \subseteq ackBuffer[m]
        /\ TellsOther(n)
    BY <2>2 DEF TellsOther
  <2> QED BY <1>1, <1>2, <2>1, <2>2, <2>3, HandlerQuiet
<1>7. CASE f.packetType = "DATA" /\ HandleData(n, f)
  <2>1. \A g \in AckOf(n, f) : Carries(g, {})
    BY <1>4 DEF AckOf
  <2>2. PICK m : m = routeTable[n][f.ext.finalDestID].nextHop
    OBVIOUS
  <2>3. PICK k : k = Forwarded(n, f, m)
    OBVIOUS
  <2>4. \E out : Emit(n, f, out) /\ \A h \in out : Carries(h, {})
    <3>1. CASE DeliverData(n, f)
      BY <2>1, <3>1 DEF DeliverData
    <3>2. CASE RelayBroadcast(n, f)
      <4>1. \A h \in AckOf(n, f) \cup {Forwarded(n, f, BROADCAST_ADDR)} : Carries(h, {})
        BY <1>3, <2>1
      <4> QED BY <3>2, <4>1 DEF RelayBroadcast
    <3>3. CASE ForwardData(n, f)
      <4>1. \A h \in AckOf(n, f) \cup {k} : Carries(h, {})
        BY <1>3, <2>1, <2>3
      <4>2. Emit(n, f, AckOf(n, f) \cup {k}) \/ Emit(n, f, AckOf(n, f))
        BY <2>2, <2>3, <3>3 DEF ForwardData
      <4> QED BY <2>1, <4>1, <4>2
    <3>4. CASE RejectData(n, f)
      <4>1. PICK r : r = sendRERR(n, NewID(n, AcksDrawn(f) + 1), n, f.originNodeID,
                                  f.ext.finalDestID, f.packetID)
        OBVIOUS
      <4>2. \A h \in AckOf(n, f) \cup {r} : Carries(h, {})
        BY <1>4, <2>1, <4>1
      <4>3. Emit(n, f, AckOf(n, f) \cup {r})
        BY <3>4, <4>1 DEF RejectData
      <4> QED BY <4>2, <4>3
    <3> QED BY <1>7, <3>1, <3>2, <3>3, <3>4 DEF HandleData
  <2>5. PICK out : Emit(n, f, out) /\ \A h \in out : Carries(h, {})
    BY <2>4
  <2>6. AcksDrawn(f) \in Nat /\ AcksDrawn(f) + 1 \in Nat
    BY DEF AcksDrawn
  <2>7. UNCHANGED sender /\ \E j \in Nat : Draw(n, j)
    BY <1>7, <2>6 DEF HandleData, DeliverData, RelayBroadcast, ForwardData, RejectData
  <2>8. TellsOther(n)
    <3>1. UNCHANGED client => TellsOther(n)
      BY DEF TellsOther
    <3> QED BY <1>7, <3>1, OtherTold
          DEF HandleData, DeliverData, RelayBroadcast, ForwardData, RejectData
  <2>9. UNCHANGED ackBuffer \/ StoreIfRouted(n, k)
    BY <1>7, <2>2, <2>3 DEF HandleData, DeliverData, RelayBroadcast, ForwardData, RejectData
  <2>10. \/ \A d \in Node : ackBuffer'[d] \subseteq ackBuffer[d]
         \/ StoreIfRouted(n, k) /\ Carries(k, {})
    BY <1>3, <2>3, <2>9
  <2> QED BY <1>1, <1>2, <2>5, <2>7, <2>8, <2>10, HandlerQuiet
<1>8. CASE HandleACK(n, f)
  <2>1. PICK out : out = {}
    OBVIOUS
  <2>2. Emit(n, f, out) /\ \A h \in out : Carries(h, {})
    BY <1>8, <2>1 DEF HandleACK
  <2>3. /\ UNCHANGED <<sender, issued>>
        /\ \A m \in Node : ackBuffer'[m] \subseteq ackBuffer[m]
    BY <1>8 DEF HandleACK, RouterTyped
  <2>4. TellsOther(n)
    <3>1. UNCHANGED client => TellsOther(n)
      BY DEF TellsOther
    <3> QED BY <1>8, <3>1, OtherTold DEF HandleACK
  <2> QED BY <1>1, <1>2, <2>2, <2>3, <2>4, HandlerQuiet
<1> QED BY <1>5, <1>6, <1>7, <1>8 DEF HandleFrame

(* Towards where an answer goes, and to everybody. *)
LEMMA OnwardCarries ==
    ASSUME RouterTyped, NEW n \in Node, NEW f \in MeshFrame, <<n, f>> \in air, NEW W
    PROVE  /\ \A rt, d : \A g \in Onward(n, f, rt, d) : Carries(g, W)
           /\ \A g \in Repeated(n, f) : Carries(g, W)
<1>1. \A m : Carries(Forwarded(n, f, m), W)
  BY ForwardCarries
<1> QED BY <1>1 DEF Onward, Repeated

(* The handlers of the user plane that teach homes and keys. *)
LEMMA TeachersQuiet ==
    ASSUME RouterTyped, RouterTyped', NEW n \in Node, NEW f \in MeshFrame, <<n, f>> \in air,
           storePacketID(n, f),
           \/ HandleUREQ(n, f)
           \/ HandleUERR(n, f)
           \/ HandlePubKeyReq(n, f)
           \/ HandlePubKeyResp(n, f)
           \/ HandleBroadcastInfo(n, f)
    PROVE  Undisturbed
<1>1. /\ \A rt, d : \A g \in Onward(n, f, rt, d) : Carries(g, {})
      /\ \A g \in Repeated(n, f) : Carries(g, {})
      /\ \A m : Carries(Forwarded(n, f, m), {})
  BY OnwardCarries, ForwardCarries
<1>2. \A pid : /\ \A o, d, u, m : Carries(sendUREP(n, pid, o, d, u, m), {})
               /\ \A o, u, m : Carries(sendPubKeyResp(n, pid, o, u, m), {})
  BY NoMessages DEF Carries
<1>3. UNCHANGED client => TellsOther(n)
  BY DEF TellsOther
<1>4. UNCHANGED <<sender, ackBuffer, inbox, userMsgBuffer, userRouteBuffer, uplinked>>
  BY DEF HandleUREQ, HandleUERR, HandlePubKeyReq, HandlePubKeyResp, HandleBroadcastInfo,
         quietVars, userVars, homeVars, bufferVars, outsideVars
<1>5. UNCHANGED issued \/ \E j \in Nat : Draw(n, j)
  BY DEF HandleUREQ, HandleUERR, HandlePubKeyReq, HandlePubKeyResp, HandleBroadcastInfo
<1>6. TellsOther(n)
  BY <1>3, OtherTold
     DEF HandleUREQ, HandleUERR, HandlePubKeyReq, HandlePubKeyResp, HandleBroadcastInfo
<1>7. \E out : Emit(n, f, out) /\ \A g \in out : Carries(g, {})
  <2>1. CASE HandleUREQ(n, f)
    BY <1>1, <1>2, <2>1 DEF HandleUREQ
  <2>2. CASE HandleUERR(n, f)
    BY <1>1, <2>2 DEF HandleUERR
  <2>3. CASE HandlePubKeyReq(n, f)
    BY <1>1, <1>2, <2>3 DEF HandlePubKeyReq
  <2>4. CASE HandlePubKeyResp(n, f)
    BY <1>1, <2>4 DEF HandlePubKeyResp
  <2>5. CASE HandleBroadcastInfo(n, f)
    BY <1>1, <2>5 DEF HandleBroadcastInfo
  <2> QED BY <2>1, <2>2, <2>3, <2>4, <2>5
<1>8. PICK out : Emit(n, f, out) /\ \A g \in out : Carries(g, {})
  BY <1>7
<1>9. \A m \in Node : ackBuffer'[m] \subseteq ackBuffer[m]
  BY <1>4
<1> QED BY <1>4, <1>5, <1>6, <1>8, <1>9, HandlerQuiet

(* A message that is refused, sent on, or cannot be. *)
LEMMA CarrierQuiet ==
    ASSUME RouterTyped, RouterTyped', NEW n \in Node, NEW f \in MeshFrame, <<n, f>> \in air,
           storePacketID(n, f), HandleUserMessage(n, f),
           \/ RefuseUserMessage(n, f)
           \/ ForwardUserMessage(n, f)
           \/ RejectUserMessage(n, f)
    PROVE  Undisturbed
<1>1. \A g \in HopAck(n, f) : Carries(g, {})
  <2>1. \A pid, d, p : Carries(sendACK(n, pid, d, p), {})
    BY NoMessages DEF Carries
  <2> QED BY <2>1 DEF HopAck
<1>2. HopAcksDrawn(f) \in Nat /\ HopAcksDrawn(f) + 1 \in Nat
  BY HopAcks
<1>3. /\ UNCHANGED <<sender, client, inbox, userMsgBuffer, userRouteBuffer, uplinked>>
      /\ \E j \in Nat : Draw(n, j)
  BY <1>2 DEF HandleUserMessage, quietVars, bufferVars, RefuseUserMessage,
              ForwardUserMessage, RejectUserMessage
<1>4. PICK m : m = routeTable[n][f.ext.toNodeID].nextHop
  OBVIOUS
<1>5. PICK k : k = Forwarded(n, f, m)
  OBVIOUS
<1>6. Carries(k, {})
  BY <1>5, ForwardCarries
<1>7. UNCHANGED ackBuffer \/ StoreIfRouted(n, k)
  BY <1>4, <1>5 DEF RefuseUserMessage, ForwardUserMessage, RejectUserMessage
<1>8. \E out : Emit(n, f, out) /\ \A g \in out : Carries(g, {})
  <2>1. CASE RefuseUserMessage(n, f)
    <3>1. PICK r : r = sendUERR(n, NewID(n, HopAcksDrawn(f) + 1), f.originNodeID,
                                f.ext.toUserID, f.prevHopID)
      OBVIOUS
    <3>2. Emit(n, f, HopAck(n, f) \cup {r})
      BY <2>1, <3>1 DEF RefuseUserMessage
    <3>3. Carries(r, {})
      BY <3>1, NoMessages DEF Carries
    <3>4. \A g \in HopAck(n, f) \cup {r} : Carries(g, {})
      BY <1>1, <3>3
    <3> QED BY <3>2, <3>4
  <2>2. CASE ForwardUserMessage(n, f)
    <3>1. Emit(n, f, HopAck(n, f) \cup {k}) \/ Emit(n, f, HopAck(n, f))
      BY <1>4, <1>5, <2>2 DEF ForwardUserMessage
    <3>2. \A g \in HopAck(n, f) \cup {k} : Carries(g, {})
      BY <1>1, <1>6
    <3> QED BY <1>1, <3>1, <3>2
  <2>3. CASE RejectUserMessage(n, f)
    <3>1. PICK r : r = sendRERR(n, NewID(n, HopAcksDrawn(f) + 1), n, f.originNodeID,
                                f.ext.toNodeID, f.packetID)
      OBVIOUS
    <3>2. Emit(n, f, HopAck(n, f) \cup {r})
      BY <2>3, <3>1 DEF RejectUserMessage
    <3>3. Carries(r, {})
      BY <3>1, NoMessages DEF Carries
    <3>4. \A g \in HopAck(n, f) \cup {r} : Carries(g, {})
      BY <1>1, <3>3
    <3> QED BY <3>2, <3>4
  <2> QED BY <2>1, <2>2, <2>3
<1>9. PICK out : Emit(n, f, out) /\ \A g \in out : Carries(g, {})
  BY <1>8
<1>10. \/ \A d \in Node : ackBuffer'[d] \subseteq ackBuffer[d]
       \/ StoreIfRouted(n, k) /\ Carries(k, {})
  BY <1>6, <1>7
<1>11. TellsOther(n)
  BY <1>3 DEF TellsOther
<1> QED BY <1>3, <1>9, <1>10, <1>11, HandlerQuiet

(* An answer, or a move, for another node. *)
LEMMA PassingQuiet ==
    ASSUME RouterTyped, RouterTyped', NEW n \in Node, NEW f \in MeshFrame, <<n, f>> \in air,
           storePacketID(n, f),
           \/ HandleUREP(n, f) /\ n # f.originNodeID
           \/ HandleMoveUserReq(n, f) /\ n # f.ext.destNodeID
    PROVE  Undisturbed
<1>1. \A rt, d : \A g \in Onward(n, f, rt, d) : Carries(g, {})
  BY OnwardCarries
<1>2. PICK out : Emit(n, f, out) /\ \A g \in out : Carries(g, {})
  BY <1>1 DEF HandleUREP, HandleMoveUserReq
<1>3. UNCHANGED <<sender, ackBuffer, client, issued, inbox, userMsgBuffer, userRouteBuffer,
                  uplinked>>
  BY DEF HandleUREP, HandleMoveUserReq, quietVars, homeVars, outsideVars
<1>4. TellsOther(n) /\ \A m \in Node : ackBuffer'[m] \subseteq ackBuffer[m]
  BY <1>3 DEF TellsOther
<1> QED BY <1>2, <1>3, <1>4, HandlerQuiet

(* A step of another task that moves no message. *)
LEMMA TaskQuiet ==
    ASSUME RouterTyped, RouterTyped', NEW n \in Node, NEW out, NEW s,
           air' \subseteq air \cup OnAir(n, out), \A g \in out : Carries(g, {}),
           \A m \in Node : \A e \in ackBuffer'[m] : Kept(m, e.frame),
           sender' = [sender EXCEPT ![n] = s], KeepsHold(n, s),
           s.step \in {"transmit", "store"} => Carries(s.frame, {}),
           UNCHANGED <<receivedPacketIDs, inbox, userMsgBuffer, userRouteBuffer, uplinked>>,
           TellsOther(n),
           UNCHANGED issued \/ \E j \in Nat : Draw(n, j)
    PROVE  Undisturbed
<1>1. Sends({})
  BY TaskSends
<1> QED BY <1>1, MovesNothing

(* A step that leaves the application task alone. *)
LEMMA SenderQuiet ==
    ASSUME RouterTyped, RouterTyped', NEW n \in Node, NEW out,
           air' \subseteq air \cup OnAir(n, out), \A g \in out : Carries(g, {}),
           \A m \in Node : \A e \in ackBuffer'[m] : Kept(m, e.frame),
           UNCHANGED <<sender, receivedPacketIDs, inbox, userMsgBuffer, userRouteBuffer,
                       uplinked>>,
           TellsOther(n),
           UNCHANGED issued \/ \E j \in Nat : Draw(n, j)
    PROVE  Undisturbed
<1>1. sender' = [sender EXCEPT ![n] = sender[n]]
  BY DEF RouterTyped
<1>2. KeepsHold(n, sender[n])
  BY DEF KeepsHold
<1>3. sender[n].step \in {"transmit", "store"} => Carries(sender[n].frame, {})
  <2>1. sender[n].step \in {"transmit", "store"} => Kept(n, sender[n].frame)
    BY DEF Kept
  <2> QED BY <2>1, KeptCarries
<1> QED BY <1>1, <1>2, <1>3, TaskQuiet

(* The application task, in sendData: what it has in its hands is a frame or  *)
(* a data packet.                                                            *)
LEMMA ApplicationQuiet ==
    ASSUME RouterTyped, RouterTyped', NEW n \in Node, ApplicationTask(n), UNCHANGED userVars
    PROVE  Undisturbed
<1>0. /\ Idle.step = "idle"
      /\ sender[n] \in MeshSending
      /\ sender = [sender EXCEPT ![n] = sender[n]]
      /\ UNCHANGED <<inbox, userMsgBuffer, userRouteBuffer, uplinked>>
      /\ KeepsHold(n, Idle)
      /\ KeepsHold(n, sender[n])
  BY DEF Idle, RouterTyped, userVars, homeVars, bufferVars, outsideVars, KeepsHold
<1>1. /\ \A pid, d : Carries(sendRREQ(n, pid, d), {})
      /\ \A pid, m, d, x : Carries(dataFrame(n, pid, m, d, x), {})
  BY NoMessages DEF Carries
<1>2. /\ UNCHANGED <<receivedPacketIDs, client>>
      /\ TellsOther(n)
      /\ UNCHANGED issued \/ \E j \in Nat : Draw(n, j)
  <2>1. UNCHANGED <<receivedPacketIDs, client>>
    BY DEF ApplicationTask, sendData, SendDataBuffer, SendDataTransmit, SendDataDrop,
           SendDataStore
  <2>2. UNCHANGED issued \/ \E j \in Nat : Draw(n, j)
    BY DEF ApplicationTask, sendData, SendDataBuffer, SendDataTransmit, SendDataDrop,
           SendDataStore
  <2> QED BY <2>1, <2>2 DEF TellsOther
<1>3. ASSUME NEW r \in Requests, sendData(n, r)
      PROVE  Undisturbed
  <2>0. UNCHANGED ackBuffer
    BY <1>3 DEF sendData
  <2>1. \A m \in Node : \A e \in ackBuffer'[m] : Kept(m, e.frame)
    BY <2>0, StillKept
  <2>2. CASE r.to = BROADCAST_ADDR
    <3>1. PICK g : g = dataFrame(n, NewID(n, 1), BROADCAST_ADDR, BROADCAST_ADDR, r.flags)
      OBVIOUS
    <3>2. PICK out : out = {g}
      OBVIOUS
    <3>3. air' \subseteq air \cup OnAir(n, out) /\ UNCHANGED sender
      BY <1>3, <2>2, <3>1, <3>2 DEF sendData
    <3>4. \A h \in out : Carries(h, {})
      BY <1>1, <3>1, <3>2
    <3> QED BY <1>0, <1>2, <2>1, <3>3, <3>4, SenderQuiet
  <2>3. CASE r.to # BROADCAST_ADDR
    <3>1. PICK s : s = IF routeTable[n][r.to] = NoRoute
                       THEN [step |-> "buffer", packetID |-> NewID(n, 1), dest |-> r.to]
                       ELSE [step |-> "transmit",
                             frame |-> dataFrame(n, NewID(n, 1), routeTable[n][r.to].nextHop,
                                                 r.to, r.flags)]
      OBVIOUS
    <3>2. sender' = [sender EXCEPT ![n] = s] /\ air' = air
      BY <1>3, <2>3, <3>1 DEF sendData
    <3>3. s.step \in {"transmit", "store"} => Carries(s.frame, {})
      BY <1>1, <3>1
    <3>4. KeepsHold(n, s)
      BY <3>1 DEF KeepsHold
    <3>5. PICK out : out = {}
      OBVIOUS
    <3>6. air' \subseteq air \cup OnAir(n, out) /\ \A h \in out : Carries(h, {})
      BY <3>2, <3>5
    <3> QED BY <1>0, <1>2, <2>1, <3>2, <3>3, <3>4, <3>6, TaskQuiet
  <2> QED BY <2>2, <2>3
<1>4. CASE SendDataBuffer(n)
  <2>1. PICK g : g = sendRREQ(n, NewID(n, 1), sender[n].dest)
    OBVIOUS
  <2>2. PICK out : out = {g}
    OBVIOUS
  <2>3. /\ UNCHANGED ackBuffer
        /\ air' \subseteq air \cup OnAir(n, out)
        /\ sender' = [sender EXCEPT ![n] = Idle]
    BY <1>4, <2>1, <2>2 DEF SendDataBuffer
  <2>4. \A m \in Node : \A e \in ackBuffer'[m] : Kept(m, e.frame)
    BY <2>3, StillKept
  <2>5. \A h \in out : Carries(h, {})
    BY <1>1, <2>1, <2>2
  <2> QED BY <1>0, <1>2, <2>3, <2>4, <2>5, TaskQuiet
<1>5. CASE SendDataTransmit(n)
  <2>1. PICK s : s = IF MustStore(sender[n].frame) THEN [sender[n] EXCEPT !.step = "store"]
                     ELSE Idle
    OBVIOUS
  <2>2. PICK out : out = {sender[n].frame}
    OBVIOUS
  <2>3. /\ UNCHANGED ackBuffer
        /\ air' \subseteq air \cup OnAir(n, out)
        /\ sender' = [sender EXCEPT ![n] = s]
        /\ sender[n].step = "transmit"
    BY <1>5, <2>1, <2>2 DEF SendDataTransmit
  <2>4. Kept(n, sender[n].frame)
    BY <2>3 DEF Kept
  <2>5. Carries(sender[n].frame, {})
    BY <2>4, KeptCarries
  <2>6. /\ s.step \in {"store", "idle"}
        /\ s.step = "store" => s.frame = sender[n].frame
    BY <1>0, <2>1, <2>3 DEF MeshSending
  <2>7. KeepsHold(n, s)
    BY <2>6 DEF KeepsHold
  <2>8. s.step \in {"transmit", "store"} => Carries(s.frame, {})
    BY <2>5, <2>6
  <2>9. \A m \in Node : \A e \in ackBuffer'[m] : Kept(m, e.frame)
    BY <2>3, StillKept
  <2>10. \A h \in out : Carries(h, {})
    BY <2>2, <2>5
  <2> QED BY <1>0, <1>2, <2>3, <2>7, <2>8, <2>9, <2>10, TaskQuiet
<1>6. CASE SendDataDrop(n) \/ SendDataStore(n)
  <2>1. PICK out : out = {}
    OBVIOUS
  <2>2. /\ UNCHANGED air
        /\ UNCHANGED ackBuffer \/ StoreIfRouted(n, sender[n].frame)
        /\ sender' = [sender EXCEPT ![n] = Idle]
        /\ sender[n].step \in {"transmit", "store"}
    BY <1>6 DEF SendDataDrop, SendDataStore
  <2>3. \A m \in Node : \A e \in ackBuffer'[m] : Kept(m, e.frame)
    <3>1. Kept(n, sender[n].frame)
      BY <2>2 DEF Kept
    <3> QED BY <2>2, <3>1, StoredKept
  <2>4. air' \subseteq air \cup OnAir(n, out) /\ \A h \in out : Carries(h, {})
    BY <2>1, <2>2
  <2> QED BY <1>0, <1>2, <2>2, <2>3, <2>4, TaskQuiet
<1> QED BY <1>3, <1>4, <1>5, <1>6 DEF ApplicationTask

(* The timer worker sends what is kept, and reports. *)
LEMMA TimerQuiet ==
    ASSUME RouterTyped, RouterTyped', NEW n \in Node, TimerWorker(n), UNCHANGED userVars
    PROVE  Undisturbed
<1>1. UNCHANGED <<inbox, userMsgBuffer, userRouteBuffer, uplinked>>
  BY DEF userVars, homeVars, bufferVars, outsideVars
<1>2. CASE CleanupAckBuffer(n)
  <2>1. PICK due \in SUBSET ackBuffer[n] :
            /\ ackBuffer' = [ackBuffer EXCEPT ![n] =
                   (@ \ due) \cup {Retried(e) : e \in {x \in due : MayRetry(x)}}]
            /\ air' = air \cup OnAir(n, {e.frame : e \in {x \in due : MayRetry(x)}})
    BY <1>2 DEF CleanupAckBuffer
  <2>2. PICK out : out = {e.frame : e \in {x \in due : MayRetry(x)}}
    OBVIOUS
  <2>3. \A g \in out : Carries(g, {})
    <3>1. \A g \in out : Kept(n, g)
      BY <2>2 DEF Kept
    <3> QED BY <3>1, KeptCarries
  <2>4. \A m \in Node : \A e \in ackBuffer'[m] : \E x \in ackBuffer[m] : e.frame = x.frame
    <3>1. \A x \in ackBuffer[n] : Retried(x).frame = x.frame
      <4>1. ackBuffer[n] \subseteq KeptEntry
        BY DEF RouterTyped
      <4> QED BY <4>1 DEF Retried, KeptEntry
    <3>2. ASSUME NEW m \in Node, NEW e \in ackBuffer'[m]
          PROVE  \E x \in ackBuffer[m] : e.frame = x.frame
      <4>1. CASE m # n
        <5>1. ackBuffer'[m] = ackBuffer[m]
          BY <2>1, <4>1 DEF RouterTyped
        <5> QED BY <3>2, <5>1
      <4>2. CASE m = n
        <5>1. ackBuffer'[m] = (ackBuffer[n] \ due)
                                  \cup {Retried(x) : x \in {y \in due : MayRetry(y)}}
          BY <2>1, <4>2 DEF RouterTyped
        <5>2. e \in ackBuffer[n] \/ \E x \in due : e = Retried(x)
          BY <3>2, <5>1
        <5> QED BY <3>1, <4>2, <5>2
      <4> QED BY <4>1, <4>2
    <3> QED BY <3>2
  <2>5. \A m \in Node : \A e \in ackBuffer'[m] : Kept(m, e.frame)
    BY <2>4 DEF Kept
  <2>6. /\ UNCHANGED <<sender, receivedPacketIDs, client, issued>>
        /\ air' \subseteq air \cup OnAir(n, out)
    BY <1>2, <2>1, <2>2 DEF CleanupAckBuffer
  <2>7. TellsOther(n)
    BY <2>6 DEF TellsOther
  <2> QED BY <1>1, <2>3, <2>5, <2>6, <2>7, SenderQuiet
<1>3. CASE ReportExpired(n)
  <2>1. PICK e \in expired[n] :
            /\ air' = air \cup OnAir(n, {sendRERR(n, NewID(n, 1), n, e.frame.originNodeID,
                                                  Undecipherable, e.frame.packetID)})
            /\ Notify(n, "BLE_ACK_FAILURE", e.frame.packetID)
    BY <1>3 DEF ReportExpired
  <2>2. PICK g : g = sendRERR(n, NewID(n, 1), n, e.frame.originNodeID, Undecipherable,
                              e.frame.packetID)
    OBVIOUS
  <2>3. Carries(g, {})
    BY <2>2, NoMessages DEF Carries
  <2>4. PICK out : out = {g}
    OBVIOUS
  <2>5. /\ UNCHANGED <<sender, ackBuffer, receivedPacketIDs>>
        /\ air' \subseteq air \cup OnAir(n, out)
        /\ \E j \in Nat : Draw(n, j)
    BY <1>3, <2>1, <2>2, <2>4 DEF ReportExpired
  <2>6. \A m \in Node : \A x \in ackBuffer'[m] : Kept(m, x.frame)
    BY <2>5, StillKept
  <2>7. TellsOther(n)
    BY <2>1, OtherTold
  <2>8. \A h \in out : Carries(h, {})
    BY <2>3, <2>4
  <2> QED BY <1>1, <2>5, <2>6, <2>7, <2>8, SenderQuiet
<1> QED BY <1>2, <1>3 DEF TimerWorker

(* sendUserMessage looks around: for a gateway, a home and a route. *)
LEMMA LookQuiet ==
    ASSUME RouterTyped, RouterTyped', NEW n \in Node,
           \/ AnyGateway(n)
           \/ PickGateway(n)
           \/ ReadHome(n)
           \/ ReadRoute(n) /\ routeTable[n][sender[n].dest] = NoRoute
    PROVE  Undisturbed
<1>0. sender[n] \in MeshSending /\ Idle.step = "idle"
  BY DEF Idle, RouterTyped
<1>1. /\ UNCHANGED <<ackBuffer, receivedPacketIDs, inbox, userMsgBuffer, userRouteBuffer,
                     uplinked, issued, client, air>>
  BY DEF AnyGateway, PickGateway, ReadHome, ReadRoute, SendingLeaves, homeVars, outsideVars
<1>2. \E s : Start(n, s) /\ KeepsHold(n, s) /\ s.step \notin {"transmit", "store"}
  <2>1. CASE AnyGateway(n)
    <3>1. /\ [sender[n] EXCEPT !.step = "gateway"].step = "gateway"
          /\ [sender[n] EXCEPT !.step = "gateway"].msg = sender[n].msg
      BY <1>0, <2>1 DEF AnyGateway, MeshSending
    <3>2. KeepsHold(n, Idle) /\ KeepsHold(n, [sender[n] EXCEPT !.step = "gateway"])
      BY <1>0, <2>1, <3>1 DEF KeepsHold, AnyGateway
    <3> QED BY <1>0, <2>1, <3>1, <3>2 DEF AnyGateway
  <2>2. CASE PickGateway(n)
    BY <2>2 DEF PickGateway, KeepsHold
  <2>3. CASE ReadHome(n)
    <3>1. PICK m : m = sender[n].msg
      OBVIOUS
    <3>2. PICK d : d = gut[n][m.toUserID]
      OBVIOUS
    <3>3. PICK s : s \in {[step |-> "route", msg |-> m, dest |-> d],
                          [step |-> "askHome", msg |-> m]} /\ Start(n, s)
      BY <2>3, <3>1, <3>2 DEF ReadHome
    <3>4. KeepsHold(n, s) /\ s.step \notin {"transmit", "store"}
      BY <2>3, <3>1, <3>3 DEF KeepsHold, ReadHome
    <3> QED BY <3>3, <3>4
  <2>4. CASE ReadRoute(n) /\ routeTable[n][sender[n].dest] = NoRoute
    <3>1. /\ [sender[n] EXCEPT !.step = "askRoute"].step = "askRoute"
          /\ [sender[n] EXCEPT !.step = "askRoute"].msg = sender[n].msg
          /\ sender[n].step = "route"
      BY <1>0, <2>4 DEF ReadRoute, MeshSending
    <3>2. KeepsHold(n, [sender[n] EXCEPT !.step = "askRoute"])
      BY <3>1 DEF KeepsHold
    <3>3. Start(n, [sender[n] EXCEPT !.step = "askRoute"])
      BY <2>4 DEF ReadRoute
    <3> QED BY <3>1, <3>2, <3>3
  <2> QED BY <2>1, <2>2, <2>3, <2>4
<1>3. PICK s : Start(n, s) /\ KeepsHold(n, s) /\ s.step \notin {"transmit", "store"}
  BY <1>2
<1>4. PICK out : out = {}
  OBVIOUS
<1>5. /\ air' \subseteq air \cup OnAir(n, out)
      /\ \A h \in out : Carries(h, {})
      /\ sender' = [sender EXCEPT ![n] = s]
      /\ TellsOther(n)
  BY <1>1, <1>3, <1>4 DEF Start, TellsOther
<1>6. \A m \in Node : \A e \in ackBuffer'[m] : Kept(m, e.frame)
  BY <1>1, StillKept
<1> QED BY <1>1, <1>3, <1>5, <1>6, TaskQuiet

(* The calls from outside that bring no message and hand none over. *)
LEMMA CallQuiet ==
    ASSUME RouterTyped, RouterTyped', NEW n \in Node, NEW c,
           \/ MoveCall(n, c)
           \/ KeyCall(n, c)
           \/ LeaveCall(n, c)
           \/ BroadcastCall(n, c)
           \/ UplinkCall(n, c)
    PROVE  Undisturbed
<1>1. UNCHANGED <<ackBuffer, sender, receivedPacketIDs, inbox, userMsgBuffer, userRouteBuffer,
                  uplinked>>
  <2>1. CASE MoveCall(n, c) \/ KeyCall(n, c) \/ BroadcastCall(n, c)
    BY <2>1 DEF MoveCall, KeyCall, BroadcastCall, homeVars, bufferVars
  <2>2. CASE LeaveCall(n, c) \/ UplinkCall(n, c)
    BY <2>2 DEF LeaveCall, UplinkCall, vars, homeVars, bufferVars
  <2> QED BY <2>1, <2>2
<1>2. \A m \in Node : \A e \in ackBuffer'[m] : Kept(m, e.frame)
  BY <1>1, StillKept
<1>3. TellsOther(n)
  <2>1. UNCHANGED client => TellsOther(n)
    BY DEF TellsOther
  <2> QED BY <2>1, OtherTold DEF MoveCall, KeyCall, BroadcastCall, LeaveCall, UplinkCall, vars
<1>4. UNCHANGED issued \/ \E j \in Nat : Draw(n, j)
  BY DEF MoveCall, KeyCall, BroadcastCall, LeaveCall, UplinkCall, vars
<1>5. \E out : air' \subseteq air \cup OnAir(n, out) /\ \A h \in out : Carries(h, {})
  <2>1. CASE MoveCall(n, c)
    <3>1. PICK d : d = c.oldNodeID
      OBVIOUS
    <3>2. PICK asking : asking = IF routeTable[n][d] = NoRoute
                                 THEN sendRREQ(n, NewID(n, 1), d)
                                 ELSE moveUserReqFrame(n, NewID(n, 1),
                                                       routeTable[n][d].nextHop, c.user, d)
      OBVIOUS
    <3>3. air' = air \cup OnAir(n, {asking})
      BY <2>1, <3>1, <3>2 DEF MoveCall
    <3>4. Carries(asking, {})
      BY <3>2, NoMessages DEF Carries
    <3> QED BY <3>3, <3>4
  <2>2. CASE KeyCall(n, c)
    <3>1. \/ UNCHANGED air
          \/ \E d, u, v : air' = air \cup OnAir(n, {pubKeyReqFrame(n, NewID(n, 1), d, u, v)})
      BY <2>2 DEF KeyCall
    <3>2. \A d, u, v : Carries(pubKeyReqFrame(n, NewID(n, 1), d, u, v), {})
      BY NoMessages DEF Carries
    <3>3. PICK none : none = {}
      OBVIOUS
    <3>4. CASE UNCHANGED air
      <4>1. air' \subseteq air \cup OnAir(n, none) /\ \A h \in none : Carries(h, {})
        BY <3>3, <3>4
      <4> QED BY <4>1
    <3>5. ASSUME NEW d, NEW u, NEW v,
                 air' = air \cup OnAir(n, {pubKeyReqFrame(n, NewID(n, 1), d, u, v)})
          PROVE  \E out : air' \subseteq air \cup OnAir(n, out) /\ \A h \in out : Carries(h, {})
      <4>1. PICK k : k = pubKeyReqFrame(n, NewID(n, 1), d, u, v)
        OBVIOUS
      <4>2. air' \subseteq air \cup OnAir(n, {k}) /\ \A h \in {k} : Carries(h, {})
        BY <3>2, <3>5, <4>1
      <4> QED BY <4>2
    <3> QED BY <3>1, <3>4, <3>5
  <2>3. CASE LeaveCall(n, c) \/ UplinkCall(n, c)
    <3>1. UNCHANGED air
      BY <2>3 DEF LeaveCall, UplinkCall, vars
    <3>2. PICK none : none = {}
      OBVIOUS
    <3>3. air' \subseteq air \cup OnAir(n, none)
      BY <3>1
    <3> QED BY <3>2, <3>3
  <2>4. CASE BroadcastCall(n, c)
    <3>1. PICK added \in SetToSeqs(diff[n].added), removed \in SetToSeqs(diff[n].removed) :
              air' = air \cup OnAir(n, DiffPackets(n, NewID(n, 1), added, removed))
      BY <2>4 DEF BroadcastCall
    <3>2. \A g \in DiffPackets(n, NewID(n, 1), added, removed) :
              \E x, y : g = broadcastInfoFrame(n, NewID(n, 1), x, y)
      BY DEF DiffPackets
    <3>3. \A x, y : Carries(broadcastInfoFrame(n, NewID(n, 1), x, y), {})
      BY NoMessages DEF Carries
    <3> QED BY <3>1, <3>2, <3>3
  <2> QED BY <2>1, <2>2, <2>3, <2>4
<1>6. PICK out : air' \subseteq air \cup OnAir(n, out) /\ \A h \in out : Carries(h, {})
  BY <1>5
<1> QED BY <1>1, <1>2, <1>3, <1>4, <1>6, SenderQuiet

-----------------------------------------------------------------------------
(* The steps that hand messages over. *)

(* What p holds of x after the step it held before, or src gave it. *)
From(src, R, x, p) ==
    \/ Holds(x, p) /\ p # src
    \/ Holds(x, src) /\ <<x, p>> \in R

(* What a step leaves alone, or only adds to as R says, src not being among it. *)
LEMMA StaysFrom ==
    ASSUME RouterTyped, RouterTyped', NEW src, NEW R, NEW x \in PacketID, NEW p
    PROVE  /\ UNCHANGED inbox /\ src[1] # "inbox" /\ InInbox(x, p)' => From(src, R, x, p)
           /\ UNCHANGED userMsgBuffer /\ src[1] # "home" /\ WantsHome(x, p)'
                  => From(src, R, x, p)
           /\ UNCHANGED userRouteBuffer /\ src[1] # "route" /\ WantsRoute(x, p)'
                  => From(src, R, x, p)
           /\ UNCHANGED client /\ src[1] # "shown" /\ IsShown(x, p)' => From(src, R, x, p)
           /\ UNCHANGED sender /\ src[1] # "sender" /\ InHand(x, p)' => From(src, R, x, p)
           /\ UNCHANGED uplinked /\ src[1] # "uplinked" /\ IsUplinked(x, p)'
                  => From(src, R, x, p)
           /\ (UNCHANGED issued \/ \E n \in Node, k \in Nat : Draw(n, k))
                  /\ src[1] # "undrawn" /\ Undrawn(x, p)' => From(src, R, x, p)
           /\ Sends({}) /\ src[1] # "way" /\ OnTheWay(x, p)' => From(src, R, x, p)
<1>1. UNCHANGED inbox /\ src[1] # "inbox" /\ InInbox(x, p)' => From(src, R, x, p)
  BY StaysPut, Kinds DEF From, Holds
<1>2. UNCHANGED userMsgBuffer /\ src[1] # "home" /\ WantsHome(x, p)' => From(src, R, x, p)
  BY StaysPut, Kinds DEF From, Holds
<1>3. UNCHANGED userRouteBuffer /\ src[1] # "route" /\ WantsRoute(x, p)' => From(src, R, x, p)
  BY StaysPut, Kinds DEF From, Holds
<1>4. UNCHANGED client /\ src[1] # "shown" /\ IsShown(x, p)' => From(src, R, x, p)
  BY StaysPut, Kinds DEF From, Holds
<1>5. UNCHANGED sender /\ src[1] # "sender" /\ InHand(x, p)' => From(src, R, x, p)
  BY StaysPut, Kinds DEF From, Holds
<1>6. UNCHANGED uplinked /\ src[1] # "uplinked" /\ IsUplinked(x, p)' => From(src, R, x, p)
  BY StaysPut, Kinds DEF From, Holds
<1>7. ASSUME UNCHANGED issued \/ \E n \in Node, k \in Nat : Draw(n, k), Undrawn(x, p)'
      PROVE  Undrawn(x, p)
  <2>1. \A m \in Node : issued[m] <= issued'[m]
    <3>1. CASE UNCHANGED issued
      <4>1. \A m \in Node : issued[m] \in Nat
        BY DEF RouterTyped
      <4> QED BY <3>1, <4>1
    <3>2. CASE \E n \in Node, k \in Nat : Draw(n, k)
      BY <3>2, DrawnStay
    <3> QED BY <1>7, <3>1, <3>2
  <2>2. /\ x[1] \in Node /\ x[2] \in Nat
        /\ issued[x[1]] \in Nat /\ issued'[x[1]] \in Nat
        /\ issued[x[1]] <= issued'[x[1]]
    BY <2>1 DEF PacketID, RouterTyped
  <2> QED BY <1>7, <2>2 DEF Undrawn
<1>8. ASSUME UNCHANGED issued \/ \E n \in Node, k \in Nat : Draw(n, k),
             src[1] # "undrawn", Undrawn(x, p)'
      PROVE  From(src, R, x, p)
  <2>1. Undrawn(x, p)
    BY <1>7, <1>8
  <2> QED BY <1>8, <2>1, Kinds DEF From, Holds
<1>9. Sends({}) /\ src[1] # "way" /\ OnTheWay(x, p)' => From(src, R, x, p)
  <2>1. Sends({}) /\ OnTheWay(x, p)' => OnTheWay(x, p)
    BY DEF Sends
  <2> QED BY <2>1, Kinds DEF From, Holds
<1> QED BY <1>1, <1>2, <1>3, <1>4, <1>5, <1>6, <1>8, <1>9

(* A step whose every place holds what it should. *)
LEMMA MovesBetween ==
    ASSUME Apart, NEW src \in Place, NEW R,
           \A x \in PacketID, p, q \in Place : <<x, p>> \in R /\ <<x, q>> \in R => p = q,
           \A x \in PacketID, p \in Place : Holds(x, p)' => From(src, R, x, p)
    PROVE  Apart'
<1>1. HandsOver(src, R)
  BY DEF HandsOver, From
<1> QED BY <1>1, HandedOver

(* Where sendUserMessage, run by the router task of n, takes a message. *)
Goes(n, rt, g, m) ==
    IF ~HasHome(g, m) THEN <<"home", n, m.toUserID>>
    ELSE IF rt[g[m.toUserID]] = NoRoute THEN <<"route", n, g[m.toUserID]>>
    ELSE <<"way", g[m.toUserID]>>

Pours(n, rt, g, ms) == {<<ms[i].packetID, Goes(n, rt, g, ms[i])>> : i \in DOMAIN ms}

(* Each of the messages goes to one place. *)
LEMMA PourOnce ==
    ASSUME NEW n, NEW rt, NEW g, NEW ms, NoRepeats(ms),
           NEW x, NEW p, NEW q, <<x, p>> \in Pours(n, rt, g, ms), <<x, q>> \in Pours(n, rt, g, ms)
    PROVE  p = q
<1>1. PICK i \in DOMAIN ms : <<x, p>> = <<ms[i].packetID, Goes(n, rt, g, ms[i])>>
  BY DEF Pours
<1>2. PICK j \in DOMAIN ms : <<x, q>> = <<ms[j].packetID, Goes(n, rt, g, ms[j])>>
  BY DEF Pours
<1>3. i = j
  BY <1>1, <1>2 DEF NoRepeats
<1> QED BY <1>1, <1>2, <1>3

(* Those whose home and route are known go on their way. *)
LEMMA PourCarries ==
    ASSUME NEW n, NEW rt, NEW g, NEW ms, NEW k
    PROVE  \A h \in Resend(n, rt, g, ms, k) : Carries(h, Pours(n, rt, g, ms))
<1> DEFINE W == Pours(n, rt, g, ms)
           home(i) == g[ms[i].toUserID]
           frame(i) == IF ~HasHome(g, ms[i]) THEN sendUREQ(n, NewID(n, k + i), ms[i].toUserID)
                       ELSE IF rt[home(i)] = NoRoute
                       THEN sendRREQ(n, NewID(n, k + i), home(i))
                       ELSE userMsgFrame(n, ms[i], rt[home(i)].nextHop, home(i))
<1>1. ASSUME NEW i \in DOMAIN ms
      PROVE  Carries(frame(i), W)
  <2>1. CASE ~HasHome(g, ms[i])
    <3>1. sendUREQ(n, NewID(n, k + i), ms[i].toUserID).packetType # "USER_MSG"
      BY NoMessages
    <3> QED BY <2>1, <3>1 DEF Carries
  <2>2. CASE HasHome(g, ms[i]) /\ rt[home(i)] = NoRoute
    <3>1. sendRREQ(n, NewID(n, k + i), home(i)).packetType # "USER_MSG"
      BY NoMessages
    <3> QED BY <2>2, <3>1 DEF Carries
  <2>3. CASE HasHome(g, ms[i]) /\ rt[home(i)] # NoRoute
    <3>1. PICK u : u = userMsgFrame(n, ms[i], rt[home(i)].nextHop, home(i))
      OBVIOUS
    <3>2. u.packetID = ms[i].packetID /\ u.ext.toNodeID = home(i)
      BY <3>1 DEF userMsgFrame, Originate
    <3>3. Goes(n, rt, g, ms[i]) = <<"way", home(i)>>
      BY <2>3 DEF Goes
    <3>4. <<ms[i].packetID, Goes(n, rt, g, ms[i])>> \in W
      BY DEF Pours
    <3>5. Carries(u, W)
      BY <3>2, <3>3, <3>4 DEF Carries
    <3>6. frame(i) = u
      BY <2>3, <3>1
    <3> HIDE DEF frame, W
    <3> QED BY <3>5, <3>6
  <2> QED BY <2>1, <2>2, <2>3
<1>2. \A h \in Resend(n, rt, g, ms, k) : \E i \in DOMAIN ms : h = frame(i)
  BY DEF Resend
<1> HIDE DEF frame, W
<1>3. \A h \in Resend(n, rt, g, ms, k) : Carries(h, W)
  BY <1>1, <1>2
<1> QED BY <1>3 DEF W

(* Those without a route wait for it, in the buffer of their home, ... *)
LEMMA PourWantsRoute ==
    ASSUME NEW n, NEW rt, NEW g, NEW ms \in Seq(Msg), NoRepeats(ms), NEW d \in Node,
           NEW buffer, buffer[d] \in Seq(Msg), NoRepeats(buffer[d]),
           Ids(buffer[d]) \cap Ids(ms) = {}
    PROVE  /\ NoRepeats(WaitForRoute(buffer, rt, g, ms)[d])
           /\ \A x \in Ids(WaitForRoute(buffer, rt, g, ms)[d]) :
                  x \in Ids(buffer[d]) \/ <<x, <<"route", n, d>>>> \in Pours(n, rt, g, ms)
<1>1. PICK T \in SUBSET Msg : T = {m \in Msg : g[m.toUserID] = d /\ ~HasWay(rt, g, m)}
  OBVIOUS
<1>2. WaitForRoute(buffer, rt, g, ms)[d] = buffer[d] \o ParkAll(Only(ms, T))
  BY <1>1 DEF WaitForRoute
<1>3. PICK w \in Seq(Msg) : w = buffer[d]
  OBVIOUS
<1>4. /\ NoRepeats(w \o ParkAll(Only(ms, T)))
      /\ \A x \in Ids(w \o ParkAll(Only(ms, T))) :
             x \in Ids(w) \/ \E i \in DOMAIN ms : ms[i] \in T /\ ms[i].packetID = x
  <2>1. NoRepeats(w) /\ Ids(w) \cap Ids(ms) = {}
    BY <1>3
  <2> QED BY <2>1, IdsWaiting
<1>5. ASSUME NEW i \in DOMAIN ms, ms[i] \in T
      PROVE  <<ms[i].packetID, <<"route", n, d>>>> \in Pours(n, rt, g, ms)
  <2>1. /\ g[ms[i].toUserID] = d
        /\ HasHome(g, ms[i])
        /\ rt[d] = NoRoute
    BY <1>1, <1>5, ModelValues DEF HasHome, HasWay
  <2>2. Goes(n, rt, g, ms[i]) = <<"route", n, d>>
    BY <2>1 DEF Goes
  <2> QED BY <2>2 DEF Pours
<1> QED BY <1>2, <1>3, <1>4, <1>5

(* ... and those without a home wait for that, in the buffer of their user.    *)
LEMMA PourWantsHome ==
    ASSUME NEW n, NEW rt, NEW g, NEW ms \in Seq(Msg), NoRepeats(ms), NEW u \in User,
           NEW buffer, buffer[u] \in Seq(Msg), NoRepeats(buffer[u]),
           Ids(buffer[u]) \cap Ids(ms) = {}
    PROVE  /\ NoRepeats(WaitForHome(buffer, g, ms)[u])
           /\ \A x \in Ids(WaitForHome(buffer, g, ms)[u]) :
                  x \in Ids(buffer[u]) \/ <<x, <<"home", n, u>>>> \in Pours(n, rt, g, ms)
<1>1. PICK T \in SUBSET Msg : T = {m \in Msg : m.toUserID = u /\ ~HasHome(g, m)}
  OBVIOUS
<1>2. WaitForHome(buffer, g, ms)[u] = buffer[u] \o ParkAll(Only(ms, T))
  BY <1>1 DEF WaitForHome
<1>3. PICK w \in Seq(Msg) : w = buffer[u]
  OBVIOUS
<1>4. /\ NoRepeats(w \o ParkAll(Only(ms, T)))
      /\ \A x \in Ids(w \o ParkAll(Only(ms, T))) :
             x \in Ids(w) \/ \E i \in DOMAIN ms : ms[i] \in T /\ ms[i].packetID = x
  <2>1. NoRepeats(w) /\ Ids(w) \cap Ids(ms) = {}
    BY <1>3
  <2> QED BY <2>1, IdsWaiting
<1>5. ASSUME NEW i \in DOMAIN ms, ms[i] \in T
      PROVE  <<ms[i].packetID, <<"home", n, u>>>> \in Pours(n, rt, g, ms)
  <2>1. Goes(n, rt, g, ms[i]) = <<"home", n, u>>
    BY <1>1, <1>5 DEF Goes
  <2> QED BY <2>1 DEF Pours
<1> QED BY <1>2, <1>3, <1>4, <1>5

(* The places have names. *)
LEMMA Named ==
    /\ \A n \in Node, u \in User : <<"inbox", n, u>> \in Place /\ <<"home", n, u>> \in Place
    /\ \A n, d \in Node : <<"route", n, d>> \in Place
    /\ \A n \in Node : /\ <<"shown", n>> \in Place
                      /\ <<"sender", n>> \in Place
                      /\ <<"way", n>> \in Place
    /\ <<"uplinked">> \in Place /\ <<"undrawn">> \in Place
<1>1. \A n \in Node, u \in User : <<"inbox", n, u>> \in Place /\ <<"home", n, u>> \in Place
  BY DEF Place
<1>2. \A n, d \in Node : <<"route", n, d>> \in Place
  BY DEF Place
<1>3. \A n \in Node : <<"shown", n>> \in Place
  BY DEF Place
<1>4. \A n \in Node : <<"sender", n>> \in Place
  BY DEF Place
<1>5. \A n \in Node : <<"way", n>> \in Place
  BY DEF Place
<1>6. <<"uplinked">> \in Place /\ <<"undrawn">> \in Place
  BY DEF Place
<1> QED BY <1>1, <1>2, <1>3, <1>4, <1>5, <1>6

(* The identifiers of what a node keeps for somebody, ... *)
LEMMA IdsTyped ==
    ASSUME NEW s \in Seq(Msg)
    PROVE  Ids(s) \subseteq PacketID
<1>1. \A i \in DOMAIN s : s[i] \in Msg
  BY InSequence
<1> QED BY <1>1 DEF Ids, Msg

(* ... and those of two places have none in common. *)
LEMMA IdsApart ==
    ASSUME Apart, NEW A \in SUBSET PacketID, NEW B, NEW p \in Place, NEW q \in Place, p # q,
           \A x \in A : Holds(x, p), \A x \in B : Holds(x, q)
    PROVE  A \cap B = {}
BY DEF Apart

(* A step that takes ms from a place and passes it to sendUserMessage. *)
LEMMA PourApart ==
    ASSUME RouterTyped, RouterTyped', Apart,
           NEW src \in Place, src[1] \in {"inbox", "home", "route"},
           NEW n, NEW rt, NEW g, NEW ms \in Seq(Msg), NoRepeats(ms),
           \A x \in Ids(ms) : Holds(x, src),
           NEW W, W = Pours(n, rt, g, ms), Sends(W),
           UNCHANGED <<client, sender, uplinked>>,
           UNCHANGED issued \/ \E m \in Node, k \in Nat : Draw(m, k),
           \A x \in PacketID, p \in Place :
               InInbox(x, p)' \/ WantsHome(x, p)' \/ WantsRoute(x, p)' =>
                   (Holds(x, p) /\ p # src) \/ <<x, p>> \in W
    PROVE  Apart'
<1>2. \A x, p : <<x, p>> \in W => Holds(x, src)
  BY DEF Pours, Ids
<1>3. \A x, p, q : <<x, p>> \in W /\ <<x, q>> \in W => p = q
  BY PourOnce
<1>4. ASSUME NEW x \in PacketID, NEW p \in Place, Holds(x, p)'
      PROVE  From(src, W, x, p)
  <2>1. InInbox(x, p)' \/ WantsHome(x, p)' \/ WantsRoute(x, p)' => From(src, W, x, p)
    BY <1>2 DEF From
  <2>2. src[1] # "shown" /\ src[1] # "sender" /\ src[1] # "uplinked" /\ src[1] # "undrawn"
        /\ src[1] # "way"
    OBVIOUS
  <2>3. /\ IsShown(x, p)' => From(src, W, x, p)
        /\ InHand(x, p)' => From(src, W, x, p)
        /\ IsUplinked(x, p)' => From(src, W, x, p)
        /\ Undrawn(x, p)' => From(src, W, x, p)
    BY <2>2, StaysFrom
  <2>4. OnTheWay(x, p)' => From(src, W, x, p)
    <3>1. OnTheWay(x, p)' => OnTheWay(x, p) \/ <<x, p>> \in W
      BY DEF Sends
    <3>2. OnTheWay(x, p) => p # src
      BY <2>2, Kinds
    <3> QED BY <1>2, <3>1, <3>2 DEF From, Holds
  <2> QED BY <1>4, <2>1, <2>3, <2>4 DEF Holds
<1> QED BY <1>3, <1>4, MovesBetween

(* What waits for a route afterwards: what did before, src apart, and what     *)
(* sendUserMessage found no route for.                                       *)
LEMMA RoutesPoured ==
    ASSUME UserTyped, Apart, Single, NEW n \in Node, NEW src \in Place,
           NEW rt, NEW g, NEW ms \in Seq(Msg), NoRepeats(ms), \A x \in Ids(ms) : Holds(x, src),
           NEW W, W = Pours(n, rt, g, ms), NEW b,
           \A d \in Node : \/ b[d] = userRouteBuffer[n][d] /\ src # <<"route", n, d>>
                           \/ b[d] = <<>>,
           userRouteBuffer'[n] = WaitForRoute(b, rt, g, ms),
           \A m \in Node : m # n => userRouteBuffer'[m] = userRouteBuffer[m],
           src[1] = "route" => src[2] = n
    PROVE  /\ \A m, d \in Node : NoRepeats(userRouteBuffer'[m][d])
           /\ \A x \in PacketID, p \in Place : WantsRoute(x, p)' =>
                  (Holds(x, p) /\ p # src) \/ <<x, p>> \in W
<1>1. ASSUME NEW d \in Node
      PROVE  /\ NoRepeats(WaitForRoute(b, rt, g, ms)[d])
             /\ \A x \in Ids(WaitForRoute(b, rt, g, ms)[d]) :
                    \/ x \in Ids(userRouteBuffer[n][d]) /\ src # <<"route", n, d>>
                    \/ <<x, <<"route", n, d>>>> \in W
  <2>1. userRouteBuffer[n][d] \in Seq(Msg) /\ NoRepeats(userRouteBuffer[n][d])
    BY DEF UserTyped, BuffersTyped, Single
  <2>2. CASE b[d] = <<>>
    <3>1. b[d] \in Seq(Msg) /\ NoRepeats(b[d]) /\ Ids(b[d]) = {}
      BY <2>2, EmptySeq, IdsEmpty
    <3>2. Ids(b[d]) \cap Ids(ms) = {}
      BY <3>1
    <3>3. /\ NoRepeats(WaitForRoute(b, rt, g, ms)[d])
          /\ \A x \in Ids(WaitForRoute(b, rt, g, ms)[d]) :
                 x \in Ids(b[d]) \/ <<x, <<"route", n, d>>>> \in W
      BY <3>1, <3>2, PourWantsRoute
    <3> QED BY <3>1, <3>3
  <2>3. CASE b[d] = userRouteBuffer[n][d] /\ src # <<"route", n, d>>
    <3>1. PICK q \in Place : q = <<"route", n, d>>
      BY Named
    <3>2. \A x \in Ids(userRouteBuffer[n][d]) : Holds(x, q)
      BY <3>1 DEF Holds, WantsRoute
    <3>3. q # src
      BY <2>3, <3>1
    <3>4. Ids(userRouteBuffer[n][d]) \in SUBSET PacketID
      BY <2>1, IdsTyped
    <3>5. Ids(userRouteBuffer[n][d]) \cap Ids(ms) = {}
      BY <3>2, <3>3, <3>4, IdsApart
    <3>6. b[d] \in Seq(Msg) /\ NoRepeats(b[d]) /\ Ids(b[d]) \cap Ids(ms) = {}
      BY <2>1, <2>3, <3>5
    <3>7. /\ NoRepeats(WaitForRoute(b, rt, g, ms)[d])
          /\ \A x \in Ids(WaitForRoute(b, rt, g, ms)[d]) :
                 x \in Ids(b[d]) \/ <<x, <<"route", n, d>>>> \in W
      BY <3>6, PourWantsRoute
    <3> QED BY <2>3, <3>7
  <2> QED BY <2>2, <2>3
<1>2. \A m, d \in Node : NoRepeats(userRouteBuffer'[m][d])
  BY <1>1 DEF Single
<1>3. ASSUME NEW x \in PacketID, NEW p \in Place, WantsRoute(x, p)'
      PROVE  (Holds(x, p) /\ p # src) \/ <<x, p>> \in W
  <2>1. PICK m \in Node, d \in Node : p = <<"route", m, d>> /\ x \in Ids(userRouteBuffer'[m][d])
    BY <1>3 DEF WantsRoute
  <2>2. CASE m = n
    <3>1. \/ x \in Ids(userRouteBuffer[n][d]) /\ src # p
          \/ <<x, p>> \in W
      BY <1>1, <2>1, <2>2
    <3> QED BY <2>1, <2>2, <3>1 DEF Holds, WantsRoute
  <2>3. CASE m # n
    <3>1. p # src
      BY <2>1, <2>3
    <3> QED BY <2>1, <2>3, <3>1 DEF Holds, WantsRoute
  <2> QED BY <2>2, <2>3
<1> QED BY <1>2, <1>3

(* handleUREP, where it was asked: what waited for the home leaves, or waits   *)
(* for a route.                                                              *)
LEMMA UREPCopies ==
    ASSUME UserTyped, RouterTyped', Apart, Single, NEW n \in Node, NEW f \in UREPFrame,
           storePacketID(n, f), HandleUREP(n, f), n = f.originNodeID
    PROVE  Apart' /\ Single'
<1>1. PICK u \in User : u = f.ext.userID
  BY DEF UREPFrame, FrameOf
<1>2. PICK rt : rt = LearnFromUREP(n, f)
  OBVIOUS
<1>3. PICK g : g = [gut[n] EXCEPT ![u] = f.ext.destNodeID]
  OBVIOUS
<1>4. PICK ms \in Seq(Msg) : ms = userMsgBuffer[n][u]
  BY DEF UserTyped, BuffersTyped
<1>5. PICK W : W = Pours(n, rt, g, ms)
  OBVIOUS
<1>6. /\ Emit(n, f, Resend(n, rt, g, ms, 0))
      /\ Draw(n, Len(ms))
      /\ userMsgBuffer' = [userMsgBuffer EXCEPT ![n] = popBufferedUserMessages(@, u)]
      /\ userRouteBuffer' = [userRouteBuffer EXCEPT ![n] = WaitForRoute(@, rt, g, ms)]
      /\ UNCHANGED <<inbox, client, sender, uplinked, ackBuffer>>
  BY <1>1, <1>2, <1>3, <1>4 DEF HandleUREP, quietVars, homeVars, outsideVars
<1>7. PICK src \in Place : src = <<"home", n, u>>
  BY Named
<1>8. NoRepeats(ms) /\ \A x \in Ids(ms) : Holds(x, src)
  <2>1. \A x \in Ids(ms) : WantsHome(x, src)
    BY <1>4, <1>7 DEF WantsHome
  <2> QED BY <1>4, <2>1 DEF Single, Holds
<1>9. /\ \A m \in Node : m # n => userMsgBuffer'[m] = userMsgBuffer[m]
      /\ \A v \in User : userMsgBuffer'[n][v] = IF v = u THEN <<>> ELSE userMsgBuffer[n][v]
  BY <1>6 DEF popBufferedUserMessages, UserTyped, BuffersTyped
<1>10. /\ \A m \in Node : m # n => userRouteBuffer'[m] = userRouteBuffer[m]
      /\ userRouteBuffer'[n] = WaitForRoute(userRouteBuffer[n], rt, g, ms)
  BY <1>6 DEF UserTyped, BuffersTyped
<1>11. /\ \A m, d \in Node : NoRepeats(userRouteBuffer'[m][d])
      /\ \A x \in PacketID, p \in Place : WantsRoute(x, p)' =>
             (Holds(x, p) /\ p # src) \/ <<x, p>> \in W
  <2>1. PICK b : b = userRouteBuffer[n]
    OBVIOUS
  <2>2. \A d \in Node : \/ b[d] = userRouteBuffer[n][d] /\ src # <<"route", n, d>>
                        \/ b[d] = <<>>
    BY <1>7, <2>1
  <2>3. userRouteBuffer'[n] = WaitForRoute(b, rt, g, ms)
    BY <1>10, <2>1
  <2>4. src[1] = "route" => src[2] = n
    BY <1>7
  <2>5. /\ NoRepeats(ms)
        /\ \A x \in Ids(ms) : Holds(x, src)
        /\ \A m \in Node : m # n => userRouteBuffer'[m] = userRouteBuffer[m]
    BY <1>8, <1>10
  <2> QED BY <1>5, <2>2, <2>3, <2>4, <2>5, RoutesPoured
<1>12. Sends(W)
  <2>1. \A m \in Node : ackBuffer'[m] \subseteq ackBuffer[m]
    BY <1>6
  <2>2. \A h \in Resend(n, rt, g, ms, 0) : Carries(h, W)
    BY <1>5, PourCarries
  <2> QED BY <1>6, <2>1, <2>2, HandlerSends DEF UserTyped
<1>13. ASSUME NEW x \in PacketID, NEW p \in Place,
              InInbox(x, p)' \/ WantsHome(x, p)' \/ WantsRoute(x, p)'
       PROVE  (Holds(x, p) /\ p # src) \/ <<x, p>> \in W
  <2>1. CASE InInbox(x, p)'
    BY <1>6, <1>7, <2>1, StaysPut, Kinds DEF Holds
  <2>2. CASE WantsHome(x, p)'
    <3>1. PICK m \in Node, v \in User : p = <<"home", m, v>> /\ x \in Ids(userMsgBuffer'[m][v])
      BY <2>2 DEF WantsHome
    <3>2. ~(m = n /\ v = u)
      BY <1>9, <3>1, IdsEmpty
    <3>3. x \in Ids(userMsgBuffer[m][v])
      BY <1>9, <3>1, <3>2
    <3> QED BY <1>7, <3>1, <3>2, <3>3 DEF Holds, WantsHome
  <2>3. CASE WantsRoute(x, p)'
    BY <1>11, <2>3
  <2> QED BY <1>13, <2>1, <2>2, <2>3
<1>14. \E m \in Node, k \in Nat : Draw(m, k)
  <2>1. Len(ms) \in Nat
    BY <1>4
  <2> QED BY <1>6, <2>1
<1>15. Apart'
  BY <1>6, <1>7, <1>8, <1>12, <1>13, <1>14, <1>5, PourApart DEF UserTyped
<1>16. Single'
  <2>1. \A m \in Node, v \in User : NoRepeats(userMsgBuffer'[m][v])
    BY <1>9, IdsEmpty DEF Single
  <2> QED BY <1>6, <1>11, <2>1 DEF Single
<1> QED BY <1>15, <1>16

(* handleMoveUserReq, at the old home: what waited for the user leaves with the *)
(* user, or waits for a route.                                               *)
LEMMA MoveCopies ==
    ASSUME UserTyped, RouterTyped', Apart, Single, NEW n \in Node, NEW f \in MoveUserReqFrame,
           storePacketID(n, f), HandleMoveUserReq(n, f), n = f.ext.destNodeID
    PROVE  Apart' /\ Single'
<1>1. PICK u \in User : u = f.ext.userID
  BY DEF MoveUserReqFrame, FrameOf
<1>2. PICK rt : rt = updateRoute(routeTable[n], f.prevHopID, f.prevHopID, 1)
  OBVIOUS
<1>3. PICK g : g = [gut[n] EXCEPT ![u] = f.originNodeID]
  OBVIOUS
<1>4. PICK box \in Seq(Msg) : box = inbox[n][u]
  BY DEF UserTyped, HomesTyped
<1>5. PICK ms : ms = [i \in DOMAIN box |-> [box[i] EXCEPT !.flags = InboxFlags(box[i])]]
  OBVIOUS
<1>6. /\ ms \in Seq(Msg)
      /\ Ids(ms) = Ids(box)
      /\ NoRepeats(box) => NoRepeats(ms)
  <2>1. \A i \in DOMAIN box : box[i] \in Msg
    BY InSequence
  <2>2. \A m \in Msg : /\ [m EXCEPT !.flags = InboxFlags(m)] \in Msg
                       /\ [m EXCEPT !.flags = InboxFlags(m)].packetID = m.packetID
    BY DEF InboxFlags, Msg, UserFlags
  <2>3. ms \in [DOMAIN box -> Msg]
    BY <1>5, <2>1, <2>2
  <2>4. ms \in Seq(Msg)
    BY <2>3, SameLength
  <2>5. DOMAIN ms = DOMAIN box /\ \A i \in DOMAIN box : ms[i].packetID = box[i].packetID
    BY <1>5, <2>1, <2>2
  <2> QED BY <2>4, <2>5 DEF Ids, NoRepeats
<1>7. PICK W : W = Pours(n, rt, g, ms)
  OBVIOUS
<1>8. /\ Emit(n, f, Resend(n, rt, g, ms, 0))
      /\ Draw(n, Len(ms))
      /\ inbox' = [inbox EXCEPT ![n][u] = <<>>]
      /\ userRouteBuffer' = [userRouteBuffer EXCEPT ![n] = WaitForRoute(@, rt, g, ms)]
      /\ UNCHANGED <<userMsgBuffer, client, sender, uplinked, ackBuffer>>
  BY <1>1, <1>2, <1>3, <1>4, <1>5 DEF HandleMoveUserReq, remove, quietVars, outsideVars
<1>9. PICK src \in Place : src = <<"inbox", n, u>>
  BY Named
<1>10. NoRepeats(ms) /\ \A x \in Ids(ms) : Holds(x, src)
  <2>1. \A x \in Ids(box) : InInbox(x, src)
    BY <1>4, <1>9 DEF InInbox
  <2>2. NoRepeats(box)
    BY <1>4 DEF Single
  <2> QED BY <1>6, <2>1, <2>2 DEF Holds
<1>11. /\ \A m \in Node : m # n => inbox'[m] = inbox[m]
       /\ \A v \in User : inbox'[n][v] = IF v = u THEN <<>> ELSE inbox[n][v]
  <2>1. inbox' = [inbox EXCEPT ![n] = [inbox[n] EXCEPT ![u] = <<>>]]
    BY <1>8 DEF UserTyped, HomesTyped
  <2> QED BY <2>1 DEF UserTyped, HomesTyped
<1>12. /\ \A m \in Node : m # n => userRouteBuffer'[m] = userRouteBuffer[m]
       /\ userRouteBuffer'[n] = WaitForRoute(userRouteBuffer[n], rt, g, ms)
  BY <1>8 DEF UserTyped, BuffersTyped
<1>13. /\ \A m, d \in Node : NoRepeats(userRouteBuffer'[m][d])
       /\ \A x \in PacketID, p \in Place : WantsRoute(x, p)' =>
              (Holds(x, p) /\ p # src) \/ <<x, p>> \in W
  <2>1. PICK b : b = userRouteBuffer[n]
    OBVIOUS
  <2>2. \A d \in Node : \/ b[d] = userRouteBuffer[n][d] /\ src # <<"route", n, d>>
                        \/ b[d] = <<>>
    BY <1>9, <2>1
  <2>3. userRouteBuffer'[n] = WaitForRoute(b, rt, g, ms)
    BY <1>12, <2>1
  <2>4. src[1] = "route" => src[2] = n
    BY <1>9
  <2>5. /\ NoRepeats(ms)
        /\ \A x \in Ids(ms) : Holds(x, src)
        /\ \A m \in Node : m # n => userRouteBuffer'[m] = userRouteBuffer[m]
    BY <1>10, <1>12
  <2> QED BY <1>6, <1>7, <2>2, <2>3, <2>4, <2>5, RoutesPoured
<1>14. Sends(W)
  <2>1. \A m \in Node : ackBuffer'[m] \subseteq ackBuffer[m]
    BY <1>8
  <2>2. \A h \in Resend(n, rt, g, ms, 0) : Carries(h, W)
    BY <1>7, PourCarries
  <2> QED BY <1>8, <2>1, <2>2, HandlerSends DEF UserTyped
<1>15. ASSUME NEW x \in PacketID, NEW p \in Place,
              InInbox(x, p)' \/ WantsHome(x, p)' \/ WantsRoute(x, p)'
       PROVE  (Holds(x, p) /\ p # src) \/ <<x, p>> \in W
  <2>1. CASE InInbox(x, p)'
    <3>1. PICK m \in Node, v \in User : p = <<"inbox", m, v>> /\ x \in Ids(inbox'[m][v])
      BY <2>1 DEF InInbox
    <3>2. ~(m = n /\ v = u)
      BY <1>11, <3>1, IdsEmpty
    <3>3. x \in Ids(inbox[m][v])
      BY <1>11, <3>1, <3>2
    <3> QED BY <1>9, <3>1, <3>2, <3>3 DEF Holds, InInbox
  <2>2. CASE WantsHome(x, p)'
    BY <1>8, <1>9, <2>2, StaysPut, Kinds DEF Holds
  <2>3. CASE WantsRoute(x, p)'
    BY <1>13, <2>3
  <2> QED BY <1>15, <2>1, <2>2, <2>3
<1>16. \E m \in Node, k \in Nat : Draw(m, k)
  <2>1. Len(ms) \in Nat
    BY <1>6
  <2> QED BY <1>8, <2>1
<1>17. Apart'
  BY <1>6, <1>7, <1>8, <1>9, <1>10, <1>14, <1>15, <1>16, PourApart DEF UserTyped
<1>18. Single'
  <2>1. \A m \in Node, v \in User : NoRepeats(inbox'[m][v])
    BY <1>11, IdsEmpty DEF Single
  <2> QED BY <1>8, <1>13, <2>1 DEF Single
<1> QED BY <1>17, <1>18

(* What waits for a home afterwards: what did before, and what sendUserMessage *)
(* found no home for.                                                        *)
LEMMA HomesPoured ==
    ASSUME UserTyped, Apart, Single, NEW n \in Node, NEW src \in Place, src[1] # "home",
           NEW rt, NEW g, NEW ms \in Seq(Msg), NoRepeats(ms), \A x \in Ids(ms) : Holds(x, src),
           NEW W, W = Pours(n, rt, g, ms),
           userMsgBuffer'[n] = WaitForHome(userMsgBuffer[n], g, ms),
           \A m \in Node : m # n => userMsgBuffer'[m] = userMsgBuffer[m]
    PROVE  /\ \A m \in Node, u \in User : NoRepeats(userMsgBuffer'[m][u])
           /\ \A x \in PacketID, p \in Place : WantsHome(x, p)' =>
                  (Holds(x, p) /\ p # src) \/ <<x, p>> \in W
<1>1. PICK b : b = userMsgBuffer[n]
  OBVIOUS
<1>2. ASSUME NEW u \in User
      PROVE  /\ NoRepeats(WaitForHome(b, g, ms)[u])
             /\ \A x \in Ids(WaitForHome(b, g, ms)[u]) :
                    x \in Ids(b[u]) \/ <<x, <<"home", n, u>>>> \in W
  <2>1. b[u] \in Seq(Msg) /\ NoRepeats(b[u])
    BY <1>1 DEF UserTyped, BuffersTyped, Single
  <2>2. PICK q \in Place : q = <<"home", n, u>>
    BY Named
  <2>3. \A x \in Ids(b[u]) : Holds(x, q)
    BY <1>1, <2>2 DEF Holds, WantsHome
  <2>4. q # src
    BY <2>2
  <2>5. Ids(b[u]) \in SUBSET PacketID
    BY <2>1, IdsTyped
  <2>6. Ids(b[u]) \cap Ids(ms) = {}
    BY <2>3, <2>4, <2>5, IdsApart
  <2> QED BY <2>1, <2>6, PourWantsHome
<1>3. \A m \in Node, u \in User : NoRepeats(userMsgBuffer'[m][u])
  BY <1>1, <1>2 DEF Single
<1>4. ASSUME NEW x \in PacketID, NEW p \in Place, WantsHome(x, p)'
      PROVE  (Holds(x, p) /\ p # src) \/ <<x, p>> \in W
  <2>1. PICK m \in Node, u \in User : p = <<"home", m, u>> /\ x \in Ids(userMsgBuffer'[m][u])
    BY <1>4 DEF WantsHome
  <2>2. p # src
    BY <2>1
  <2>3. CASE m = n
    <3>1. x \in Ids(userMsgBuffer[n][u]) \/ <<x, p>> \in W
      BY <1>1, <1>2, <2>1, <2>3
    <3> QED BY <2>1, <2>2, <2>3, <3>1 DEF Holds, WantsHome
  <2>4. CASE m # n
    BY <2>1, <2>2, <2>4 DEF Holds, WantsHome
  <2> QED BY <2>3, <2>4
<1> QED BY <1>3, <1>4

(* handleRREP: what waited for the route leaves, or waits again. *)
LEMMA RREPCopies ==
    ASSUME UserTyped, RouterTyped', Apart, Single, NEW n \in Node, NEW f \in RREPFrame,
           storePacketID(n, f), FlushRREP(n, f)
    PROVE  Apart' /\ Single'
<1>1. PICK d \in Node : d = f.ext.RREPDestNodeID
  BY DEF RREPFrame, FrameOf
<1>2. PICK rt : rt = LearnFromRREP(n, f)
  OBVIOUS
<1>3. PICK g : g = gut[n]
  OBVIOUS
<1>4. PICK ms \in Seq(Msg) : ms = userRouteBuffer[n][d]
  BY DEF UserTyped, BuffersTyped
<1>5. PICK moved \in Seq(User) : moved = moveReqBuffer[n][d]
  BY DEF UserTyped, BuffersTyped
<1>6. PICK W : W = Pours(n, rt, g, ms)
  OBVIOUS
<1>7. PICK b : b = [userRouteBuffer[n] EXCEPT ![d] = <<>>]
  OBVIOUS
<1>8. PICK onward :
          onward = IF n = f.originNodeID \/ rt[f.originNodeID] = NoRoute THEN {}
                   ELSE {[Forwarded(n, f, rt[f.originNodeID].nextHop) EXCEPT
                            !.ext.numHops = HopPlusOne(@)]}
  OBVIOUS
<1>9. PICK out : out = UNION {flushDataQueue(n, d, rt[d].nextHop),
                              flushMoveReqBuffer(n, moved, d, rt[d].nextHop),
                              Resend(n, rt, g, ms, Len(moved)),
                              onward}
  OBVIOUS
<1>10. /\ Emit(n, f, out)
       /\ Draw(n, Len(moved) + Len(ms))
       /\ userMsgBuffer' = [userMsgBuffer EXCEPT ![n] = WaitForHome(@, g, ms)]
       /\ userRouteBuffer' = [userRouteBuffer EXCEPT ![n] = WaitForRoute(
                                  [@ EXCEPT ![d] = <<>>], rt, g, ms)]
       /\ UNCHANGED <<inbox, client, sender, uplinked, ackBuffer>>
  BY <1>1, <1>2, <1>3, <1>4, <1>5, <1>8, <1>9 DEF FlushRREP, homeVars, outsideVars
<1>11. PICK src \in Place : src = <<"route", n, d>>
  BY Named
<1>12. NoRepeats(ms) /\ \A x \in Ids(ms) : Holds(x, src)
  <2>1. \A x \in Ids(ms) : WantsRoute(x, src)
    BY <1>4, <1>11 DEF WantsRoute
  <2> QED BY <1>4, <2>1 DEF Single, Holds
<1>13. /\ \A m \in Node, u \in User : NoRepeats(userMsgBuffer'[m][u])
       /\ \A x \in PacketID, p \in Place : WantsHome(x, p)' =>
              (Holds(x, p) /\ p # src) \/ <<x, p>> \in W
  <2>1. /\ userMsgBuffer'[n] = WaitForHome(userMsgBuffer[n], g, ms)
        /\ \A m \in Node : m # n => userMsgBuffer'[m] = userMsgBuffer[m]
    BY <1>10 DEF UserTyped, BuffersTyped
  <2>2. src[1] # "home"
    BY <1>11
  <2> QED BY <1>6, <1>12, <2>1, <2>2, HomesPoured
<1>14. /\ \A m, e \in Node : NoRepeats(userRouteBuffer'[m][e])
       /\ \A x \in PacketID, p \in Place : WantsRoute(x, p)' =>
              (Holds(x, p) /\ p # src) \/ <<x, p>> \in W
  <2>1. \A e \in Node : \/ b[e] = userRouteBuffer[n][e] /\ src # <<"route", n, e>>
                        \/ b[e] = <<>>
    BY <1>7, <1>11 DEF UserTyped, BuffersTyped
  <2>2. /\ userRouteBuffer'[n] = WaitForRoute(b, rt, g, ms)
        /\ \A m \in Node : m # n => userRouteBuffer'[m] = userRouteBuffer[m]
    BY <1>7, <1>10 DEF UserTyped, BuffersTyped
  <2>3. src[1] = "route" => src[2] = n
    BY <1>11
  <2>4. NoRepeats(ms) /\ \A x \in Ids(ms) : Holds(x, src)
    BY <1>12
  <2> QED BY <1>6, <2>1, <2>2, <2>3, <2>4, RoutesPoured
<1>15. \A h \in out : Carries(h, W)
  <2>1. \A h \in flushDataQueue(n, d, rt[d].nextHop) : h.packetType # "USER_MSG"
    BY NoMessages DEF flushDataQueue
  <2>2. \A h \in flushMoveReqBuffer(n, moved, d, rt[d].nextHop) : h.packetType # "USER_MSG"
    BY NoMessages DEF flushMoveReqBuffer
  <2>3. \A h \in Resend(n, rt, g, ms, Len(moved)) : Carries(h, W)
    BY <1>6, PourCarries
  <2>4. \A h \in onward : h.packetType # "USER_MSG"
    <3>1. PICK m : m = rt[f.originNodeID].nextHop
      OBVIOUS
    <3>2. PICK k : k = Forwarded(n, f, m)
      OBVIOUS
    <3>3. PICK h : h = HopPlusOne(k.ext.numHops)
      OBVIOUS
    <3>4. [k EXCEPT !.ext.numHops = h].packetType = "RREP"
      <4>1. PICK r : r = [Forwarded(n, f, m) EXCEPT !.ext.numHops = h]
        OBVIOUS
      <4>2. r.packetType = "RREP"
        <5> DEFINE q == [Forwarded(n, f, m) EXCEPT !.ext.numHops = h]
        <5>1. /\ q.packetType = "RREP"
              /\ q.packetID = f.packetID
              /\ q.originNodeID = f.originNodeID
              /\ q.prevHopID = n
              /\ q.destNodeID = m
              /\ q.ext.RREPDestNodeID = f.ext.RREPDestNodeID
              /\ q.ext.numHops = h
              /\ m \in Address /\ h \in HopCount => q \in RREPFrame
          BY ReplyForwarded
        <5> HIDE DEF q
        <5>2. r = q
          BY <4>1 DEF q
        <5> QED BY <5>1, <5>2
      <4> QED BY <3>2, <4>1, <4>2
    <3>5. [k EXCEPT !.ext.numHops = HopPlusOne(@)] = [k EXCEPT !.ext.numHops = h]
      BY <3>3
    <3> QED BY <1>8, <3>1, <3>2, <3>4, <3>5
  <2> QED BY <1>9, <2>1, <2>2, <2>3, <2>4 DEF Carries
<1>16. Sends(W)
  <2>1. \A m \in Node : ackBuffer'[m] \subseteq ackBuffer[m]
    BY <1>10
  <2> QED BY <1>10, <1>15, <2>1, HandlerSends DEF UserTyped
<1>17. ASSUME NEW x \in PacketID, NEW p \in Place,
              InInbox(x, p)' \/ WantsHome(x, p)' \/ WantsRoute(x, p)'
       PROVE  (Holds(x, p) /\ p # src) \/ <<x, p>> \in W
  <2>1. CASE InInbox(x, p)'
    BY <1>10, <1>11, <2>1, StaysPut, Kinds DEF Holds
  <2>2. CASE WantsHome(x, p)'
    BY <1>13, <2>2
  <2>3. CASE WantsRoute(x, p)'
    BY <1>14, <2>3
  <2> QED BY <1>17, <2>1, <2>2, <2>3
<1>18. \E m \in Node, k \in Nat : Draw(m, k)
  <2>1. Len(moved) + Len(ms) \in Nat
    OBVIOUS
  <2> QED BY <1>10, <2>1
<1>19. Apart'
  BY <1>6, <1>10, <1>11, <1>12, <1>16, <1>17, <1>18, PourApart DEF UserTyped
<1>20. Single'
  BY <1>10, <1>13, <1>14 DEF Single
<1> QED BY <1>19, <1>20

(* A message that reaches its node is on its way to it, and nowhere else. *)
LEMMA Arriving ==
    ASSUME RouterTyped, NEW n \in Node, NEW f \in UserMsgFrame, <<n, f>> \in air,
           f.packetID \notin receivedPacketIDs[n], f.ext.toNodeID = n
    PROVE  Holds(f.packetID, <<"way", n>>)
<1>1. f.packetType = "USER_MSG"
  BY DEF UserMsgFrame, FlaggedFrame
<1>2. f \in Flights
  BY <1>1, InFlight
<1>3. PICK p : p = <<"way", n>>
  OBVIOUS
<1>4. OnTheWay(f.packetID, p)
  BY <1>2, <1>3 DEF OnTheWay
<1> QED BY <1>3, <1>4 DEF Holds

(* It is then where its node puts it, and no longer on its way. *)
LEMMA ArrivesOnce ==
    ASSUME RouterTyped, RouterTyped', Apart, NEW n \in Node, NEW f \in UserMsgFrame,
           Holds(f.packetID, <<"way", n>>),
           storePacketID(n, f), NEW out, Emit(n, f, out), \A g \in out : Carries(g, {}),
           UNCHANGED <<sender, ackBuffer, userMsgBuffer, userRouteBuffer>>,
           UNCHANGED issued \/ \E k \in Nat : Draw(n, k),
           NEW to \in Place,
           \A x \in PacketID, p \in Place :
               InInbox(x, p)' \/ IsShown(x, p)' \/ IsUplinked(x, p)' =>
                   (Holds(x, p) /\ p[1] # "way") \/ (x = f.packetID /\ p = to)
    PROVE  Apart'
<1>1. PICK src \in Place : src = <<"way", n>>
  BY Named
<1>2. PICK pid : pid = f.packetID
  OBVIOUS
<1>3. PICK R : R = {<<pid, to>>} \cup {<<x, src>> : x \in PacketID \ {pid}}
  OBVIOUS
<1>4. \A x \in PacketID, p, q \in Place : <<x, p>> \in R /\ <<x, q>> \in R => p = q
  BY <1>3
<1>5. Sends({})
  <2>1. \A m \in Node : ackBuffer'[m] \subseteq ackBuffer[m]
    OBVIOUS
  <2> QED BY <2>1, HandlerSends
<1>6. pid \in receivedPacketIDs'[n]
  BY <1>2 DEF storePacketID, RouterTyped
<1>7. ASSUME NEW x \in PacketID, NEW p \in Place, Holds(x, p)'
      PROVE  From(src, R, x, p)
  <2>1. InInbox(x, p)' \/ IsShown(x, p)' \/ IsUplinked(x, p)' => From(src, R, x, p)
    BY <1>1, <1>2, <1>3 DEF From
  <2>2. src[1] # "sender" /\ src[1] # "home" /\ src[1] # "route" /\ src[1] # "undrawn"
    BY <1>1
  <2>3. /\ WantsHome(x, p)' => From(src, R, x, p)
        /\ WantsRoute(x, p)' => From(src, R, x, p)
        /\ InHand(x, p)' => From(src, R, x, p)
        /\ Undrawn(x, p)' => From(src, R, x, p)
    BY <2>2, StaysFrom
  <2>4. OnTheWay(x, p)' => From(src, R, x, p)
    <3> SUFFICES ASSUME OnTheWay(x, p)'
                 PROVE  From(src, R, x, p)
      OBVIOUS
    <3>1. OnTheWay(x, p)
      BY <1>5 DEF Sends
    <3>2. p = src => x # pid
      <4>1. PICK d \in Node : p = <<"way", d>> /\ x \notin receivedPacketIDs'[d]
        BY DEF OnTheWay
      <4> QED BY <1>1, <1>6, <4>1
    <3>3. p = src => <<x, p>> \in R
      BY <1>3, <3>2
    <3> QED BY <3>1, <3>3 DEF From, Holds
  <2> QED BY <1>7, <2>1, <2>3, <2>4 DEF Holds
<1> QED BY <1>4, <1>7, MovesBetween

(* handleUserMessage at the home of the user shows the message or parks it, at *)
(* a gateway hands it over.                                                  *)
LEMMA ArrivalCopies ==
    ASSUME UserTyped, RouterTyped', Apart, Single, NEW n \in Node, NEW f \in UserMsgFrame,
           <<n, f>> \in air, f.packetID \notin receivedPacketIDs[n], storePacketID(n, f),
           HandleUserMessage(n, f), DeliverUserMessage(n, f) \/ TakeForUplink(n, f)
    PROVE  Apart' /\ Single'
<1>1. f.ext.toNodeID = n
  BY DEF DeliverUserMessage, TakeForUplink
<1>2. Holds(f.packetID, <<"way", n>>)
  BY <1>1, Arriving DEF UserTyped
<1>3. PICK pid \in PacketID : pid = f.packetID
  BY DEF UserMsgFrame, FlaggedFrame
<1>4. \A p \in Place : p[1] # "way" => ~Holds(pid, p)
  <2>1. PICK src \in Place : src = <<"way", n>>
    BY Named
  <2>2. Holds(pid, src) /\ src[1] = "way"
    BY <1>2, <1>3, <2>1
  <2> QED BY <2>2 DEF Apart
<1>5. PICK m \in Msg : m = MsgOf(f) /\ m.packetID = pid
  BY <1>3, ShownTyped
<1>6. PICK u \in User : u = f.ext.toUserID
  BY DEF UserMsgFrame, FlaggedFrame
<1>7. /\ UNCHANGED <<sender, ackBuffer, userMsgBuffer, userRouteBuffer>>
      /\ UNCHANGED issued \/ \E k \in Nat : Draw(n, k)
  <2>1. HopAcksDrawn(f) \in Nat
    BY HopAcks
  <2> QED BY <2>1 DEF HandleUserMessage, quietVars, bufferVars, DeliverUserMessage, TakeForUplink
<1>8. PICK out : Emit(n, f, out) /\ \A g \in out : Carries(g, {})
  <2>1. \A g \in HopAck(n, f) : Carries(g, {})
    <3>1. \A id, d, p : Carries(sendACK(n, id, d, p), {})
      BY NoMessages DEF Carries
    <3> QED BY <3>1 DEF HopAck
  <2>2. \A g \in {} : Carries(g, {})
    OBVIOUS
  <2>3. CASE DeliverUserMessage(n, f)
    BY <2>1, <2>3 DEF DeliverUserMessage
  <2>4. CASE TakeForUplink(n, f)
    BY <2>2, <2>4 DEF TakeForUplink
  <2> QED BY <2>3, <2>4
<1>9. CASE TakeForUplink(n, f)
  <2>1. /\ UNCHANGED <<client, inbox>>
        /\ uplinked' \subseteq uplinked \cup {pid}
    BY <1>3, <1>9 DEF TakeForUplink
  <2>2. PICK to \in Place : to = <<"uplinked">>
    BY Named
  <2>3. ASSUME NEW x \in PacketID, NEW p \in Place,
               InInbox(x, p)' \/ IsShown(x, p)' \/ IsUplinked(x, p)'
        PROVE  (Holds(x, p) /\ p[1] # "way") \/ (x = f.packetID /\ p = to)
    <3>1. InInbox(x, p)' \/ IsShown(x, p)' => Holds(x, p) /\ p[1] # "way"
      BY <2>1, StaysPut, Kinds DEF Holds
    <3>2. IsUplinked(x, p)' => p = to /\ (x \in uplinked \/ x = pid)
      BY <2>1, <2>2 DEF IsUplinked
    <3>3. p = to /\ x \in uplinked => Holds(x, p) /\ p[1] # "way"
      BY <2>2 DEF Holds, IsUplinked
    <3> QED BY <1>3, <2>3, <3>1, <3>2, <3>3
  <2>4. Apart'
    BY <1>2, <1>7, <1>8, <2>3, ArrivesOnce DEF UserTyped
  <2>5. Single'
    BY <1>7, <2>1 DEF Single
  <2> QED BY <2>4, <2>5
<1>10. CASE DeliverUserMessage(n, f) /\ u \in online[n]
  <2>1. PICK note \in Note : note = ShownAs(m) /\ note.packetID = pid
    BY <1>5, ShownTyped DEF Note, Shown
  <2>2. /\ client' = [client EXCEPT ![n] = @ \o <<note>>]
        /\ UNCHANGED <<inbox, uplinked>>
    BY <1>5, <1>6, <1>10, <2>1 DEF DeliverUserMessage, Tell
  <2>3. PICK to \in Place : to = <<"shown", n>>
    BY Named
  <2>4. /\ \A k \in Node : k # n => client'[k] = client[k]
        /\ client'[n] = client[n] \o <<note>>
        /\ client[n] \in Seq(Note) /\ <<note>> \in Seq(Note)
    BY <2>2 DEF UserTyped, RouterTyped
  <2>5. ShownOnce(<<note>>) /\ ShownIds(<<note>>) \subseteq {pid}
    BY <2>1, ShownNote
  <2>6. pid \notin ShownIds(client[n])
    <3>1. pid \in ShownIds(client[n]) => IsShown(pid, to)
      BY <2>3 DEF IsShown
    <3>2. to[1] # "way"
      BY <2>3
    <3> QED BY <1>4, <3>1, <3>2 DEF Holds
  <2>7. /\ ShownIds(client'[n]) \subseteq ShownIds(client[n]) \cup {pid}
        /\ ShownOnce(client[n]) => ShownOnce(client'[n])
    <3>1. ShownIds(client[n]) \cap ShownIds(<<note>>) = {}
      BY <2>5, <2>6
    <3> QED BY <2>4, <2>5, <3>1, ShownConcat
  <2>8. ASSUME NEW x \in PacketID, NEW p \in Place,
               InInbox(x, p)' \/ IsShown(x, p)' \/ IsUplinked(x, p)'
        PROVE  (Holds(x, p) /\ p[1] # "way") \/ (x = f.packetID /\ p = to)
    <3>1. InInbox(x, p)' \/ IsUplinked(x, p)' => Holds(x, p) /\ p[1] # "way"
      BY <2>2, StaysPut, Kinds DEF Holds
    <3>2. ASSUME IsShown(x, p)'
          PROVE  (Holds(x, p) /\ p[1] # "way") \/ (x = pid /\ p = to)
      <4>1. PICK k \in Node : p = <<"shown", k>> /\ x \in ShownIds(client'[k])
        BY <3>2 DEF IsShown
      <4>2. x \in ShownIds(client[k]) \/ (k = n /\ x = pid)
        BY <2>4, <2>7, <4>1
      <4>3. x \in ShownIds(client[k]) => IsShown(x, p)
        BY <4>1 DEF IsShown
      <4> QED BY <2>3, <4>1, <4>2, <4>3 DEF Holds
    <3> QED BY <1>3, <2>8, <3>1, <3>2
  <2>9. Apart'
    BY <1>2, <1>7, <1>8, <2>8, ArrivesOnce DEF UserTyped
  <2>10. Single'
    BY <1>7, <2>2, <2>4, <2>7 DEF Single
  <2> QED BY <2>9, <2>10
<1>11. CASE DeliverUserMessage(n, f) /\ u \notin online[n]
  <2>1. /\ inbox' = [inbox EXCEPT ![n][u] = queueOffline(@, m)]
        /\ UNCHANGED <<client, uplinked>>
    BY <1>5, <1>6, <1>11 DEF DeliverUserMessage
  <2>2. PICK to \in Place : to = <<"inbox", n, u>>
    BY Named
  <2>3. PICK box \in Seq(Msg) : box = inbox[n][u]
    BY DEF UserTyped, HomesTyped
  <2>4. /\ \A k \in Node : k # n => inbox'[k] = inbox[k]
        /\ \A v \in User : inbox'[n][v] = IF v = u THEN queueOffline(box, m) ELSE inbox[n][v]
    <3>1. inbox' = [inbox EXCEPT ![n] = [inbox[n] EXCEPT ![u] = queueOffline(box, m)]]
      BY <2>1, <2>3 DEF UserTyped, HomesTyped
    <3> QED BY <3>1 DEF UserTyped, HomesTyped
  <2>5. pid \notin Ids(box)
    <3>1. pid \in Ids(box) => InInbox(pid, to)
      BY <2>2, <2>3 DEF InInbox
    <3>2. to[1] # "way"
      BY <2>2
    <3> QED BY <1>4, <3>1, <3>2 DEF Holds
  <2>6. /\ Ids(queueOffline(box, m)) \subseteq Ids(box) \cup {pid}
        /\ NoRepeats(box) => NoRepeats(queueOffline(box, m))
    BY <1>5, <2>5, IdsQueued
  <2>7. ASSUME NEW x \in PacketID, NEW p \in Place,
               InInbox(x, p)' \/ IsShown(x, p)' \/ IsUplinked(x, p)'
        PROVE  (Holds(x, p) /\ p[1] # "way") \/ (x = f.packetID /\ p = to)
    <3>1. IsShown(x, p)' \/ IsUplinked(x, p)' => Holds(x, p) /\ p[1] # "way"
      BY <2>1, StaysPut, Kinds DEF Holds
    <3>2. ASSUME InInbox(x, p)'
          PROVE  (Holds(x, p) /\ p[1] # "way") \/ (x = pid /\ p = to)
      <4>1. PICK k \in Node, v \in User : p = <<"inbox", k, v>> /\ x \in Ids(inbox'[k][v])
        BY <3>2 DEF InInbox
      <4>2. x \in Ids(inbox[k][v]) \/ (k = n /\ v = u /\ x = pid)
        BY <2>3, <2>4, <2>6, <4>1
      <4>3. x \in Ids(inbox[k][v]) => InInbox(x, p)
        BY <4>1 DEF InInbox
      <4> QED BY <2>2, <4>1, <4>2, <4>3 DEF Holds
    <3> QED BY <1>3, <2>7, <3>1, <3>2
  <2>8. Apart'
    BY <1>2, <1>7, <1>8, <2>7, ArrivesOnce DEF UserTyped
  <2>9. Single'
    <3>1. \A k \in Node, v \in User : NoRepeats(inbox'[k][v])
      BY <2>3, <2>4, <2>6 DEF Single
    <3> QED BY <1>7, <2>1, <3>1 DEF Single
  <2> QED BY <2>8, <2>9
<1> QED BY <1>9, <1>10, <1>11

(* The application task puts message pid, in its hands, into a buffer or into a *)
(* frame, which is place to.                                                 *)
PutsDown(n, pid, to) ==
    /\ sender[n].step \in {"home", "askHome", "route", "askRoute"}
    /\ pid = sender[n].msg.packetID
    /\ \E s : /\ sender' = [sender EXCEPT ![n] = s]
             /\ s.step \in {"idle", "transmit"}
    /\ Sends({<<pid, to>>})
    /\ UNCHANGED <<inbox, client, uplinked>>
    /\ UNCHANGED issued \/ \E k \in Nat : Draw(n, k)
    /\ \A x \in PacketID, p \in Place :
           WantsHome(x, p)' \/ WantsRoute(x, p)' =>
               (Holds(x, p) /\ p[1] # "sender") \/ (x = pid /\ p = to)

(* It is then in that place, and nowhere else. *)
LEMMA PutDown ==
    ASSUME RouterTyped, RouterTyped', Apart, NEW n \in Node, NEW pid, NEW to \in Place,
           PutsDown(n, pid, to)
    PROVE  Apart'
<1>1. PICK R : R = {<<pid, to>>}
  OBVIOUS
<1>2. /\ sender[n].step \in {"home", "askHome", "route", "askRoute"}
      /\ pid = sender[n].msg.packetID
      /\ Sends(R)
      /\ UNCHANGED <<inbox, client, uplinked>>
      /\ UNCHANGED issued \/ \E k \in Nat : Draw(n, k)
      /\ \A x \in PacketID, p \in Place :
             WantsHome(x, p)' \/ WantsRoute(x, p)' =>
                 (Holds(x, p) /\ p[1] # "sender") \/ (x = pid /\ p = to)
  BY <1>1 DEF PutsDown
<1>3. PICK s : sender' = [sender EXCEPT ![n] = s] /\ s.step \in {"idle", "transmit"}
  BY DEF PutsDown
<1>4. PICK src \in Place : src = <<"sender", n>>
  BY Named
<1>5. Holds(pid, src)
  <2>1. InHand(pid, src)
    BY <1>4, <1>2 DEF InHand
  <2> QED BY <2>1 DEF Holds
<1>6. \A x \in PacketID, p, q \in Place : <<x, p>> \in R /\ <<x, q>> \in R => p = q
  BY <1>1
<1>7. ASSUME NEW x \in PacketID, NEW p \in Place, Holds(x, p)'
      PROVE  From(src, R, x, p)
  <2>1. WantsHome(x, p)' \/ WantsRoute(x, p)' => From(src, R, x, p)
    BY <1>1, <1>4, <1>5, <1>2 DEF From
  <2>2. src[1] # "inbox" /\ src[1] # "shown" /\ src[1] # "uplinked" /\ src[1] # "undrawn"
    BY <1>4
  <2>3. /\ InInbox(x, p)' => From(src, R, x, p)
        /\ IsShown(x, p)' => From(src, R, x, p)
        /\ IsUplinked(x, p)' => From(src, R, x, p)
        /\ Undrawn(x, p)' => From(src, R, x, p)
    BY <1>2, <2>2, StaysFrom
  <2>4. OnTheWay(x, p)' => From(src, R, x, p)
    <3>1. OnTheWay(x, p)' => OnTheWay(x, p) \/ <<x, p>> \in R
      BY <1>2 DEF Sends
    <3>2. <<x, p>> \in R => x = pid
      BY <1>1
    <3>3. OnTheWay(x, p) => p # src
      BY <1>4, Kinds
    <3> QED BY <1>5, <3>1, <3>2, <3>3 DEF From, Holds
  <2>5. InHand(x, p)' => From(src, R, x, p)
    <3> SUFFICES ASSUME InHand(x, p)'
                 PROVE  From(src, R, x, p)
      OBVIOUS
    <3>1. PICK m \in Node :
              /\ p = <<"sender", m>>
              /\ sender'[m].step \in {"anyGateway", "gateway", "home", "askHome", "route",
                                      "askRoute"}
              /\ x = sender'[m].msg.packetID
      BY DEF InHand
    <3>2. m # n
      BY <1>3, <3>1 DEF RouterTyped
    <3>3. sender'[m] = sender[m]
      BY <1>3, <3>2 DEF RouterTyped
    <3>4. InHand(x, p)
      BY <3>1, <3>3 DEF InHand
    <3>5. p # src
      BY <1>4, <3>1, <3>2
    <3> QED BY <3>4, <3>5 DEF From, Holds
  <2> QED BY <1>7, <2>1, <2>3, <2>4, <2>5 DEF Holds
<1> QED BY <1>6, <1>7, MovesBetween

(* With a route, the message goes on its way. *)
LEMMA RouteCopies ==
    ASSUME UserTyped, RouterTyped', Apart, Single, NEW n \in Node, ReadRoute(n),
           routeTable[n][sender[n].dest] # NoRoute
    PROVE  Apart' /\ Single'
<1>1. PICK m : m = sender[n].msg
  OBVIOUS
<1>2. PICK d \in Node : d = sender[n].dest
  <2>1. sender[n] \in MeshSending /\ sender[n].step = "route" /\ Idle.step = "idle"
    BY DEF UserTyped, RouterTyped, ReadRoute, Idle
  <2> QED BY <2>1 DEF MeshSending
<1>3. PICK g : g = userMsgFrame(n, m, routeTable[n][d].nextHop, d)
  OBVIOUS
<1>4. PICK s : s = [step |-> "transmit", frame |-> g]
  OBVIOUS
<1>5. /\ sender' = [sender EXCEPT ![n] = s]
      /\ UNCHANGED <<inbox, client, uplinked, issued, air, ackBuffer, receivedPacketIDs,
                     userMsgBuffer, userRouteBuffer>>
  BY <1>1, <1>2, <1>3, <1>4 DEF ReadRoute, Start, SendingLeaves, homeVars, outsideVars
<1>6. PICK to \in Place : to = <<"way", d>>
  BY Named
<1>7. PICK pid, W : pid = m.packetID /\ W = {<<pid, to>>}
  OBVIOUS
<1>8. Carries(g, W)
  <2>1. g.packetID = m.packetID /\ g.ext.toNodeID = d
    BY <1>3 DEF userMsgFrame, Originate
  <2> QED BY <1>6, <1>7, <2>1 DEF Carries
<1>9. Sends(W)
  <2>1. PICK out : out = {}
    OBVIOUS
  <2>2. air' \subseteq air \cup OnAir(n, out) /\ \A h \in out : Carries(h, W)
    BY <1>5, <2>1
  <2>3. \A k \in Node : \A e \in ackBuffer'[k] : Kept(k, e.frame)
    BY <1>5, StillKept DEF UserTyped
  <2>4. s.step \in {"transmit", "store"} => Carries(s.frame, W)
    BY <1>4, <1>8
  <2> QED BY <1>5, <2>2, <2>3, <2>4, TaskSends DEF UserTyped
<1>10. ASSUME NEW x \in PacketID, NEW p \in Place, WantsHome(x, p)' \/ WantsRoute(x, p)'
       PROVE  (Holds(x, p) /\ p[1] # "sender") \/ (x = pid /\ p = to)
  BY <1>5, <1>10, StaysPut, Kinds DEF Holds
<1>11. /\ sender[n].step \in {"home", "askHome", "route", "askRoute"}
       /\ s.step \in {"idle", "transmit"}
  BY <1>4 DEF ReadRoute
<1>12. Apart'
  <2>1. PutsDown(n, pid, to)
    BY <1>1, <1>5, <1>7, <1>9, <1>10, <1>11 DEF PutsDown
  <2> QED BY <2>1, PutDown DEF UserTyped
<1>13. Single'
  BY <1>5 DEF Single
<1> QED BY <1>12, <1>13

(* What the application task has in its hands is nowhere else. *)
LEMMA InHandOnly ==
    ASSUME UserTyped, Apart, NEW n \in Node, sender[n].step \in {"askHome", "askRoute"}
    PROVE  /\ sender[n].msg \in Msg
           /\ sender[n].step = "askRoute" => sender[n].dest \in Node
           /\ Park(sender[n].msg) \in Msg
           /\ Park(sender[n].msg).packetID = sender[n].msg.packetID
           /\ \A p \in Place : p[1] # "sender" => ~Holds(sender[n].msg.packetID, p)
<1>1. sender[n] \in MeshSending /\ Idle.step = "idle"
  BY DEF UserTyped, RouterTyped, Idle
<1>2. PICK m : m = sender[n].msg
  OBVIOUS
<1>3. m \in Msg /\ (sender[n].step = "askRoute" => sender[n].dest \in Node)
  BY <1>1, <1>2 DEF MeshSending
<1>4. Park(m) \in Msg /\ Park(m).packetID = m.packetID
  BY <1>3 DEF Park, Msg, UserFlags
<1>5. PICK src \in Place : src = <<"sender", n>>
  BY Named
<1>6. Holds(m.packetID, src)
  <2>1. InHand(m.packetID, src)
    BY <1>2, <1>5 DEF InHand
  <2> QED BY <2>1 DEF Holds
<1>7. m.packetID \in PacketID
  BY <1>3 DEF Msg
<1>8. \A p \in Place : p[1] # "sender" => ~Holds(m.packetID, p)
  <2>1. src[1] = "sender"
    BY <1>5
  <2> QED BY <1>6, <1>7, <2>1 DEF Apart
<1> QED BY <1>2, <1>3, <1>4, <1>8

(* What the application task sends when it puts a message down asks for a home *)
(* or a route.                                                               *)
LEMMA AskingSends ==
    ASSUME RouterTyped, RouterTyped', NEW n \in Node, NEW g, g.packetType # "USER_MSG",
           air' = air \cup OnAir(n, {g}), sender' = [sender EXCEPT ![n] = Idle],
           UNCHANGED <<ackBuffer, receivedPacketIDs>>, NEW W
    PROVE  Sends(W)
<1>1. PICK out : out = {g}
  OBVIOUS
<1>2. air' \subseteq air \cup OnAir(n, out) /\ \A h \in out : Carries(h, W)
  BY <1>1 DEF Carries
<1>3. \A k \in Node : \A e \in ackBuffer'[k] : Kept(k, e.frame)
  BY StillKept
<1>4. PICK s : s = Idle
  OBVIOUS
<1>5. s.step = "idle"
  BY <1>4 DEF Idle
<1> QED BY <1>2, <1>3, <1>4, <1>5, TaskSends

(* Without a home, the message waits for one. *)
LEMMA AskHomeCopies ==
    ASSUME UserTyped, RouterTyped', Apart, Single, NEW n \in Node, AskHome(n)
    PROVE  Apart' /\ Single'
<1>1. PICK m \in Msg : m = sender[n].msg
  BY InHandOnly DEF AskHome
<1>2. PICK u \in User : u = m.toUserID
  BY DEF Msg
<1>3. PICK pid : pid = m.packetID
  OBVIOUS
<1>4. PICK r \in Msg : r = Park(m) /\ r.packetID = pid
  BY <1>1, <1>3, InHandOnly DEF AskHome
<1>5. PICK to \in Place : to = <<"home", n, u>>
  BY Named
<1>6. PICK w \in Seq(Msg) : w = userMsgBuffer[n][u]
  BY DEF UserTyped, BuffersTyped
<1>7. /\ sender' = [sender EXCEPT ![n] = Idle]
      /\ userMsgBuffer' = [userMsgBuffer EXCEPT ![n][u] = Append(@, r)]
      /\ air' = air \cup OnAir(n, {sendUREQ(n, NewID(n, 1), u)})
      /\ Draw(n, 1)
      /\ UNCHANGED <<inbox, client, uplinked, ackBuffer, receivedPacketIDs, userRouteBuffer>>
  BY <1>1, <1>2, <1>4 DEF AskHome, Start, SendingLeaves, homeVars, outsideVars
<1>8. /\ \A k \in Node : k # n => userMsgBuffer'[k] = userMsgBuffer[k]
      /\ \A v \in User : userMsgBuffer'[n][v] = IF v = u THEN Append(w, r)
                                                ELSE userMsgBuffer[n][v]
  <2>1. userMsgBuffer' = [userMsgBuffer EXCEPT ![n] = [userMsgBuffer[n] EXCEPT ![u] = Append(w, r)]]
    BY <1>6, <1>7 DEF UserTyped, BuffersTyped
  <2> QED BY <2>1 DEF UserTyped, BuffersTyped
<1>9. pid \notin Ids(w)
  <2>1. pid \in Ids(w) => Holds(pid, to)
    BY <1>5, <1>6 DEF Holds, WantsHome
  <2>2. to[1] # "sender"
    BY <1>5
  <2> QED BY <1>1, <1>3, <2>1, <2>2, InHandOnly DEF AskHome
<1>10. Ids(Append(w, r)) \subseteq Ids(w) \cup {pid} /\ (NoRepeats(w) => NoRepeats(Append(w, r)))
  BY <1>4, <1>9, IdsAppend
<1>11. ASSUME NEW x \in PacketID, NEW p \in Place, WantsHome(x, p)' \/ WantsRoute(x, p)'
       PROVE  (Holds(x, p) /\ p[1] # "sender") \/ (x = pid /\ p = to)
  <2>1. WantsRoute(x, p)' => Holds(x, p) /\ p[1] # "sender"
    BY <1>7, StaysPut, Kinds DEF Holds
  <2>2. ASSUME WantsHome(x, p)'
        PROVE  (Holds(x, p) /\ p[1] # "sender") \/ (x = pid /\ p = to)
    <3>1. PICK k \in Node, v \in User : p = <<"home", k, v>> /\ x \in Ids(userMsgBuffer'[k][v])
      BY <2>2 DEF WantsHome
    <3>2. x \in Ids(userMsgBuffer[k][v]) \/ (k = n /\ v = u /\ x = pid)
      BY <1>6, <1>8, <1>10, <3>1
    <3>3. x \in Ids(userMsgBuffer[k][v]) => WantsHome(x, p)
      BY <3>1 DEF WantsHome
    <3> QED BY <1>5, <3>1, <3>2, <3>3 DEF Holds
  <2> QED BY <1>11, <2>1, <2>2
<1>12. PutsDown(n, pid, to)
  <2>1. Sends({<<pid, to>>})
    <3>1. sendUREQ(n, NewID(n, 1), u).packetType # "USER_MSG"
      BY NoMessages
    <3> QED BY <1>7, <3>1, AskingSends DEF UserTyped
  <2>2. PICK s : s = Idle
    OBVIOUS
  <2>3. sender' = [sender EXCEPT ![n] = s] /\ s.step \in {"idle", "transmit"}
    BY <1>7, <2>2 DEF Idle
  <2>4. sender[n].step \in {"home", "askHome", "route", "askRoute"}
    BY DEF AskHome
  <2> QED BY <1>1, <1>3, <1>7, <1>11, <2>1, <2>3, <2>4 DEF PutsDown
<1>13. Apart'
  BY <1>12, PutDown DEF UserTyped
<1>14. Single'
  <2>1. \A k \in Node, v \in User : NoRepeats(userMsgBuffer'[k][v])
    BY <1>6, <1>8, <1>10 DEF Single
  <2> QED BY <1>7, <2>1 DEF Single
<1> QED BY <1>13, <1>14

(* Without a route, it waits for one. *)
LEMMA AskRouteCopies ==
    ASSUME UserTyped, RouterTyped', Apart, Single, NEW n \in Node, AskRoute(n)
    PROVE  Apart' /\ Single'
<1>1. PICK m \in Msg : m = sender[n].msg
  BY InHandOnly DEF AskRoute
<1>2. PICK d \in Node : d = sender[n].dest
  BY InHandOnly DEF AskRoute
<1>3. PICK pid : pid = m.packetID
  OBVIOUS
<1>4. PICK r \in Msg : r = Park(m) /\ r.packetID = pid
  BY <1>1, <1>3, InHandOnly DEF AskRoute
<1>5. PICK to \in Place : to = <<"route", n, d>>
  BY Named
<1>6. PICK w \in Seq(Msg) : w = userRouteBuffer[n][d]
  BY DEF UserTyped, BuffersTyped
<1>7. /\ sender' = [sender EXCEPT ![n] = Idle]
      /\ userRouteBuffer' = [userRouteBuffer EXCEPT ![n][d] = Append(@, r)]
      /\ air' = air \cup OnAir(n, {sendRREQ(n, NewID(n, 1), d)})
      /\ Draw(n, 1)
      /\ UNCHANGED <<inbox, client, uplinked, ackBuffer, receivedPacketIDs, userMsgBuffer>>
  BY <1>1, <1>2, <1>4 DEF AskRoute, Start, SendingLeaves, homeVars, outsideVars
<1>8. /\ \A k \in Node : k # n => userRouteBuffer'[k] = userRouteBuffer[k]
      /\ \A e \in Node : userRouteBuffer'[n][e] = IF e = d THEN Append(w, r)
                                                  ELSE userRouteBuffer[n][e]
  <2>1. userRouteBuffer' = [userRouteBuffer EXCEPT ![n] =
                                [userRouteBuffer[n] EXCEPT ![d] = Append(w, r)]]
    BY <1>6, <1>7 DEF UserTyped, BuffersTyped
  <2> QED BY <2>1 DEF UserTyped, BuffersTyped
<1>9. pid \notin Ids(w)
  <2>1. pid \in Ids(w) => Holds(pid, to)
    BY <1>5, <1>6 DEF Holds, WantsRoute
  <2>2. to[1] # "sender"
    BY <1>5
  <2> QED BY <1>1, <1>3, <2>1, <2>2, InHandOnly DEF AskRoute
<1>10. Ids(Append(w, r)) \subseteq Ids(w) \cup {pid} /\ (NoRepeats(w) => NoRepeats(Append(w, r)))
  BY <1>4, <1>9, IdsAppend
<1>11. ASSUME NEW x \in PacketID, NEW p \in Place, WantsHome(x, p)' \/ WantsRoute(x, p)'
       PROVE  (Holds(x, p) /\ p[1] # "sender") \/ (x = pid /\ p = to)
  <2>1. WantsHome(x, p)' => Holds(x, p) /\ p[1] # "sender"
    BY <1>7, StaysPut, Kinds DEF Holds
  <2>2. ASSUME WantsRoute(x, p)'
        PROVE  (Holds(x, p) /\ p[1] # "sender") \/ (x = pid /\ p = to)
    <3>1. PICK k \in Node, e \in Node : p = <<"route", k, e>> /\ x \in Ids(userRouteBuffer'[k][e])
      BY <2>2 DEF WantsRoute
    <3>2. x \in Ids(userRouteBuffer[k][e]) \/ (k = n /\ e = d /\ x = pid)
      BY <1>6, <1>8, <1>10, <3>1
    <3>3. x \in Ids(userRouteBuffer[k][e]) => WantsRoute(x, p)
      BY <3>1 DEF WantsRoute
    <3> QED BY <1>5, <3>1, <3>2, <3>3 DEF Holds
  <2> QED BY <1>11, <2>1, <2>2
<1>12. PutsDown(n, pid, to)
  <2>1. Sends({<<pid, to>>})
    <3>1. sendRREQ(n, NewID(n, 1), d).packetType # "USER_MSG"
      BY NoMessages
    <3> QED BY <1>7, <3>1, AskingSends DEF UserTyped
  <2>2. PICK s : s = Idle
    OBVIOUS
  <2>3. sender' = [sender EXCEPT ![n] = s] /\ s.step \in {"idle", "transmit"}
    BY <1>7, <2>2 DEF Idle
  <2>4. sender[n].step \in {"home", "askHome", "route", "askRoute"}
    BY DEF AskRoute
  <2> QED BY <1>1, <1>3, <1>7, <1>11, <2>1, <2>3, <2>4 DEF PutsDown
<1>13. Apart'
  BY <1>12, PutDown DEF UserTyped
<1>14. Single'
  <2>1. \A k, e \in Node : NoRepeats(userRouteBuffer'[k][e])
    BY <1>6, <1>8, <1>10 DEF Single
  <2> QED BY <1>7, <2>1 DEF Single
<1> QED BY <1>13, <1>14

(* A phone that connects is shown what waited for its user. *)
LEMMA AnnounceCopies ==
    ASSUME UserTyped, RouterTyped', Apart, Single, NEW n \in Node, NEW c \in Call,
           AnnounceCall(n, c)
    PROVE  Apart' /\ Single'
<1>1. PICK u \in User : u = c.user
  BY DEF Call, AnnounceCall
<1>2. PICK box \in Seq(Msg) : box = inbox[n][u]
  BY DEF UserTyped, HomesTyped
<1>3. PICK notes : notes = [i \in DOMAIN box |-> ShownAs(box[i])]
  OBVIOUS
<1>4. /\ inbox' = [inbox EXCEPT ![n][u] = <<>>]
      /\ client' = [client EXCEPT ![n] = @ \o notes]
      /\ UNCHANGED <<sender, uplinked, issued, air, ackBuffer, receivedPacketIDs,
                     userMsgBuffer, userRouteBuffer>>
  BY <1>1, <1>2, <1>3 DEF AnnounceCall, Tell, bufferVars
<1>5. PICK src \in Place : src = <<"inbox", n, u>>
  BY Named
<1>6. PICK to \in Place : to = <<"shown", n>>
  BY Named
<1>7. PICK R : R = {<<x, to>> : x \in Ids(box)}
  OBVIOUS
<1>8. \A x \in Ids(box) : Holds(x, src)
  <2>1. \A x \in Ids(box) : InInbox(x, src)
    BY <1>2, <1>5 DEF InInbox
  <2> QED BY <2>1 DEF Holds
<1>9. notes \in Seq(Note) /\ ShownIds(notes) \subseteq Ids(box) /\ ShownOnce(notes)
  <2>1. \A i \in DOMAIN box : box[i] \in Msg
    BY InSequence
  <2>2. \A i \in DOMAIN box : ShownAs(box[i]) \in Note
    BY <2>1, ShownTyped DEF Note, Shown
  <2>3. notes \in [DOMAIN box -> Note]
    BY <1>3, <2>2
  <2>4. notes \in Seq(Note)
    BY <2>3, SameLength
  <2>5. NoRepeats(box)
    BY <1>2 DEF Single
  <2>6. ShownIds(notes) \subseteq Ids(box) /\ (NoRepeats(box) => ShownOnce(notes))
    BY <1>3, ShownBox
  <2> QED BY <2>4, <2>5, <2>6
<1>10. /\ \A k \in Node : k # n => client'[k] = client[k]
       /\ client'[n] = client[n] \o notes
       /\ client[n] \in Seq(Note)
  BY <1>4 DEF UserTyped, RouterTyped
<1>11. ShownIds(client[n]) \cap ShownIds(notes) = {}
  <2>1. ShownIds(notes) \in SUBSET PacketID
    BY <1>9, IdsTyped
  <2>2. \A x \in ShownIds(notes) : Holds(x, src)
    BY <1>8, <1>9
  <2>3. \A x \in ShownIds(client[n]) : Holds(x, to)
    BY <1>6 DEF Holds, IsShown
  <2>4. src # to
    BY <1>5, <1>6
  <2>5. ShownIds(notes) \cap ShownIds(client[n]) = {}
    BY <2>1, <2>2, <2>3, <2>4, IdsApart
  <2> QED BY <2>5
<1>12. /\ ShownIds(client'[n]) \subseteq ShownIds(client[n]) \cup ShownIds(notes)
       /\ ShownOnce(client[n]) => ShownOnce(client'[n])
  BY <1>9, <1>10, <1>11, ShownConcat
<1>13. /\ \A k \in Node : k # n => inbox'[k] = inbox[k]
       /\ \A v \in User : inbox'[n][v] = IF v = u THEN <<>> ELSE inbox[n][v]
  <2>1. inbox' = [inbox EXCEPT ![n] = [inbox[n] EXCEPT ![u] = <<>>]]
    BY <1>4 DEF UserTyped, HomesTyped
  <2> QED BY <2>1 DEF UserTyped, HomesTyped
<1>14. Sends({})
  <2>1. PICK out, W : out = {} /\ W = {}
    OBVIOUS
  <2>2. air' \subseteq air \cup OnAir(n, out) /\ \A h \in out : Carries(h, W)
    BY <1>4, <2>1
  <2>3. \A k \in Node : \A e \in ackBuffer'[k] : Kept(k, e.frame)
    BY <1>4, StillKept DEF UserTyped
  <2>4. PICK s : s = sender[n]
    OBVIOUS
  <2>5. sender' = [sender EXCEPT ![n] = s]
    BY <1>4, <2>4 DEF UserTyped, RouterTyped
  <2>6. s.step \in {"transmit", "store"} => Carries(s.frame, W)
    <3>1. s.step \in {"transmit", "store"} => Kept(n, s.frame)
      BY <2>4 DEF Kept
    <3> QED BY <3>1, KeptCarries DEF UserTyped
  <2>7. Sends(W)
    BY <1>4, <2>2, <2>3, <2>5, <2>6, TaskSends DEF UserTyped
  <2> QED BY <2>1, <2>7
<1>15. ASSUME NEW x \in PacketID, NEW p \in Place, Holds(x, p)'
       PROVE  From(src, R, x, p)
  <2>1. ASSUME InInbox(x, p)'
        PROVE  From(src, R, x, p)
    <3>1. PICK k \in Node, v \in User : p = <<"inbox", k, v>> /\ x \in Ids(inbox'[k][v])
      BY <2>1 DEF InInbox
    <3>2. ~(k = n /\ v = u)
      BY <1>13, <3>1, IdsEmpty
    <3>3. x \in Ids(inbox[k][v])
      BY <1>13, <3>1, <3>2
    <3>4. InInbox(x, p) /\ p # src
      BY <1>5, <3>1, <3>2, <3>3 DEF InInbox
    <3> QED BY <3>4 DEF From, Holds
  <2>2. ASSUME IsShown(x, p)'
        PROVE  From(src, R, x, p)
    <3>1. PICK k \in Node : p = <<"shown", k>> /\ x \in ShownIds(client'[k])
      BY <2>2 DEF IsShown
    <3>2. x \in ShownIds(client[k]) \/ (k = n /\ x \in Ids(box))
      BY <1>9, <1>10, <1>12, <3>1
    <3>3. x \in ShownIds(client[k]) => IsShown(x, p) /\ p # src
      BY <1>5, <3>1 DEF IsShown
    <3>4. k = n /\ x \in Ids(box) => Holds(x, src) /\ <<x, p>> \in R
      BY <1>6, <1>7, <1>8, <3>1
    <3> QED BY <3>2, <3>3, <3>4 DEF From, Holds
  <2>3. /\ src[1] # "sender" /\ src[1] # "home" /\ src[1] # "route" /\ src[1] # "undrawn"
        /\ src[1] # "uplinked" /\ src[1] # "way"
    BY <1>5
  <2>4. /\ WantsHome(x, p)' => From(src, R, x, p)
        /\ WantsRoute(x, p)' => From(src, R, x, p)
        /\ InHand(x, p)' => From(src, R, x, p)
        /\ OnTheWay(x, p)' => From(src, R, x, p)
        /\ IsUplinked(x, p)' => From(src, R, x, p)
        /\ Undrawn(x, p)' => From(src, R, x, p)
    BY <1>4, <1>14, <2>3, StaysFrom DEF UserTyped
  <2> QED BY <1>15, <2>1, <2>2, <2>4 DEF Holds
<1>16. Apart'
  <2>1. \A x \in PacketID, p, q \in Place : <<x, p>> \in R /\ <<x, q>> \in R => p = q
    BY <1>7
  <2> QED BY <1>15, <2>1, MovesBetween
<1>17. Single'
  <2>1. \A k \in Node, v \in User : NoRepeats(inbox'[k][v])
    BY <1>13, IdsEmpty DEF Single
  <2>2. \A k \in Node : ShownOnce(client'[k])
    BY <1>10, <1>12 DEF Single
  <2> QED BY <1>4, <2>1, <2>2 DEF Single
<1> QED BY <1>16, <1>17

(* The application task accepts a message: it has a fresh identifier. *)
LEMMA MessageCopies ==
    ASSUME UserTyped, RouterTyped', Apart, Single, NEW n \in Node, NEW c \in Call,
           MessageCall(n, c)
    PROVE  Apart' /\ Single'
<1>1. PICK m : m = Accepted(n, c)
  OBVIOUS
<1>2. PICK pid \in PacketID : pid = NewID(n, 1) /\ pid = m.packetID
  <2>1. NewID(n, 1) \in PacketID
    BY MeshDraw DEF UserTyped, MessageCall
  <2> QED BY <1>1, <2>1 DEF Accepted
<1>3. /\ UNCHANGED <<inbox, client, air, ackBuffer, receivedPacketIDs, userMsgBuffer,
                     userRouteBuffer>>
      /\ Draw(n, 1)
      /\ sender[n] = Idle
  BY DEF MessageCall, homeVars, bufferVars
<1>4. \/ uplinked' = uplinked \cup {pid} /\ UNCHANGED sender
      \/ Start(n, [step |-> "home", msg |-> m]) /\ UNCHANGED uplinked
      \/ Start(n, [step |-> "anyGateway", msg |-> m]) /\ UNCHANGED uplinked
      \/ UNCHANGED <<sender, uplinked>>
  BY <1>1, <1>2 DEF MessageCall
<1>5. PICK hand \in Place, there \in Place, src \in Place :
          hand = <<"sender", n>> /\ there = <<"uplinked">> /\ src = <<"undrawn">>
  BY Named
<1>6. PICK to \in Place : to = IF UNCHANGED sender THEN there ELSE hand
  OBVIOUS
<1>7. PICK R : R = {<<pid, to>>} \cup {<<x, src>> : x \in PacketID \ {pid}}
  OBVIOUS
<1>8. Holds(pid, src)
  <2>1. issued[n] \in Nat
    BY DEF UserTyped, RouterTyped
  <2>2. Undrawn(pid, src)
    BY <1>2, <1>5, <2>1 DEF Undrawn, NewID
  <2> QED BY <2>2 DEF Holds
<1>9. PICK s : /\ sender' = [sender EXCEPT ![n] = s]
               /\ s.step \in {"idle", "home", "anyGateway"}
               /\ s.step # "idle" => s.msg = m /\ ~UNCHANGED sender
  <2>1. Idle.step = "idle"
    BY DEF Idle
  <2>2. CASE UNCHANGED sender
    <3>1. sender' = [sender EXCEPT ![n] = sender[n]]
      BY <2>2 DEF UserTyped, RouterTyped
    <3> QED BY <1>3, <2>1, <3>1
  <2>3. ASSUME NEW k \in {"home", "anyGateway"}, Start(n, [step |-> k, msg |-> m])
        PROVE  \E s : /\ sender' = [sender EXCEPT ![n] = s]
                      /\ s.step \in {"idle", "home", "anyGateway"}
                      /\ s.step # "idle" => s.msg = m /\ ~UNCHANGED sender
    <3>1. PICK s : s = [step |-> k, msg |-> m]
      OBVIOUS
    <3>2. sender'[n] = s
      BY <2>3, <3>1 DEF Start, UserTyped, RouterTyped
    <3>3. ~UNCHANGED sender
      BY <1>3, <2>1, <3>1, <3>2
    <3>4. sender' = [sender EXCEPT ![n] = s]
      BY <2>3, <3>1 DEF Start
    <3>5. s.step \in {"idle", "home", "anyGateway"} /\ s.msg = m
      BY <3>1
    <3> QED BY <3>3, <3>4, <3>5
  <2> QED BY <1>4, <2>2, <2>3
<1>10. Sends({})
  <2>1. PICK out, W : out = {} /\ W = {}
    OBVIOUS
  <2>2. air' \subseteq air \cup OnAir(n, out) /\ \A h \in out : Carries(h, W)
    BY <1>3, <2>1
  <2>3. \A k \in Node : \A e \in ackBuffer'[k] : Kept(k, e.frame)
    BY <1>3, StillKept DEF UserTyped
  <2>4. s.step \in {"transmit", "store"} => Carries(s.frame, W)
    BY <1>9
  <2>5. Sends(W)
    BY <1>3, <1>9, <2>2, <2>3, <2>4, TaskSends DEF UserTyped
  <2> QED BY <2>1, <2>5
<1>11. ASSUME NEW x \in PacketID, NEW p \in Place, Holds(x, p)'
       PROVE  From(src, R, x, p)
  <2>1. ASSUME InHand(x, p)'
        PROVE  From(src, R, x, p)
    <3>1. PICK k \in Node :
              /\ p = <<"sender", k>>
              /\ sender'[k].step \in {"anyGateway", "gateway", "home", "askHome", "route",
                                      "askRoute"}
              /\ x = sender'[k].msg.packetID
      BY <2>1 DEF InHand
    <3>2. CASE k = n
      <4>1. sender'[k] = s
        BY <1>9, <3>2 DEF UserTyped, RouterTyped
      <4>2. s.step # "idle"
        BY <3>1, <4>1
      <4>3. x = pid /\ p = to
        BY <1>2, <1>5, <1>6, <1>9, <3>1, <3>2, <4>1, <4>2
      <4> QED BY <1>7, <1>8, <4>3 DEF From
    <3>3. CASE k # n
      <4>1. sender'[k] = sender[k]
        BY <1>9, <3>3 DEF UserTyped, RouterTyped
      <4>2. InHand(x, p)
        BY <3>1, <4>1 DEF InHand
      <4>3. p # src
        BY <1>5, <3>1
      <4> QED BY <4>2, <4>3 DEF From, Holds
    <3> QED BY <3>2, <3>3
  <2>2. ASSUME IsUplinked(x, p)'
        PROVE  From(src, R, x, p)
    <3>1. p = there /\ x \in uplinked'
      BY <1>5, <2>2 DEF IsUplinked
    <3>2. x \in uplinked \/ (x = pid /\ UNCHANGED sender)
      BY <1>4, <3>1
    <3>3. x \in uplinked => IsUplinked(x, p) /\ p # src
      BY <1>5, <3>1 DEF IsUplinked
    <3>4. x = pid /\ UNCHANGED sender => Holds(x, src) /\ <<x, p>> \in R
      BY <1>6, <1>7, <1>8, <3>1
    <3> QED BY <3>2, <3>3, <3>4 DEF From, Holds
  <2>3. ASSUME Undrawn(x, p)'
        PROVE  From(src, R, x, p)
    <3>1. p = src /\ x[2] > issued'[x[1]]
      BY <1>5, <2>3 DEF Undrawn
    <3>2. /\ issued \in [Node -> Nat]
          /\ issued' = [issued EXCEPT ![n] = issued[n] + 1]
          /\ pid = <<n, issued[n] + 1>>
          /\ x[1] \in Node /\ x[2] \in Nat
      BY <1>2, <1>3 DEF UserTyped, RouterTyped, Draw, NewID, PacketID
    <3>3. x # pid /\ x[2] > issued[x[1]]
      <4>1. CASE x[1] = n
        <5>1. issued[n] \in Nat /\ issued'[n] = issued[n] + 1
          BY <3>2
        <5>2. x[2] > issued[n] + 1
          BY <3>1, <4>1, <5>1
        <5> QED BY <3>2, <4>1, <5>1, <5>2
      <4>2. CASE x[1] # n
        <5>1. issued'[x[1]] = issued[x[1]]
          BY <3>2, <4>2
        <5> QED BY <3>1, <3>2, <4>2, <5>1
      <4> QED BY <4>1, <4>2
    <3>4. Holds(x, src)
      BY <1>5, <3>3 DEF Holds, Undrawn
    <3> QED BY <1>7, <3>1, <3>3, <3>4 DEF From
  <2>4. /\ src[1] # "sender" /\ src[1] # "home" /\ src[1] # "route" /\ src[1] # "inbox"
        /\ src[1] # "shown" /\ src[1] # "way"
    BY <1>5
  <2>5. /\ InInbox(x, p)' => From(src, R, x, p)
        /\ WantsHome(x, p)' => From(src, R, x, p)
        /\ WantsRoute(x, p)' => From(src, R, x, p)
        /\ IsShown(x, p)' => From(src, R, x, p)
        /\ OnTheWay(x, p)' => From(src, R, x, p)
    BY <1>3, <1>10, <2>4, StaysFrom DEF UserTyped
  <2> QED BY <1>11, <2>1, <2>2, <2>3, <2>5 DEF Holds
<1>12. Apart'
  <2>1. \A x \in PacketID, p, q \in Place : <<x, p>> \in R /\ <<x, q>> \in R => p = q
    BY <1>7
  <2> QED BY <1>11, <2>1, MovesBetween
<1>13. Single'
  BY <1>3 DEF Single
<1> QED BY <1>12, <1>13

-----------------------------------------------------------------------------
(* Every step leaves every message in one place, if nobody reboots. *)

(* A step reboots one node at most, and those of the handlers none. *)
LEMMA RestartsGrow ==
    ASSUME UserNext
    PROVE  restarts' \in {restarts, restarts + 1}
<1>1. PICK n \in Node : \/ UserRouterTask(n)
                        \/ sendUserMessage(n)
                        \/ (ApplicationTask(n) \/ TimerWorker(n)) /\ UNCHANGED userVars
                        \/ Outside(n)
  BY DEF UserNext
<1>2. CASE UserRouterTask(n)
  <2>1. PICK f : UserHandlePacket(n, f)
    BY <1>2 DEF UserRouterTask
  <2>2. CASE tryImplicitAck(n, f) \/ DropDuplicate(n, f) \/ Overhear(n, f) \/ CrashOnRERR(n, f)
    BY <2>2 DEF tryImplicitAck, DropDuplicate, Overhear, CrashOnRERR
  <2>3. CASE HandleFrame(n, f)
    BY <2>3 DEF HandleFrame, HandleRREQ, HandleRREP, HandleRERR, HandleACK, HandleData,
                DeliverData, RelayBroadcast, ForwardData, RejectData
  <2>4. CASE UserHandler(n, f)
    BY <2>4 DEF UserHandler, HandleUREQ, HandleUREP, HandleUERR, HandleUserMessage,
                HandlePubKeyReq, HandlePubKeyResp, HandleMoveUserReq, HandleBroadcastInfo,
                FlushRREP, quietVars
  <2> QED BY <2>1, <2>2, <2>3, <2>4 DEF UserHandlePacket
<1>3. CASE sendUserMessage(n)
  BY <1>3 DEF sendUserMessage, AnyGateway, PickGateway, PickNoGateway, ReadHome, ReadRoute,
              AskHome, AskRoute
<1>4. CASE ApplicationTask(n) \/ TimerWorker(n)
  BY <1>4 DEF ApplicationTask, sendData, SendDataBuffer, SendDataTransmit, SendDataDrop,
              SendDataStore, TimerWorker, CleanupAckBuffer, ReportExpired
<1>5. CASE Outside(n)
  BY <1>5 DEF Outside, MessageCall, MoveCall, KeyCall, AnnounceCall, LeaveCall, BroadcastCall,
              UplinkCall, RebootCall, vars
<1> QED BY <1>1, <1>2, <1>3, <1>4, <1>5

(* What the handlers of the user plane do with messages. *)
LEMMA HandlerCopies ==
    ASSUME UserTyped, RouterTyped', Apart, Single, NEW n \in Node, NEW f \in MeshFrame,
           <<n, f>> \in air, FirstSight(n, f), UserHandler(n, f)
    PROVE  Apart' /\ Single'
<1>1. storePacketID(n, f) /\ f.packetID \notin receivedPacketIDs[n] /\ RouterTyped
  BY DEF FirstSight, isDuplicatePacketID, UserTyped
<1>2. CASE \/ HandleUREQ(n, f)
           \/ HandleUERR(n, f)
           \/ HandlePubKeyReq(n, f)
           \/ HandlePubKeyResp(n, f)
           \/ HandleBroadcastInfo(n, f)
  BY <1>1, <1>2, TeachersQuiet, NothingMoved
<1>3. CASE f.packetType = "UREP" /\ HandleUREP(n, f)
  <2>1. CASE n = f.originNodeID
    BY <1>1, <1>3, <2>1, MeshKinds, UREPCopies
  <2>2. CASE n # f.originNodeID
    BY <1>1, <1>3, <2>2, PassingQuiet, NothingMoved
  <2> QED BY <2>1, <2>2
<1>4. CASE f.packetType = "MOVE_USER_REQ" /\ HandleMoveUserReq(n, f)
  <2>1. CASE n = f.ext.destNodeID
    BY <1>1, <1>4, <2>1, MeshKinds, MoveCopies
  <2>2. CASE n # f.ext.destNodeID
    BY <1>1, <1>4, <2>2, PassingQuiet, NothingMoved
  <2> QED BY <2>1, <2>2
<1>5. CASE f.packetType = "RREP" /\ FlushRREP(n, f)
  BY <1>1, <1>5, MeshKinds, RREPCopies
<1>6. CASE f.packetType = "USER_MSG" /\ HandleUserMessage(n, f)
  <2>1. CASE DeliverUserMessage(n, f) \/ TakeForUplink(n, f)
    BY <1>1, <1>6, <2>1, MeshKinds, ArrivalCopies
  <2>2. CASE RefuseUserMessage(n, f) \/ ForwardUserMessage(n, f) \/ RejectUserMessage(n, f)
    BY <1>1, <1>6, <2>2, CarrierQuiet, NothingMoved
  <2> QED BY <1>6, <2>1, <2>2 DEF HandleUserMessage
<1> QED BY <1>2, <1>3, <1>4, <1>5, <1>6 DEF UserHandler

(* No node dereferences a null pointer on a report of a broken route. *)
NobodyCrashes == \A n \in Node, f \in MeshFrame : ~CrashOnRERR(n, f)

(* The router task. *)
LEMMA PacketCopies ==
    ASSUME UserTyped, RouterTyped', Apart, Single, NobodyCrashes, NEW n \in Node,
           NEW f \in MeshFrame, <<n, f>> \in air, UserHandlePacket(n, f)
    PROVE  Apart' /\ Single'
<1>1. RouterTyped
  BY DEF UserTyped
<1>2. CASE (tryImplicitAck(n, f) \/ DropDuplicate(n, f) \/ Overhear(n, f)) /\ UNCHANGED userVars
  <2>1. /\ air' \subseteq air
        /\ UNCHANGED <<sender, client, issued, inbox, userMsgBuffer, userRouteBuffer, uplinked>>
    BY <1>2 DEF tryImplicitAck, DropDuplicate, Overhear, userVars, homeVars, bufferVars,
                outsideVars
  <2>2. \A m \in Node : ackBuffer'[m] \subseteq ackBuffer[m]
    <3>1. CASE UNCHANGED ackBuffer
      BY <3>1
    <3>2. CASE tryImplicitAck(n, f)
      <4>1. ackBuffer' = [ackBuffer EXCEPT ![n] = ackBuffer[n] \ Pending(n, f.packetID)]
        BY <1>1, <3>2 DEF tryImplicitAck, RouterTyped
      <4> QED BY <1>1, <4>1 DEF RouterTyped
    <3> QED BY <1>2, <3>1, <3>2 DEF DropDuplicate, Overhear
  <2>3. \A d \in Node : receivedPacketIDs[d] \subseteq receivedPacketIDs'[d]
    BY <1>1, <1>2 DEF tryImplicitAck, DropDuplicate, Overhear, FirstSight, storePacketID,
                      RouterTyped
  <2>4. Undisturbed
    BY <1>1, <2>1, <2>2, <2>3, DropQuiet
  <2> QED BY <1>1, <2>4, NothingMoved
<1>3. CASE f.packetType # "RREP" /\ HandleFrame(n, f) /\ UNCHANGED userVars
  BY <1>1, <1>3, NodePlaneQuiet, NothingMoved
<1>4. CASE FirstSight(n, f) /\ UserHandler(n, f)
  BY <1>4, HandlerCopies
<1>5. ~CrashOnRERR(n, f)
  BY DEF NobodyCrashes
<1> QED BY <1>2, <1>3, <1>4, <1>5 DEF UserHandlePacket

(* The application task with a user message. *)
LEMMA SendUserCopies ==
    ASSUME UserTyped, RouterTyped', Apart, Single, NEW n \in Node, sendUserMessage(n),
           UNCHANGED restarts
    PROVE  Apart' /\ Single'
<1>1. RouterTyped
  BY DEF UserTyped
<1>2. ~PickNoGateway(n)
  BY DEF PickNoGateway, UserTyped, RouterTyped
<1>3. CASE \/ AnyGateway(n)
           \/ PickGateway(n)
           \/ ReadHome(n)
           \/ ReadRoute(n) /\ routeTable[n][sender[n].dest] = NoRoute
  BY <1>1, <1>3, LookQuiet, NothingMoved
<1>4. CASE ReadRoute(n) /\ routeTable[n][sender[n].dest] # NoRoute
  BY <1>4, RouteCopies
<1> QED BY <1>2, <1>3, <1>4, AskHomeCopies, AskRouteCopies DEF sendUserMessage

(* What comes from outside. *)
LEMMA OutsideCopies ==
    ASSUME UserTyped, RouterTyped', Apart, Single, NEW n \in Node, Outside(n),
           UNCHANGED restarts
    PROVE  Apart' /\ Single'
<1>1. PICK c \in Call : \/ MessageCall(n, c)
                        \/ MoveCall(n, c)
                        \/ KeyCall(n, c)
                        \/ AnnounceCall(n, c)
                        \/ LeaveCall(n, c)
                        \/ BroadcastCall(n, c)
                        \/ UplinkCall(n, c)
                        \/ RebootCall(n, c)
  <2>1. PICK i \in DOMAIN todo :
            /\ todo[i] # <<>>
            /\ \E c : /\ c = Head(todo[i])
                      /\ \/ MessageCall(n, c)
                         \/ MoveCall(n, c)
                         \/ KeyCall(n, c)
                         \/ AnnounceCall(n, c)
                         \/ LeaveCall(n, c)
                         \/ BroadcastCall(n, c)
                         \/ UplinkCall(n, c)
                         \/ RebootCall(n, c)
    BY DEF Outside
  <2>2. todo[i] \in Seq(Call)
    BY InSequence DEF UserTyped, OutsideTyped
  <2>3. Head(todo[i]) \in Call
    BY <2>1, <2>2
  <2> QED BY <2>1, <2>3
<1>2. ~RebootCall(n, c)
  BY DEF RebootCall, UserTyped, RouterTyped
<1>3. CASE \/ MoveCall(n, c)
           \/ KeyCall(n, c)
           \/ LeaveCall(n, c)
           \/ BroadcastCall(n, c)
           \/ UplinkCall(n, c)
  <2>1. RouterTyped
    BY DEF UserTyped
  <2> QED BY <1>3, <2>1, CallQuiet, NothingMoved
<1> QED BY <1>1, <1>2, <1>3, MessageCopies, AnnounceCopies

(* A step keeps every message in one place. *)
LEMMA CopyStep ==
    ASSUME UserTyped, UserTyped', CopyInv, [UserNext]_allVars, [NobodyCrashes]_allVars
    PROVE  CopyInv'
<1>1. RouterTyped /\ RouterTyped'
  BY DEF UserTyped
<1>2. CASE UNCHANGED allVars
  <2>1. UNCHANGED <<restarts, air, ackBuffer, receivedPacketIDs, sender, client, issued, inbox,
                    userMsgBuffer, userRouteBuffer, uplinked>>
    BY <1>2 DEF allVars, vars, userVars, homeVars, bufferVars, outsideVars
  <2> QED BY <2>1 DEF CopyInv, Apart, Single, Holds, InInbox, WantsHome, WantsRoute, IsShown,
                      InHand, OnTheWay, Flights, IsUplinked, Undrawn
<1>3. CASE UserNext /\ NobodyCrashes /\ restarts' = 0
  <2>1. restarts = 0
    BY <1>1, <1>3, RestartsGrow DEF RouterTyped
  <2>2. Apart /\ Single /\ UNCHANGED restarts
    BY <1>3, <2>1 DEF CopyInv
  <2>3. PICK n \in Node : \/ UserRouterTask(n)
                          \/ sendUserMessage(n)
                          \/ (ApplicationTask(n) \/ TimerWorker(n)) /\ UNCHANGED userVars
                          \/ Outside(n)
    BY <1>3 DEF UserNext
  <2>4. CASE UserRouterTask(n)
    <3>1. PICK f \in MeshFrame : <<n, f>> \in air /\ UserHandlePacket(n, f)
      BY <1>1, <2>4, MeshFrames
    <3> QED BY <1>1, <1>3, <2>2, <3>1, PacketCopies DEF CopyInv
  <2>5. CASE sendUserMessage(n)
    BY <1>1, <2>2, <2>5, SendUserCopies DEF CopyInv
  <2>6. CASE (ApplicationTask(n) \/ TimerWorker(n)) /\ UNCHANGED userVars
    BY <1>1, <2>2, <2>6, ApplicationQuiet, TimerQuiet, NothingMoved DEF CopyInv
  <2>7. CASE Outside(n)
    BY <1>1, <2>2, <2>7, OutsideCopies DEF CopyInv
  <2> QED BY <2>3, <2>4, <2>5, <2>6, <2>7
<1> QED BY <1>2, <1>3 DEF CopyInv

-----------------------------------------------------------------------------
(* What the invariant says of the copies of a message. *)

(* To begin with, no identifier has been drawn. *)
LEMMA CopyInit == UserInit => CopyInv
<1> SUFFICES ASSUME UserInit
             PROVE  Apart /\ Single
  BY DEF CopyInv
<1>1. /\ userMsgBuffer = [n \in Node |-> [u \in User |-> <<>>]]
      /\ userRouteBuffer = [n \in Node |-> [d \in Node |-> <<>>]]
      /\ ackBuffer = [n \in Node |-> {}]
      /\ sender = [n \in Node |-> Idle]
      /\ air = {}
      /\ client = [n \in Node |-> <<>>]
      /\ Idle.step = "idle"
  BY DEF UserInit, Init, EmptyUserPlane, Idle
<1>2. PICK w \in Workloads : Settled(w)
  BY DEF UserInit
<1>3. inbox = [n \in Node |-> [u \in User |-> <<>>]] /\ uplinked = {}
  BY <1>2 DEF Settled
<1>4. Flights = {}
  <2>1. \A m \in Node : sender[m].step \notin {"transmit", "store"} /\ ackBuffer[m] = {}
    BY <1>1
  <2> QED BY <1>1, <2>1 DEF Flights
<1>5. ASSUME NEW x \in PacketID, NEW p \in Place, Holds(x, p)
      PROVE  p = <<"undrawn">>
  <2>1. ~InInbox(x, p)
    BY <1>3, IdsEmpty DEF InInbox
  <2>2. ~WantsHome(x, p)
    BY <1>1, IdsEmpty DEF WantsHome
  <2>3. ~WantsRoute(x, p)
    BY <1>1, IdsEmpty DEF WantsRoute
  <2>4. ~IsShown(x, p)
    BY <1>1, IdsEmpty DEF IsShown
  <2>5. ~InHand(x, p)
    BY <1>1 DEF InHand
  <2>6. ~OnTheWay(x, p)
    BY <1>4 DEF OnTheWay
  <2>7. ~IsUplinked(x, p)
    BY <1>3 DEF IsUplinked
  <2> QED BY <1>5, <2>1, <2>2, <2>3, <2>4, <2>5, <2>6, <2>7 DEF Holds, Undrawn
<1>6. Apart
  BY <1>5 DEF Apart
<1>7. Single
  BY <1>1, <1>3, IdsEmpty DEF Single
<1> QED BY <1>6, <1>7

(* A sequence in which nothing repeats has one copy of a message at most. *)
LEMMA CopiesOnce ==
    ASSUME NEW place, NEW s, NEW x
    PROVE  /\ \A e \in Copies(place, s, x) : x \in Ids(s)
           /\ NoRepeats(s) => \A e, f \in Copies(place, s, x) : e = f
<1>1. \A e \in Copies(place, s, x) :
          \E i \in DOMAIN s : s[i].packetID = x /\ e = <<place, i>>
  BY DEF Copies
<1>2. ASSUME NoRepeats(s), NEW e \in Copies(place, s, x), NEW f \in Copies(place, s, x)
      PROVE  e = f
  <2>1. PICK i \in DOMAIN s : s[i].packetID = x /\ e = <<place, i>>
    BY <1>1
  <2>2. PICK j \in DOMAIN s : s[j].packetID = x /\ f = <<place, j>>
    BY <1>1
  <2>3. i = j
    BY <1>2, <2>1, <2>2 DEF NoRepeats
  <2> QED BY <2>1, <2>2, <2>3
<1>3. \A e \in Copies(place, s, x) : x \in Ids(s)
  BY <1>1 DEF Ids
<1> QED BY <1>2, <1>3

(* A phone that is shown nothing twice has been shown a message once at most. *)
LEMMA ShowingsOnce ==
    ASSUME NEW n, NEW x
    PROVE  /\ \A e \in Showings(n, x) : x \in ShownIds(client[n])
           /\ ShownOnce(client[n]) => \A e, f \in Showings(n, x) : e = f
<1>1. \A e \in Showings(n, x) :
          \E i \in DOMAIN client[n] : /\ client[n][i] \in UserMessageShown
                                      /\ client[n][i].packetID = x
                                      /\ e = <<"shown", n, i>>
  BY DEF Showings
<1>2. ASSUME ShownOnce(client[n]), NEW e \in Showings(n, x), NEW f \in Showings(n, x)
      PROVE  e = f
  <2>1. PICK i \in DOMAIN client[n] : /\ client[n][i] \in UserMessageShown
                                      /\ client[n][i].packetID = x
                                      /\ e = <<"shown", n, i>>
    BY <1>1
  <2>2. PICK j \in DOMAIN client[n] : /\ client[n][j] \in UserMessageShown
                                      /\ client[n][j].packetID = x
                                      /\ f = <<"shown", n, j>>
    BY <1>1
  <2>3. i = j
    BY <1>2, <2>1, <2>2 DEF ShownOnce
  <2> QED BY <2>1, <2>2, <2>3
<1>3. \A e \in Showings(n, x) : x \in ShownIds(client[n])
  BY <1>1 DEF ShownIds
<1> QED BY <1>2, <1>3

(* Copy e of message x to user u sits in place p. *)
SitsIn(e, x, u, p) ==
    \/ \E n \in Node : p = <<"inbox", n, u>> /\ e \in Copies(<<"inbox", n>>, inbox[n][u], x)
    \/ \E n \in Node :
           p = <<"home", n, u>> /\ e \in Copies(<<"home wanted", n>>, userMsgBuffer[n][u], x)
    \/ \E n \in Node, d \in Node :
           /\ p = <<"route", n, d>>
           /\ e \in Copies(<<"route wanted", n, d>>, userRouteBuffer[n][d], x)
    \/ \E n \in Node : p = <<"shown", n>> /\ e \in Showings(n, x)
    \/ p = <<"uplinked">> /\ x \in uplinked /\ e = <<"uplinked", x>>

(* The place holds the message then, ... *)
LEMMA SitsHolds ==
    ASSUME NEW e, NEW x, NEW u \in User, NEW p, SitsIn(e, x, u, p)
    PROVE  p \in Place /\ Holds(x, p)
<1>1. ASSUME NEW n \in Node, p = <<"inbox", n, u>>, e \in Copies(<<"inbox", n>>, inbox[n][u], x)
      PROVE  p \in Place /\ Holds(x, p)
  BY <1>1, Named, CopiesOnce DEF Holds, InInbox
<1>2. ASSUME NEW n \in Node, p = <<"home", n, u>>,
             e \in Copies(<<"home wanted", n>>, userMsgBuffer[n][u], x)
      PROVE  p \in Place /\ Holds(x, p)
  BY <1>2, Named, CopiesOnce DEF Holds, WantsHome
<1>3. ASSUME NEW n \in Node, NEW d \in Node, p = <<"route", n, d>>,
             e \in Copies(<<"route wanted", n, d>>, userRouteBuffer[n][d], x)
      PROVE  p \in Place /\ Holds(x, p)
  BY <1>3, Named, CopiesOnce DEF Holds, WantsRoute
<1>4. ASSUME NEW n \in Node, p = <<"shown", n>>, e \in Showings(n, x)
      PROVE  p \in Place /\ Holds(x, p)
  BY <1>4, Named, ShowingsOnce DEF Holds, IsShown
<1>5. x \in uplinked /\ p = <<"uplinked">> => p \in Place /\ Holds(x, p)
  BY Named DEF Holds, IsUplinked
<1> QED BY <1>1, <1>2, <1>3, <1>4, <1>5 DEF SitsIn

(* ... and there is no other copy in it. *)
LEMMA SitsOnce ==
    ASSUME Single, NEW u \in User, NEW x, NEW p, NEW e, NEW f,
           SitsIn(e, x, u, p), SitsIn(f, x, u, p)
    PROVE  e = f
<1>1. ASSUME NEW n \in Node, p = <<"inbox", n, u>>
      PROVE  e = f
  <2>1. \A g : SitsIn(g, x, u, p) => g \in Copies(<<"inbox", n>>, inbox[n][u], x)
    BY <1>1 DEF SitsIn
  <2>2. NoRepeats(inbox[n][u])
    BY DEF Single
  <2> QED BY <2>1, <2>2, CopiesOnce
<1>2. ASSUME NEW n \in Node, p = <<"home", n, u>>
      PROVE  e = f
  <2>1. \A g : SitsIn(g, x, u, p) =>
            g \in Copies(<<"home wanted", n>>, userMsgBuffer[n][u], x)
    BY <1>2 DEF SitsIn
  <2>2. NoRepeats(userMsgBuffer[n][u])
    BY DEF Single
  <2> QED BY <2>1, <2>2, CopiesOnce
<1>3. ASSUME NEW n \in Node, NEW d \in Node, p = <<"route", n, d>>
      PROVE  e = f
  <2>1. \A g : SitsIn(g, x, u, p) =>
            g \in Copies(<<"route wanted", n, d>>, userRouteBuffer[n][d], x)
    BY <1>3 DEF SitsIn
  <2>2. NoRepeats(userRouteBuffer[n][d])
    BY DEF Single
  <2> QED BY <2>1, <2>2, CopiesOnce
<1>4. ASSUME NEW n \in Node, p = <<"shown", n>>
      PROVE  e = f
  <2>1. \A g : SitsIn(g, x, u, p) => g \in Showings(n, x)
    BY <1>4 DEF SitsIn
  <2>2. ShownOnce(client[n])
    BY DEF Single
  <2> QED BY <2>1, <2>2, ShowingsOnce
<1>5. CASE p = <<"uplinked">>
  <2>1. \A g : SitsIn(g, x, u, p) => g = <<"uplinked", x>>
    BY <1>5 DEF SitsIn
  <2> QED BY <2>1
<1> QED BY <1>1, <1>2, <1>3, <1>4, <1>5 DEF SitsIn

(* So a message has one copy at most. *)
LEMMA CopyImplies == UserTyped /\ CopyInv => OneCopy
<1> SUFFICES ASSUME UserTyped, Apart, Single, NEW m \in messages
             PROVE  Cardinality(Places(m)) <= 1
  BY DEF CopyInv, OneCopy
<1> DEFINE x == m.packetID
           u == m.toUserID
<1>1. x \in PacketID /\ u \in User
  <2>1. m \in Msg
    BY DEF UserTyped, OutsideTyped
  <2> QED BY <2>1 DEF Msg
<1>2. \A e \in Places(m) : \E p : SitsIn(e, x, u, p)
  <2> SUFFICES ASSUME NEW e \in Places(m)
               PROVE  \E p : SitsIn(e, x, u, p)
    OBVIOUS
  <2>1. ASSUME NEW n \in Node, e \in Copies(<<"inbox", n>>, inbox[n][u], x)
        PROVE  \E p : SitsIn(e, x, u, p)
    BY <2>1 DEF SitsIn
  <2>2. ASSUME NEW n \in Node, e \in Copies(<<"home wanted", n>>, userMsgBuffer[n][u], x)
        PROVE  \E p : SitsIn(e, x, u, p)
    BY <2>2 DEF SitsIn
  <2>3. ASSUME NEW n \in Node, NEW d \in Node,
               e \in Copies(<<"route wanted", n, d>>, userRouteBuffer[n][d], x)
        PROVE  \E p : SitsIn(e, x, u, p)
    BY <2>3 DEF SitsIn
  <2>4. ASSUME NEW n \in Node, e \in Showings(n, x)
        PROVE  \E p : SitsIn(e, x, u, p)
    BY <2>4 DEF SitsIn
  <2>5. ASSUME x \in uplinked, e = <<"uplinked", x>>
        PROVE  \E p : SitsIn(e, x, u, p)
    BY <2>5 DEF SitsIn
  <2> DEFINE Waiting(n) ==
                 UNION {Copies(<<"route wanted", n, d>>, userRouteBuffer[n][d], x) : d \in Node}
             At(n) == Copies(<<"inbox", n>>, inbox[n][u], x)
                        \cup Copies(<<"home wanted", n>>, userMsgBuffer[n][u], x)
                        \cup Showings(n, x)
                        \cup Waiting(n)
             Up == {<<"uplinked", y>> : y \in uplinked \cap {x}}
  <2>6. Places(m) = (UNION {At(n) : n \in Node}) \cup Up
    BY DEF Places
  <2>7. CASE e \in Up
    BY <2>5, <2>7
  <2>8. ASSUME NEW n \in Node, e \in At(n)
        PROVE  \E p : SitsIn(e, x, u, p)
    <3>1. CASE e \in Waiting(n)
      BY <2>3, <3>1
    <3>2. CASE e \notin Waiting(n)
      <4> HIDE DEF Waiting
      <4> QED BY <2>1, <2>2, <2>4, <2>8, <3>2
    <3> QED BY <3>1, <3>2
  <2> HIDE DEF At, Up
  <2> QED BY <2>6, <2>7, <2>8
<1> HIDE DEF x, u
<1>3. \A e, f \in Places(m) : e = f
  <2> SUFFICES ASSUME NEW e \in Places(m), NEW f \in Places(m)
               PROVE  e = f
    OBVIOUS
  <2>1. PICK p, q : SitsIn(e, x, u, p) /\ SitsIn(f, x, u, q)
    BY <1>2
  <2>2. p = q
    BY <1>1, <2>1, SitsHolds DEF Apart
  <2> QED BY <1>1, <2>1, <2>2, SitsOnce
<1>4. CASE Places(m) = {}
  BY <1>4, FS_EmptySet
<1>5. CASE Places(m) # {}
  <2>1. PICK e : Places(m) = {e}
    BY <1>3, <1>5
  <2> QED BY <2>1, FS_Singleton
<1> QED BY <1>4, <1>5

(* As long as nobody reboots and no report of a broken route crashes a node, a *)
(* user message is nowhere twice, be it parked, kept for its user, shown or   *)
(* handed to the gateway manager, whatever is retransmitted, moved or flushed. *)
THEOREM OneCopyKept == UserSpec /\ [][NobodyCrashes]_allVars => []OneCopy
<1>1. /\ UserTyped /\ UserTyped' /\ CopyInv
      /\ [UserNext]_allVars /\ [NobodyCrashes]_allVars
      => CopyInv'
  BY CopyStep
<1> QED BY <1>1, CopyInit, CopyImplies, UserInvariance, PTL DEF UserSpec

(* If every node is connected to the broker, no report crashes one. *)
THEOREM OneCopyWithBroker ==
    ASSUME MQTTNode = Node
    PROVE  UserSpec => []OneCopy
<1>1. NobodyCrashes
  BY DEF NobodyCrashes, CrashOnRERR, DereferencesNull
<1> QED BY <1>1, OneCopyKept, PTL

=============================================================================
