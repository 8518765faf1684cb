--------------------------- MODULE AodvProperties ---------------------------
(***************************************************************************)
(* What AodvRouter is meant to guarantee.  Dist is any lower bound of the  *)
(* number of hops between two nodes; the true distance of the topology is  *)
(* one.                                                                    *)
(***************************************************************************)
EXTENDS AodvRouter

CONSTANT Dist

ASSUME DistAssumption ==
    /\ Dist \in [Node -> [Node -> Nat]]
    /\ \A n \in Node : Dist[n][n] = 0
    /\ \A link \in Link, d \in Node : Dist[link[2]][d] <= Dist[link[1]][d] + 1

HasRoute(n, d) == routeTable[n][d] # NoRoute

(* A route never promises fewer hops than the topology has: no interleaving   *)
(* of requests, replies from intermediate nodes, losses, erasures and        *)
(* reboots makes updateRoute's "shorter is better" prefer an imaginary path. *)
HopCountsNeverUnderestimate ==
    \A n, d \in Node : HasRoute(n, d) => Dist[n][d] <= routeTable[n][d].hopcount

(* As long as no node reboots, the next hop of a route has itself a route to  *)
(* the destination, with fewer hops: routes do not loop, though there are no *)
(* sequence numbers and the tables are updated by replies that cross.        *)
NextHopIsCloser ==
    \A n, d \in Node :
        LET m == routeTable[n][d].nextHop
        IN HasRoute(n, d) /\ m # d =>
               /\ HasRoute(m, d)
               /\ routeTable[m][d].hopcount < routeTable[n][d].hopcount

(* As long as no node reboots, a data packet on its way, on the air or kept   *)
(* for retransmission, is addressed to a node that can deliver or forward    *)
(* it: handleData never has to answer with a RERR.                           *)
CanServe(f) ==
    \/ f.ext.finalDestID \in {f.destNodeID, BROADCAST_ADDR}
    \/ f.destNodeID \in Node /\ HasRoute(f.destNodeID, f.ext.finalDestID)

DataFollowsRoutes ==
    /\ \A copy \in air : copy[2].packetType = "DATA" => CanServe(copy[2])
    /\ \A n \in Node : \A e \in ackBuffer[n] : CanServe(e.frame)

(* As long as no node reboots, a frame has made no more hops than there are   *)
(* nodes that have seen its identifier: the floods, which carry no limit of  *)
(* their own, die out.                                                       *)
FloodsDieOut ==
    \A copy \in air :
        copy[2].hopCount <= Cardinality({n \in Node :
                                            copy[2].packetID \in receivedPacketIDs[n]})

(* A data packet does not come back to the node it started from.  That node    *)
(* keeps no record of its own identifiers (handlePacket stores those it       *)
(* receives), and handleData would take the packet for one to forward and to *)
(* wait for once more: its phone could be given a second verdict.  On a line  *)
(* not even reboots break it; better routes, learnt while the packet is on   *)
(* its way, can break it on a ring of five nodes.                            *)
NeverComesBack ==
    \A copy \in air :
        LET n == copy[1]
            f == copy[2]
        IN f.packetType = "DATA" /\ AddressedTo(n, f) /\ f.originNodeID = n
               => f.ext.finalDestID \in {n, BROADCAST_ADDR}

(* What the phones see refines PhoneService. *)
Phones == INSTANCE PhoneService WITH accepted <- sent, told <- client

PhoneServiceHolds == Phones!Spec

Told(n, type, pid) ==
    \E i \in DOMAIN client[n] : client[n][i] = [type |-> type, packetID |-> pid]

(* On a medium that loses nothing, what was sent to a reachable node arrives, *)
(* whatever the timers do meanwhile.                                         *)
Undelivered == {p \in sent : /\ p.finalDestID # BROADCAST_ADDR
                             /\ ~Told(p.finalDestID, "BLE_Node", p.packetID)}

Delivered == []<>(Undelivered = {})

(* No packet is kept for retransmission for ever: each is acknowledged or     *)
(* reported in the end.                                                      *)
PendingIsResolved == []<>(\A n \in Node : ackBuffer[n] \cup expired[n] = {})

-----------------------------------------------------------------------------
(* What a message of the code says, and the code does not do. *)

(* A packet dropped as already processed has been processed: its final       *)
(* destination has shown it to its phones.                                   *)
DuplicateWasProcessed ==
    [][\A copy \in air \ air' :
          LET n == copy[1]
              f == copy[2]
          IN /\ f.packetType = "DATA"
             /\ f.destNodeID = n
             /\ f.ext.finalDestID = n
             => Told(n, "BLE_Node", f.packetID)']_vars

=============================================================================
