------------------------------ MODULE MC_Aodv -------------------------------
(* Topologies, workloads and distances for the runs of AodvRouter. *)
EXTENDS AodvProperties

CONSTANTS A, B, C, D

Both(pairs) == pairs \cup {<<p[2], p[1]>> : p \in pairs}

Line     == Both({<<A, B>>, <<B, C>>})
Kite     == Both({<<A, B>>, <<B, C>>, <<A, C>>, <<C, D>>})
Triangle == Both({<<A, B>>, <<B, C>>, <<A, C>>})

Send(a, b, flags) == [from |-> a, to |-> b, flags |-> flags]

AckedAD       == {Send(A, D, "REQ_ACK")}
AckedBothWays == {Send(A, C, "REQ_ACK"), Send(C, A, "NONE")}
Mixed         == {Send(A, C, "REQ_ACK"), Send(B, BROADCAST_ADDR, "NONE")}
PlainAC       == {Send(A, C, "NONE")}

(* The number of hops in the topology; Cardinality(Node) where there is no    *)
(* path, which is no more than any route could claim.                        *)
Reach[k \in 0..Cardinality(Node)] ==
    IF k = 0 THEN {<<n, n>> : n \in Node}
    ELSE Reach[k - 1] \cup
         {<<n, m>> \in Node \X Node :
             \E p \in Reach[k - 1] : p[1] = n /\ <<p[2], m>> \in Link}
HopDistance ==
    [n \in Node |-> [d \in Node |->
        IF \E k \in 0..Cardinality(Node) : <<d, n>> \in Reach[k]
        THEN CHOOSE k \in 0..Cardinality(Node) :
                 <<d, n>> \in Reach[k] /\ \A j \in 0..(k - 1) : <<d, n>> \notin Reach[j]
        ELSE Cardinality(Node)]]

(* The mesh after every node has been heard by every other one, as it is once *)
(* the boot announcements have gone round: shortest routes everywhere.       *)
ShortestRoute(n, d) ==
    IF n = d \/ HopDistance[n][d] = Cardinality(Node) THEN NoRoute
    ELSE [nextHop  |-> CHOOSE m \in Node : /\ <<m, n>> \in Link
                                           /\ HopDistance[m][d] = HopDistance[n][d] - 1,
          hopcount |-> HopDistance[n][d]]

WarmInit ==
    /\ routeTable = [n \in Node |-> [d \in Node |-> ShortestRoute(n, d)]]
    /\ receivedPacketIDs = [n \in Node |-> {}]
    /\ dataBuffer = [n \in Node |-> [d \in Node |-> {}]]
    /\ ackBuffer = [n \in Node |-> {}]
    /\ expired = [n \in Node |-> {}]
    /\ sender = [n \in Node |-> Idle]
    /\ air = {}
    /\ issued = [n \in Node |-> 0]
    /\ client = [n \in Node |-> <<>>]
    /\ sent = {}
    /\ restarts = 0

WarmSpec == WarmInit /\ [][Next]_vars

WarmTimerSpec == WarmSpec /\ TimerFairness

ColdOrWarmSpec == (Init \/ WarmInit) /\ [][Next]_vars

ColdOrWarmFairSpec == ColdOrWarmSpec /\ Fairness
=============================================================================
