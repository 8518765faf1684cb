------------------------------ MODULE MC_Users ------------------------------
(* Topologies and workloads for the runs of UserRouting.                      *)
EXTENDS UserProperties

CONSTANTS A, B, C, D, alice, bob

Both(pairs) == pairs \cup {<<p[2], p[1]>> : p \in pairs}

Line     == Both({<<A, B>>, <<B, C>>})
LongLine == Both({<<A, B>>, <<B, C>>, <<C, D>>})

Message(n, from, to, flags) ==
    [call |-> "message", node |-> n, fromUserID |-> from, toUserID |-> to, flags |-> flags]
Announce(n, x) == [call |-> "announce", node |-> n, user |-> x]
Leave(n, x) == [call |-> "leave", node |-> n, user |-> x]
Move(n, x, old) == [call |-> "move", node |-> n, user |-> x, oldNodeID |-> old]
Key(n, from, to) == [call |-> "key", node |-> n, fromUserID |-> from, toUserID |-> to]
At(what, n) == [call |-> what, node |-> n]

(* Two users, alice on A and bob on another node.                             *)
Starting(home, away, gws, scripts) ==
    [home |-> [x \in User |-> IF x = alice THEN A ELSE home], away |-> away,
     gwOnline |-> gws, scripts |-> scripts]

(* bob's node announces itself while alice writes to bob: the message waits  *)
(* for a home, or follows the broadcast.                                     *)
Asking(flags) ==
    Starting(C, {}, {}, <<<<At("broadcast", C)>>, <<Message(A, alice, bob, flags)>>>>)

(* bob is offline, and comes back on another node, which asks for the inbox.  *)
Moving ==
    Starting(B, {bob}, {}, <<<<At("broadcast", B), Message(A, alice, bob, "NONE")>>,
                           <<Announce(C, bob), Move(C, bob, B)>>>>)

MovingFar == Starting(C, {}, {}, <<<<Announce(A, bob), Move(A, bob, C)>>>>)

Returning ==
    Starting(C, {}, {}, <<<<At("broadcast", C), Message(A, alice, bob, "ENC_MSG")>>,
                          <<Leave(C, bob), Announce(C, bob)>>>>)

(* A gateway comes and goes while alice writes to the outside, and so does   *)
(* bob on the gateway itself.                                                *)
Bridging ==
    Starting(C, {}, {}, <<<<At("uplinkUp", C), Message(C, bob, alice, "TO_GATEWAY"),
                            At("broadcast", C), Message(A, alice, bob, "TO_GATEWAY")>>,
                          <<At("uplinkDown", C), At("broadcast", C)>>>>)

(* Both users are at home on A: A finds its own user through its neighbour.   *)
Local == Starting(A, {}, {}, <<<<At("broadcast", A)>>, <<Message(A, alice, bob, "NONE")>>>>)

(* The relay reboots, and rejects what it could have forwarded before.        *)
Rebooting ==
    Starting(C, {}, {}, <<<<At("broadcast", C), Message(A, alice, bob, "NONE")>>,
                          <<At("reboot", B)>>>>)

(* The sender has no MQTTManager.                                             *)
Crashing ==
    Starting(C, {}, {}, <<<<At("broadcast", A), Message(C, bob, alice, "NONE")>>,
                          <<At("reboot", B)>>>>)

Keys == Starting(C, {}, {}, <<<<At("broadcast", C)>>, <<Key(A, alice, bob), Key(A, alice, bob)>>,
                              <<Key(B, bob, alice)>>>>)

Mixed == {Asking("REQ_ACK"), Moving, MovingFar, Returning, Bridging, Local, Rebooting,
          Crashing, Keys}

(* Four nodes in a line; bob is at the far end, and alice writes to bob      *)
(* before all of them have heard of it.                                      *)
AskingFar == {Starting(D, {}, {}, <<<<At("broadcast", D)>>, <<Message(A, alice, bob, "NONE")>>>>)}

(* The number of hops in the topology; Cardinality(Node) where there is no    *)
(* path, which is no more than any route could claim.                         *)
Reach[k \in 0..Cardinality(Node)] ==
    IF k = 0 THEN {<<n, n>> : n \in Node}
    ELSE Reach[k - 1] \cup
         {<<n, m>> \in Node \X Node :
             \E p \in Reach[k - 1] : p[1] = n /\ <<p[2], m>> \in Link}
HopDistance ==
    [n \in Node |-> [d \in Node |->
        IF \E k \in 0..Cardinality(Node) : <<d, n>> \in Reach[k]
        THEN CHOOSE k \in 0..Cardinality(Node) :
                 <<d, n>> \in Reach[k] /\ \A j \in 0..(k - 1) : <<d, n>> \notin Reach[j]
        ELSE Cardinality(Node)]]

=============================================================================
