---------------------------- MODULE PhoneService ----------------------------
(***************************************************************************)
(* What the phones connected to the nodes may rely on, whatever the mesh   *)
(* between the nodes loses, repeats or reorders: the packets an            *)
(* application hands to a node, and the notifications a node gives.        *)
(***************************************************************************)
EXTENDS Naturals, Sequences

CONSTANTS Node, PacketID, BROADCAST_ADDR

VARIABLES
    accepted,   \* the packets accepted from applications
    told        \* what each node has told its phones since it booted

Packet == [packetID : PacketID, origin : Node,
           finalDestID : Node \cup {BROADCAST_ADDR}]

Heard(n, type, p) ==
    \E i \in DOMAIN told[n] : told[n][i] = [type |-> type, packetID |-> p]

Tell(n, type, p) ==
    /\ told' = [told EXCEPT ![n] = Append(@, [type |-> type, packetID |-> p])]
    /\ UNCHANGED accepted

Init == /\ accepted = {}
        /\ told = [n \in Node |-> <<>>]

Accept(p) ==
    /\ p \in Packet
    /\ \A q \in accepted : q.packetID # p.packetID
    /\ accepted' = accepted \cup {p}
    /\ UNCHANGED told

(* A message is shown once, and only where it was sent. *)
Deliver(n, p) ==
    /\ p.finalDestID = n
    /\ ~Heard(n, "BLE_Node", p.packetID)
    /\ Tell(n, "BLE_Node", p.packetID)

Broadcast(n, p) ==
    /\ p.finalDestID = BROADCAST_ADDR
    /\ ~Heard(n, "BLE_Broadcast", p.packetID)
    /\ Tell(n, "BLE_Broadcast", p.packetID)

(* A packet gets one verdict: acknowledged, at its origin only, or failed. *)
Undecided(n, p) == /\ ~Heard(n, "BLE_ACK", p.packetID)
                   /\ ~Heard(n, "BLE_ACK_FAILURE", p.packetID)

Acknowledge(n, p) ==
    /\ p.origin = n
    /\ Undecided(n, p)
    /\ Tell(n, "BLE_ACK", p.packetID)

Fail(n, p) ==
    /\ p.finalDestID \in Node \ {n}
    /\ Undecided(n, p)
    /\ Tell(n, "BLE_ACK_FAILURE", p.packetID)

Reboot(n) ==
    /\ told' = [told EXCEPT ![n] = <<>>]
    /\ UNCHANGED accepted

Next ==
    \/ \E p \in accepted' : Accept(p)
    \/ \E n \in Node : Reboot(n)
    \/ \E n \in Node, p \in accepted : \/ Deliver(n, p)
                                       \/ Broadcast(n, p)
                                       \/ Acknowledge(n, p)
                                       \/ Fail(n, p)

Spec == Init /\ [][Next]_<<accepted, told>>
=============================================================================
