--------------------------- MODULE UserProperties ---------------------------
(***************************************************************************)
(* What the user plane (UserRouting) is meant to guarantee, and what it    *)
(* leaves of the guarantees of the node plane below it.                    *)
(***************************************************************************)
EXTENDS UserRouting, AodvProperties

(* As long as no node reboots, the next hop of a route is closer to the       *)
(* destination: the routes that UREQs, UREPs, UERRs, moves and broadcasts     *)
(* teach on the side keep the order that RREQs and RREPs keep.               *)
RoutesKeepOrder == restarts = 0 => NextHopIsCloser

(* Where a user message is: the places of s that hold packet identifier pid. *)
Copies(place, s, pid) == {<<place, i>> : i \in {j \in DOMAIN s : s[j].packetID = pid}}

(* The places of what the phones of n have been shown that show message pid. *)
Showings(n, pid) ==
    {<<"shown", n, i>> : i \in
        {j \in DOMAIN client[n] : client[n][j] \in UserMessageShown
                                  /\ client[n][j].packetID = pid}}

Places(m) ==
    LET u == m.toUserID
        pid == m.packetID
    IN (UNION {Copies(<<"inbox", n>>, inbox[n][u], pid)
                 \cup Copies(<<"home wanted", n>>, userMsgBuffer[n][u], pid)
                 \cup Showings(n, pid)
                 \cup (UNION {Copies(<<"route wanted", n, d>>, userRouteBuffer[n][d], pid) :
                                 d \in Node}) : n \in Node})
         \cup {<<"uplinked", p>> : p \in uplinked \cap {pid}}

(* As long as no node reboots, a user message is in one place at a time: it   *)
(* is parked at its sender, or in the inbox of one home, or has been shown    *)
(* once by one phone or uplinked once, whatever is retransmitted, moved or    *)
(* flushed meanwhile.                                                        *)
OneCopy == restarts = 0 => \A m \in messages : Cardinality(Places(m)) <= 1

-----------------------------------------------------------------------------
(* What a comment of the repository says, and the code does not do. *)

(* A user message waits at its sender until the home of its user is found: it *)
(* is sent to a node that knows the user.                                    *)
HomeIsFound ==
    \A copy \in air :
        LET f == copy[2]
        IN f.packetType = "USER_MSG" /\ f.flags # "TO_GATEWAY"
               => f.ext.toUserID \in users[f.ext.toNodeID]

=============================================================================
