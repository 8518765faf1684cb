------------------------------- MODULE MC_Node -------------------------------
(* Workloads for the runs of NodeApplication. *)
EXTENDS NodeApplication

CONSTANTS u, v, h1, h2

Ev(what) == [what |-> what]
On(what, h) == [what |-> what, handle |-> h]
Write(h, type, x, k) ==
    [what |-> "write", in |-> [connHandle |-> h, type |-> type, sender |-> x, seq |-> k]]
Broadcast(gateway) == [what |-> "broadcast", gateway |-> gateway]
Data(topic, k) == [what |-> "mqttData", msg |-> [topic |-> topic, seq |-> k]]
Report(action) == [what |-> "publish", action |-> action]
Deliver(type, x) == [what |-> "notify", o |-> [type |-> type, to |-> x, text |-> 1]]
Park(type, x, k) == [what |-> "park", o |-> [type |-> type, to |-> x, text |-> k]]
FromMesh(k) ==
    [what |-> "uplink", msg |-> [kind |-> "TO_GATEWAY", flags |-> "TO_GATEWAY",
                                 source |-> "mesh", seq |-> k]]

(* u is on h1; so is v on h2 in Both. *)
Alone(waiting, scripts) == [sessions |-> [x \in {u} |-> h1], down |-> waiting, scripts |-> scripts]
Both(waiting, scripts) ==
    [sessions |-> [x \in {u, v} |-> IF x = u THEN h1 ELSE h2], down |-> waiting,
     scripts |-> scripts]

(* A phone sends to the outside while the Wi-Fi comes. *)
Uplinks ==
    Alone(<<[to |-> u, seq |-> 1], [to |-> v, seq |-> 2]>>,
          <<<<Write(h1, "USER_MSG_GATEWAY", u, 1), Write(h1, "USER_MSG_GATEWAY", u, 2)>>,
            <<Ev("wifiUp"), FromMesh(9)>>>>)

(* The Wi-Fi flickers. *)
Flickers ==
    Alone(<<>>, <<<<Ev("wifiUp"), Ev("wifiDown"), Ev("wifiUp")>>,
                  <<Write(h1, "USER_MSG_GATEWAY", u, 1)>>>>)

(* A gateway in the mesh comes and goes, and the phone leaves. *)
Bridges ==
    Alone(<<>>,
          <<<<Ev("wifiUp")>>, <<Broadcast(TRUE), Broadcast(FALSE)>>,
            <<Write(h1, "USER_MSG_GATEWAY", u, 1), On("disconnect", h1)>>>>)

(* All a phone may ask for, while the simulator and the router are busy. *)
Asks(types, told) ==
    Both(<<>>, <<[i \in DOMAIN types |-> Write(h1, types[i], u, i)],
                 <<Write(h2, "REQUEST_NODE_ID", v, 9), told>>>>)

Simulates ==
    Alone(<<>>, <<<<Write(h1, "NODE_MSG", u, 1), Write(h1, "BROADCAST", u, 2)>>,
                  <<Ev("mqttUp"), Data("process", 1), Data("process", 2), Data("send", 3),
                    Data("garbled", 4)>>,
                  <<Report("user added"), Report("message"), Ev("mqttDown")>>>>)

Joins ==
    Alone(<<>>, <<<<On("connect", h2), Write(h2, "USER_MSG", v, 1),
                    Write(h2, "BLE_ANNOUNCE_KEY", v, 2), Write(h2, "USER_MSG", v, 3),
                    Write(h2, "USER_ID_UPDATE", v, 4)>>,
                  <<Broadcast(TRUE), Broadcast(FALSE)>>>>)

(* The phone of u goes away and comes back while the router has messages and   *)
(* a verdict for u; an inbox overflows, and v is not known yet.              *)
Returns ==
    Alone(<<>>, <<<<On("disconnect", h1), On("connect", h1),
                    Write(h1, "BLE_ANNOUNCE_KEY", u, 1)>>,
                  <<Park("BLE_UnicastUser", u, 2), Park("BLE_ENC_UnicastUser", u, 3),
                    Deliver("BLE_ACK_FAILURE", u)>>,
                  <<On("connect", h2), Park("BLE_USER_GATEWAY", v, 4),
                    Write(h2, "USER_ID_UPDATE", v, 1)>>>>)

(* The server has something for a user whose phone comes and goes. *)
Fetches ==
    Both(<<[to |-> u, seq |-> 1]>>,
         <<<<Ev("wifiUp")>>,
           <<On("disconnect", h1), On("connect", h1), Write(h1, "USER_ID_UPDATE", u, 1)>>>>)

Mixed == {Uplinks, Flickers, Bridges,
          Asks(<<"NODE_MSG_REQ_ACK", "ENC_USER_MSG", "LIST_NODES_REQ", "USER_MOVED">>,
               Deliver("BLE_ENC_UnicastUser", v)),
          Asks(<<"ENC_USER_MSG_REQ_ACK", "BLE_REQUEST_PUBKEY", "malformed", "LIST_USERS_REQ">>,
               Deliver("BLE_ACK", Nothing)),
          Asks(<<"USER_MSG_REQ_ACK", "BROADCAST", "BLE_ANNOUNCE_KEY">>,
               Deliver("BLE_UnicastUser", v)),
          Simulates, Joins, Returns, Fetches}

(* The Wi-Fi comes and goes before wifiEventTask runs. *)
Edges == {Alone(<<>>, <<<<Ev("wifiUp"), Ev("wifiDown")>>>>)}

=============================================================================
