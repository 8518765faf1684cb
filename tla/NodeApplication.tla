--------------------------- MODULE NodeApplication ---------------------------
(***************************************************************************)
(* The tasks of one node between its phones, the server and the simulator  *)
(* on one side and the router on the other, as setup() of main.cpp wires   *)
(* them.  What the phones, the server, the broker, the Wi-Fi and the       *)
(* router do is a script.                                                  *)
(***************************************************************************)
EXTENDS GatewayManager, MQTTManager

CONSTANT Workloads \* what may happen to the node: records of the set Workload

Event ==
    [what : {"connect", "disconnect"}, handle : Handle]
      \cup [what : {"write"}, in : BleIn]
      \cup [what : {"wifiUp", "wifiDown", "mqttUp", "mqttDown"}]
      \cup [what : {"mqttData"}, msg : MqttMessage]
      \cup [what : {"publish"}, action : Action]
      \cup [what : {"broadcast"}, gateway : BOOLEAN]
      \cup [what : {"notify"}, o : Outgoing]
      \cup [what : {"park"}, o : OfflineMsg]
      \cup [what : {"uplink"}, msg : {msg \in OutgoingMessage : msg.source = "mesh"}]

(* sessions are the users that have announced themselves, with their handles; *)
(* scripts run side by side.                                                 *)
Workload == [sessions : UNION {[us -> Handle] : us \in SUBSET User},
             down : Seq(Downlink), scripts : Seq(Seq(Event))]

ASSUME WorkloadAssumption == Workloads \subseteq Workload

(* Whose request an event is, and which of that source's. *)
Asking == {"write", "mqttData", "uplink"}

AskedBy(e) ==
    CASE e.what = "write" -> [source |-> e.in.connHandle, seq |-> e.in.seq]
      [] e.what = "mqttData" -> [source |-> "broker", seq |-> e.msg.seq]
      [] e.what = "uplink" -> [source |-> e.msg.source, seq |-> e.msg.seq]

(* A source makes its requests one after the other, in the order of their     *)
(* numbers: they are in one script.                                          *)
Numbered(scripts) ==
    \A s, t \in DOMAIN scripts : \A i \in DOMAIN scripts[s] : \A j \in DOMAIN scripts[t] :
        LET e == scripts[s][i]
            f == scripts[t][j]
        IN /\ <<s, i>> # <<t, j>>
           /\ e.what \in Asking
           /\ f.what \in Asking
           /\ AskedBy(e).source = AskedBy(f).source
           => s = t /\ (i < j => AskedBy(e).seq < AskedBy(f).seq)

ASSUME NumberingAssumption ==
    \A w \in Workloads :
        /\ Numbered(w.scripts)
        /\ \A i, j \in DOMAIN w.down : i < j => w.down[i].seq < w.down[j].seq

VARIABLE todo \* what is left of the scripts

vars == <<nmhVars, bleVars, gwVars, mqttVars, todo>>

NodeTypeOK ==
    /\ HandlerTypeOK
    /\ BleTypeOK
    /\ GatewayTypeOK
    /\ MqttTypeOK
    /\ todo \in Seq(Seq(Event))

Init ==
    /\ HandlerInit
    /\ MqttInit
    /\ \E w \in Workloads : BleInit(w.sessions) /\ GatewayInit(w.down) /\ todo = w.scripts

-----------------------------------------------------------------------------
(* What the phones do. *)
AtPhone(e) ==
    /\ \/ e.what = "connect" /\ onConnect(e.handle)
       \/ e.what = "disconnect" /\ onDisconnect(e.handle)
       \/ e.what = "write" /\ onWrite(e.in)
    /\ UNCHANGED <<nmhVars, gwVars, mqttVars>>

AtWifi(e) ==
    /\ \/ e.what = "wifiUp" /\ onWifiUp
       \/ e.what = "wifiDown" /\ onWifiDown
    /\ UNCHANGED <<nmhVars, bleVars, mqttVars>>

AtBroker(e) ==
    /\ \/ e.what = "mqttUp" /\ MqttConnected
       \/ e.what = "mqttDown" /\ MqttDisconnected
       \/ e.what = "mqttData" /\ MqttData(e.msg)
       \/ e.what = "publish" /\ publish(e.action)
    /\ UNCHANGED <<nmhVars, bleVars, gwVars>>

(* What the router calls: setGatewayState in handleBroadcastInfo, and notify,  *)
(* queueOffline and uplink in handleUserMessage.                             *)
AtRouter(e) ==
    /\ \/ /\ e.what = "broadcast"
          /\ gatewayInMesh' = e.gateway
          /\ setGatewayState("router", e.gateway)
          /\ UNCHANGED <<linkVars, regVars, upVars, syncVars>>
       \/ e.what = "notify" /\ notify(e.o) /\ UNCHANGED gwVars
       \/ e.what = "park" /\ park(e.o) /\ UNCHANGED gwVars
       \/ e.what = "uplink" /\ UplinkFromMesh(e.msg) /\ UNCHANGED bleVars
    /\ UNCHANGED <<nmhVars, mqttVars>>

Happens ==
    \E i \in DOMAIN todo :
        /\ todo[i] # <<>>
        /\ LET e == Head(todo[i])
           IN AtPhone(e) \/ AtWifi(e) \/ AtBroker(e) \/ AtRouter(e)
        /\ todo' = [todo EXCEPT ![i] = Tail(@)]

(* One step of a task of the node. *)
Tasks ==
    /\ \/ BluetoothTasks /\ UNCHANGED <<gwVars, mqttVars>>
       \/ GatewayTasks /\ UNCHANGED mqttVars
       \/ MqttTasks /\ UNCHANGED <<bleVars, gwVars>>
       \/ (SenderTask \/ processQueue) /\ UNCHANGED <<bleVars, gwVars, mqttVars>>
    /\ UNCHANGED todo

Next == Happens \/ Tasks

Spec == Init /\ [][Next]_vars

(* Weak fairness of every task.  The server is one that accepts a registration *)
(* and gets a POST again and again, when the Wi-Fi lets it.                   *)
GatewayAlone(A) == A /\ UNCHANGED <<nmhVars, bleVars, mqttVars, todo>>

HandOn ==
    \E d \in ToSet(answer) :
        \/ ShowDown(d) /\ UNCHANGED nmhVars
        \/ DownToMesh(d) /\ UNCHANGED <<sending, routerCalls, bleVars>>

Fairness ==
    /\ WF_vars(Happens)
    /\ WF_vars(BluetoothTasks /\ UNCHANGED <<gwVars, mqttVars, todo>>)
    /\ WF_vars((SenderTask \/ processQueue) /\ UNCHANGED <<bleVars, gwVars, mqttVars, todo>>)
    /\ WF_vars(SendToGateway /\ UNCHANGED <<bleVars, mqttVars, todo>>)
    /\ WF_vars(GatewayAlone(Register))
    /\ SF_vars(GatewayAlone(registerNode /\ registered'))
    /\ WF_vars(GatewayAlone(Synchronise))
    /\ SF_vars(GatewayAlone(PostArrives))
    /\ SF_vars(GatewayAlone(AnswerArrives))
    /\ WF_vars(HandOn /\ UNCHANGED <<mqttVars, todo>>)

FairSpec == Spec /\ Fairness

-----------------------------------------------------------------------------
(* Properties. *)

(* What a source asks for reaches the router in the order it was asked for, and *)
(* once at most, through two queues, two workers and another source's        *)
(* requests in between; a full queue may swallow it.                         *)
RequestsKeepOrder ==
    \A i, j \in DOMAIN routerCalls :
        i < j /\ routerCalls[i].msg.source = routerCalls[j].msg.source
            => routerCalls[i].msg.seq < routerCalls[j].msg.seq

(* Nothing that is queued for one phone is shown on another, though two workers *)
(* share one characteristic and phones come and go.  Three things are:       *)
(*   - a message or a verdict for a user who had no phone when it was queued *)
(*     carries INVALID_HANDLE, and NimBLE shows it on every phone (getBleHandle *)
(*     in notify, then sendToClient);                                        *)
(*   - the reply to REQUEST_NODE_ID, which "only that phone sees", is in the *)
(*     characteristic when the other worker sends that to all;                *)
(*   - BLE_NODE_ID, queued with a handle, is sent to all in any case.        *)
(* A verdict with handle 0 is for all, also if it was meant for the phone    *)
(* with that handle; phones are told apart by their handles.                 *)
IsForAll(out) ==
    \/ out.type \in {"BLE_Node", "BLE_Broadcast", "BLE_PUBKEY_RESP", "BLE_NODE_ID"}
    \/ out.type \in Verdict /\ out.connHandle = ZeroHandle

PrivateStaysPrivate ==
    \A entry \in notified :
        LET out == entry[2]
        IN \/ entry[1] = out.connHandle
           \/ IsForAll(out)
           \/ out.connHandle = INVALID_HANDLE /\ out.type \in UserMessage \cup Verdict
           \/ out.type = "NODE_ID_REPLY"

(* The server gets no message twice: one that is still in the queue or in a   *)
(* batch, or that went into the mesh instead, has not been posted.           *)
UplinkedOnce ==
    /\ IsInjective(server \o batch \o txQ)
    /\ \A i \in DOMAIN routerCalls : routerCalls[i].msg \notin ToSet(server \o batch \o txQ)

(* A node that has had Wi-Fi is registered or is trying to be: however often  *)
(* attempts fail and whichever of several tasks succeeds.                    *)
RegistrationIsUnderWay ==
    wifiReady /\ ~registered => checking + registering > 0

(* While the Wi-Fi lasts, every message that the queue has taken is on the      *)
(* server in the end or was in a POST that failed (oneSync does not put that *)
(* back: its "retry" is of the request, and not of the batch), and every     *)
(* message that the server had has had its turn in the loop over the         *)
(* messages down, or was in an answer that could not be read.  Nothing stays *)
(* behind, and between its two ends nothing is lost in any other way; before *)
(* and after, full queues drop, and so does the loop what is for a user      *)
(* whose phone is away.  When no POST fails, all that was accepted goes up.  *)
GatewayDrains ==
    <>[]wifiReady =>
        []<>(/\ accepted \subseteq ToSet(server) \cup failed
             /\ offered \subseteq handed \cup unread)

-----------------------------------------------------------------------------
(* What a comment of the repository says, and the code does not do. *)

(* "edge - tell BLE gateway went offline": when all is done and there is no    *)
(* gateway, no phone believes there is one.                                  *)
Quiet ==
    /\ edges = {}
    /\ rxWork = <<>>
    /\ bleTxQueue = <<>>
    /\ txPkt = Nothing
    /\ \A t \in Teller : telling[t] = <<>>

PhonesHearOfLoss ==
    Quiet /\ ~wifiReady /\ ~gatewayInMesh => \A h \in connectedDevices : ~phone[h]

=============================================================================
