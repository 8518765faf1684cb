-------------------------- MODULE BluetoothManager ---------------------------
(***************************************************************************)
(* BluetoothManager of one node: the phones connected to it, the queue of  *)
(* what they write and the BLE-RX worker that acts on it, the queue of     *)
(* what they are to be shown and the BLE-TX worker that notifies them.     *)
(* Both workers use one characteristic: its value is set first, and then   *)
(* sent.  Each call of UserSessionManager is taken as made at once, except *)
(* that addOrRefresh comes with the step that takes the packet (see        *)
(* UserSessions for the locking, and for sessions that run out).           *)
(***************************************************************************)
EXTENDS NetworkMessageHandler

CONSTANTS
    User,
    INVALID_HANDLE, \* 0xFFFF, the handle of a user without a phone
    ZeroHandle,     \* 0, the handle of what is for all; a phone may have it too
    BLE_LENGTH,     \* length of _bleRxQueue and of _bleTxQueue (20)
    INBOX_LENGTH    \* messages an inbox keeps (10)

ASSUME BleAssumption ==
    /\ IsFiniteSet(Handle)
    /\ INVALID_HANDLE \notin Handle \cup {ZeroHandle}
    /\ Nothing \notin User
    /\ BLE_LENGTH \in Nat \ {0}
    /\ INBOX_LENGTH \in Nat \ {0}

(* What a phone writes.  The message types that are for the mesh, with the     *)
(* kind and the flags they get there.  Malformed is what is dropped unread:  *)
(* a packet that is too short, a key that is not of 32 bytes, a request for  *)
(* a key that names no sender.                                               *)
MeshTypes == {"NODE_MSG", "NODE_MSG_REQ_ACK", "BROADCAST", "USER_MSG", "USER_MSG_REQ_ACK",
              "USER_MSG_GATEWAY", "ENC_USER_MSG", "ENC_USER_MSG_REQ_ACK",
              "BLE_REQUEST_PUBKEY", "USER_MOVED"}

BLEMessageType == MeshTypes \cup {"USER_ID_UPDATE", "BLE_ANNOUNCE_KEY", "LIST_NODES_REQ",
                                  "LIST_USERS_REQ", "REQUEST_NODE_ID", "malformed"}

BleIn == [connHandle : Handle, type : BLEMessageType, sender : User, seq : Nat]

(* What phones are shown: text has what tells two notifications of one type   *)
(* apart, the seq of an echo, or 1 for a gateway online and 0 for offline.   *)
BleType == {"BLE_Node", "BLE_Broadcast", "BLE_UnicastUser", "BLE_ENC_UnicastUser",
            "BLE_USER_GATEWAY", "BLE_GATEWAY", "BLE_NODE_ID", "BLE_PUBKEY_RESP", "BLE_ACK",
            "BLE_ACK_FAILURE", "BLE_List_Nodes", "BLE_List_Users", "NODE_ID_REPLY"}

BleOut ==
    [type : BleType, connHandle : Handle \cup {ZeroHandle, INVALID_HANDLE}, text : Nat]

(* What the router and the inboxes give the phones: a message or a verdict for *)
(* a user, a verdict for nobody in particular, or something for all.         *)
Verdict == {"BLE_ACK", "BLE_ACK_FAILURE"}

UserMessage == {"BLE_UnicastUser", "BLE_ENC_UnicastUser", "BLE_USER_GATEWAY"}

Outgoing ==
    [type : UserMessage \cup Verdict \cup {"BLE_Node", "BLE_Broadcast", "BLE_PUBKEY_RESP"},
     to : User \cup {Nothing}, text : Nat]

OfflineMsg == {o \in Outgoing : o.type \in UserMessage /\ o.to \in User}

VARIABLES
    connectedDevices, \* _connectedDevices
    handleOf,         \* the session manager's users, with their handle
    inbox,            \* by user, the messages parked
    bleRxQueue,       \* _bleRxQueue
    rxWork,           \* what the BLE-RX worker still has to do for a packet
    pubKeys,          \* the users whose keys it has given to the router
    bleTxQueue,       \* _bleTxQueue
    txPkt,            \* the notification the BLE-TX worker is sending, or Nothing
    value,            \* the value of the RX characteristic
    gatewayOnline,    \* _gatewayOnline
    telling,          \* by task, what is left of its call of setGatewayState
    phone,            \* by handle, what the phone was last told of the gateways
    notified          \* history: <<handle, notification>>

sessionVars == <<connectedDevices, handleOf, inbox>>
rxVars == <<bleRxQueue, rxWork, pubKeys>>
txVars == <<bleTxQueue, txPkt, value>>
tellVars == <<gatewayOnline, telling>>
phoneVars == <<phone, notified>>
bleVars == <<sessionVars, rxVars, txVars, tellVars, phoneVars>>

Teller == {"wifi", "router"}

(* What the BLE-RX worker does one after the other, once it has looked at a   *)
(* packet.                                                                   *)
Work ==
    [do : {"mesh"}, msg : OutgoingMessage]
      \cup [do : {"out", "set", "notify"}, out : BleOut]
      \cup [do : {"status"}, connHandle : Handle]
      \cup [do : {"pop"}, user : User]
      \cup [do : {"deliver"}, o : OfflineMsg]

BleTypeOK ==
    /\ connectedDevices \subseteq Handle
    /\ DOMAIN handleOf \subseteq User
    /\ \A u \in DOMAIN handleOf : handleOf[u] \in Handle \cup {INVALID_HANDLE}
    /\ inbox \in [User -> Seq(OfflineMsg)]
    /\ \A u \in User : Len(inbox[u]) <= INBOX_LENGTH
    /\ bleRxQueue \in Seq(BleIn)
    /\ Len(bleRxQueue) <= BLE_LENGTH
    /\ rxWork \in Seq(Work)
    /\ pubKeys \subseteq User
    /\ bleTxQueue \in Seq(BleOut)
    /\ Len(bleTxQueue) <= BLE_LENGTH
    /\ txPkt \in BleOut \cup {Nothing}
    /\ value \in BleOut \cup {Nothing}
    /\ gatewayOnline \in BOOLEAN
    /\ telling \in [Teller -> Seq(BleOut)]
    /\ phone \in [Handle -> BOOLEAN]
    /\ notified \subseteq Handle \X BleOut

(* The phones of a workload have announced themselves. *)
BleInit(sessions) ==
    /\ connectedDevices = {sessions[u] : u \in DOMAIN sessions}
    /\ handleOf = sessions
    /\ inbox = [u \in User |-> <<>>]
    /\ bleRxQueue = <<>>
    /\ rxWork = <<>>
    /\ pubKeys = {}
    /\ bleTxQueue = <<>>
    /\ txPkt = Nothing
    /\ value = Nothing
    /\ gatewayOnline = FALSE
    /\ telling = [t \in Teller |-> <<>>]
    /\ phone = [h \in Handle |-> FALSE]
    /\ notified = {}

-----------------------------------------------------------------------------
(* The NimBLE host task. *)

onConnect(h) ==
    /\ h \notin connectedDevices
    /\ connectedDevices' = connectedDevices \cup {h}
    /\ phone' = [phone EXCEPT ![h] = FALSE]
    /\ UNCHANGED <<handleOf, inbox, rxVars, txVars, tellVars, notified>>

UsersOn(h) == {u \in DOMAIN handleOf : handleOf[u] = h}

(* handleBleDisconnect takes the handle from one user, should several have it. *)
onDisconnect(h) ==
    /\ h \in connectedDevices
    /\ connectedDevices' = connectedDevices \ {h}
    /\ \/ /\ \E u \in UsersOn(h) : handleOf' = [handleOf EXCEPT ![u] = INVALID_HANDLE]
       \/ UsersOn(h) = {} /\ UNCHANGED handleOf
    /\ UNCHANGED <<inbox, rxVars, txVars, tellVars, phoneVars>>

(* Mutant: the queue is a stack. *)
Stacked(queue, in) == <<in>> \o queue

Queued(queue, in) == Append(queue, in)

(* A packet that finds the queue full is dropped after 10 ms. *)
onWrite(in) ==
    /\ in.connHandle \in connectedDevices
    /\ bleRxQueue' = IF Len(bleRxQueue) < BLE_LENGTH THEN Queued(bleRxQueue, in) ELSE bleRxQueue
    /\ UNCHANGED <<sessionVars, rxWork, pubKeys, txVars, tellVars, phoneVars>>

-----------------------------------------------------------------------------
(* The session manager, for the router. *)

(* queueOffline: a user nobody knows is entered without a phone, and a full    *)
(* inbox loses its oldest message.  The router asked isOnline before; that   *)
(* may be out of date.                                                       *)
park(o) ==
    /\ inbox' = [inbox EXCEPT ![o.to] =
                    Append(IF Len(@) = INBOX_LENGTH THEN Tail(@) ELSE @, o)]
    /\ handleOf' = [u \in DOMAIN handleOf \cup {o.to} |->
                       IF u \in DOMAIN handleOf THEN handleOf[u] ELSE INVALID_HANDLE]
    /\ UNCHANGED <<connectedDevices, rxVars, txVars, tellVars, phoneVars>>

getBleHandle(u) == IF u \in DOMAIN handleOf THEN handleOf[u] ELSE INVALID_HANDLE

-----------------------------------------------------------------------------
(* The BLE-RX worker. *)

Out(type, h, text) == [type |-> type, connHandle |-> h, text |-> text]

enqueueBleOut(out) ==
    bleTxQueue' = IF Len(bleTxQueue) < BLE_LENGTH THEN Append(bleTxQueue, out) ELSE bleTxQueue

(* notify: a message for a user takes the handle the user has now, and so does *)
(* a verdict that names one; what is for no user is for all.                 *)
ForNobody(o) ==
    \/ o.type \notin UserMessage \cup Verdict
    \/ o.type \in Verdict /\ o.to = Nothing

Notification(o) ==
    Out(o.type, IF ForNobody(o) THEN ZeroHandle ELSE getBleHandle(o.to), o.text)

KindOf(type) ==
    CASE type \in {"NODE_MSG", "NODE_MSG_REQ_ACK", "BROADCAST"} -> "NODE"
      [] type \in {"USER_MSG", "USER_MSG_REQ_ACK"} -> "USER"
      [] type = "USER_MSG_GATEWAY" -> "TO_GATEWAY"
      [] type \in {"ENC_USER_MSG", "ENC_USER_MSG_REQ_ACK"} -> "ENC_USER"
      [] type = "BLE_REQUEST_PUBKEY" -> "REQ_PUB_KEY"
      [] type = "USER_MOVED" -> "MOVE_USER_REQ"

FlagsOf(type) ==
    CASE type \in {"NODE_MSG_REQ_ACK", "USER_MSG_REQ_ACK"} -> "REQ_ACK"
      [] type = "USER_MSG_GATEWAY" -> "TO_GATEWAY"
      [] type = "ENC_USER_MSG" -> "ENC_MSG"
      [] type = "ENC_USER_MSG_REQ_ACK" -> "ENC_ACK"
      [] OTHER -> "NONE"

(* Only these ask whether the node knows their sender. *)
NeedsKnownSender == {"USER_MSG", "USER_MSG_REQ_ACK", "USER_MSG_GATEWAY"}

(* The other phones of the node are shown these as well. *)
EchoOf(in) ==
    CASE in.type = "NODE_MSG" -> <<[do |-> "out", out |-> Out("BLE_Node", ZeroHandle, in.seq)]>>
      [] in.type = "BROADCAST" ->
             <<[do |-> "out", out |-> Out("BLE_Broadcast", ZeroHandle, in.seq)]>>
      [] OTHER -> <<>>

ForMesh(in) ==
    IF in.type \in NeedsKnownSender /\ in.sender \notin DOMAIN handleOf THEN <<>>
    ELSE <<[do |-> "mesh", msg |-> [kind |-> KindOf(in.type), flags |-> FlagsOf(in.type),
                                    source |-> in.connHandle, seq |-> in.seq]]>>

(* addOrRefresh *)
Announces(in) == in.type \in {"USER_ID_UPDATE", "BLE_ANNOUNCE_KEY"}

(* What a phone that announces its user gets: the state of the gateway in the  *)
(* old form of it only, then what was parked, then the node's identifier.    *)
Welcome(in) ==
    LET status == [do |-> "status", connHandle |-> in.connHandle]
    IN (IF in.type = "USER_ID_UPDATE" THEN <<status>> ELSE <<>>)
         \o <<[do |-> "pop", user |-> in.sender],
              [do |-> "out", out |-> Out("BLE_NODE_ID", in.connHandle, 0)]>>

(* The reply to REQUEST_NODE_ID is sent by this worker itself. *)
Reply(in) ==
    LET reply == Out("NODE_ID_REPLY", in.connHandle, in.seq)
    IN <<[do |-> "set", out |-> reply], [do |-> "notify", out |-> reply],
         [do |-> "status", connHandle |-> in.connHandle]>>

WorkFor(in) ==
    LET list(type) == <<[do |-> "out", out |-> Out(type, in.connHandle, 0)]>>
    IN CASE in.type \in MeshTypes -> ForMesh(in) \o EchoOf(in)
         [] Announces(in) -> Welcome(in)
         [] in.type = "LIST_NODES_REQ" -> list("BLE_List_Nodes")
         [] in.type = "LIST_USERS_REQ" -> list("BLE_List_Users")
         [] in.type = "REQUEST_NODE_ID" -> Reply(in)
         [] in.type = "malformed" -> <<>>

(* announcePubKey goes to the router at once, past _sendQueue. *)
bleRxWorker ==
    LET in == Head(bleRxQueue)
    IN /\ rxWork = <<>>
       /\ bleRxQueue # <<>>
       /\ bleRxQueue' = Tail(bleRxQueue)
       /\ rxWork' = WorkFor(in)
       /\ handleOf' = IF Announces(in)
                      THEN [u \in DOMAIN handleOf \cup {in.sender} |->
                               IF u = in.sender THEN in.connHandle ELSE handleOf[u]]
                      ELSE handleOf
       /\ pubKeys' = IF in.type = "BLE_ANNOUNCE_KEY" THEN pubKeys \cup {in.sender} ELSE pubKeys
       /\ UNCHANGED <<connectedDevices, inbox, txVars, tellVars, phoneVars>>

RxDoes(what) == rxWork # <<>> /\ Head(rxWork).do = what

RxMesh ==
    /\ RxDoes("mesh")
    /\ enqueueMessage(Head(rxWork).msg)
    /\ rxWork' = Tail(rxWork)
    /\ UNCHANGED <<sessionVars, bleRxQueue, pubKeys, txVars, tellVars, phoneVars>>

RxOut ==
    /\ RxDoes("out")
    /\ enqueueBleOut(Head(rxWork).out)
    /\ rxWork' = Tail(rxWork)
    /\ UNCHANGED <<sessionVars, bleRxQueue, pubKeys, txPkt, value, tellVars, phoneVars>>

(* The flag is read here, and the notification queued in the next step. *)
RxStatus ==
    LET told == Out("BLE_GATEWAY", Head(rxWork).connHandle, 1)
    IN /\ RxDoes("status")
       /\ rxWork' = (IF gatewayOnline THEN <<[do |-> "out", out |-> told]>> ELSE <<>>)
                      \o Tail(rxWork)
       /\ UNCHANGED <<sessionVars, bleRxQueue, pubKeys, txVars, tellVars, phoneVars>>

(* popInbox takes all that is parked; each message is then queued with the     *)
(* handle that its user has by then.                                         *)
RxPop ==
    LET owner == Head(rxWork).user
    IN /\ RxDoes("pop")
       /\ rxWork' = [i \in DOMAIN inbox[owner] |-> [do |-> "deliver", o |-> inbox[owner][i]]]
                      \o Tail(rxWork)
       /\ inbox' = [inbox EXCEPT ![owner] = <<>>]
       /\ UNCHANGED <<connectedDevices, handleOf, bleRxQueue, pubKeys, txVars, tellVars,
                      phoneVars>>

RxDeliver ==
    /\ RxDoes("deliver")
    /\ enqueueBleOut(Notification(Head(rxWork).o))
    /\ rxWork' = Tail(rxWork)
    /\ UNCHANGED <<sessionVars, bleRxQueue, pubKeys, txPkt, value, tellVars, phoneVars>>

(* sendToClient: setValue, then notify with a text of its own. *)
RxSetValue ==
    /\ RxDoes("set")
    /\ value' = Head(rxWork).out
    /\ rxWork' = Tail(rxWork)
    /\ UNCHANGED <<sessionVars, bleRxQueue, pubKeys, bleTxQueue, txPkt, tellVars, phoneVars>>

Reached(hs, out) == notified' = notified \cup ((hs \cap connectedDevices) \X {out})

RxNotify ==
    LET out == Head(rxWork).out
    IN /\ RxDoes("notify")
       /\ Reached({out.connHandle}, out)
       /\ rxWork' = Tail(rxWork)
       /\ UNCHANGED <<sessionVars, bleRxQueue, pubKeys, txVars, tellVars, phone>>

-----------------------------------------------------------------------------
(* The BLE-TX worker. *)

(* Mutant: a user's message is sent as it is to all. *)
SentToAllUser(out) == out.type \in {"BLE_Node", "BLE_Broadcast", "BLE_UnicastUser"}

SentToAll(out) ==
    \/ out.type \in {"BLE_Node", "BLE_Broadcast", "BLE_NODE_ID", "BLE_PUBKEY_RESP"}
    \/ out.type \in Verdict /\ out.connHandle = ZeroHandle

bleTxWorker ==
    /\ txPkt = Nothing
    /\ bleTxQueue # <<>>
    /\ txPkt' = Head(bleTxQueue)
    /\ value' = Head(bleTxQueue)
    /\ bleTxQueue' = Tail(bleTxQueue)
    /\ UNCHANGED <<sessionVars, rxVars, tellVars, phoneVars>>

(* sendBroadcast notifies every phone of what the value is now. *)
sendBroadcast ==
    /\ txPkt # Nothing
    /\ SentToAll(txPkt)
    /\ Reached(Handle, value)
    /\ txPkt' = Nothing
    /\ UNCHANGED <<sessionVars, rxVars, bleTxQueue, value, tellVars, phone>>

(* NimBLE takes INVALID_HANDLE as every phone. *)
sendToClient ==
    LET h == txPkt.connHandle
    IN /\ txPkt # Nothing
       /\ ~SentToAll(txPkt)
       /\ Reached(IF h = INVALID_HANDLE THEN Handle ELSE {h}, txPkt)
       /\ phone' = IF txPkt.type = "BLE_GATEWAY" /\ h \in connectedDevices
                   THEN [phone EXCEPT ![h] = txPkt.text = 1] ELSE phone
       /\ txPkt' = Nothing
       /\ UNCHANGED <<sessionVars, rxVars, bleTxQueue, value, tellVars>>

-----------------------------------------------------------------------------
(* setGatewayState, called by the Wi-Fi task and by the router task: the flag,  *)
(* a snapshot of the connections, and a notification queued for each.        *)
setGatewayState(t, online) ==
    /\ telling[t] = <<>>
    /\ gatewayOnline' = online
    /\ LET handles == SetToSeq(connectedDevices)
       IN telling' = [telling EXCEPT ![t] =
                         [i \in DOMAIN handles |-> Out("BLE_GATEWAY", handles[i],
                                                   IF online THEN 1 ELSE 0)]]
    /\ UNCHANGED <<sessionVars, rxVars, txVars, phoneVars>>

TellPhone(t) ==
    /\ telling[t] # <<>>
    /\ enqueueBleOut(Head(telling[t]))
    /\ telling' = [telling EXCEPT ![t] = Tail(@)]
    /\ UNCHANGED <<sessionVars, rxVars, txPkt, value, gatewayOnline, phoneVars>>

(* What the router notifies the phones of. *)
notify(o) ==
    /\ enqueueBleOut(Notification(o))
    /\ UNCHANGED <<sessionVars, rxVars, txPkt, value, tellVars, phoneVars>>

BluetoothTasks ==
    \/ (bleRxWorker \/ RxOut \/ RxStatus \/ RxPop \/ RxDeliver \/ RxSetValue \/ RxNotify)
          /\ UNCHANGED nmhVars
    \/ RxMesh /\ UNCHANGED <<sending, routerCalls>>
    \/ (bleTxWorker \/ sendBroadcast \/ sendToClient) /\ UNCHANGED nmhVars
    \/ (\E t \in Teller : TellPhone(t)) /\ UNCHANGED nmhVars

=============================================================================
