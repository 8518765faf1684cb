----------------------------- MODULE NodeProofs -----------------------------
(***************************************************************************)
(* NodeApplication for any users, phones, queues and workloads: the queues *)
(* are well typed and bounded, what is queued for one phone reaches no     *)
(* other but in two known cases, a node that has had Wi-Fi goes on trying  *)
(* to register, and the requests of one source keep their order on the way *)
(* to the router and to the server.                                        *)
(***************************************************************************)
EXTENDS NodeApplication, FiniteSetTheorems, TLAPS

(* Only what is for a user may carry the handle of a phone that is away.      *)
OnlyUsersLackPhones(out) ==
    out.connHandle = INVALID_HANDLE => out.type \in UserMessage \cup Verdict

SafeOut == {out \in BleOut : OnlyUsersLackPhones(out)}

(* The BLE-RX worker sends nothing itself but the reply to REQUEST_NODE_ID. *)
SafeWork == {w \in Work : /\ w.do = "out" => OnlyUsersLackPhones(w.out)
                          /\ w.do \in {"set", "notify"} => w.out.type = "NODE_ID_REPLY"}

(* The value of the characteristic is what the BLE-TX worker is sending, unless *)
(* the BLE-RX worker has written over it.                                    *)
ValueKnown ==
    txPkt # Nothing => value = txPkt \/ (value \in BleOut /\ value.type = "NODE_ID_REPLY")

PhonesInv ==
    /\ BleTypeOK
    /\ rxWork \in Seq(SafeWork)
    /\ bleTxQueue \in Seq(SafeOut)
    /\ txPkt \in SafeOut \cup {Nothing}
    /\ telling \in [Teller -> Seq(SafeOut)]
    /\ ValueKnown
    /\ PrivateStaysPrivate

GatewayInv == GatewayTypeOK /\ RegistrationIsUnderWay

NodeInv ==
    /\ HandlerTypeOK
    /\ PhonesInv
    /\ GatewayInv
    /\ MqttTypeOK
    /\ todo \in Seq(Seq(Event))

-----------------------------------------------------------------------------
(* Sequences. *)

(* The empty sequence is one of anything.                                    *)
LEMMA EmptySeq == ASSUME NEW S PROVE <<>> \in Seq(S)
OBVIOUS

(* So are sequences of up to three elements.                                 *)
LEMMA ShortSeqs ==
    ASSUME NEW S, NEW x \in S, NEW y \in S, NEW z \in S
    PROVE  /\ <<x>> \in Seq(S)
           /\ <<x, y>> \in Seq(S)
           /\ <<x, y, z>> \in Seq(S)
OBVIOUS

(* What is appended has the type of the rest.                                *)
LEMMA AppendTyped ==
    ASSUME NEW S, NEW q \in Seq(S), NEW x \in S
    PROVE  Append(q, x) \in Seq(S) /\ Len(Append(q, x)) = Len(q) + 1
OBVIOUS

(* What every queue that drops does. *)
LEMMA BoundedAppend ==
    ASSUME NEW S, NEW q \in Seq(S), NEW x \in S, NEW n \in Nat, Len(q) <= n
    PROVE  /\ (IF Len(q) < n THEN Append(q, x) ELSE q) \in Seq(S)
           /\ Len(IF Len(q) < n THEN Append(q, x) ELSE q) <= n
OBVIOUS

(* Head and Tail of a sequence that has any.                                 *)
LEMMA TailTyped ==
    ASSUME NEW S, NEW q \in Seq(S), q # <<>>
    PROVE  Head(q) \in S /\ Tail(q) \in Seq(S) /\ Len(Tail(q)) = Len(q) - 1 /\ Len(q) > 0
OBVIOUS

(* A sequence of some is a sequence of more.                                 *)
LEMMA SeqMonotone ==
    ASSUME NEW S, NEW T, S \subseteq T, NEW q \in Seq(S)
    PROVE  q \in Seq(T)
OBVIOUS

(* Two sequences in a row are one.                                           *)
LEMMA ConcatTyped ==
    ASSUME NEW S, NEW p \in Seq(S), NEW q \in Seq(S)
    PROVE  p \o q \in Seq(S)
OBVIOUS

(* What is in two sequences in a row is in one of them.                      *)
LEMMA ConcatParts ==
    ASSUME NEW S, NEW T, NEW p \in Seq(S), NEW q \in Seq(T)
    PROVE  \A i \in DOMAIN (p \o q) : \/ i \in DOMAIN p /\ (p \o q)[i] = p[i]
                                    \/ \E j \in DOMAIN q : (p \o q)[i] = q[j]
<1> SUFFICES ASSUME NEW i \in DOMAIN (p \o q)
             PROVE  \/ i \in DOMAIN p /\ (p \o q)[i] = p[i]
                    \/ \E j \in DOMAIN q : (p \o q)[i] = q[j]
    OBVIOUS
<1>1. /\ Len(p) \in Nat /\ DOMAIN p = 1..Len(p)
      /\ Len(q) \in Nat /\ DOMAIN q = 1..Len(q)
      /\ i \in 1..(Len(p) + Len(q))
    OBVIOUS
<1>2. CASE i <= Len(p)
    BY <1>1, <1>2
<1>3. CASE i > Len(p)
    <2>1. (p \o q)[i] = q[i - Len(p)] /\ i - Len(p) \in DOMAIN q
        BY <1>1, <1>3
    <2> QED BY <2>1
<1> QED BY <1>1, <1>2, <1>3

(* A sequence with the indices of another, and elements of its own.          *)
LEMMA SameLength ==
    ASSUME NEW S, NEW T, NEW q \in Seq(S), NEW g \in [DOMAIN q -> T]
    PROVE  g \in Seq(T)
<1>1. Len(q) \in Nat /\ DOMAIN q = 1..Len(q)
    OBVIOUS
<1>2. g \in [1..Len(q) -> T]
    BY <1>1
<1> QED BY <1>1, <1>2

(* SetToSeq lists a finite set. *)
LEMMA SetToSeqTyped ==
    ASSUME NEW S, IsFiniteSet(S)
    PROVE  SetToSeq(S) \in Seq(S)
<1> DEFINE n == Cardinality(S)
<1>1. n \in Nat /\ ExistsBijection(1..n, S)
    BY FS_CardinalityType
<1>2. PICK f \in [1..n -> S] : IsInjective(f)
    BY <1>1 DEF ExistsBijection, Bijection, Injection
<1>3. SetToSeq(S) \in [1..n -> S]
    BY <1>2 DEF SetToSeq
<1> QED BY <1>1, <1>3

-----------------------------------------------------------------------------
(* The gateway manager. *)

USE DEF GatewayInv, GatewayTypeOK, RegistrationIsUnderWay, gwVars, linkVars, regVars, upVars,
        syncVars, serverVars

(* What GatewayManager does not see does not disturb it.                     *)
LEMMA GatewayKept ==
    ASSUME GatewayInv, UNCHANGED gwVars
    PROVE  GatewayInv'
OBVIOUS

(* uplink keeps the queue typed and bounded.                                 *)
LEMMA UplinkTyped ==
    ASSUME GatewayTypeOK, NEW msg \in OutgoingMessage, uplink(msg)
    PROVE  /\ txQ' \in Seq(OutgoingMessage) /\ Len(txQ') <= UPLINK_LENGTH
           /\ accepted' \subseteq OutgoingMessage
<1>1. Append(txQ, msg) \in Seq(OutgoingMessage) /\ Len(Append(txQ, msg)) = Len(txQ) + 1
    BY AppendTyped
<1>2. CASE Len(txQ) < UPLINK_LENGTH
    <2>1. txQ' = Append(txQ, msg) /\ accepted' = accepted \cup {msg}
        BY <1>2 DEF uplink
    <2>2. Len(txQ') <= UPLINK_LENGTH
        BY <1>1, <1>2, <2>1, GatewayAssumption
    <2> QED BY <1>1, <2>1, <2>2
<1>3. CASE ~(Len(txQ) < UPLINK_LENGTH)
    BY <1>3 DEF uplink
<1> QED BY <1>2, <1>3

(* A positive term makes a positive sum.                                     *)
LEMMA SumPositive ==
    ASSUME NEW a \in Nat, NEW b \in Nat, a > 0
    PROVE  a + b > 0
OBVIOUS

(* A Wi-Fi that comes up starts a task that registers.                       *)
LEMMA LinkSteps ==
    ASSUME GatewayInv, onWifiUp \/ onWifiDown
    PROVE  GatewayInv'
<1>1. CASE onWifiUp
    <2>1. wifiReady' = TRUE /\ registered' = registered /\ registering' = registering
        BY <1>1 DEF onWifiUp
    <2>2. checking' \in Nat /\ (~registered => checking' > 0)
        <3>1. CASE registered
            BY <1>1, <3>1 DEF onWifiUp
        <3>2. CASE ~registered
            BY <1>1, <3>2 DEF onWifiUp
        <3> QED BY <3>1, <3>2
    <2>3. edges' \subseteq {"on", "off"}
        BY <1>1 DEF onWifiUp
    <2>4. UNCHANGED <<upVars, syncVars, gatewayInMesh>>
        BY <1>1 DEF onWifiUp
    <2>5. ~registered' => checking' + registering' > 0
        <3> SUFFICES ASSUME ~registered' PROVE checking' + registering' > 0
            OBVIOUS
        <3>1. ~registered /\ registering' \in Nat
            BY <2>1
        <3>2. checking' \in Nat /\ checking' > 0
            BY <2>2, <3>1, Zenon
        <3> QED BY <3>1, <3>2, SumPositive, Zenon
    <2>6. GatewayTypeOK'
        BY <2>1, <2>2, <2>3, <2>4
    <2> QED BY <2>5, <2>6, Zenon
<1>2. CASE onWifiDown
    <2>1. wifiReady' = FALSE /\ UNCHANGED <<regVars, upVars, syncVars, gatewayInMesh>>
        BY <1>2 DEF onWifiDown
    <2>2. edges' \subseteq {"on", "off"}
        BY <1>2 DEF onWifiDown
    <2> QED BY <2>1, <2>2
<1> QED BY <1>1, <1>2

(* A task that gives up testing posts, one that posts in vain tests again. *)
LEMMA RegistrationSteps ==
    ASSUME GatewayInv, TestRegistered \/ registerNode
    PROVE  GatewayInv'
<1>1. CASE TestRegistered
    <2>1. CASE registered
        BY <1>1, <2>1 DEF TestRegistered
    <2>2. CASE ~registered
        BY <1>1, <2>2 DEF TestRegistered
    <2> QED BY <2>1, <2>2
<1>2. CASE registerNode
    <2>1. CASE registered' = TRUE /\ UNCHANGED checking
        BY <1>2, <2>1 DEF registerNode
    <2>2. CASE UNCHANGED registered /\ checking' = RetryAfterFailure(checking)
        BY <1>2, <2>2 DEF registerNode, RetryAfterFailure
    <2> QED BY <1>2, <2>1, <2>2 DEF registerNode
<1> QED BY <1>1, <1>2

(* Only the edges are consumed.                                              *)
LEMMA WifiEventStep ==
    ASSUME GatewayInv, wifiEventTask
    PROVE  GatewayInv'
BY DEF wifiEventTask

(* processQueue may put what it has into the queue for the server.           *)
LEMMA SendToGatewayStep ==
    ASSUME GatewayInv, HandlerTypeOK, SendToGateway
    PROVE  GatewayInv'
<1>1. sending \in OutgoingMessage
    BY DEF SendToGateway, HandlerTypeOK
<1>2. /\ txQ' \in Seq(OutgoingMessage) /\ Len(txQ') <= UPLINK_LENGTH
      /\ accepted' \subseteq OutgoingMessage
    BY <1>1, UplinkTyped DEF SendToGateway
<1> QED BY <1>2 DEF SendToGateway

(* So may the router.                                                        *)
LEMMA UplinkFromMeshStep ==
    ASSUME GatewayInv, NEW msg \in OutgoingMessage, UplinkFromMesh(msg)
    PROVE  GatewayInv'
<1>1. /\ txQ' \in Seq(OutgoingMessage) /\ Len(txQ') <= UPLINK_LENGTH
      /\ accepted' \subseteq OutgoingMessage
    BY UplinkTyped DEF UplinkFromMesh
<1> QED BY <1>1 DEF UplinkFromMesh

(* What a sequence holds is of its type.                                     *)
LEMMA ToSetTyped ==
    ASSUME NEW S, NEW q \in Seq(S)
    PROVE  ToSet(q) \subseteq S
BY DEF ToSet

(* A message of the answer leaves it.                                        *)
LEMMA HandsOnStep ==
    ASSUME GatewayInv, NEW d, HandsOn(d), syncStep' \in {"down", "show"}
    PROVE  GatewayInv' /\ d \in Downlink
<1>1. Head(answer) \in Downlink /\ Tail(answer) \in Seq(Downlink)
    BY TailTyped DEF HandsOn
<1> QED BY <1>1 DEF HandsOn

(* The steps of oneSync.                                                     *)
LEMMA SynchroniseStep ==
    ASSUME GatewayInv, Synchronise
    PROVE  GatewayInv'
<1>1. CASE SyncWaits
    BY <1>1 DEF SyncWaits, Steps
<1>2. CASE SyncChecks
    BY <1>2 DEF SyncChecks, Steps
<1>3. CASE TakeForBatch
    <2>1. Head(txQ) \in OutgoingMessage /\ Tail(txQ) \in Seq(OutgoingMessage)
          /\ Len(Tail(txQ)) = Len(txQ) - 1
        BY <1>3, TailTyped DEF TakeForBatch
    <2>2. batch' \in Seq(OutgoingMessage) /\ Len(batch') = Len(batch) + 1
        BY <1>3, <2>1, AppendTyped DEF TakeForBatch
    <2> QED BY <1>3, <2>1, <2>2, GatewayAssumption DEF TakeForBatch, PopUplink
<1>4. CASE EndBatch
    BY <1>4 DEF EndBatch, Steps
<1>5. CASE PostIsLost
    <2>1. failed' \subseteq OutgoingMessage
        BY <1>5, ToSetTyped DEF PostIsLost
    <2> QED BY <1>5, <2>1, EmptySeq, GatewayAssumption DEF PostIsLost, Steps
<1>6. CASE PostArrives
    <2>1. server' \in Seq(OutgoingMessage)
        BY <1>6, ConcatTyped DEF PostArrives
    <2> QED BY <1>6, <2>1, EmptySeq, GatewayAssumption DEF PostArrives, Steps
<1>7. CASE AnswerIsLost
    <2>1. unread' \subseteq Downlink
        BY <1>7, ToSetTyped DEF AnswerIsLost
    <2> QED BY <1>7, <2>1, EmptySeq DEF AnswerIsLost, Steps
<1>8. CASE AnswerArrives
    BY <1>8 DEF AnswerArrives, Steps
<1>9. CASE DownDone
    BY <1>9 DEF DownDone, Steps
<1>10. CASE \E d \in ToSet(answer) : DownToAbsent(d)
    BY <1>10, HandsOnStep DEF DownToAbsent, Steps
<1>11. CASE DownToPhone
    BY <1>11 DEF DownToPhone, Steps
<1> QED BY <1>1, <1>2, <1>3, <1>4, <1>5, <1>6, <1>7, <1>8, <1>9, <1>10, <1>11 DEF Synchronise

HIDE DEF GatewayInv, GatewayTypeOK, RegistrationIsUnderWay

-----------------------------------------------------------------------------
(* The application task and the MQTT manager. *)

(* What NetworkMessageHandler does not see does not disturb it.              *)
LEMMA HandlerKept ==
    ASSUME HandlerTypeOK, UNCHANGED nmhVars
    PROVE  HandlerTypeOK'
BY DEF HandlerTypeOK, nmhVars

(* enqueueMessage keeps the queue typed and bounded.                         *)
LEMMA EnqueueStep ==
    ASSUME HandlerTypeOK, NEW msg \in OutgoingMessage, enqueueMessage(msg),
           UNCHANGED <<sending, routerCalls>>
    PROVE  HandlerTypeOK'
<1>1. sendQueue' = IF Len(sendQueue) < QUEUE_LENGTH THEN Append(sendQueue, msg)
                                                    ELSE sendQueue
    BY DEF enqueueMessage
<1>2. sendQueue' \in Seq(OutgoingMessage) /\ Len(sendQueue') <= QUEUE_LENGTH
    BY <1>1, BoundedAppend, QueueAssumption DEF HandlerTypeOK
<1> QED BY <1>2 DEF HandlerTypeOK

(* A call of the router is recorded.                                         *)
LEMMA CallTyped ==
    ASSUME HandlerTypeOK, NEW msg \in OutgoingMessage, CallRouter(msg)
    PROVE  routerCalls' \in Seq(RouterCall)
<1>1. [call |-> CallOf(msg), msg |-> msg] \in RouterCall
    BY DEF RouterCall, CallOf, OutgoingMessage
<1> QED BY <1>1, AppendTyped DEF HandlerTypeOK, CallRouter

(* SenderTask takes a message, processQueue passes it on.                    *)
LEMMA HandlerSteps ==
    ASSUME HandlerTypeOK, SenderTask \/ processQueue
    PROVE  HandlerTypeOK'
<1>1. CASE SenderTask
    <2>1. /\ Head(sendQueue) \in OutgoingMessage
          /\ Tail(sendQueue) \in Seq(OutgoingMessage)
          /\ Len(Tail(sendQueue)) <= QUEUE_LENGTH
        BY <1>1, TailTyped, QueueAssumption DEF SenderTask, HandlerTypeOK
    <2> QED BY <1>1, <2>1 DEF SenderTask, HandlerTypeOK
<1>2. CASE processQueue
    <2>1. routerCalls' \in Seq(RouterCall)
        BY <1>2, CallTyped DEF processQueue, HandlerTypeOK
    <2> QED BY <1>2, <2>1 DEF processQueue, HandlerTypeOK
<1> QED BY <1>1, <1>2

(* And so for a message that is to leave the mesh.                           *)
LEMMA SendToGatewayHandler ==
    ASSUME HandlerTypeOK, SendToGateway
    PROVE  HandlerTypeOK'
<1>1. sending \in OutgoingMessage
    BY DEF SendToGateway, HandlerTypeOK
<1>2. routerCalls' \in Seq(RouterCall)
    BY <1>1, CallTyped DEF SendToGateway, HandlerTypeOK
<1> QED BY <1>2 DEF SendToGateway, HandlerTypeOK

(* What MQTTManager does not see does not disturb it.                        *)
LEMMA MqttKept ==
    ASSUME MqttTypeOK, UNCHANGED mqttVars
    PROVE  MqttTypeOK'
BY DEF MqttTypeOK, mqttVars

(* What the broker does.                                                     *)
LEMMA BrokerSteps ==
    ASSUME MqttTypeOK, NEW e \in Event, AtBroker(e)
    PROVE  MqttTypeOK'
<1>1. CASE MqttConnected
    <2>1. published' \in Seq(Action \cup {"register"})
        BY <1>1, AppendTyped DEF MqttConnected, MqttTypeOK
    <2> QED BY <1>1, <2>1 DEF MqttConnected, MqttTypeOK
<1>2. CASE MqttDisconnected
    BY <1>2 DEF MqttDisconnected, MqttTypeOK
<1>3. CASE e.what = "mqttData" /\ MqttData(e.msg)
    <2>1. e.msg \in MqttMessage
        BY <1>3 DEF Event
    <2> QED BY <1>3, <2>1, AppendTyped, MqttAssumption DEF MqttData, MqttTypeOK
<1>4. CASE e.what = "publish" /\ publish(e.action)
    <2>1. e.action \in Action
        BY <1>4 DEF Event
    <2> QED BY <1>4, <2>1, AppendTyped, MqttAssumption DEF publish, MqttTypeOK
<1> QED BY <1>1, <1>2, <1>3, <1>4 DEF AtBroker

(* What the tasks of MQTTManager do.                                         *)
LEMMA MqttSteps ==
    ASSUME MqttTypeOK, MqttTasks
    PROVE  MqttTypeOK'
<1>1. CASE sendMQTTQueueTask
    <2>1. Head(sendMQTT) \in Action /\ Tail(sendMQTT) \in Seq(Action)
          /\ Len(Tail(sendMQTT)) <= MQTT_LENGTH
        BY <1>1, TailTyped, MqttAssumption DEF sendMQTTQueueTask, MqttTypeOK
    <2>2. published' \in Seq(Action \cup {"register"})
        BY <1>1, <2>1, AppendTyped DEF sendMQTTQueueTask, MqttTypeOK
    <2> QED BY <1>1, <2>1, <2>2 DEF sendMQTTQueueTask, MqttTypeOK
<1>2. CASE InjectPacket \/ InjectMessage \/ DropGarbled
    <2>1. receivedMQTT # <<>> /\ receivedMQTT' = Tail(receivedMQTT)
        BY <1>2 DEF InjectPacket, InjectMessage, DropGarbled
    <2>2. /\ Head(receivedMQTT) \in MqttMessage
          /\ receivedMQTT' \in Seq(MqttMessage) /\ Len(receivedMQTT') <= MQTT_LENGTH
        BY <2>1, TailTyped, MqttAssumption DEF MqttTypeOK
    <2>3. radioRx' \in Seq(Nat) /\ Len(radioRx') <= RX_LENGTH
        <3>1. Head(receivedMQTT).seq \in Nat
            BY <2>2 DEF MqttMessage
        <3>2. CASE InjectPacket
            <4>1. radioRx' = IF Len(radioRx) < RX_LENGTH
                             THEN Append(radioRx, Head(receivedMQTT).seq) ELSE radioRx
                BY <3>2 DEF InjectPacket
            <4> QED BY <4>1, <3>1, BoundedAppend, MqttAssumption DEF MqttTypeOK
        <3>3. CASE InjectMessage \/ DropGarbled
            BY <3>3 DEF InjectMessage, DropGarbled, MqttTypeOK
        <3> QED BY <1>2, <3>2, <3>3
    <2> QED BY <1>2, <2>2, <2>3 DEF InjectPacket, InjectMessage, DropGarbled, MqttTypeOK
<1> QED BY <1>1, <1>2 DEF MqttTasks

(* A message of the broker goes into the queue of the handler.               *)
LEMMA InjectMessageStep ==
    ASSUME HandlerTypeOK, MqttTypeOK, InjectMessage, UNCHANGED <<sending, routerCalls>>
    PROVE  HandlerTypeOK'
<1>1. Head(receivedMQTT) \in MqttMessage
    BY TailTyped DEF InjectMessage, MqttTypeOK
<1>2. [kind |-> "NODE", flags |-> "NONE", source |-> "broker",
       seq |-> Head(receivedMQTT).seq] \in OutgoingMessage
    BY <1>1 DEF MqttMessage, OutgoingMessage, MsgKind, Source
<1> QED BY <1>2, EnqueueStep DEF InjectMessage

-----------------------------------------------------------------------------
(* The phones. *)

(* What BluetoothManager does not see does not disturb it.                   *)
LEMMA PhonesKept ==
    ASSUME PhonesInv, UNCHANGED bleVars
    PROVE  PhonesInv'
BY DEF PhonesInv, BleTypeOK, ValueKnown, PrivateStaysPrivate, bleVars, sessionVars, rxVars,
       txVars, tellVars, phoneVars

(* What Out builds is a notification.                                        *)
LEMMA OutTyped ==
    ASSUME NEW type \in BleType, NEW h \in Handle \cup {ZeroHandle, INVALID_HANDLE},
           NEW text \in Nat
    PROVE  /\ Out(type, h, text) \in BleOut
           /\ Out(type, h, text).type = type
           /\ Out(type, h, text).connHandle = h
BY DEF Out, BleOut

(* What has a handle, or is for a user, is safe.                             *)
LEMMA OutSafe ==
    ASSUME NEW type \in BleType, NEW h \in Handle \cup {ZeroHandle, INVALID_HANDLE},
           NEW text \in Nat,
           h \in Handle \cup {ZeroHandle} \/ type \in UserMessage \cup Verdict
    PROVE  Out(type, h, text) \in SafeOut
<1> DEFINE out == Out(type, h, text)
<1>1. out \in BleOut /\ out.type = type /\ out.connHandle = h
    BY OutTyped
<1> HIDE DEF out
<1>2. OnlyUsersLackPhones(out)
    BY <1>1, BleAssumption DEF OnlyUsersLackPhones
<1> QED BY <1>1, <1>2 DEF SafeOut, out

(* What a packet for the mesh makes the worker do.                           *)
LEMMA MeshWorkSafe ==
    ASSUME NEW in \in BleIn, in.type \in MeshTypes
    PROVE  ForMesh(in) \in Seq(SafeWork)
<1> DEFINE msg == [kind |-> KindOf(in.type), flags |-> FlagsOf(in.type),
                   source |-> in.connHandle, seq |-> in.seq]
           w == [do |-> "mesh", msg |-> msg]
<1>1. KindOf(in.type) \in MsgKind
    BY DEF KindOf, MsgKind, MeshTypes
<1>2. FlagsOf(in.type) \in {"NONE", "REQ_ACK", "ENC_MSG", "ENC_ACK", "TO_GATEWAY"}
    BY DEF FlagsOf
<1>3. msg \in OutgoingMessage
    BY <1>1, <1>2 DEF OutgoingMessage, Source, BleIn
<1> HIDE DEF msg
<1>4. w \in SafeWork
    BY <1>3 DEF SafeWork, Work
<1>5. ForMesh(in) = <<>> \/ ForMesh(in) = <<w>>
    BY DEF ForMesh, msg
<1> HIDE DEF w
<1>6. <<>> \in Seq(SafeWork) /\ <<w>> \in Seq(SafeWork)
    BY <1>4, EmptySeq, ShortSeqs
<1> QED BY <1>5, <1>6, Zenon

(* Queueing a notification is work.                                          *)
LEMMA OutWorkSafe ==
    ASSUME NEW out \in SafeOut
    PROVE  [do |-> "out", out |-> out] \in SafeWork
BY DEF SafeWork, Work, SafeOut

(* An echo is for all.                                                       *)
LEMMA EchoSafe ==
    ASSUME NEW in \in BleIn
    PROVE  EchoOf(in) \in Seq(SafeWork)
<1>1. in.seq \in Nat
    BY DEF BleIn
<1>2. Out("BLE_Node", ZeroHandle, in.seq) \in SafeOut
    BY <1>1, OutSafe DEF BleType
<1>3. Out("BLE_Broadcast", ZeroHandle, in.seq) \in SafeOut
    BY <1>1, OutSafe DEF BleType
<1>4. [do |-> "out", out |-> Out("BLE_Node", ZeroHandle, in.seq)] \in SafeWork
    BY <1>2, OutWorkSafe
<1>5. [do |-> "out", out |-> Out("BLE_Broadcast", ZeroHandle, in.seq)] \in SafeWork
    BY <1>3, OutWorkSafe
<1> QED BY <1>4, <1>5 DEF EchoOf

(* The welcome of a user, and the reply to REQUEST_NODE_ID.                  *)
LEMMA WelcomeSafe ==
    ASSUME NEW in \in BleIn
    PROVE  Welcome(in) \in Seq(SafeWork) /\ Reply(in) \in Seq(SafeWork)
<1> DEFINE h == in.connHandle
           status == [do |-> "status", connHandle |-> h]
           pop == [do |-> "pop", user |-> in.sender]
           nodeID == [do |-> "out", out |-> Out("BLE_NODE_ID", h, 0)]
           reply == Out("NODE_ID_REPLY", h, in.seq)
           set == [do |-> "set", out |-> reply]
           send == [do |-> "notify", out |-> reply]
           first == IF in.type = "USER_ID_UPDATE" THEN <<status>> ELSE <<>>
<1>1. h \in Handle /\ in.seq \in Nat /\ in.sender \in User
    BY DEF BleIn
<1>2. status \in SafeWork /\ pop \in SafeWork
    BY <1>1 DEF SafeWork, Work
<1>3. nodeID \in SafeWork
    <2>1. Out("BLE_NODE_ID", h, 0) \in SafeOut
        BY <1>1, OutSafe DEF BleType
    <2> QED BY <2>1, OutWorkSafe
<1>4. set \in SafeWork /\ send \in SafeWork
    <2>1. reply \in BleOut /\ reply.type = "NODE_ID_REPLY"
        BY <1>1, OutTyped DEF BleType
    <2> HIDE DEF reply
    <2> QED BY <2>1 DEF SafeWork, Work
<1>5. Welcome(in) = first \o <<pop, nodeID>> /\ Reply(in) = <<set, send, status>>
    BY DEF Welcome, Reply
<1> HIDE DEF status, pop, nodeID, set, send
<1>6. /\ <<status>> \in Seq(SafeWork) /\ <<>> \in Seq(SafeWork)
      /\ <<pop, nodeID>> \in Seq(SafeWork)
      /\ <<set, send, status>> \in Seq(SafeWork)
    BY <1>2, <1>3, <1>4, EmptySeq, ShortSeqs
<1>7. first \in Seq(SafeWork)
    BY <1>6, Zenon
<1> HIDE DEF first
<1>8. first \o <<pop, nodeID>> \in Seq(SafeWork)
    BY <1>6, <1>7, ConcatTyped, Zenon
<1> QED BY <1>5, <1>6, <1>8

(* What a packet that is not for the mesh makes the worker do.               *)
LEMMA OtherWork ==
    ASSUME NEW in \in BleIn, in.type \notin MeshTypes
    PROVE  \/ Announces(in) /\ WorkFor(in) = Welcome(in)
           \/ WorkFor(in) = Reply(in)
           \/ \E type \in {"BLE_List_Nodes", "BLE_List_Users"} :
                  WorkFor(in) = <<[do |-> "out", out |-> Out(type, in.connHandle, 0)]>>
           \/ WorkFor(in) = <<>>
<1>1. in.type \in BLEMessageType
    BY DEF BleIn
<1> QED BY <1>1 DEF WorkFor, Announces, BLEMessageType, MeshTypes

(* Whatever the packet is, the work it makes is safe.                        *)
LEMMA WorkSafe ==
    ASSUME NEW in \in BleIn
    PROVE  WorkFor(in) \in Seq(SafeWork)
<1>1. CASE in.type \in MeshTypes
    <2>1. WorkFor(in) = ForMesh(in) \o EchoOf(in)
        BY <1>1 DEF WorkFor, Announces, MeshTypes, BLEMessageType
    <2>2. ForMesh(in) \in Seq(SafeWork)
        BY <1>1, MeshWorkSafe, Zenon
    <2>3. EchoOf(in) \in Seq(SafeWork)
        BY EchoSafe, Zenon
    <2>4. ForMesh(in) \o EchoOf(in) \in Seq(SafeWork)
        BY <2>2, <2>3, ConcatTyped, Zenon
    <2> QED BY <2>1, <2>4, Zenon
<1>2. CASE in.type \notin MeshTypes
    <2>1. ASSUME NEW type \in {"BLE_List_Nodes", "BLE_List_Users"}
          PROVE  <<[do |-> "out", out |-> Out(type, in.connHandle, 0)]>> \in Seq(SafeWork)
        <3> DEFINE w == [do |-> "out", out |-> Out(type, in.connHandle, 0)]
        <3>1. in.connHandle \in Handle
            BY DEF BleIn
        <3>2. Out(type, in.connHandle, 0) \in SafeOut
            BY <3>1, OutSafe DEF BleType
        <3>3. w \in SafeWork
            BY <3>2, OutWorkSafe
        <3> HIDE DEF w
        <3>4. <<w>> \in Seq(SafeWork)
            BY <3>3, ShortSeqs
        <3> QED BY <3>4 DEF w
    <2> QED BY <1>2, <2>1, OtherWork, WelcomeSafe, EmptySeq, Zenon
<1> QED BY <1>1, <1>2

USE DEF PhonesInv, BleTypeOK, ValueKnown, bleVars, sessionVars, rxVars, txVars, tellVars,
        phoneVars

(* What is sent reaches no phone but the one it is for, or is one of what may. *)
MayReachOthers(out) ==
    \/ IsForAll(out)
    \/ out.connHandle = INVALID_HANDLE /\ out.type \in UserMessage \cup Verdict
    \/ out.type = "NODE_ID_REPLY"

LEMMA ReachedSafe ==
    ASSUME PhonesInv, NEW out \in BleOut, NEW hs \in SUBSET Handle, Reached(hs, out),
           MayReachOthers(out) \/ hs \subseteq {out.connHandle}
    PROVE  notified' \subseteq Handle \X BleOut /\ PrivateStaysPrivate'
<1>1. notified' = notified \cup ((hs \cap connectedDevices) \X {out})
    BY DEF Reached
<1>2. notified' \subseteq Handle \X BleOut
    BY <1>1
<1>3. ASSUME NEW entry \in notified'
      PROVE  entry[1] = entry[2].connHandle \/ MayReachOthers(entry[2])
    <2>1. CASE entry \in notified
        BY <2>1 DEF PrivateStaysPrivate, MayReachOthers
    <2>2. CASE entry \in (hs \cap connectedDevices) \X {out}
        <3>1. entry[1] \in hs /\ entry[2] = out
            BY <2>2
        <3> QED BY <3>1
    <2> QED BY <1>1, <2>1, <2>2
<1> QED BY <1>2, <1>3 DEF PrivateStaysPrivate, MayReachOthers

(* A step that notifies nobody. *)
LEMMA NobodyNotified ==
    ASSUME PrivateStaysPrivate, UNCHANGED notified
    PROVE  PrivateStaysPrivate'
BY DEF PrivateStaysPrivate

(* enqueueBleOut keeps the queue typed, bounded and safe.                    *)
LEMMA OutQueued ==
    ASSUME PhonesInv, NEW out \in SafeOut, enqueueBleOut(out)
    PROVE  /\ bleTxQueue' \in Seq(SafeOut)
           /\ bleTxQueue' \in Seq(BleOut)
           /\ Len(bleTxQueue') <= BLE_LENGTH
<1>1. bleTxQueue' = IF Len(bleTxQueue) < BLE_LENGTH THEN Append(bleTxQueue, out)
                                                    ELSE bleTxQueue
    BY DEF enqueueBleOut
<1>2. bleTxQueue' \in Seq(SafeOut) /\ Len(bleTxQueue') <= BLE_LENGTH
    BY <1>1, BoundedAppend, BleAssumption
<1>3. bleTxQueue' \in Seq(BleOut)
    BY <1>2, SeqMonotone DEF SafeOut
<1> QED BY <1>2, <1>3

(* Safe work is work.                                                        *)
LEMMA WorkTyped ==
    ASSUME NEW w \in Seq(SafeWork)
    PROVE  w \in Seq(Work)
BY SeqMonotone DEF SafeWork

(* What the NimBLE host task does.                                           *)
LEMMA HostSteps ==
    ASSUME PhonesInv,
           \/ \E h \in Handle : onConnect(h) \/ onDisconnect(h)
           \/ \E in \in BleIn : onWrite(in)
    PROVE  PhonesInv'
<1>1. ASSUME NEW h \in Handle, onConnect(h)
      PROVE  PhonesInv'
    BY <1>1, NobodyNotified DEF onConnect
<1>2. ASSUME NEW h \in Handle, onDisconnect(h)
      PROVE  PhonesInv'
    <2>1. connectedDevices' \subseteq Handle
        BY <1>2 DEF onDisconnect
    <2>2. DOMAIN handleOf' \subseteq User
          /\ \A u \in DOMAIN handleOf' : handleOf'[u] \in Handle \cup {INVALID_HANDLE}
        BY <1>2 DEF onDisconnect
    <2> QED BY <1>2, <2>1, <2>2, NobodyNotified DEF onDisconnect
<1>3. ASSUME NEW in \in BleIn, onWrite(in)
      PROVE  PhonesInv'
    <2>1. bleRxQueue' = IF Len(bleRxQueue) < BLE_LENGTH THEN Append(bleRxQueue, in)
                                                        ELSE bleRxQueue
        BY <1>3 DEF onWrite, Queued
    <2>2. bleRxQueue' \in Seq(BleIn) /\ Len(bleRxQueue') <= BLE_LENGTH
        BY <2>1, BoundedAppend, BleAssumption
    <2> QED BY <1>3, <2>2, NobodyNotified DEF onWrite
<1> QED BY <1>1, <1>2, <1>3

(* The BLE-RX worker takes a packet.                                         *)
LEMMA RxWorkerStep ==
    ASSUME PhonesInv, bleRxWorker
    PROVE  PhonesInv'
<1> DEFINE in == Head(bleRxQueue)
<1>1. /\ in \in BleIn
      /\ bleRxQueue' \in Seq(BleIn)
      /\ Len(bleRxQueue') <= BLE_LENGTH
    BY TailTyped, BleAssumption DEF bleRxWorker
<1>2. rxWork' = WorkFor(in)
    BY DEF bleRxWorker
<1>3. rxWork' \in Seq(SafeWork) /\ rxWork' \in Seq(Work)
    BY <1>1, <1>2, WorkSafe, WorkTyped
<1>4. /\ DOMAIN handleOf' \subseteq User
      /\ \A u \in DOMAIN handleOf' : handleOf'[u] \in Handle \cup {INVALID_HANDLE}
    <2>1. in.sender \in User /\ in.connHandle \in Handle
        BY <1>1 DEF BleIn
    <2>2. CASE Announces(in)
        <3>1. handleOf' = [u \in DOMAIN handleOf \cup {in.sender} |->
                              IF u = in.sender THEN in.connHandle ELSE handleOf[u]]
            BY <2>2 DEF bleRxWorker
        <3> QED BY <2>1, <3>1
    <2>3. CASE ~Announces(in)
        BY <2>3 DEF bleRxWorker
    <2> QED BY <2>2, <2>3
<1>5. pubKeys' \subseteq User
    BY <1>1 DEF bleRxWorker, BleIn
<1> QED BY <1>1, <1>3, <1>4, <1>5, NobodyNotified DEF bleRxWorker

(* A message is parked.                                                      *)
LEMMA ParkStep ==
    ASSUME PhonesInv, NEW o \in OfflineMsg, park(o)
    PROVE  PhonesInv'
<1> DEFINE box == inbox[o.to]
           kept == IF Len(box) = INBOX_LENGTH THEN Tail(box) ELSE box
<1>1. o.to \in User
    BY DEF OfflineMsg
<1>2. box \in Seq(OfflineMsg) /\ Len(box) \in Nat /\ Len(box) <= INBOX_LENGTH
    BY <1>1
<1>3. kept \in Seq(OfflineMsg) /\ Len(kept) < INBOX_LENGTH
    <2> HIDE DEF box
    <2>1. CASE Len(box) = INBOX_LENGTH
        <3>1. box # <<>>
            BY <1>2, <2>1, BleAssumption
        <3> QED BY <1>2, <2>1, <3>1, TailTyped, BleAssumption
    <2>2. CASE Len(box) # INBOX_LENGTH
        BY <1>2, <2>2, BleAssumption
    <2> QED BY <2>1, <2>2
<1>4. inbox' = [inbox EXCEPT ![o.to] = Append(kept, o)]
    BY DEF park
<1> HIDE DEF kept, box
<1>5. Append(kept, o) \in Seq(OfflineMsg) /\ Len(Append(kept, o)) <= INBOX_LENGTH
    <2>1. Append(kept, o) \in Seq(OfflineMsg) /\ Len(Append(kept, o)) = Len(kept) + 1
        BY <1>3, AppendTyped
    <2>2. Len(kept) \in Nat
        BY <1>3
    <2> QED BY <1>3, <2>1, <2>2, BleAssumption
<1>6. inbox' \in [User -> Seq(OfflineMsg)] /\ \A u \in User : Len(inbox'[u]) <= INBOX_LENGTH
    BY <1>1, <1>4, <1>5
<1>7. DOMAIN handleOf' \subseteq User
      /\ \A u \in DOMAIN handleOf' : handleOf'[u] \in Handle \cup {INVALID_HANDLE}
    BY <1>1 DEF park
<1> QED BY <1>6, <1>7, NobodyNotified DEF park

(* What notify queues for the user has a handle, or is for a user.           *)
LEMMA NotificationSafe ==
    ASSUME PhonesInv, NEW o \in Outgoing
    PROVE  Notification(o) \in SafeOut
<1> DEFINE h == IF ForNobody(o) THEN ZeroHandle ELSE getBleHandle(o.to)
<1>1. h \in Handle \cup {ZeroHandle, INVALID_HANDLE}
    <2>1. getBleHandle(o.to) \in Handle \cup {INVALID_HANDLE}
        BY DEF getBleHandle
    <2> QED BY <2>1
<1>2. o.type \in BleType /\ o.text \in Nat
    BY DEF Outgoing, UserMessage, Verdict, BleType
<1>3. h = ZeroHandle \/ o.type \in UserMessage \cup Verdict
    BY DEF ForNobody
<1>4. Notification(o) = Out(o.type, h, o.text)
    BY DEF Notification
<1> HIDE DEF h
<1>5. h \in Handle \cup {ZeroHandle} \/ o.type \in UserMessage \cup Verdict
    BY <1>3
<1>6. Out(o.type, h, o.text) \in SafeOut
    BY <1>1, <1>2, <1>5, OutSafe, Zenon
<1> QED BY <1>4, <1>6, Zenon

(* The head of the BLE-RX worker's work is safe, and so is the rest. *)
LEMMA NextWork ==
    ASSUME PhonesInv, rxWork # <<>>
    PROVE  /\ Head(rxWork) \in SafeWork
           /\ Tail(rxWork) \in Seq(SafeWork)
           /\ Tail(rxWork) \in Seq(Work)
BY TailTyped, WorkTyped

(* It queues a message for the mesh ...                                      *)
LEMMA RxMeshStep ==
    ASSUME HandlerTypeOK, PhonesInv, RxMesh, UNCHANGED <<sending, routerCalls>>
    PROVE  HandlerTypeOK' /\ PhonesInv'
<1> DEFINE w == Head(rxWork)
<1>1. w \in SafeWork /\ Tail(rxWork) \in Seq(SafeWork) /\ Tail(rxWork) \in Seq(Work)
    BY NextWork DEF RxMesh, RxDoes
<1>2. w.msg \in OutgoingMessage
    BY <1>1 DEF RxMesh, RxDoes, SafeWork, Work
<1>3. HandlerTypeOK'
    BY <1>2, EnqueueStep DEF RxMesh
<1>4. PhonesInv'
    BY <1>1, NobodyNotified DEF RxMesh
<1> QED BY <1>3, <1>4

(* ... or a notification ...                                                 *)
LEMMA RxOutStep ==
    ASSUME PhonesInv, RxOut
    PROVE  PhonesInv'
<1> DEFINE w == Head(rxWork)
<1>1. w \in SafeWork /\ Tail(rxWork) \in Seq(SafeWork) /\ Tail(rxWork) \in Seq(Work)
    BY NextWork DEF RxOut, RxDoes
<1>2. w.out \in SafeOut
    BY <1>1 DEF RxOut, RxDoes, SafeWork, Work, SafeOut
<1>3. /\ bleTxQueue' \in Seq(SafeOut)
      /\ bleTxQueue' \in Seq(BleOut)
      /\ Len(bleTxQueue') <= BLE_LENGTH
    BY <1>2, OutQueued DEF RxOut
<1> QED BY <1>1, <1>3, NobodyNotified DEF RxOut

(* ... empties an inbox ...                                                  *)
LEMMA RxPopStep ==
    ASSUME PhonesInv, RxPop
    PROVE  PhonesInv'
<1> DEFINE u == Head(rxWork).user
           box == inbox[u]
           parcels == [i \in DOMAIN box |-> [do |-> "deliver", o |-> box[i]]]
<1>1. Head(rxWork) \in SafeWork /\ Tail(rxWork) \in Seq(SafeWork)
    BY NextWork DEF RxPop, RxDoes
<1>2. u \in User
    BY <1>1 DEF RxPop, RxDoes, SafeWork, Work
<1>3. box \in Seq(OfflineMsg)
    BY <1>2
<1>4. rxWork' = parcels \o Tail(rxWork) /\ inbox' = [inbox EXCEPT ![u] = <<>>]
    BY DEF RxPop
<1> HIDE DEF u, box
<1>5. parcels \in Seq(SafeWork)
    <2>1. \A i \in DOMAIN box : [do |-> "deliver", o |-> box[i]] \in SafeWork
        BY <1>3 DEF SafeWork, Work
    <2>2. parcels \in [DOMAIN box -> SafeWork]
        BY <2>1
    <2> HIDE DEF parcels
    <2> QED BY <1>3, <2>2, SameLength
<1> HIDE DEF parcels
<1>6. rxWork' \in Seq(SafeWork)
    BY <1>1, <1>4, <1>5, ConcatTyped, Zenon
<1>7. rxWork' \in Seq(Work)
    BY <1>6, WorkTyped
<1>8. inbox' \in [User -> Seq(OfflineMsg)] /\ \A x \in User : Len(inbox'[x]) <= INBOX_LENGTH
    <2>1. <<>> \in Seq(OfflineMsg) /\ Len(<<>>) = 0
        BY EmptySeq
    <2>2. \A x \in User : inbox'[x] = IF x = u THEN <<>> ELSE inbox[x]
        BY <1>4
    <2>3. inbox' \in [User -> Seq(OfflineMsg)]
        BY <1>4, <2>1
    <2>4. 0 <= INBOX_LENGTH
        BY BleAssumption
    <2> QED BY <2>1, <2>2, <2>3, <2>4
<1> QED BY <1>6, <1>7, <1>8, NobodyNotified DEF RxPop

(* ... or notifies its user of what was in it ...                            *)
LEMMA RxDeliverStep ==
    ASSUME PhonesInv, RxDeliver
    PROVE  PhonesInv'
<1> DEFINE w == Head(rxWork)
<1>1. w \in SafeWork /\ Tail(rxWork) \in Seq(SafeWork) /\ Tail(rxWork) \in Seq(Work)
    BY NextWork DEF RxDeliver, RxDoes
<1>2. w.o \in Outgoing
    BY <1>1 DEF RxDeliver, RxDoes, SafeWork, Work, OfflineMsg
<1>3. /\ bleTxQueue' \in Seq(SafeOut)
      /\ bleTxQueue' \in Seq(BleOut)
      /\ Len(bleTxQueue') <= BLE_LENGTH
    BY <1>2, NotificationSafe, OutQueued DEF RxDeliver
<1> QED BY <1>1, <1>3, NobodyNotified DEF RxDeliver

(* ... or tells of the gateway, if there is one ...                          *)
LEMMA RxStatusStep ==
    ASSUME PhonesInv, RxStatus
    PROVE  PhonesInv'
<1> DEFINE w == Head(rxWork)
           told == Out("BLE_GATEWAY", w.connHandle, 1)
           one == [do |-> "out", out |-> told]
           first == IF gatewayOnline THEN <<one>> ELSE <<>>
<1>1. w \in SafeWork /\ Tail(rxWork) \in Seq(SafeWork)
    BY NextWork DEF RxStatus, RxDoes
<1>2. w.connHandle \in Handle
    BY <1>1 DEF RxStatus, RxDoes, SafeWork, Work
<1>3. told \in SafeOut
    BY <1>2, OutSafe DEF BleType
<1>4. one \in SafeWork
    BY <1>3, OutWorkSafe
<1>5. rxWork' = first \o Tail(rxWork)
    BY DEF RxStatus
<1>6. first \in Seq(SafeWork)
    <2> HIDE DEF one
    <2>1. <<one>> \in Seq(SafeWork) /\ <<>> \in Seq(SafeWork)
        BY <1>4, EmptySeq, ShortSeqs
    <2> QED BY <2>1, Zenon
<1> HIDE DEF first
<1>7. rxWork' \in Seq(SafeWork)
    BY <1>1, <1>5, <1>6, ConcatTyped, Zenon
<1>8. rxWork' \in Seq(Work)
    BY <1>7, WorkTyped
<1> QED BY <1>7, <1>8, NobodyNotified DEF RxStatus

(* ... or writes over the characteristic ...                                 *)
LEMMA RxSetValueStep ==
    ASSUME PhonesInv, RxSetValue
    PROVE  PhonesInv'
<1> DEFINE w == Head(rxWork)
<1>1. w \in SafeWork /\ Tail(rxWork) \in Seq(SafeWork) /\ Tail(rxWork) \in Seq(Work)
    BY NextWork DEF RxSetValue, RxDoes
<1>2. w.out \in BleOut /\ w.out.type = "NODE_ID_REPLY"
    BY <1>1 DEF RxSetValue, RxDoes, SafeWork, Work
<1> QED BY <1>1, <1>2, NobodyNotified DEF RxSetValue

(* ... or notifies the phone that asked.                                     *)
LEMMA RxNotifyStep ==
    ASSUME PhonesInv, RxNotify
    PROVE  PhonesInv'
<1> DEFINE w == Head(rxWork)
<1>1. w \in SafeWork /\ Tail(rxWork) \in Seq(SafeWork) /\ Tail(rxWork) \in Seq(Work)
    BY NextWork DEF RxNotify, RxDoes
<1>2. w.out \in BleOut /\ w.out.type = "NODE_ID_REPLY"
    BY <1>1 DEF RxNotify, RxDoes, SafeWork, Work
<1>3. Reached({w.out.connHandle} \cap Handle, w.out)
    BY DEF RxNotify, Reached
<1>4. notified' \subseteq Handle \X BleOut /\ PrivateStaysPrivate'
    BY <1>2, <1>3, ReachedSafe DEF MayReachOthers
<1> QED BY <1>1, <1>4 DEF RxNotify

(* The BLE-TX worker takes a notification.                                   *)
LEMMA TxWorkerStep ==
    ASSUME PhonesInv, bleTxWorker
    PROVE  PhonesInv'
<1>1. /\ Head(bleTxQueue) \in SafeOut
      /\ Tail(bleTxQueue) \in Seq(SafeOut)
      /\ Len(Tail(bleTxQueue)) <= BLE_LENGTH
    BY TailTyped, BleAssumption DEF bleTxWorker
<1>2. Head(bleTxQueue) \in BleOut /\ Tail(bleTxQueue) \in Seq(BleOut)
    BY <1>1, SeqMonotone DEF SafeOut
<1> QED BY <1>1, <1>2, NobodyNotified DEF bleTxWorker

(* What goes to all is for all, or is a reply written over it. *)
LEMMA BroadcastStep ==
    ASSUME PhonesInv, sendBroadcast
    PROVE  PhonesInv'
<1>1. /\ txPkt \in SafeOut
      /\ value \in BleOut
      /\ value = txPkt \/ value.type = "NODE_ID_REPLY"
    BY DEF sendBroadcast, SafeOut
<1>2. IsForAll(txPkt)
    BY DEF sendBroadcast, SentToAll, IsForAll
<1>3. MayReachOthers(value)
    BY <1>1, <1>2 DEF MayReachOthers
<1>4. notified' \subseteq Handle \X BleOut /\ PrivateStaysPrivate'
    BY <1>1, <1>3, ReachedSafe DEF sendBroadcast
<1> QED BY <1>4 DEF sendBroadcast

(* It sends to one phone.                                                    *)
LEMMA ClientStep ==
    ASSUME PhonesInv, sendToClient
    PROVE  PhonesInv'
<1> DEFINE h == txPkt.connHandle
           hs == IF h = INVALID_HANDLE THEN Handle ELSE {h} \cap Handle
<1>1. txPkt \in SafeOut /\ txPkt \in BleOut
    BY DEF sendToClient
<1>2. hs \in SUBSET Handle /\ Reached(hs, txPkt)
    BY DEF sendToClient, Reached
<1>3. MayReachOthers(txPkt) \/ hs \subseteq {txPkt.connHandle}
    BY <1>1 DEF SafeOut, OnlyUsersLackPhones, MayReachOthers
<1>5. notified' \subseteq Handle \X BleOut /\ PrivateStaysPrivate'
    BY <1>1, <1>2, <1>3, ReachedSafe
<1>6. phone' \in [Handle -> BOOLEAN]
    <2>1. CASE UNCHANGED phone
        BY <2>1
    <2>2. CASE phone' = [phone EXCEPT ![h] = txPkt.text = 1]
        BY <2>2
    <2> QED BY <2>1, <2>2 DEF sendToClient
<1> QED BY <1>5, <1>6 DEF sendToClient

(* setGatewayState is called.                                                *)
LEMMA StateStep ==
    ASSUME PhonesInv, NEW t \in Teller, NEW online \in BOOLEAN, setGatewayState(t, online)
    PROVE  PhonesInv'
<1> DEFINE handles == SetToSeq(connectedDevices)
           said == IF online THEN 1 ELSE 0
           news == [i \in DOMAIN handles |-> Out("BLE_GATEWAY", handles[i], said)]
<1>1. handles \in Seq(Handle)
    <2>1. IsFiniteSet(connectedDevices)
        BY FS_Subset, BleAssumption
    <2>2. SetToSeq(connectedDevices) \in Seq(connectedDevices)
        BY <2>1, SetToSeqTyped
    <2> QED BY <2>2, SeqMonotone
<1>2. gatewayOnline' = online /\ telling' = [telling EXCEPT ![t] = news]
    BY DEF setGatewayState
<1> HIDE DEF handles
<1>3. said \in Nat
    OBVIOUS
<1> HIDE DEF said
<1>4. \A i \in DOMAIN handles : Out("BLE_GATEWAY", handles[i], said) \in SafeOut
    <2> TAKE i \in DOMAIN handles
    <2>1. handles[i] \in Handle
        BY <1>1
    <2> QED BY <1>3, <2>1, OutSafe DEF BleType
<1>5. news \in Seq(SafeOut)
    <2>1. news \in [DOMAIN handles -> SafeOut]
        BY <1>4
    <2> HIDE DEF news
    <2> QED BY <1>1, <2>1, SameLength
<1> HIDE DEF news
<1>6. telling' \in [Teller -> Seq(SafeOut)]
    BY <1>2, <1>5
<1>7. telling' \in [Teller -> Seq(BleOut)]
    BY <1>6, SeqMonotone DEF SafeOut
<1> QED BY <1>2, <1>6, <1>7, NobodyNotified DEF setGatewayState

(* It queues one of its notifications.                                       *)
LEMMA TellStep ==
    ASSUME PhonesInv, NEW t \in Teller, TellPhone(t)
    PROVE  PhonesInv'
<1>1. Head(telling[t]) \in SafeOut /\ Tail(telling[t]) \in Seq(SafeOut)
    BY TailTyped DEF TellPhone
<1>2. /\ bleTxQueue' \in Seq(SafeOut)
      /\ bleTxQueue' \in Seq(BleOut)
      /\ Len(bleTxQueue') <= BLE_LENGTH
    BY <1>1, OutQueued DEF TellPhone
<1>3. telling' \in [Teller -> Seq(SafeOut)]
    BY <1>1 DEF TellPhone
<1>4. telling' \in [Teller -> Seq(BleOut)]
    BY <1>3, SeqMonotone DEF SafeOut
<1> QED BY <1>2, <1>3, <1>4, NobodyNotified DEF TellPhone

(* What the router notifies is for the user's phone or for all. *)
LEMMA NotifyStep ==
    ASSUME PhonesInv, NEW o \in Outgoing, notify(o)
    PROVE  PhonesInv'
<1>1. /\ bleTxQueue' \in Seq(SafeOut)
      /\ bleTxQueue' \in Seq(BleOut)
      /\ Len(bleTxQueue') <= BLE_LENGTH
    BY NotificationSafe, OutQueued DEF notify
<1> QED BY <1>1, NobodyNotified DEF notify

HIDE DEF PhonesInv, BleTypeOK, ValueKnown

-----------------------------------------------------------------------------
(* The steps of the node. *)

(* All tasks of BluetoothManager.                                            *)
LEMMA BluetoothSteps ==
    ASSUME HandlerTypeOK, PhonesInv, BluetoothTasks
    PROVE  HandlerTypeOK' /\ PhonesInv'
<1>1. CASE /\ \/ bleRxWorker \/ RxOut \/ RxStatus \/ RxPop \/ RxDeliver
              \/ RxSetValue \/ RxNotify
           /\ UNCHANGED nmhVars
    BY <1>1, HandlerKept, RxWorkerStep, RxOutStep, RxStatusStep, RxPopStep, RxDeliverStep,
       RxSetValueStep, RxNotifyStep
<1>2. CASE RxMesh /\ UNCHANGED <<sending, routerCalls>>
    BY <1>2, RxMeshStep
<1>3. CASE (bleTxWorker \/ sendBroadcast \/ sendToClient) /\ UNCHANGED nmhVars
    BY <1>3, HandlerKept, TxWorkerStep, BroadcastStep, ClientStep
<1>4. CASE (\E t \in Teller : TellPhone(t)) /\ UNCHANGED nmhVars
    BY <1>4, HandlerKept, TellStep
<1> QED BY <1>1, <1>2, <1>3, <1>4 DEF BluetoothTasks

(* The sync task passes on what the server has sent.                         *)
LEMMA DownSteps ==
    ASSUME HandlerTypeOK, PhonesInv, GatewayInv, NEW d,
           \/ ShowDown(d) /\ UNCHANGED nmhVars
           \/ DownToMesh(d) /\ UNCHANGED <<sending, routerCalls, bleVars>>
    PROVE  HandlerTypeOK' /\ PhonesInv' /\ GatewayInv'
<1>1. GatewayInv' /\ d \in Downlink
    BY HandsOnStep DEF ShowDown, DownToMesh, Steps
<1>2. d.to \in User /\ d.seq \in Nat
    BY <1>1 DEF Downlink
<1>3. CASE ShowDown(d) /\ UNCHANGED nmhVars
    <2> DEFINE o == [type |-> "BLE_USER_GATEWAY", to |-> d.to, text |-> d.seq]
    <2>1. o \in Outgoing
        BY <1>2 DEF Outgoing, UserMessage
    <2>2. notify(o)
        BY <1>3 DEF ShowDown
    <2> HIDE DEF o
    <2>3. PhonesInv'
        BY <2>1, <2>2, NotifyStep
    <2> QED BY <1>1, <1>3, <2>3, HandlerKept
<1>4. CASE DownToMesh(d) /\ UNCHANGED <<sending, routerCalls, bleVars>>
    <2> DEFINE msg == [kind |-> "FROM_GATEWAY", flags |-> "FROM_GATEWAY",
                       source |-> "server", seq |-> d.seq]
    <2>1. msg \in OutgoingMessage
        BY <1>2 DEF OutgoingMessage, MsgKind, Source
    <2>2. enqueueMessage(msg)
        BY <1>4 DEF DownToMesh
    <2> HIDE DEF msg
    <2>3. HandlerTypeOK'
        BY <1>4, <2>1, <2>2, EnqueueStep
    <2> QED BY <1>1, <1>4, <2>3, PhonesKept
<1> QED BY <1>3, <1>4

(* All tasks of GatewayManager.                                              *)
LEMMA GatewaySteps ==
    ASSUME HandlerTypeOK, PhonesInv, GatewayInv, GatewayTasks
    PROVE  HandlerTypeOK' /\ PhonesInv' /\ GatewayInv'
<1>1. CASE (Register \/ Synchronise) /\ UNCHANGED <<nmhVars, bleVars>>
    BY <1>1, HandlerKept, PhonesKept, RegistrationSteps, SynchroniseStep DEF Register
<1>2. CASE wifiEventTask /\ UNCHANGED nmhVars
    <2> DEFINE up == "on" \in edges
    <2>1. up \in BOOLEAN /\ "wifi" \in Teller /\ setGatewayState("wifi", up)
        BY <1>2 DEF wifiEventTask, Teller
    <2> HIDE DEF up
    <2>2. PhonesInv'
        BY <2>1, StateStep
    <2> QED BY <1>2, <2>2, HandlerKept, WifiEventStep
<1>3. CASE SendToGateway /\ UNCHANGED bleVars
    BY <1>3, SendToGatewayHandler, SendToGatewayStep, PhonesKept
<1>4. CASE (\E d \in ToSet(answer) : ShowDown(d)) /\ UNCHANGED nmhVars
    BY <1>4, DownSteps
<1>5. CASE /\ \E d \in ToSet(answer) : DownToMesh(d)
           /\ UNCHANGED <<sending, routerCalls, bleVars>>
    BY <1>5, DownSteps
<1> QED BY <1>1, <1>2, <1>3, <1>4, <1>5 DEF GatewayTasks

(* What phones do.                                                           *)
LEMMA PhoneEvents ==
    ASSUME PhonesInv, NEW e \in Event, AtPhone(e)
    PROVE  PhonesInv'
<1>1. CASE e.what = "connect" /\ onConnect(e.handle)
    <2>1. e.handle \in Handle
        BY <1>1 DEF Event
    <2> QED BY <1>1, <2>1, HostSteps
<1>2. CASE e.what = "disconnect" /\ onDisconnect(e.handle)
    <2>1. e.handle \in Handle
        BY <1>2 DEF Event
    <2> QED BY <1>2, <2>1, HostSteps
<1>3. CASE e.what = "write" /\ onWrite(e.in)
    <2>1. e.in \in BleIn
        BY <1>3 DEF Event
    <2> QED BY <1>3, <2>1, HostSteps
<1> QED BY <1>1, <1>2, <1>3 DEF AtPhone

(* What the router calls.                                                    *)
LEMMA RouterEvents ==
    ASSUME PhonesInv, GatewayInv, NEW e \in Event, AtRouter(e)
    PROVE  PhonesInv' /\ GatewayInv'
<1>1. CASE /\ e.what = "broadcast"
           /\ gatewayInMesh' = e.gateway
           /\ setGatewayState("router", e.gateway)
           /\ UNCHANGED <<linkVars, regVars, upVars, syncVars>>
    <2>1. e.gateway \in BOOLEAN /\ "router" \in Teller
        BY <1>1 DEF Event, Teller
    <2>2. PhonesInv'
        BY <1>1, <2>1, StateStep
    <2>3. GatewayInv'
        BY <1>1, <2>1 DEF GatewayInv, GatewayTypeOK, RegistrationIsUnderWay, linkVars, regVars,
                          syncVars
    <2> QED BY <2>2, <2>3
<1>2. CASE e.what = "notify" /\ notify(e.o) /\ UNCHANGED gwVars
    <2>1. e.o \in Outgoing
        BY <1>2 DEF Event
    <2> QED BY <1>2, <2>1, NotifyStep, GatewayKept
<1>3. CASE e.what = "uplink" /\ UplinkFromMesh(e.msg) /\ UNCHANGED bleVars
    <2>1. e.msg \in OutgoingMessage
        BY <1>3 DEF Event
    <2> QED BY <1>3, <2>1, UplinkFromMeshStep, PhonesKept
<1>4. CASE e.what = "park" /\ park(e.o) /\ UNCHANGED gwVars
    <2>1. e.o \in OfflineMsg
        BY <1>4 DEF Event
    <2> QED BY <1>4, <2>1, ParkStep, GatewayKept
<1> QED BY <1>1, <1>2, <1>3, <1>4 DEF AtRouter

(* Whatever an event of a script is.                                         *)
LEMMA EventSteps ==
    ASSUME NodeInv, NEW e \in Event, AtPhone(e) \/ AtWifi(e) \/ AtBroker(e) \/ AtRouter(e)
    PROVE  HandlerTypeOK' /\ PhonesInv' /\ GatewayInv' /\ MqttTypeOK'
<1> USE DEF NodeInv
<1>1. CASE AtPhone(e)
    <2>1. UNCHANGED <<nmhVars, gwVars, mqttVars>>
        BY <1>1 DEF AtPhone
    <2> QED BY <1>1, <2>1, PhoneEvents, HandlerKept, GatewayKept, MqttKept
<1>2. CASE AtWifi(e)
    <2>1. (onWifiUp \/ onWifiDown) /\ UNCHANGED <<nmhVars, bleVars, mqttVars>>
        BY <1>2 DEF AtWifi
    <2> QED BY <2>1, LinkSteps, HandlerKept, PhonesKept, MqttKept
<1>3. CASE AtBroker(e)
    <2>1. UNCHANGED <<nmhVars, bleVars, gwVars>>
        BY <1>3 DEF AtBroker
    <2> QED BY <1>3, <2>1, BrokerSteps, HandlerKept, PhonesKept, GatewayKept
<1>4. CASE AtRouter(e)
    <2>1. UNCHANGED <<nmhVars, mqttVars>>
        BY <1>4 DEF AtRouter
    <2> QED BY <1>4, <2>1, RouterEvents, HandlerKept, MqttKept
<1> QED BY <1>1, <1>2, <1>3, <1>4

(* An event keeps the invariant.                                             *)
LEMMA HappensStep ==
    ASSUME NodeInv, Happens
    PROVE  NodeInv'
<1>1. PICK i \in DOMAIN todo :
          /\ todo[i] # <<>>
          /\ LET e == Head(todo[i])
             IN AtPhone(e) \/ AtWifi(e) \/ AtBroker(e) \/ AtRouter(e)
          /\ todo' = [todo EXCEPT ![i] = Tail(@)]
    BY DEF Happens
<1>2. todo \in Seq(Seq(Event)) /\ todo[i] \in Seq(Event)
    BY DEF NodeInv
<1>3. Head(todo[i]) \in Event /\ Tail(todo[i]) \in Seq(Event)
    BY <1>1, <1>2, TailTyped
<1>4. todo' \in Seq(Seq(Event))
    BY <1>1, <1>2, <1>3
<1>5. HandlerTypeOK' /\ PhonesInv' /\ GatewayInv' /\ MqttTypeOK'
    BY <1>1, <1>3, EventSteps
<1> QED BY <1>4, <1>5 DEF NodeInv

(* So does a step of a task.                                                 *)
LEMMA TasksStep ==
    ASSUME NodeInv, Tasks
    PROVE  NodeInv'
<1> USE DEF NodeInv
<1>1. UNCHANGED todo
    BY DEF Tasks
<1>2. CASE BluetoothTasks /\ UNCHANGED <<gwVars, mqttVars>>
    BY <1>1, <1>2, BluetoothSteps, GatewayKept, MqttKept
<1>3. CASE GatewayTasks /\ UNCHANGED mqttVars
    BY <1>1, <1>3, GatewaySteps, MqttKept
<1>4. CASE MqttTasks /\ UNCHANGED <<bleVars, gwVars>>
    <2>1. HandlerTypeOK'
        <3>1. CASE (sendMQTTQueueTask \/ InjectPacket \/ DropGarbled) /\ UNCHANGED nmhVars
            BY <3>1, HandlerKept
        <3>2. CASE InjectMessage /\ UNCHANGED <<sending, routerCalls>>
            BY <3>2, InjectMessageStep
        <3> QED BY <1>4, <3>1, <3>2 DEF MqttTasks
    <2> QED BY <1>1, <1>4, <2>1, MqttSteps, PhonesKept, GatewayKept
<1>5. CASE (SenderTask \/ processQueue) /\ UNCHANGED <<bleVars, gwVars, mqttVars>>
    BY <1>1, <1>5, HandlerSteps, PhonesKept, GatewayKept, MqttKept
<1> QED BY <1>2, <1>3, <1>4, <1>5 DEF Tasks

(* At first all queues are empty.                                            *)
LEMMA NodeInvInit ==
    ASSUME Init
    PROVE  NodeInv
<1>1. PICK w \in Workloads : BleInit(w.sessions) /\ GatewayInit(w.down) /\ todo = w.scripts
    BY DEF Init
<1>2. w \in Workload
    BY <1>1, WorkloadAssumption
<1>3. /\ DOMAIN w.sessions \subseteq User
      /\ \A u \in DOMAIN w.sessions : w.sessions[u] \in Handle
      /\ w.down \in Seq(Downlink)
      /\ w.scripts \in Seq(Seq(Event))
    <2>1. PICK us \in SUBSET User : w.sessions \in [us -> Handle]
        BY <1>2 DEF Workload
    <2> QED BY <1>2, <2>1 DEF Workload
<1>4. HandlerTypeOK
    <2>1. <<>> \in Seq(OutgoingMessage) /\ <<>> \in Seq(RouterCall) /\ Len(<<>>) = 0
        BY EmptySeq
    <2>2. sendQueue = <<>> /\ sending = Nothing /\ routerCalls = <<>>
        BY DEF Init, HandlerInit
    <2>3. Len(sendQueue) <= QUEUE_LENGTH
        BY <2>1, <2>2, QueueAssumption
    <2> QED BY <2>1, <2>2, <2>3 DEF HandlerTypeOK
<1>5. MqttTypeOK
    <2>1. /\ receivedMQTT = <<>> /\ sendMQTT = <<>> /\ published = <<>> /\ radioRx = <<>>
          /\ connected = FALSE
        BY DEF Init, MqttInit
    <2>2. /\ Len(receivedMQTT) <= MQTT_LENGTH
          /\ Len(sendMQTT) <= MQTT_LENGTH
          /\ Len(radioRx) <= RX_LENGTH
        BY <2>1, MqttAssumption
    <2>3. /\ receivedMQTT \in Seq(MqttMessage)
          /\ sendMQTT \in Seq(Action)
          /\ published \in Seq(Action \cup {"register"})
          /\ radioRx \in Seq(Nat)
        BY <2>1, EmptySeq
    <2> QED BY <2>1, <2>2, <2>3 DEF MqttTypeOK
<1>6. GatewayInv
    <2>1. /\ wifiReady = FALSE /\ edges = {} /\ registered = FALSE /\ gatewayInMesh = FALSE
          /\ checking = 0 /\ registering = 0 /\ syncStep = "wait"
          /\ txQ = <<>> /\ batch = <<>> /\ answer = <<>> /\ server = <<>>
          /\ down = w.down /\ offered = ToSet(w.down)
          /\ accepted = {} /\ failed = {} /\ unread = {} /\ handed = {}
        BY <1>1 DEF GatewayInit
    <2>2. Len(txQ) <= UPLINK_LENGTH /\ Len(batch) <= BATCH
        BY <2>1, GatewayAssumption
    <2>3. /\ txQ \in Seq(OutgoingMessage)
          /\ batch \in Seq(OutgoingMessage)
          /\ answer \in Seq(Downlink)
          /\ server \in Seq(OutgoingMessage)
          /\ offered \subseteq Downlink
        BY <1>3, <2>1, EmptySeq, ToSetTyped
    <2>4. GatewayTypeOK
        BY <1>3, <2>1, <2>2, <2>3 DEF GatewayTypeOK
    <2> QED BY <2>1, <2>4, Zenon DEF GatewayInv, RegistrationIsUnderWay
<1>7. PhonesInv
    <2>1. BleTypeOK
        <3>1. /\ connectedDevices \subseteq Handle
              /\ DOMAIN handleOf \subseteq User
              /\ \A u \in DOMAIN handleOf : handleOf[u] \in Handle \cup {INVALID_HANDLE}
            BY <1>1, <1>3 DEF BleInit
        <3>2. /\ bleRxQueue = <<>> /\ rxWork = <<>> /\ bleTxQueue = <<>>
              /\ txPkt = Nothing /\ value = Nothing /\ gatewayOnline = FALSE
              /\ telling = [t \in Teller |-> <<>>]
              /\ phone = [h \in Handle |-> FALSE]
              /\ notified = {} /\ pubKeys = {}
              /\ inbox = [u \in User |-> <<>>]
            BY <1>1 DEF BleInit
        <3>3. Len(bleRxQueue) <= BLE_LENGTH /\ Len(bleTxQueue) <= BLE_LENGTH
            BY <3>2, BleAssumption
        <3>4. /\ bleRxQueue \in Seq(BleIn)
              /\ rxWork \in Seq(Work)
              /\ bleTxQueue \in Seq(BleOut)
              /\ telling \in [Teller -> Seq(BleOut)]
            BY <3>2, EmptySeq
        <3>5. /\ inbox \in [User -> Seq(OfflineMsg)]
              /\ \A u \in User : Len(inbox[u]) <= INBOX_LENGTH
            <4>1. <<>> \in Seq(OfflineMsg) /\ Len(<<>>) = 0
                BY EmptySeq
            <4> QED BY <3>2, <4>1, BleAssumption
        <3> QED BY <3>1, <3>2, <3>3, <3>4, <3>5 DEF BleTypeOK
    <2>2. rxWork \in Seq(SafeWork) /\ bleTxQueue \in Seq(SafeOut)
          /\ telling \in [Teller -> Seq(SafeOut)]
        BY <1>1, EmptySeq DEF BleInit
    <2>3. ValueKnown /\ PrivateStaysPrivate /\ txPkt = Nothing
        BY <1>1 DEF BleInit, ValueKnown, PrivateStaysPrivate
    <2> QED BY <2>1, <2>2, <2>3 DEF PhonesInv
<1> QED BY <1>1, <1>3, <1>4, <1>5, <1>6, <1>7 DEF NodeInv

(* Every step keeps the invariant.                                           *)
LEMMA NodeInvStep ==
    ASSUME NodeInv, [Next]_vars
    PROVE  NodeInv'
<1>1. CASE Happens
    BY <1>1, HappensStep
<1>2. CASE Tasks
    BY <1>2, TasksStep
<1>3. CASE UNCHANGED vars
    BY <1>3, HandlerKept, PhonesKept, GatewayKept, MqttKept DEF NodeInv, vars
<1> QED BY <1>1, <1>2, <1>3 DEF Next

(* It holds in every reachable state.                                        *)
LEMMA NodeInvariant == Spec => []NodeInv
<1>1. Init => NodeInv
    BY NodeInvInit
<1>2. NodeInv /\ [Next]_vars => NodeInv'
    BY NodeInvStep
<1> QED BY <1>1, <1>2, PTL DEF Spec

(* Every queue of the node stays within its length, and what is in it, in the  *)
(* tasks' hands and in the histories is well typed, whatever happens to the  *)
(* node and however its tasks interleave.                                    *)
THEOREM NodeTyped == Spec => []NodeTypeOK
<1>1. NodeInv => NodeTypeOK
    BY DEF NodeInv, NodeTypeOK, PhonesInv, GatewayInv
<1> QED BY <1>1, NodeInvariant, PTL

(* Two workers share the RX characteristic, and what is sent to all is whatever *)
(* it holds; phones come and go.  What is queued for one phone is shown on   *)
(* another in two cases only: its user had no phone when it was queued       *)
(* (INVALID_HANDLE, which NimBLE takes as all phones), or it is the reply to *)
(* REQUEST_NODE_ID.  For any users, phones and queues.                       *)
THEOREM PrivateKept == Spec => []PrivateStaysPrivate
<1>1. NodeInv => PrivateStaysPrivate
    BY DEF NodeInv, PhonesInv
<1> QED BY <1>1, NodeInvariant, PTL

(* However many GW-REG tasks run and however often the server refuses: a node  *)
(* that has Wi-Fi and is not registered has a task that is trying.           *)
THEOREM RegistrationGoesOn == Spec => []RegistrationIsUnderWay
<1>1. NodeInv => RegistrationIsUnderWay
    BY DEF NodeInv, GatewayInv
<1> QED BY <1>1, NodeInvariant, PTL

-----------------------------------------------------------------------------
(* The order of requests.  A request passes places: it is asked for (Coming), *)
(* enters one of three queues, is in the hands of the BLE-RX worker, in      *)
(* _sendQueue, with SenderTask, and at last goes into the mesh or up to the  *)
(* server.  Those of one source are never overtaken on the way.              *)

Request == [source : Source, seq : Nat]

MsgKey == [m \in OutgoingMessage |-> [source |-> m.source, seq |-> m.seq]]
CallKey == [c \in RouterCall |-> [source |-> c.msg.source, seq |-> c.msg.seq]]
PhoneKey == [in \in BleIn |-> [source |-> in.connHandle, seq |-> in.seq]]
BrokerKey == [m \in MqttMessage |-> [source |-> "broker", seq |-> m.seq]]
DownKey == [d \in Downlink |-> [source |-> "server", seq |-> d.seq]]

(* The requests that the elements of q stand for, by the function key. *)
Keys(q, key) == {key[q[i]] : i \in DOMAIN q}

Rising(q, key) ==
    \A i, j \in DOMAIN q :
        i < j /\ key[q[i]].source = key[q[j]].source => key[q[i]].seq < key[q[j]].seq

Before(A, B) == \A a \in A : \A b \in B : a.source = b.source => a.seq < b.seq

Joined(a, b, c) == a \o b \o c

(* What has gone up, is on its way up, or waits for it. *)
Up == Joined(server, batch, txQ)

Called == Keys(routerCalls, CallKey)
Gone == Keys(Up, MsgKey)
InHand == {MsgKey[m] : m \in {sending} \ {Nothing}}
Waiting == Keys(sendQueue, MsgKey)
Working == {MsgKey[rxWork[i].msg] : i \in {j \in DOMAIN rxWork : rxWork[j].do = "mesh"}}
Entered ==
    Keys(bleRxQueue, PhoneKey) \cup Keys(receivedMQTT, BrokerKey) \cup Keys(answer, DownKey)
Scripted == {r \in Request : \E s \in DOMAIN todo : \E i \in DOMAIN todo[s] :
                                 todo[s][i].what \in Asking /\ r = AskedBy(todo[s][i])}
Coming == Scripted \cup Keys(down, DownKey)

Places == <<Called \cup Gone, InHand, Waiting, Working, Entered, Coming>>

Ordered(P) == \A i, j \in 1..6 : i < j => Before(P[i], P[j])

QueuesInOrder ==
    /\ Rising(bleRxQueue, PhoneKey)
    /\ Rising(receivedMQTT, BrokerKey)
    /\ Rising(answer, DownKey)
    /\ Rising(down, DownKey)
    /\ Numbered(todo)

(* What the router sends up itself is queued nowhere else. *)
NoneOfMesh == \A r \in InHand \cup Waiting : r.source # "mesh"

(* The BLE-RX worker has at most one request to queue, and does that first. *)
MeshFirst ==
    \A i \in DOMAIN rxWork :
        rxWork[i].do = "mesh" => i = 1 /\ rxWork[i].msg.source \in Handle

OrderInv ==
    /\ Rising(routerCalls, CallKey)
    /\ Rising(Up, MsgKey)
    /\ Called \cap Gone = {}
    /\ Rising(sendQueue, MsgKey)
    /\ QueuesInOrder
    /\ MeshFirst
    /\ NoneOfMesh
    /\ Ordered(Places)

(* The head of a queue in order is before the rest, which is in order. *)
LEMMA QueueTail ==
    ASSUME NEW S, NEW key, NEW q \in Seq(S), q # <<>>, Rising(q, key)
    PROVE  /\ Rising(Tail(q), key)
           /\ Keys(Tail(q), key) \subseteq Keys(q, key)
           /\ key[Head(q)] \in Keys(q, key)
           /\ Before({key[Head(q)]}, Keys(Tail(q), key))
<1>1. /\ Len(q) \in Nat /\ Len(q) > 0 /\ DOMAIN q = 1..Len(q)
      /\ Head(q) = q[1]
      /\ DOMAIN Tail(q) = 1..(Len(q) - 1)
      /\ \A i \in DOMAIN Tail(q) : Tail(q)[i] = q[i + 1] /\ i + 1 \in DOMAIN q /\ 1 < i + 1
  OBVIOUS
<1>2. \A i, j \in DOMAIN Tail(q) : i < j => i + 1 < j + 1
  BY <1>1
<1>3. 1 \in DOMAIN q
  BY <1>1
<1>4. Rising(Tail(q), key)
  BY <1>1, <1>2 DEF Rising
<1>5. Before({key[Head(q)]}, Keys(Tail(q), key))
  <2> SUFFICES ASSUME NEW i \in DOMAIN Tail(q),
                      key[q[1]].source = key[Tail(q)[i]].source
               PROVE  key[q[1]].seq < key[Tail(q)[i]].seq
    BY <1>1 DEF Before, Keys
  <2> DEFINE j == i + 1
             x == Tail(q)[i]
  <2>1. x = q[j] /\ j \in DOMAIN q /\ 1 < j
    BY <1>1
  <2>2. key[q[1]].source = key[x].source
    OBVIOUS
  <2> HIDE DEF j, x
  <2>3. key[q[1]].seq < key[x].seq
    BY <1>3, <2>1, <2>2 DEF Rising
  <2> QED BY <2>3 DEF x
<1>6. Keys(Tail(q), key) \subseteq Keys(q, key)
  <2> DEFINE t == Tail(q)
  <2>1. \A i \in DOMAIN t : \E j \in DOMAIN q : t[i] = q[j]
    BY <1>1
  <2> HIDE DEF t
  <2>2. Keys(t, key) \subseteq Keys(q, key)
    BY <2>1 DEF Keys
  <2> QED BY <2>2 DEF t
<1>7. key[Head(q)] \in Keys(q, key)
  <2>1. key[q[1]] \in Keys(q, key)
    BY <1>3 DEF Keys
  <2> QED BY <1>1, <2>1
<1> QED BY <1>4, <1>5, <1>6, <1>7

(* One more in the end, if all others are before it. *)
LEMMA QueueAppend ==
    ASSUME NEW S, NEW key, NEW q \in Seq(S), NEW x \in S, Rising(q, key),
           Before(Keys(q, key), {key[x]})
    PROVE  /\ Rising(Append(q, x), key)
           /\ Keys(Append(q, x), key) = Keys(q, key) \cup {key[x]}
<1> DEFINE p == Append(q, x)
<1>1. /\ Len(q) \in Nat /\ DOMAIN q = 1..Len(q)
      /\ DOMAIN p = 1..(Len(q) + 1)
      /\ \A i \in DOMAIN q : p[i] = q[i]
      /\ p[Len(q) + 1] = x
  OBVIOUS
<1> HIDE DEF p
<1>2. \A i \in DOMAIN p : i \in DOMAIN q \/ i = Len(q) + 1
  BY <1>1
<1>3. \A i, j \in DOMAIN p : i < j => i \in DOMAIN q
  BY <1>1
<1>4. \A i \in DOMAIN q : i \in DOMAIN p
  BY <1>1
<1>5. Len(q) + 1 \in DOMAIN p
  BY <1>1
<1>6. Rising(p, key)
  <2> SUFFICES ASSUME NEW i \in DOMAIN p, NEW j \in DOMAIN p, i < j,
                      key[p[i]].source = key[p[j]].source
               PROVE  key[p[i]].seq < key[p[j]].seq
    BY DEF Rising
  <2>1. i \in DOMAIN q /\ p[i] = q[i]
    BY <1>1, <1>3
  <2>2. CASE j \in DOMAIN q
    BY <1>1, <2>1, <2>2 DEF Rising
  <2>3. CASE j = Len(q) + 1
    BY <1>1, <2>1, <2>3 DEF Before, Keys
  <2> QED BY <1>2, <2>2, <2>3
<1>7. Keys(p, key) = Keys(q, key) \cup {key[x]}
  BY <1>1, <1>2, <1>4, <1>5 DEF Keys
<1> QED BY <1>6, <1>7 DEF p

(* Nothing is in order, and before everything. *)
LEMMA QueueEmpty ==
    ASSUME NEW key
    PROVE  Rising(<<>>, key) /\ Keys(<<>>, key) = {}
BY DEF Rising, Keys

(* Requests that only leave their places stay in order. *)
LEMMA Stay ==
    ASSUME NEW P, NEW Q, Ordered(P), \A i \in 1..6 : Q[i] \subseteq P[i]
    PROVE  Ordered(Q)
BY DEF Ordered, Before

(* So do requests Y that go from place k to place l, if none is overtaken. *)
LEMMA Flow ==
    ASSUME NEW P, NEW Q, NEW Y, NEW k \in 1..6, NEW l \in 1..6, l < k, Ordered(P),
           Y \subseteq P[k],
           \A i \in 1..6 : i # l => Q[i] \subseteq P[i],
           Q[l] \subseteq P[l] \cup Y,
           \A i \in 1..6 : l < i /\ i <= k => Before(Y, Q[i])
    PROVE  Ordered(Q)
<1> SUFFICES ASSUME NEW i \in 1..6, NEW j \in 1..6, i < j, NEW a \in Q[i], NEW b \in Q[j],
                    a.source = b.source
             PROVE  a.seq < b.seq
  BY DEF Ordered, Before
<1>1. CASE i # l /\ j # l
  BY <1>1 DEF Ordered, Before
<1>2. CASE j = l
  <2>1. i < k /\ i # l
    BY <1>2
  <2>2. Before(P[i], P[l]) /\ Before(P[i], P[k]) /\ Q[i] \subseteq P[i]
    BY <1>2, <2>1 DEF Ordered
  <2> QED BY <1>2, <2>2 DEF Before
<1>3. CASE i = l /\ a \in P[l]
  <2>1. j # l /\ Before(P[l], P[j])
    BY <1>3 DEF Ordered
  <2> QED BY <1>3, <2>1 DEF Before
<1>4. CASE i = l /\ a \in Y
  <2>1. CASE j <= k
    BY <1>4, <2>1 DEF Before
  <2>2. CASE k < j
    <3>1. Before(P[k], P[j]) /\ j # l
      BY <1>4, <2>2 DEF Ordered
    <3> QED BY <1>4, <3>1 DEF Before
  <2> QED BY <2>1, <2>2
<1> QED BY <1>1, <1>2, <1>3, <1>4

(* And those that go all the way at once. *)
LEMMA FlowUp ==
    ASSUME NEW P, NEW Q, NEW Y, Ordered(P), Q[1] \subseteq P[1] \cup Y,
           \A i \in 1..6 : i # 1 => Q[i] \subseteq P[i],
           \A i \in 2..6 : Before(Y, Q[i])
    PROVE  Ordered(Q)
<1> SUFFICES ASSUME NEW i \in 1..6, NEW j \in 1..6, i < j, NEW a \in Q[i], NEW b \in Q[j],
                    a.source = b.source
             PROVE  a.seq < b.seq
  BY DEF Ordered, Before
<1>1. j # 1 /\ j \in 2..6 /\ b \in P[j]
  OBVIOUS
<1>2. CASE a \in P[i]
  BY <1>1, <1>2 DEF Ordered, Before
<1>3. CASE a \in Y
  BY <1>1, <1>3 DEF Before
<1> QED BY <1>2, <1>3

orderVars == <<sendQueue, sending, routerCalls, bleRxQueue, rxWork, receivedMQTT, txQ, batch,
               server, answer, down, todo>>

(* Whatever touches no place keeps the order. *)
LEMMA OrderKept ==
    ASSUME OrderInv, UNCHANGED orderVars
    PROVE  OrderInv'
<1>1. /\ Called' = Called /\ Gone' = Gone /\ Up' = Up /\ InHand' = InHand /\ Waiting' = Waiting
      /\ Working' = Working /\ Entered' = Entered /\ Coming' = Coming
  BY DEF orderVars, Up, Called, Gone, InHand, Waiting, Working, Entered, Scripted, Coming
<1>2. QueuesInOrder' = QueuesInOrder /\ MeshFirst' = MeshFirst
  BY DEF orderVars, QueuesInOrder, MeshFirst
<1>3. UNCHANGED <<routerCalls, sendQueue>>
  BY DEF orderVars
<1> QED BY <1>1, <1>2, <1>3 DEF OrderInv, NoneOfMesh, Places

(* What the keys of the queues are. *)
LEMMA KeyOf ==
    /\ \A m \in OutgoingMessage : MsgKey[m] = [source |-> m.source, seq |-> m.seq]
    /\ \A c \in RouterCall : CallKey[c] = MsgKey[c.msg] /\ c.msg \in OutgoingMessage
    /\ \A in \in BleIn : PhoneKey[in] = [source |-> in.connHandle, seq |-> in.seq]
    /\ \A m \in MqttMessage : BrokerKey[m] = [source |-> "broker", seq |-> m.seq]
    /\ \A d \in Downlink : DownKey[d] = [source |-> "server", seq |-> d.seq]
BY DEF MsgKey, CallKey, PhoneKey, BrokerKey, DownKey, RouterCall

(* A message is a request of a source. *)
LEMMA KeyTyped ==
    ASSUME NEW m \in OutgoingMessage
    PROVE  MsgKey[m] \in Request /\ MsgKey[m].seq \in Nat
<1>1. MsgKey[m] = [source |-> m.source, seq |-> m.seq]
  BY KeyOf
<1>2. m.source \in Source /\ m.seq \in Nat
  BY DEF OutgoingMessage
<1> QED BY <1>1, <1>2 DEF Request

(* SenderTask takes the oldest message. *)
LEMMA SenderTaskOrder ==
    ASSUME NodeInv, OrderInv, SenderTask, UNCHANGED <<bleVars, gwVars, mqttVars, todo>>
    PROVE  OrderInv'
<1>1. /\ Called' = Called
      /\ Gone' = Gone
      /\ Up' = Up
      /\ Working' = Working
      /\ Entered' = Entered
      /\ Coming' = Coming
      /\ routerCalls' = routerCalls
      /\ rxWork' = rxWork
  BY DEF SenderTask, Called, Up, Gone, Working, Entered, Coming, Scripted, mqttVars
<1>2. /\ sendQueue \in Seq(OutgoingMessage)
      /\ sendQueue # <<>>
      /\ sendQueue' = Tail(sendQueue)
      /\ sending' = Head(sendQueue)
      /\ Rising(sendQueue, MsgKey)
  BY DEF NodeInv, HandlerTypeOK, SenderTask, OrderInv
<1>3. /\ Rising(sendQueue', MsgKey)
      /\ Waiting' \subseteq Waiting
      /\ MsgKey[sending'] \in Waiting
      /\ Before({MsgKey[sending']}, Waiting')
  BY <1>2, QueueTail DEF Waiting
<1>4. InHand' \subseteq {MsgKey[sending']}
  BY DEF InHand
<1>5. Ordered(Places')
  <2>1. /\ Places'[1] = Places[1]
        /\ Places'[2] \subseteq {MsgKey[sending']}
        /\ Places'[3] = Waiting'
        /\ Waiting' \subseteq Places[3]
        /\ {MsgKey[sending']} \subseteq Places[3]
        /\ Places'[4] = Places[4]
        /\ Places'[5] = Places[5]
        /\ Places'[6] = Places[6]
    BY <1>1, <1>3, <1>4 DEF Places
  <2>2. \A i \in 1..6 : i # 2 => Places'[i] \subseteq Places[i]
    BY <2>1
  <2>3. \A i \in 1..6 : 2 < i /\ i <= 3 => Before({MsgKey[sending']}, Places'[i])
    BY <1>3, <2>1
  <2> QED BY <2>1, <2>2, <2>3, Flow DEF OrderInv
<1>6. QueuesInOrder'
  BY DEF OrderInv, QueuesInOrder, mqttVars
<1>7. NoneOfMesh'
  BY <1>3, <1>4 DEF OrderInv, NoneOfMesh
<1> QED BY <1>1, <1>3, <1>5, <1>6, <1>7 DEF OrderInv, MeshFirst

(* The last queue's head may be the second's last. *)
LEMMA ConcatMove ==
    ASSUME NEW S, NEW a \in Seq(S), NEW b \in Seq(S), NEW c \in Seq(S), c # <<>>
    PROVE  Joined(a, Append(b, Head(c)), Tail(c)) = Joined(a, b, c)
<1>1. Head(c) \in S /\ Tail(c) \in Seq(S)
  BY TailTyped
<1>2. Append(b, Head(c)) \in Seq(S)
  BY <1>1, AppendTyped
<1>3. Append(b, Head(c)) \o Tail(c) = b \o c
  <2>1. /\ Len(b) \in Nat /\ Len(c) \in Nat /\ Len(c) > 0
        /\ Len(Tail(c)) = Len(c) - 1
        /\ \A i \in 1..Len(Tail(c)) : Tail(c)[i] = c[i + 1]
        /\ Head(c) = c[1]
    OBVIOUS
  <2> DEFINE p == Append(b, Head(c)) \o Tail(c)
             q == b \o c
  <2>2. /\ p \in Seq(S) /\ q \in Seq(S)
        /\ Len(p) = Len(b) + Len(c)
        /\ Len(q) = Len(b) + Len(c)
    BY <1>1, <1>2, <2>1
  <2>3. \A i \in 1..(Len(b) + Len(c)) : p[i] = q[i]
    <3> SUFFICES ASSUME NEW i \in 1..(Len(b) + Len(c))
                 PROVE  p[i] = q[i]
      OBVIOUS
    <3>1. CASE i <= Len(b)
      BY <1>1, <1>2, <2>1, <3>1
    <3>2. CASE i = Len(b) + 1
      BY <1>1, <1>2, <2>1, <3>2
    <3>3. CASE i > Len(b) + 1
      BY <1>1, <1>2, <2>1, <3>3
    <3> QED BY <2>1, <3>1, <3>2, <3>3
  <2> HIDE DEF p, q
  <2>4. p = q
    BY <2>1, <2>2, <2>3
  <2> QED BY <2>4 DEF p, q
<1>4. \A x, y \in Seq(S) : a \o x \o y = a \o (x \o y)
  OBVIOUS
<1> DEFINE x == Append(b, Head(c))
           y == Tail(c)
<1>5. x \in Seq(S) /\ y \in Seq(S) /\ x \o y = b \o c
  BY <1>1, <1>2, <1>3
<1> HIDE DEF x, y
<1>6. a \o x \o y = a \o (x \o y)
  BY <1>4, <1>5
<1>7. a \o b \o c = a \o (b \o c)
  BY <1>4
<1>8. a \o x \o y = a \o b \o c
  BY <1>5, <1>6, <1>7
<1> QED BY <1>8 DEF x, y, Joined

(* The second may be emptied into the first. *)
LEMMA ConcatJoin ==
    ASSUME NEW S, NEW a \in Seq(S), NEW b \in Seq(S), NEW c \in Seq(S)
    PROVE  Joined(a \o b, <<>>, c) = Joined(a, b, c)
BY DEF Joined

(* Without the second queue, the other two are in order. *)
LEMMA ConcatDrop ==
    ASSUME NEW S, NEW key, NEW a \in Seq(S), NEW b \in Seq(S), NEW c \in Seq(S),
           Rising(Joined(a, b, c), key)
    PROVE  /\ Rising(Joined(a, <<>>, c), key)
           /\ Keys(Joined(a, <<>>, c), key) \subseteq Keys(Joined(a, b, c), key)
<1> DEFINE p == a \o b \o c
           q == a \o <<>> \o c
           to(i) == IF i <= Len(a) THEN i ELSE i + Len(b)
<1>1. /\ Len(a) \in Nat /\ Len(b) \in Nat /\ Len(c) \in Nat
      /\ DOMAIN q = 1..(Len(a) + Len(c))
      /\ DOMAIN p = 1..(Len(a) + Len(b) + Len(c))
  OBVIOUS
<1>2. \A i \in DOMAIN q : to(i) \in DOMAIN p /\ q[i] = p[to(i)]
  OBVIOUS
<1>3. \A i, j \in DOMAIN q : i < j => to(i) < to(j)
  BY <1>1
<1> HIDE DEF p, q, to
<1>4. Rising(q, key)
  BY <1>2, <1>3 DEF Rising, p, Joined
<1>5. Keys(q, key) \subseteq Keys(p, key)
  BY <1>2 DEF Keys
<1> QED BY <1>4, <1>5 DEF p, q, Joined

(* What SenderTask has in its hands goes into the mesh. *)
LEMMA CallOrder ==
    ASSUME NodeInv, OrderInv, sending # Nothing, CallRouter(sending), sending' = Nothing,
           UNCHANGED <<sendQueue, rxVars, mqttVars, txQ, syncVars, todo>>
    PROVE  OrderInv'
<1> DEFINE x == MsgKey[sending]
           c == [call |-> CallOf(sending), msg |-> sending]
<1>1. /\ Gone' = Gone
      /\ Up' = Up
      /\ Waiting' = Waiting
      /\ Working' = Working
      /\ Entered' = Entered
      /\ Coming' = Coming
      /\ InHand' = {}
      /\ QueuesInOrder' = QueuesInOrder
      /\ MeshFirst' = MeshFirst
  BY DEF Up, Gone, Waiting, Working, Entered, Coming, Scripted, InHand, QueuesInOrder, MeshFirst, mqttVars
<1>2. /\ sending \in OutgoingMessage
      /\ routerCalls \in Seq(RouterCall)
      /\ routerCalls' = Append(routerCalls, c)
  BY DEF NodeInv, HandlerTypeOK, CallRouter
<1>3. c \in RouterCall
  BY <1>2 DEF RouterCall, CallOf, OutgoingMessage
<1>4. CallKey[c] = x /\ x.seq \in Nat
  BY <1>2, <1>3, KeyOf, KeyTyped
<1>5. Places[1] = Called \cup Gone /\ x \in Places[2]
  BY DEF Places, InHand
<1>6. Before(Called \cup Gone, {x})
  <2>1. Before(Places[1], Places[2])
    BY DEF OrderInv, Ordered
  <2> QED BY <1>5, <2>1 DEF Before
<1>7. Before(Keys(routerCalls, CallKey), {CallKey[c]})
  BY <1>4, <1>6 DEF Before, Called
<1> HIDE DEF x, c
<1>8. Rising(routerCalls', CallKey) /\ Called' = Called \cup {x}
  <2>1. Rising(routerCalls, CallKey)
    BY DEF OrderInv
  <2>2. /\ Rising(Append(routerCalls, c), CallKey)
        /\ Keys(Append(routerCalls, c), CallKey) = Keys(routerCalls, CallKey) \cup {CallKey[c]}
    BY <1>2, <1>3, <1>7, <2>1, QueueAppend
  <2> QED BY <1>2, <1>4, <2>2 DEF Called
<1>9. x \notin Gone
  BY <1>4, <1>6 DEF Before
<1>10. Ordered(Places')
  <2>1. /\ Places'[1] = Places[1] \cup {x}
        /\ Places'[2] = {}
        /\ Places'[3] = Places[3]
        /\ Places'[4] = Places[4]
        /\ Places'[5] = Places[5]
        /\ Places'[6] = Places[6]
    BY <1>1, <1>8 DEF Places
  <2>2. \A i \in 1..6 : i # 1 => Places'[i] \subseteq Places[i]
    BY <2>1
  <2>3. \A i \in 1..6 : 1 < i /\ i <= 2 => Before({x}, Places'[i])
    BY <2>1 DEF Before
  <2> QED BY <1>5, <2>1, <2>2, <2>3, Flow DEF OrderInv
<1>11. NoneOfMesh'
  BY <1>1 DEF OrderInv, NoneOfMesh
<1> QED BY <1>1, <1>8, <1>9, <1>10, <1>11 DEF OrderInv

(* What is to go up is appended to what goes up, if it is not dropped. *)
LEMMA UplinkOrder ==
    ASSUME NodeInv, OrderInv, NEW msg \in OutgoingMessage, uplink(msg),
           UNCHANGED <<server, batch>>,
           Before(Called \cup Gone, {MsgKey[msg]})
    PROVE  /\ Rising(Up', MsgKey)
           /\ Gone' \subseteq Gone \cup {MsgKey[msg]}
           /\ MsgKey[msg] \notin Called
<1>1. /\ server \in Seq(OutgoingMessage)
      /\ batch \in Seq(OutgoingMessage)
      /\ txQ \in Seq(OutgoingMessage)
  BY DEF NodeInv, GatewayInv, GatewayTypeOK
<1>2. Up \in Seq(OutgoingMessage)
  BY <1>1, ConcatTyped DEF Up, Joined
<1>3. Rising(Up, MsgKey) /\ Before(Keys(Up, MsgKey), {MsgKey[msg]})
  BY DEF OrderInv, Before, Gone
<1>4. MsgKey[msg] \notin Called
  <2>1. MsgKey[msg].seq \in Nat
    BY KeyTyped
  <2> QED BY <2>1 DEF Before
<1>5. CASE txQ' = txQ
  BY <1>3, <1>4, <1>5 DEF Up, Gone
<1>6. CASE txQ' = Append(txQ, msg)
  <2>1. Up' = Append(Up, msg)
    <3>1. Joined(server, batch, Append(txQ, msg)) = Append(Joined(server, batch, txQ), msg)
      BY <1>1 DEF Joined
    <3> QED BY <1>6, <3>1 DEF Up
  <2>2. /\ Rising(Append(Up, msg), MsgKey)
        /\ Keys(Append(Up, msg), MsgKey) = Keys(Up, MsgKey) \cup {MsgKey[msg]}
    BY <1>2, <1>3, QueueAppend
  <2> QED BY <1>4, <2>1, <2>2 DEF Gone
<1> QED BY <1>5, <1>6 DEF uplink

(* What SenderTask has in its hands goes up to the server, or is dropped. *)
LEMMA UpOrder ==
    ASSUME NodeInv, OrderInv, sending # Nothing, uplink(sending) \/ UNCHANGED txQ,
           sending' = Nothing,
           UNCHANGED <<sendQueue, routerCalls, rxVars, mqttVars, syncVars, todo>>
    PROVE  OrderInv'
<1> DEFINE x == MsgKey[sending]
<1>1. /\ Called' = Called
      /\ Waiting' = Waiting
      /\ Working' = Working
      /\ Entered' = Entered
      /\ Coming' = Coming
      /\ InHand' = {}
      /\ QueuesInOrder' = QueuesInOrder
      /\ MeshFirst' = MeshFirst
      /\ routerCalls' = routerCalls
  BY DEF Called, Waiting, Working, Entered, Coming, Scripted, InHand, QueuesInOrder, MeshFirst, mqttVars
<1>2. sending \in OutgoingMessage
  BY DEF NodeInv, HandlerTypeOK
<1>3. Places[1] = Called \cup Gone /\ x \in Places[2]
  BY DEF Places, InHand
<1>4. Before(Called \cup Gone, {x})
  <2>1. Before(Places[1], Places[2])
    BY DEF OrderInv, Ordered
  <2> QED BY <1>3, <2>1 DEF Before
<1>5. Rising(Up', MsgKey) /\ Gone' \subseteq Gone \cup {x} /\ Called \cap Gone' = {}
  <2>1. CASE uplink(sending)
    BY <1>2, <1>4, <2>1, UplinkOrder DEF OrderInv
  <2>2. CASE UNCHANGED txQ
    BY <2>2 DEF OrderInv, Up, Gone
  <2> QED BY <2>1, <2>2
<1> HIDE DEF x
<1>6. Ordered(Places')
  <2>1. /\ Places'[1] \subseteq Places[1] \cup {x}
        /\ Places'[2] = {}
        /\ Places'[3] = Places[3]
        /\ Places'[4] = Places[4]
        /\ Places'[5] = Places[5]
        /\ Places'[6] = Places[6]
    BY <1>1, <1>5 DEF Places
  <2>2. \A i \in 1..6 : i # 1 => Places'[i] \subseteq Places[i]
    BY <2>1
  <2>3. \A i \in 1..6 : 1 < i /\ i <= 2 => Before({x}, Places'[i])
    BY <2>1 DEF Before
  <2> QED BY <1>3, <2>1, <2>2, <2>3, Flow DEF OrderInv
<1>7. NoneOfMesh'
  BY <1>1 DEF OrderInv, NoneOfMesh
<1> QED BY <1>1, <1>5, <1>6, <1>7 DEF OrderInv

(* processQueue, whatever kind the message is of. *)
LEMMA ProcessQueueOrder ==
    ASSUME NodeInv, OrderInv, UNCHANGED <<bleVars, mqttVars, todo>>,
           SendToGateway \/ (processQueue /\ UNCHANGED gwVars)
    PROVE  OrderInv'
<1>1. CASE processQueue /\ UNCHANGED gwVars
  BY <1>1, CallOrder DEF processQueue
<1>2. CASE SendToGateway
  <2>1. sending # Nothing /\ sending' = Nothing /\ UNCHANGED <<sendQueue, syncVars>>
    BY <1>2 DEF SendToGateway
  <2>2. CASE CallRouter(sending) /\ UNCHANGED txQ
    BY <2>1, <2>2, CallOrder
  <2>3. CASE (uplink(sending) \/ UNCHANGED txQ) /\ UNCHANGED routerCalls
    BY <2>1, <2>3, UpOrder
  <2> QED BY <1>2, <2>2, <2>3 DEF SendToGateway
<1> QED BY <1>1, <1>2

(* A request from place k is put into _sendQueue, or dropped: nothing behind it *)
(* may be before it.                                                         *)
LEMMA EnqueueOrder ==
    ASSUME NodeInv, OrderInv, NEW msg \in OutgoingMessage, enqueueMessage(msg),
           UNCHANGED <<sending, routerCalls, txQ, batch, server>>,
           QueuesInOrder', MeshFirst',
           NEW k \in {4, 5}, MsgKey[msg] \in Places[k],
           \A i \in 4..6 : Places'[i] \subseteq Places[i],
           \A i \in 4..k : Before({MsgKey[msg]}, Places'[i]),
           MsgKey[msg].source # "mesh"
    PROVE  OrderInv'
<1> DEFINE x == MsgKey[msg]
<1>1. Called' = Called /\ Gone' = Gone /\ Up' = Up /\ InHand' = InHand
  BY DEF Called, Gone, Up, InHand
<1>2. Places[3] = Waiting /\ Places'[3] = Waiting' /\ Before(Places[3], Places[k])
  BY DEF Places, OrderInv, Ordered
<1>3. Before(Keys(sendQueue, MsgKey), {x})
  BY <1>2 DEF Before, Waiting
<1>4. Rising(sendQueue, MsgKey) /\ sendQueue \in Seq(OutgoingMessage)
  BY DEF OrderInv, NodeInv, HandlerTypeOK
<1>5. Rising(sendQueue', MsgKey) /\ Waiting' \subseteq Waiting \cup {x}
  <2>1. CASE sendQueue' = sendQueue
    BY <1>4, <2>1 DEF Waiting
  <2>2. CASE sendQueue' = Append(sendQueue, msg)
    <3>1. /\ Rising(Append(sendQueue, msg), MsgKey)
          /\ Keys(Append(sendQueue, msg), MsgKey) = Keys(sendQueue, MsgKey) \cup {x}
      BY <1>3, <1>4, QueueAppend
    <3> QED BY <2>2, <3>1 DEF Waiting
  <2> QED BY <2>1, <2>2 DEF enqueueMessage
<1> HIDE DEF x
<1>6. Ordered(Places')
  <2>1. Places'[1] = Places[1] /\ Places'[2] = Places[2]
    BY <1>1 DEF Places
  <2>2. Places'[3] \subseteq Places[3] \cup {x}
    BY <1>2, <1>5
  <2>3. \A i \in 1..6 : i # 3 => Places'[i] \subseteq Places[i]
    BY <2>1
  <2>4. \A i \in 1..6 : 3 < i /\ i <= k => Before({x}, Places'[i])
    BY DEF x
  <2>5. {x} \subseteq Places[k]
    BY DEF x
  <2>6. Ordered(Places) /\ k \in 1..6 /\ 3 < k
    BY DEF OrderInv
  <2> QED BY <2>2, <2>3, <2>4, <2>5, <2>6, Flow
<1>7. NoneOfMesh'
  BY <1>1, <1>5 DEF OrderInv, NoneOfMesh, x
<1> QED BY <1>1, <1>5, <1>6, <1>7 DEF OrderInv

(* What is in the queues on the way. *)
LEMMA QueueTypes ==
    ASSUME NodeInv
    PROVE  /\ rxWork \in Seq(Work)
           /\ bleRxQueue \in Seq(BleIn)
           /\ receivedMQTT \in Seq(MqttMessage)
           /\ answer \in Seq(Downlink)
           /\ down \in Seq(Downlink)
           /\ server \in Seq(OutgoingMessage)
           /\ batch \in Seq(OutgoingMessage)
           /\ txQ \in Seq(OutgoingMessage)
           /\ todo \in Seq(Seq(Event))
BY DEF NodeInv, PhonesInv, BleTypeOK, MqttTypeOK, GatewayInv, GatewayTypeOK

(* The work of the BLE-RX worker: at most its first piece is a request. *)
LEMMA WorkTail ==
    ASSUME NodeInv, OrderInv, rxWork # <<>>
    PROVE  \A i \in DOMAIN Tail(rxWork) : Tail(rxWork)[i].do # "mesh"
<1>1. rxWork \in Seq(Work)
  BY QueueTypes
<1>2. \A i \in DOMAIN Tail(rxWork) :
          /\ Tail(rxWork)[i] = rxWork[i + 1]
          /\ i + 1 \in DOMAIN rxWork
          /\ i + 1 # 1
  BY <1>1
<1> QED BY <1>2 DEF OrderInv, MeshFirst

(* The BLE-RX worker queues a request. *)
LEMMA RxMeshOrder ==
    ASSUME NodeInv, OrderInv, RxMesh, UNCHANGED <<sending, routerCalls, gwVars, mqttVars, todo>>
    PROVE  OrderInv'
<1> DEFINE msg == Head(rxWork).msg
<1>1. /\ rxWork \in Seq(Work)
      /\ rxWork # <<>>
      /\ Head(rxWork).do = "mesh"
      /\ rxWork' = Tail(rxWork)
      /\ enqueueMessage(msg)
  BY QueueTypes DEF RxMesh, RxDoes
<1>2. Head(rxWork) \in Work /\ Head(rxWork) = rxWork[1] /\ 1 \in DOMAIN rxWork
  BY <1>1
<1>3. msg \in OutgoingMessage
  BY <1>1, <1>2 DEF Work
<1>4. MsgKey[msg] \in Working
  BY <1>1, <1>2 DEF Working
<1>5. \A i \in DOMAIN rxWork' : rxWork'[i].do # "mesh"
  BY <1>1, WorkTail
<1>6. Working' = {} /\ MeshFirst'
  BY <1>5 DEF Working, MeshFirst
<1>7. Entered' = Entered /\ Coming' = Coming /\ QueuesInOrder'
  BY DEF Entered, Coming, Scripted, OrderInv, QueuesInOrder, RxMesh, mqttVars
<1> HIDE DEF msg
<1>8. /\ Places[4] = Working /\ Places'[4] = {}
      /\ Places'[5] = Places[5] /\ Places'[6] = Places[6]
  BY <1>6, <1>7 DEF Places
<1>9. \A i \in 4..6 : Places'[i] \subseteq Places[i]
  BY <1>8
<1>10. \A i \in 4..4 : Before({MsgKey[msg]}, Places'[i])
  BY <1>8 DEF Before
<1>11. MsgKey[msg] \in Places[4] /\ 4 \in {4, 5}
  BY <1>4, <1>8
<1>12. MsgKey[msg].source # "mesh"
  <2>1. msg.source \in Handle
    BY <1>1, <1>2 DEF OrderInv, MeshFirst, msg
  <2>2. MsgKey[msg] = [source |-> msg.source, seq |-> msg.seq]
    BY <1>3, KeyOf
  <2> QED BY <2>1, <2>2, SourceAssumption
<1> QED BY <1>1, <1>3, <1>6, <1>7, <1>9, <1>10, <1>11, <1>12, EnqueueOrder

(* The BLE-RX worker is the source of nothing but what phones ask for. *)
LEMMA OtherSources ==
    ASSUME NodeInv, OrderInv, NEW x, x.source \notin Handle
    PROVE  Before({x}, Working)
<1> SUFFICES ASSUME NEW i \in DOMAIN rxWork, rxWork[i].do = "mesh"
             PROVE  MsgKey[rxWork[i].msg].source \in Handle
  BY DEF Before, Working
<1>1. rxWork[i].msg.source \in Handle
  BY DEF OrderInv, MeshFirst
<1>2. rxWork[i] \in Work
  BY QueueTypes
<1>3. rxWork[i].msg \in OutgoingMessage
  BY <1>2 DEF Work
<1> DEFINE m == rxWork[i].msg
<1>4. MsgKey[m] = [source |-> m.source, seq |-> m.seq]
  BY <1>3, KeyOf
<1> QED BY <1>1, <1>4

(* Requests that are dropped on the way do not matter. *)
LEMMA ShrinkOrder ==
    ASSUME OrderInv, UNCHANGED <<sendQueue, sending, routerCalls>>,
           Rising(Up, MsgKey)', Gone' \subseteq Gone, QueuesInOrder', MeshFirst',
           Working' \subseteq Working, Entered' \subseteq Entered, Coming' \subseteq Coming
    PROVE  OrderInv'
<1>1. Called' = Called /\ InHand' = InHand /\ Waiting' = Waiting
  BY DEF Called, InHand, Waiting
<1>2. /\ Places'[1] \subseteq Places[1] /\ Places'[2] \subseteq Places[2]
      /\ Places'[3] \subseteq Places[3] /\ Places'[4] \subseteq Places[4]
      /\ Places'[5] \subseteq Places[5] /\ Places'[6] \subseteq Places[6]
  BY <1>1 DEF Places
<1>3. \A i \in 1..6 : Places'[i] \subseteq Places[i]
  BY <1>2
<1>4. Ordered(Places')
  BY <1>3, Stay DEF OrderInv
<1> QED BY <1>1, <1>4 DEF OrderInv, NoneOfMesh

(* The requests in each queue are those of its sources. *)
LEMMA Sources ==
    ASSUME NodeInv
    PROVE  /\ \A r \in Keys(bleRxQueue, PhoneKey) : r.source \in Handle
           /\ \A r \in Keys(receivedMQTT, BrokerKey) : r.source = "broker"
           /\ \A r \in Keys(answer, DownKey) : r.source = "server"
           /\ \A r \in Keys(down, DownKey) : r.source = "server"
<1>1. \A i \in DOMAIN bleRxQueue : PhoneKey[bleRxQueue[i]].source \in Handle
  <2> SUFFICES ASSUME NEW i \in DOMAIN bleRxQueue
               PROVE  PhoneKey[bleRxQueue[i]].source \in Handle
    OBVIOUS
  <2> DEFINE in == bleRxQueue[i]
  <2>1. in \in BleIn
    BY QueueTypes
  <2>2. in.connHandle \in Handle
    BY <2>1 DEF BleIn
  <2>3. PhoneKey[in] = [source |-> in.connHandle, seq |-> in.seq]
    BY <2>1, KeyOf
  <2> QED BY <2>2, <2>3
<1>2. \A i \in DOMAIN receivedMQTT : BrokerKey[receivedMQTT[i]].source = "broker"
  BY QueueTypes DEF BrokerKey
<1>3. \A i \in DOMAIN answer : DownKey[answer[i]].source = "server"
  BY QueueTypes DEF DownKey
<1>4. \A i \in DOMAIN down : DownKey[down[i]].source = "server"
  BY QueueTypes DEF DownKey
<1> QED BY <1>1, <1>2, <1>3, <1>4 DEF Keys

(* The first of the broker's messages is before all that has entered. *)
LEMMA BrokerFirst ==
    ASSUME NodeInv, OrderInv, receivedMQTT # <<>>, receivedMQTT' = Tail(receivedMQTT),
           UNCHANGED <<bleRxQueue, answer, down, todo>>
    PROVE  /\ QueuesInOrder'
           /\ Entered' \subseteq Entered
           /\ BrokerKey[Head(receivedMQTT)] \in Entered
           /\ BrokerKey[Head(receivedMQTT)].source = "broker"
           /\ Before({BrokerKey[Head(receivedMQTT)]}, Entered')
<1> DEFINE x == BrokerKey[Head(receivedMQTT)]
<1>1. Rising(receivedMQTT, BrokerKey) /\ receivedMQTT \in Seq(MqttMessage)
  BY QueueTypes DEF OrderInv, QueuesInOrder
<1>2. /\ Rising(Tail(receivedMQTT), BrokerKey)
      /\ Keys(Tail(receivedMQTT), BrokerKey) \subseteq Keys(receivedMQTT, BrokerKey)
      /\ x \in Keys(receivedMQTT, BrokerKey)
      /\ Before({x}, Keys(Tail(receivedMQTT), BrokerKey))
  BY <1>1, QueueTail
<1> HIDE DEF x
<1>3. x.source = "broker"
  BY <1>2, Sources
<1>4. Before({x}, Keys(bleRxQueue, PhoneKey)) /\ Before({x}, Keys(answer, DownKey))
  BY <1>3, Sources, SourceAssumption DEF Before
<1>5. QueuesInOrder'
  BY <1>2 DEF OrderInv, QueuesInOrder
<1>6. Entered' = Keys(bleRxQueue, PhoneKey) \cup Keys(Tail(receivedMQTT), BrokerKey)
                     \cup Keys(answer, DownKey)
  BY DEF Entered
<1>7. Before({x}, Entered')
  BY <1>2, <1>4, <1>6 DEF Before
<1> QED BY <1>2, <1>3, <1>5, <1>6, <1>7 DEF Entered, x

(* So is the first of the server's answer ... *)
LEMMA AnswerFirst ==
    ASSUME NodeInv, OrderInv, answer # <<>>, answer' = Tail(answer),
           UNCHANGED <<bleRxQueue, receivedMQTT, down, todo>>
    PROVE  /\ QueuesInOrder'
           /\ Entered' \subseteq Entered
           /\ DownKey[Head(answer)] \in Entered
           /\ DownKey[Head(answer)].source = "server"
           /\ Before({DownKey[Head(answer)]}, Entered')
<1> DEFINE x == DownKey[Head(answer)]
<1>1. Rising(answer, DownKey) /\ answer \in Seq(Downlink)
  BY QueueTypes DEF OrderInv, QueuesInOrder
<1>2. /\ Rising(Tail(answer), DownKey)
      /\ Keys(Tail(answer), DownKey) \subseteq Keys(answer, DownKey)
      /\ x \in Keys(answer, DownKey)
      /\ Before({x}, Keys(Tail(answer), DownKey))
  BY <1>1, QueueTail
<1> HIDE DEF x
<1>3. x.source = "server"
  BY <1>2, Sources
<1>4. Before({x}, Keys(bleRxQueue, PhoneKey)) /\ Before({x}, Keys(receivedMQTT, BrokerKey))
  BY <1>3, Sources, SourceAssumption DEF Before
<1>5. QueuesInOrder'
  BY <1>2 DEF OrderInv, QueuesInOrder
<1>6. Entered' = Keys(bleRxQueue, PhoneKey) \cup Keys(receivedMQTT, BrokerKey)
                     \cup Keys(Tail(answer), DownKey)
  BY DEF Entered
<1>7. Before({x}, Entered')
  BY <1>2, <1>4, <1>6 DEF Before
<1> QED BY <1>2, <1>3, <1>5, <1>6, <1>7 DEF Entered, x

(* ... and the first of what phones have written. *)
LEMMA WrittenFirst ==
    ASSUME NodeInv, OrderInv, bleRxQueue # <<>>, bleRxQueue' = Tail(bleRxQueue),
           UNCHANGED <<receivedMQTT, answer, down, todo>>
    PROVE  /\ QueuesInOrder'
           /\ Entered' \subseteq Entered
           /\ PhoneKey[Head(bleRxQueue)] \in Entered
           /\ Before({PhoneKey[Head(bleRxQueue)]}, Entered')
<1> DEFINE x == PhoneKey[Head(bleRxQueue)]
<1>1. Rising(bleRxQueue, PhoneKey) /\ bleRxQueue \in Seq(BleIn)
  BY QueueTypes DEF OrderInv, QueuesInOrder
<1>2. /\ Rising(Tail(bleRxQueue), PhoneKey)
      /\ Keys(Tail(bleRxQueue), PhoneKey) \subseteq Keys(bleRxQueue, PhoneKey)
      /\ x \in Keys(bleRxQueue, PhoneKey)
      /\ Before({x}, Keys(Tail(bleRxQueue), PhoneKey))
  BY <1>1, QueueTail
<1> HIDE DEF x
<1>3. x.source \in Handle
  BY <1>2, Sources
<1>4. Before({x}, Keys(receivedMQTT, BrokerKey)) /\ Before({x}, Keys(answer, DownKey))
  BY <1>3, Sources, SourceAssumption DEF Before
<1>5. QueuesInOrder'
  BY <1>2 DEF OrderInv, QueuesInOrder
<1>6. Entered' = Keys(Tail(bleRxQueue), PhoneKey) \cup Keys(receivedMQTT, BrokerKey)
                     \cup Keys(answer, DownKey)
  BY DEF Entered
<1>7. Before({x}, Entered')
  BY <1>2, <1>4, <1>6 DEF Before
<1> QED BY <1>2, <1>5, <1>6, <1>7 DEF Entered, x

(* The MQTT task takes what the broker has sent: a packet for the radio, a      *)
(* request, or a text it cannot read.                                        *)
LEMMA MqttOrder ==
    ASSUME NodeInv, OrderInv, MqttTasks, UNCHANGED <<bleVars, gwVars, todo>>
    PROVE  OrderInv'
<1>1. Working' = Working /\ MeshFirst' = MeshFirst /\ Coming' = Coming /\ Up' = Up /\ Gone' = Gone
  BY DEF Working, MeshFirst, Coming, Scripted, Up, Gone
<1>2. CASE sendMQTTQueueTask /\ UNCHANGED nmhVars
  BY <1>2, OrderKept DEF sendMQTTQueueTask, orderVars, nmhVars
<1>3. CASE (InjectPacket \/ DropGarbled) /\ UNCHANGED nmhVars
  <2>1. receivedMQTT # <<>> /\ receivedMQTT' = Tail(receivedMQTT) /\ UNCHANGED nmhVars
    BY <1>3 DEF InjectPacket, DropGarbled
  <2>2. QueuesInOrder' /\ Entered' \subseteq Entered
    BY <2>1, BrokerFirst
  <2> QED BY <1>1, <2>1, <2>2, ShrinkOrder DEF OrderInv, nmhVars
<1>4. CASE InjectMessage /\ UNCHANGED <<sending, routerCalls>>
  <2> DEFINE m == Head(receivedMQTT)
             msg == [kind |-> "NODE", flags |-> "NONE", source |-> "broker", seq |-> m.seq]
             x == MsgKey[msg]
  <2>1. /\ receivedMQTT # <<>> /\ receivedMQTT' = Tail(receivedMQTT)
        /\ enqueueMessage(msg)
    BY <1>4 DEF InjectMessage
  <2>2. m \in MqttMessage
    BY <2>1, QueueTypes, TailTyped
  <2>3. msg \in OutgoingMessage
    BY <2>2 DEF MqttMessage, OutgoingMessage, MsgKind, Source
  <2>4. x = [source |-> "broker", seq |-> m.seq]
    BY <2>3, KeyOf
  <2>5. BrokerKey[m] = [source |-> "broker", seq |-> m.seq]
    BY <2>2, KeyOf
  <2>6. x = BrokerKey[m]
    BY <2>4, <2>5
  <2>7. /\ QueuesInOrder' /\ Entered' \subseteq Entered
        /\ x \in Entered /\ Before({x}, Entered') /\ x.source = "broker"
    BY <2>1, <2>6, BrokerFirst
  <2> HIDE DEF x, msg
  <2>8. Before({x}, Working)
    BY <2>7, OtherSources, SourceAssumption
  <2>9. /\ Places[5] = Entered /\ Places'[5] = Entered'
        /\ Places'[4] = Working /\ Places[4] = Working
        /\ Places'[6] = Places[6]
    BY <1>1 DEF Places
  <2>10. \A i \in 4..6 : Places'[i] \subseteq Places[i]
    BY <2>7, <2>9
  <2>11. \A i \in 4..5 : Before({x}, Places'[i])
    BY <2>7, <2>8, <2>9
  <2>12. x \in Places[5]
    BY <2>7, <2>9
  <2> QED BY <1>1, <1>4, <2>1, <2>3, <2>7, <2>10, <2>11, <2>12, EnqueueOrder DEF OrderInv, x
<1> QED BY <1>2, <1>3, <1>4 DEF MqttTasks

(* The sync task takes a message of the server's answer. *)
LEMMA DownOrder ==
    ASSUME NodeInv, OrderInv, UNCHANGED <<mqttVars, todo>>, NEW d \in ToSet(answer),
           \/ ShowDown(d) /\ UNCHANGED nmhVars
           \/ DownToMesh(d) /\ UNCHANGED <<sending, routerCalls, bleVars>>
    PROVE  OrderInv'
<1>1. /\ d = Head(answer) /\ answer # <<>> /\ answer' = Tail(answer)
      /\ UNCHANGED <<rxVars, txQ, batch, server, down>>
  BY DEF ShowDown, DownToMesh, HandsOn, notify
<1>2. Working' = Working /\ MeshFirst' = MeshFirst /\ Coming' = Coming /\ Up' = Up /\ Gone' = Gone
  BY <1>1 DEF Working, MeshFirst, Coming, Scripted, Up, Gone
<1>3. /\ QueuesInOrder' /\ Entered' \subseteq Entered
      /\ DownKey[d] \in Entered /\ Before({DownKey[d]}, Entered') /\ DownKey[d].source = "server"
  BY <1>1, AnswerFirst DEF mqttVars
<1>4. CASE ShowDown(d) /\ UNCHANGED nmhVars
  BY <1>2, <1>3, <1>4, ShrinkOrder DEF OrderInv, nmhVars
<1>5. CASE DownToMesh(d) /\ UNCHANGED <<sending, routerCalls, bleVars>>
  <2> DEFINE msg == [kind |-> "FROM_GATEWAY", flags |-> "FROM_GATEWAY", source |-> "server",
                     seq |-> d.seq]
             x == MsgKey[msg]
  <2>1. enqueueMessage(msg)
    BY <1>5 DEF DownToMesh
  <2>2. d \in Downlink
    BY <1>1, QueueTypes, TailTyped
  <2>3. msg \in OutgoingMessage
    BY <2>2 DEF Downlink, OutgoingMessage, MsgKind, Source
  <2>4. x = [source |-> "server", seq |-> d.seq]
    BY <2>3, KeyOf
  <2>5. DownKey[d] = [source |-> "server", seq |-> d.seq]
    BY <2>2, KeyOf
  <2>6. x = DownKey[d]
    BY <2>4, <2>5
  <2>7. x \in Entered /\ Before({x}, Entered') /\ x.source = "server"
    BY <1>3, <2>6
  <2> HIDE DEF x, msg
  <2>8. Before({x}, Working)
    BY <2>7, OtherSources, SourceAssumption
  <2>9. /\ Places[5] = Entered /\ Places'[5] = Entered'
        /\ Places'[4] = Working /\ Places[4] = Working
        /\ Places'[6] = Places[6]
    BY <1>2 DEF Places
  <2>10. \A i \in 4..6 : Places'[i] \subseteq Places[i]
    BY <1>3, <2>9
  <2>11. \A i \in 4..5 : Before({x}, Places'[i])
    BY <2>7, <2>8, <2>9
  <2>12. x \in Places[5]
    BY <2>7, <2>9
  <2> QED
    BY <1>1, <1>2, <1>3, <1>5, <2>1, <2>3, <2>7, <2>10, <2>11, <2>12, EnqueueOrder
    DEF OrderInv, x
<1> QED BY <1>4, <1>5

(* What the BLE-RX worker makes of a packet. *)
LEMMA WorkIsAsked ==
    ASSUME NEW in \in BleIn, NEW i \in DOMAIN WorkFor(in), WorkFor(in)[i].do = "mesh"
    PROVE  /\ i = 1
           /\ WorkFor(in)[i].msg.source = in.connHandle
           /\ WorkFor(in)[i].msg.seq = in.seq
<1>1. CASE in.type \in MeshTypes
  <2> DEFINE msg == [kind |-> KindOf(in.type), flags |-> FlagsOf(in.type),
                     source |-> in.connHandle, seq |-> in.seq]
             w == [do |-> "mesh", msg |-> msg]
             p == ForMesh(in)
             q == EchoOf(in)
  <2>1. WorkFor(in) = p \o q
    BY <1>1 DEF WorkFor, Announces, MeshTypes, BLEMessageType
  <2>2. p \in Seq(SafeWork) /\ q \in Seq(SafeWork)
    BY <1>1, MeshWorkSafe, EchoSafe
  <2>3. p = <<>> \/ p = <<w>>
    BY DEF ForMesh
  <2>4. \A j \in DOMAIN q : q[j].do = "out"
    BY DEF EchoOf
  <2>5. w.msg.source = in.connHandle /\ w.msg.seq = in.seq
    OBVIOUS
  <2> HIDE DEF w, p, q
  <2>6. \/ i \in DOMAIN p /\ WorkFor(in)[i] = p[i]
        \/ \E j \in DOMAIN q : WorkFor(in)[i] = q[j]
    <3>1. /\ Len(p) \in Nat /\ DOMAIN p = 1..Len(p)
          /\ Len(q) \in Nat /\ DOMAIN q = 1..Len(q)
          /\ i \in 1..(Len(p) + Len(q))
      BY <2>1, <2>2
    <3>2. CASE i <= Len(p)
      BY <2>1, <2>2, <3>1, <3>2
    <3>3. CASE i > Len(p)
      <4>1. WorkFor(in)[i] = q[i - Len(p)] /\ i - Len(p) \in DOMAIN q
        BY <2>1, <2>2, <3>1, <3>3
      <4> QED BY <4>1
    <3> QED BY <3>1, <3>2, <3>3
  <2>7. i \in DOMAIN p /\ WorkFor(in)[i] = p[i]
    BY <2>4, <2>6
  <2>8. p = <<w>> /\ i = 1
    BY <2>3, <2>7
  <2>9. p[1] = w
    BY <2>8
  <2> QED BY <2>5, <2>7, <2>8, <2>9
<1>2. CASE in.type \notin MeshTypes
  <2> DEFINE status == [do |-> "status", connHandle |-> in.connHandle]
             pop == [do |-> "pop", user |-> in.sender]
             outOf(type) == [do |-> "out", out |-> Out(type, in.connHandle, 0)]
             nodeID == outOf("BLE_NODE_ID")
             reply == Out("NODE_ID_REPLY", in.connHandle, in.seq)
             set == [do |-> "set", out |-> reply]
             send == [do |-> "notify", out |-> reply]
  <2>1. \/ WorkFor(in) = <<status>> \o <<pop, nodeID>>
        \/ WorkFor(in) = <<>> \o <<pop, nodeID>>
        \/ WorkFor(in) = <<set, send, status>>
        \/ \E type \in {"BLE_List_Nodes", "BLE_List_Users"} : WorkFor(in) = <<outOf(type)>>
        \/ WorkFor(in) = <<>>
    BY <1>2, OtherWork DEF Welcome, Reply
  <2>2. /\ status.do # "mesh" /\ set.do # "mesh" /\ send.do # "mesh"
        /\ pop.do # "mesh" /\ nodeID.do # "mesh"
        /\ \A type : outOf(type).do # "mesh"
    OBVIOUS
  <2> HIDE DEF status, pop, outOf, nodeID, set, send
  <2>3. WorkFor(in)[i].do # "mesh"
    BY <2>1, <2>2
  <2> QED BY <2>3
<1> QED BY <1>1, <1>2

(* What an event of a script asks for. *)
LEMMA EventAsks ==
    ASSUME NEW e \in Event
    PROVE  /\ e.what = "write" => /\ e.in \in BleIn
                                  /\ AskedBy(e) = PhoneKey[e.in]
                                  /\ AskedBy(e).source \in Handle
           /\ e.what = "mqttData" => /\ e.msg \in MqttMessage
                                     /\ AskedBy(e) = BrokerKey[e.msg]
                                     /\ AskedBy(e).source = "broker"
           /\ e.what = "uplink" => /\ e.msg \in OutgoingMessage
                                   /\ AskedBy(e) = MsgKey[e.msg]
                                   /\ AskedBy(e).source = "mesh"
           /\ e.what \in Asking => AskedBy(e) \in Request
<1>1. CASE e.what = "write"
  <2>1. e.in \in BleIn
    BY <1>1 DEF Event
  <2>2. AskedBy(e) = [source |-> e.in.connHandle, seq |-> e.in.seq]
    BY <1>1 DEF AskedBy
  <2>3. PhoneKey[e.in] = [source |-> e.in.connHandle, seq |-> e.in.seq]
    BY <2>1, KeyOf
  <2>4. e.in.connHandle \in Handle /\ e.in.seq \in Nat
    BY <2>1 DEF BleIn
  <2> QED BY <1>1, <2>1, <2>2, <2>3, <2>4 DEF Request, Source
<1>2. CASE e.what = "mqttData"
  <2>1. e.msg \in MqttMessage
    BY <1>2 DEF Event
  <2>2. AskedBy(e) = [source |-> "broker", seq |-> e.msg.seq]
    BY <1>2 DEF AskedBy
  <2>3. BrokerKey[e.msg] = [source |-> "broker", seq |-> e.msg.seq]
    BY <2>1, KeyOf
  <2>4. e.msg.seq \in Nat
    BY <2>1 DEF MqttMessage
  <2> QED BY <1>2, <2>1, <2>2, <2>3, <2>4 DEF Request, Source
<1>3. CASE e.what = "uplink"
  <2>1. e.msg \in OutgoingMessage /\ e.msg.source = "mesh"
    BY <1>3 DEF Event
  <2>2. AskedBy(e) = [source |-> e.msg.source, seq |-> e.msg.seq]
    BY <1>3 DEF AskedBy
  <2>3. MsgKey[e.msg] = [source |-> e.msg.source, seq |-> e.msg.seq]
    BY <2>1, KeyOf
  <2>4. e.msg.seq \in Nat
    BY <2>1 DEF OutgoingMessage
  <2> QED BY <1>3, <2>1, <2>2, <2>3, <2>4 DEF Request, Source
<1> QED BY <1>1, <1>2, <1>3 DEF Asking

(* Nothing in a script is a request of the server. *)
LEMMA ScriptSources ==
    ASSUME NodeInv
    PROVE  \A r \in Scripted : r.source \in Handle \cup {"broker", "mesh"} /\ r.source # "server"
<1> SUFFICES ASSUME NEW s \in DOMAIN todo, NEW i \in DOMAIN todo[s], todo[s][i].what \in Asking
             PROVE  AskedBy(todo[s][i]).source \in Handle \cup {"broker", "mesh"}
  BY SourceAssumption DEF Scripted
<1> DEFINE e == todo[s][i]
<1>1. todo[s] \in Seq(Event)
  BY QueueTypes
<1>2. e \in Event
  BY <1>1
<1> QED BY <1>2, EventAsks DEF Asking

(* The BLE-RX worker takes a packet: it has nothing else to do. *)
LEMMA RxWorkerOrder ==
    ASSUME NodeInv, OrderInv, bleRxWorker, UNCHANGED <<nmhVars, gwVars, mqttVars, todo>>
    PROVE  OrderInv'
<1> DEFINE in == Head(bleRxQueue)
           x == PhoneKey[in]
<1>1. /\ bleRxQueue # <<>> /\ bleRxQueue' = Tail(bleRxQueue)
      /\ rxWork' = WorkFor(in)
  BY DEF bleRxWorker
<1>2. in \in BleIn
  BY <1>1, QueueTypes, TailTyped
<1>3. x = [source |-> in.connHandle, seq |-> in.seq] /\ in.connHandle \in Handle
  BY <1>2, KeyOf DEF BleIn
<1>4. QueuesInOrder' /\ Entered' \subseteq Entered /\ x \in Entered /\ Before({x}, Entered')
  BY <1>1, WrittenFirst DEF mqttVars
<1>5. MeshFirst'
  BY <1>1, <1>2, <1>3, WorkIsAsked DEF MeshFirst
<1>6. Working' \subseteq {x}
  <2> SUFFICES ASSUME NEW i \in DOMAIN rxWork', rxWork'[i].do = "mesh"
               PROVE  MsgKey[rxWork'[i].msg] = x
    BY DEF Working
  <2>1. rxWork' \in Seq(SafeWork)
    BY <1>1, <1>2, WorkSafe
  <2>2. rxWork'[i] \in Work
    BY <2>1 DEF SafeWork
  <2> DEFINE m == rxWork'[i].msg
  <2>3. m \in OutgoingMessage
    BY <2>2 DEF Work
  <2>4. m.source = in.connHandle /\ m.seq = in.seq
    BY <1>1, <1>2, WorkIsAsked
  <2>5. MsgKey[m] = [source |-> m.source, seq |-> m.seq]
    BY <2>3, KeyOf
  <2> QED BY <1>3, <2>4, <2>5
<1> HIDE DEF in, x
<1>7. Called' = Called /\ Gone' = Gone /\ Up' = Up /\ InHand' = InHand /\ Waiting' = Waiting
      /\ Coming' = Coming
  BY DEF Called, Gone, Up, InHand, Waiting, Coming, Scripted, nmhVars
<1>8. Ordered(Places')
  <2>1. /\ Places'[1] = Places[1] /\ Places'[2] = Places[2] /\ Places'[3] = Places[3]
        /\ Places'[4] \subseteq {x}
        /\ Places'[5] \subseteq Places[5] /\ Before({x}, Places'[5]) /\ x \in Places[5]
        /\ Places'[6] = Places[6]
    BY <1>4, <1>6, <1>7 DEF Places
  <2>2. \A i \in 1..6 : i # 4 => Places'[i] \subseteq Places[i]
    BY <2>1
  <2>3. \A i \in 1..6 : 4 < i /\ i <= 5 => Before({x}, Places'[i])
    BY <2>1
  <2> QED BY <2>1, <2>2, <2>3, Flow DEF OrderInv
<1> QED BY <1>4, <1>5, <1>7, <1>8 DEF OrderInv, NoneOfMesh, nmhVars

(* What else the BLE-RX worker does is no request. *)
LEMMA RxOrder ==
    ASSUME NodeInv, OrderInv,
           RxOut \/ RxStatus \/ RxPop \/ RxDeliver \/ RxSetValue \/ RxNotify,
           UNCHANGED <<nmhVars, gwVars, mqttVars, todo>>
    PROVE  OrderInv'
<1>1. rxWork # <<>> /\ rxWork \in Seq(Work) /\ UNCHANGED bleRxQueue
  BY QueueTypes DEF RxOut, RxStatus, RxPop, RxDeliver, RxSetValue, RxNotify, RxDoes
<1>2. \A i \in DOMAIN Tail(rxWork) : Tail(rxWork)[i].do # "mesh"
  BY <1>1, WorkTail
<1>3. \A i \in DOMAIN rxWork' : rxWork'[i].do # "mesh"
  <2>1. CASE rxWork' = Tail(rxWork)
    BY <1>2, <2>1
  <2>2. CASE RxStatus
    <3> DEFINE q == Tail(rxWork)
               w == [do |-> "out", out |-> Out("BLE_GATEWAY", Head(rxWork).connHandle, 1)]
    <3>1. q \in Seq(Work) /\ w.do # "mesh"
      BY <1>1, TailTyped
    <3>2. rxWork' = <<>> \o q \/ rxWork' = <<w>> \o q
      BY <2>2 DEF RxStatus
    <3> HIDE DEF q, w
    <3>3. <<>> \o q = q
      BY <3>1
    <3>4. \A i \in DOMAIN (<<w>> \o q) : (<<w>> \o q)[i].do # "mesh"
      <4> SUFFICES ASSUME NEW i \in DOMAIN (<<w>> \o q)
                   PROVE  (<<w>> \o q)[i].do # "mesh"
        OBVIOUS
      <4>1. CASE i = 1
        BY <3>1, <4>1
      <4>2. CASE i # 1
        <5>1. i - 1 \in DOMAIN q /\ (<<w>> \o q)[i] = q[i - 1]
          BY <3>1, <4>2
        <5> QED BY <1>2, <5>1 DEF q
      <4> QED BY <4>1, <4>2
    <3> QED BY <1>2, <3>2, <3>3, <3>4 DEF q
  <2>3. CASE RxPop
    <3> DEFINE q == Tail(rxWork)
               box == inbox[Head(rxWork).user]
               p == [j \in DOMAIN box |-> [do |-> "deliver", o |-> box[j]]]
    <3>1. q \in Seq(Work) /\ Head(rxWork) \in Work /\ Head(rxWork).do = "pop"
      BY <1>1, <2>3, TailTyped DEF RxPop, RxDoes
    <3>2. Head(rxWork).user \in User
      BY <3>1 DEF Work
    <3>3. box \in Seq(OfflineMsg)
      BY <3>2 DEF NodeInv, PhonesInv, BleTypeOK
    <3>4. rxWork' = p \o q
      BY <2>3 DEF RxPop
    <3> HIDE DEF box
    <3>5. \A j \in DOMAIN p : p[j].do # "mesh"
      OBVIOUS
    <3>6. p \in Seq({p[j] : j \in DOMAIN p})
      <4>1. p \in [DOMAIN box -> {p[j] : j \in DOMAIN p}]
        OBVIOUS
      <4> HIDE DEF p
      <4> QED BY <3>3, <4>1, SameLength
    <3>7. \A j \in DOMAIN q : q[j].do # "mesh"
      BY <1>2
    <3> HIDE DEF p, q
    <3>8. \A i \in DOMAIN (p \o q) : \/ i \in DOMAIN p /\ (p \o q)[i] = p[i]
                                    \/ \E j \in DOMAIN q : (p \o q)[i] = q[j]
      BY <3>1, <3>6, ConcatParts
    <3> QED BY <3>4, <3>5, <3>7, <3>8
  <2> QED BY <2>1, <2>2, <2>3 DEF RxOut, RxDeliver, RxSetValue, RxNotify
<1>4. Working' = {} /\ MeshFirst'
  BY <1>3 DEF Working, MeshFirst
<1>5. Entered' = Entered /\ Coming' = Coming /\ QueuesInOrder' /\ Up' = Up /\ Gone' = Gone
  BY <1>1 DEF Entered, Coming, Scripted, OrderInv, QueuesInOrder, Up, Gone, mqttVars
<1> QED BY <1>4, <1>5, ShrinkOrder DEF OrderInv, nmhVars

(* The tasks of BluetoothManager. *)
LEMMA BluetoothOrder ==
    ASSUME NodeInv, OrderInv, BluetoothTasks, UNCHANGED <<gwVars, mqttVars, todo>>
    PROVE  OrderInv'
<1>1. CASE /\ \/ bleRxWorker \/ RxOut \/ RxStatus \/ RxPop \/ RxDeliver
              \/ RxSetValue \/ RxNotify
           /\ UNCHANGED nmhVars
  BY <1>1, RxWorkerOrder, RxOrder
<1>2. CASE RxMesh /\ UNCHANGED <<sending, routerCalls>>
  BY <1>2, RxMeshOrder
<1>3. CASE (bleTxWorker \/ sendBroadcast \/ sendToClient) /\ UNCHANGED nmhVars
  <2>1. UNCHANGED rxVars
    BY <1>3 DEF bleTxWorker, sendBroadcast, sendToClient
  <2> QED BY <1>3, <2>1, OrderKept DEF orderVars, nmhVars, mqttVars
<1>4. CASE (\E t \in Teller : TellPhone(t)) /\ UNCHANGED nmhVars
  <2>1. UNCHANGED rxVars
    BY <1>4 DEF TellPhone
  <2> QED BY <1>4, <2>1, OrderKept DEF orderVars, nmhVars, mqttVars
<1> QED BY <1>1, <1>2, <1>3, <1>4 DEF BluetoothTasks

(* The sync task moves what is to go up towards the server, and takes what the *)
(* server has.                                                               *)
LEMMA SynchroniseOrder ==
    ASSUME NodeInv, OrderInv, Synchronise, UNCHANGED <<nmhVars, bleVars, mqttVars, todo>>
    PROVE  OrderInv'
<1>1. /\ server \in Seq(OutgoingMessage) /\ batch \in Seq(OutgoingMessage)
      /\ txQ \in Seq(OutgoingMessage)
      /\ Rising(Up, MsgKey)
  BY QueueTypes DEF OrderInv
<1>2. Working' = Working /\ MeshFirst' = MeshFirst /\ Scripted' = Scripted
  BY DEF Working, MeshFirst, Scripted
<1>3. CASE SyncWaits \/ SyncChecks \/ EndBatch \/ AnswerArrives \/ DownToPhone \/ DownDone
  BY <1>3, OrderKept
  DEF SyncWaits, SyncChecks, EndBatch, AnswerArrives, DownToPhone, DownDone, orderVars, nmhVars,
      mqttVars
<1>4. CASE TakeForBatch
  <2>1. /\ txQ # <<>> /\ batch' = Append(batch, Head(txQ)) /\ txQ' = Tail(txQ)
        /\ UNCHANGED <<answer, server, down>>
    BY <1>4 DEF TakeForBatch, PopUplink
  <2>2. Up' = Up
    <3>1. Joined(server, Append(batch, Head(txQ)), Tail(txQ)) = Joined(server, batch, txQ)
      BY <1>1, <2>1, ConcatMove
    <3> QED BY <2>1, <3>1 DEF Up
  <2>3. Gone' = Gone /\ Entered' = Entered /\ Coming' = Coming /\ QueuesInOrder'
    BY <1>2, <2>1, <2>2 DEF Gone, Entered, Coming, OrderInv, QueuesInOrder, mqttVars
  <2> QED BY <1>1, <1>2, <2>2, <2>3, ShrinkOrder DEF OrderInv, nmhVars
<1>5. CASE PostIsLost
  <2>1. batch' = <<>> /\ UNCHANGED <<txQ, answer, server, down>>
    BY <1>5 DEF PostIsLost
  <2>2. Up' = Joined(server, <<>>, txQ)
    BY <2>1 DEF Up
  <2>3. Rising(Up', MsgKey) /\ Gone' \subseteq Gone
    BY <1>1, <2>2, ConcatDrop DEF Up, Gone
  <2>4. Entered' = Entered /\ Coming' = Coming /\ QueuesInOrder'
    BY <1>2, <2>1 DEF Entered, Coming, OrderInv, QueuesInOrder, mqttVars
  <2> QED BY <1>2, <2>3, <2>4, ShrinkOrder DEF OrderInv, nmhVars
<1>6. CASE AnswerIsLost
  <2>1. answer' = <<>> /\ UNCHANGED <<txQ, batch, server, down>>
    BY <1>6 DEF AnswerIsLost
  <2>2. Up' = Up /\ Gone' = Gone /\ Coming' = Coming
    BY <1>2, <2>1 DEF Up, Gone, Coming
  <2>3. Rising(answer', DownKey) /\ Keys(answer', DownKey) = {}
    BY <2>1, QueueEmpty
  <2>4. Entered' \subseteq Entered /\ QueuesInOrder'
    BY <2>1, <2>3 DEF Entered, OrderInv, QueuesInOrder, mqttVars
  <2> QED BY <1>1, <1>2, <2>2, <2>4, ShrinkOrder DEF OrderInv, nmhVars
<1>7. CASE PostArrives
  <2> DEFINE Y == Keys(down, DownKey)
  <2>1. /\ server' = server \o batch /\ batch' = <<>> /\ answer' = down /\ down' = <<>>
        /\ UNCHANGED txQ
    BY <1>7 DEF PostArrives
  <2>2. Up' = Up
    BY <1>1, <2>1, ConcatJoin DEF Up
  <2>3. Rising(down', DownKey) /\ Keys(down', DownKey) = {}
    BY <2>1, QueueEmpty
  <2>4. QueuesInOrder'
    BY <2>1, <2>3 DEF OrderInv, QueuesInOrder, mqttVars
  <2>5. /\ Called' = Called /\ Gone' = Gone /\ InHand' = InHand /\ Waiting' = Waiting
    BY <2>2 DEF Called, Gone, InHand, Waiting, nmhVars
  <2>6. Entered' \subseteq Entered \cup Y /\ Coming' = Scripted /\ Coming = Scripted \cup Y
    BY <1>2, <2>1, <2>3 DEF Entered, Coming, mqttVars
  <2>7. Before(Y, Scripted)
    <3>1. \A r \in Y : r.source = "server"
      BY Sources
    <3>2. \A r \in Scripted : r.source # "server"
      BY ScriptSources
    <3> QED BY <3>1, <3>2 DEF Before
  <2> HIDE DEF Y
  <2>8. Ordered(Places')
    <3>1. /\ Places'[1] = Places[1] /\ Places'[2] = Places[2] /\ Places'[3] = Places[3]
          /\ Places'[4] = Places[4]
          /\ Places'[5] \subseteq Places[5] \cup Y
          /\ Places'[6] \subseteq Places[6]
          /\ Y \subseteq Places[6] /\ Before(Y, Places'[6])
      BY <1>2, <2>5, <2>6, <2>7 DEF Places
    <3>2. \A i \in 1..6 : i # 5 => Places'[i] \subseteq Places[i]
      BY <3>1
    <3>3. \A i \in 1..6 : 5 < i /\ i <= 6 => Before(Y, Places'[i])
      BY <3>1
    <3> QED BY <3>1, <3>2, <3>3, Flow DEF OrderInv
  <2> QED BY <1>2, <2>2, <2>4, <2>5, <2>8 DEF OrderInv, NoneOfMesh, nmhVars
<1>8. CASE \E d \in ToSet(answer) : DownToAbsent(d)
  <2>1. answer # <<>> /\ answer' = Tail(answer) /\ UNCHANGED <<txQ, batch, server, down>>
    BY <1>8 DEF DownToAbsent, HandsOn
  <2>2. Up' = Up /\ Gone' = Gone /\ Coming' = Coming
    BY <1>2, <2>1 DEF Up, Gone, Coming
  <2>3. QueuesInOrder' /\ Entered' \subseteq Entered
    BY <2>1, AnswerFirst DEF mqttVars
  <2> QED BY <1>1, <1>2, <2>2, <2>3, ShrinkOrder DEF OrderInv, nmhVars
<1> QED BY <1>3, <1>4, <1>5, <1>6, <1>7, <1>8 DEF Synchronise

(* The next event of a script is before the rest of the scripts, which stays in *)
(* order.                                                                    *)
LEMMA NextEvent ==
    ASSUME NodeInv, OrderInv, NEW s \in DOMAIN todo, todo[s] # <<>>,
           todo' = [todo EXCEPT ![s] = Tail(todo[s])]
    PROVE  /\ Numbered(todo)'
           /\ Scripted' \subseteq Scripted
           /\ Head(todo[s]) \in Event
           /\ Head(todo[s]).what \in Asking =>
                  /\ AskedBy(Head(todo[s])) \in Scripted
                  /\ Before({AskedBy(Head(todo[s]))}, Scripted')
<1>1. todo \in Seq(Seq(Event)) /\ todo[s] \in Seq(Event)
  BY QueueTypes
<1>2. /\ DOMAIN todo' = DOMAIN todo
      /\ todo'[s] = Tail(todo[s])
      /\ \A t \in DOMAIN todo : t # s => todo'[t] = todo[t]
  OBVIOUS
<1>3. /\ Head(todo[s]) = todo[s][1] /\ 1 \in DOMAIN todo[s]
      /\ \A i \in DOMAIN Tail(todo[s]) :
             /\ i \in Nat
             /\ i + 1 \in DOMAIN todo[s]
             /\ i + 1 # 1 /\ 1 < i + 1
             /\ Tail(todo[s])[i] = todo[s][i + 1]
  BY <1>1
<1> DEFINE at(t, i) == IF t = s THEN i + 1 ELSE i
<1>4. \A t \in DOMAIN todo' : \A i \in DOMAIN todo'[t] :
          at(t, i) \in DOMAIN todo[t] /\ todo'[t][i] = todo[t][at(t, i)]
  BY <1>2, <1>3
<1>5. \A t \in DOMAIN todo' : \A i, j \in DOMAIN todo'[t] :
          /\ i # j => at(t, i) # at(t, j)
          /\ i < j => at(t, i) < at(t, j)
  <2> SUFFICES ASSUME NEW t \in DOMAIN todo', NEW i \in DOMAIN todo'[t], NEW j \in DOMAIN todo'[t]
               PROVE  (i # j => at(t, i) # at(t, j)) /\ (i < j => at(t, i) < at(t, j))
    OBVIOUS
  <2>1. CASE t = s
    BY <1>2, <1>3, <2>1
  <2>2. CASE t # s
    BY <2>2
  <2> QED BY <2>1, <2>2
<1> HIDE DEF at
<1>6. Numbered(todo)
  BY DEF OrderInv, QueuesInOrder
<1>7. Numbered(todo)'
  <2> SUFFICES ASSUME NEW t \in DOMAIN todo', NEW u \in DOMAIN todo',
                      NEW i \in DOMAIN todo'[t], NEW j \in DOMAIN todo'[u],
                      <<t, i>> # <<u, j>>,
                      todo'[t][i].what \in Asking, todo'[u][j].what \in Asking,
                      AskedBy(todo'[t][i]).source = AskedBy(todo'[u][j]).source
               PROVE  t = u /\ (i < j => AskedBy(todo'[t][i]).seq < AskedBy(todo'[u][j]).seq)
    BY DEF Numbered
  <2> DEFINE a == at(t, i)
             b == at(u, j)
  <2>1. /\ a \in DOMAIN todo[t] /\ todo'[t][i] = todo[t][a]
        /\ b \in DOMAIN todo[u] /\ todo'[u][j] = todo[u][b]
        /\ t \in DOMAIN todo /\ u \in DOMAIN todo
    BY <1>2, <1>4
  <2>2. <<t, a>> # <<u, b>>
    BY <1>5
  <2>3. t = u => (i < j => a < b)
    BY <1>5
  <2> HIDE DEF a, b
  <2> QED BY <1>6, <2>1, <2>2, <2>3 DEF Numbered
<1>8. Scripted' \subseteq Scripted
  <2> SUFFICES ASSUME NEW t \in DOMAIN todo', NEW i \in DOMAIN todo'[t], NEW r \in Request,
                      todo'[t][i].what \in Asking, r = AskedBy(todo'[t][i])
               PROVE  r \in Scripted
    BY DEF Scripted
  <2> QED BY <1>2, <1>4 DEF Scripted
<1>9. Head(todo[s]) \in Event
  BY <1>1, <1>3
<1>10. ASSUME Head(todo[s]).what \in Asking
       PROVE  /\ AskedBy(Head(todo[s])) \in Scripted
              /\ Before({AskedBy(Head(todo[s]))}, Scripted')
  <2> DEFINE e == todo[s][1]
  <2>1. AskedBy(e) \in Scripted
    <3>1. AskedBy(e) \in Request
      BY <1>3, <1>9, <1>10, EventAsks
    <3> QED BY <1>3, <1>10, <3>1 DEF Scripted
  <2>2. ASSUME NEW t \in DOMAIN todo', NEW i \in DOMAIN todo'[t], todo'[t][i].what \in Asking,
               AskedBy(e).source = AskedBy(todo'[t][i]).source
        PROVE  AskedBy(e).seq < AskedBy(todo'[t][i]).seq
    <3> DEFINE b == at(t, i)
    <3>1. b \in DOMAIN todo[t] /\ todo'[t][i] = todo[t][b] /\ t \in DOMAIN todo
      BY <1>2, <1>4
    <3>2. t = s => 1 < b /\ b # 1
      BY <1>2, <1>3 DEF at
    <3>3. <<s, 1>> # <<t, b>> /\ 1 \in DOMAIN todo[s] /\ e.what \in Asking
      BY <1>3, <1>10, <3>2
    <3> HIDE DEF b, e
    <3>4. AskedBy(e).source = AskedBy(todo[t][b]).source /\ todo[t][b].what \in Asking
      BY <2>2, <3>1
    <3>5. s = t /\ (1 < b => AskedBy(e).seq < AskedBy(todo[t][b]).seq)
      BY <1>6, <3>1, <3>3, <3>4 DEF Numbered, e
    <3> QED BY <3>1, <3>2, <3>5
  <2> HIDE DEF e
  <2>3. Before({AskedBy(e)}, Scripted')
    BY <2>2 DEF Before, Scripted
  <2> QED BY <1>3, <2>1, <2>3 DEF e
<1> QED BY <1>7, <1>8, <1>9, <1>10

(* So whoever asks does so before all that is still to come. *)
LEMMA FirstToCome ==
    ASSUME NodeInv, OrderInv, NEW s \in DOMAIN todo, todo[s] # <<>>,
           todo' = [todo EXCEPT ![s] = Tail(todo[s])], UNCHANGED down
    PROVE  /\ Numbered(todo)'
           /\ Coming' \subseteq Coming
           /\ Head(todo[s]) \in Event
           /\ Head(todo[s]).what \in Asking =>
                  /\ AskedBy(Head(todo[s])) \in Coming
                  /\ Before({AskedBy(Head(todo[s]))}, Coming')
<1> DEFINE e == Head(todo[s])
           x == AskedBy(e)
<1>1. /\ Numbered(todo)'
      /\ Scripted' \subseteq Scripted
      /\ e \in Event
      /\ e.what \in Asking => x \in Scripted /\ Before({x}, Scripted')
  BY NextEvent
<1> HIDE DEF e, x
<1>2. Coming' = Scripted' \cup Keys(down, DownKey)
  BY DEF Coming
<1>3. x \in Scripted => Before({x}, Keys(down, DownKey))
  BY Sources, ScriptSources DEF Before
<1>4. Coming' \subseteq Coming
  BY <1>1, <1>2 DEF Coming
<1>5. ASSUME e.what \in Asking
      PROVE  x \in Coming /\ Before({x}, Coming')
  BY <1>1, <1>2, <1>3, <1>5 DEF Coming, Before
<1> QED BY <1>1, <1>4, <1>5 DEF e, x

(* A request that comes enters behind all that has entered. *)
LEMMA EnterOrder ==
    ASSUME OrderInv, UNCHANGED <<nmhVars, rxWork, txQ, batch, server>>, NEW x \in Coming,
           QueuesInOrder', Entered' \subseteq Entered \cup {x}, Coming' \subseteq Coming,
           Before({x}, Coming')
    PROVE  OrderInv'
<1>1. /\ Called' = Called /\ Gone' = Gone /\ Up' = Up /\ InHand' = InHand /\ Waiting' = Waiting
      /\ Working' = Working /\ MeshFirst' = MeshFirst
  BY DEF Called, Gone, Up, InHand, Waiting, Working, MeshFirst, nmhVars
<1>2. Ordered(Places')
  <2>1. /\ Places'[1] = Places[1] /\ Places'[2] = Places[2] /\ Places'[3] = Places[3]
        /\ Places'[4] = Places[4]
        /\ Places'[5] \subseteq Places[5] \cup {x}
        /\ Places'[6] \subseteq Places[6] /\ {x} \subseteq Places[6] /\ Before({x}, Places'[6])
    BY <1>1 DEF Places
  <2>2. \A i \in 1..6 : i # 5 => Places'[i] \subseteq Places[i]
    BY <2>1
  <2>3. \A i \in 1..6 : 5 < i /\ i <= 6 => Before({x}, Places'[i])
    BY <2>1
  <2> QED BY <2>1, <2>2, <2>3, Flow DEF OrderInv
<1> QED BY <1>1, <1>2 DEF OrderInv, NoneOfMesh, nmhVars

(* A phone writes: its packet is queued, or dropped. *)
LEMMA WriteOrder ==
    ASSUME NodeInv, OrderInv, NEW s \in DOMAIN todo, todo[s] # <<>>,
           todo' = [todo EXCEPT ![s] = Tail(todo[s])],
           Head(todo[s]).what = "write", onWrite(Head(todo[s]).in),
           UNCHANGED <<nmhVars, gwVars, mqttVars>>
    PROVE  OrderInv'
<1> DEFINE e == Head(todo[s])
           x == PhoneKey[e.in]
<1>1. /\ UNCHANGED <<rxWork, txQ, batch, server, answer, down, receivedMQTT>>
      /\ bleRxQueue' = Append(bleRxQueue, e.in) \/ bleRxQueue' = bleRxQueue
  BY DEF onWrite, Queued, mqttVars
<1>2. e \in Event /\ Numbered(todo)' /\ Coming' \subseteq Coming
  BY <1>1, FirstToCome
<1>3. e.in \in BleIn /\ AskedBy(e) = x
  BY <1>2, EventAsks
<1>4. x \in Coming /\ Before({x}, Coming')
  BY <1>1, <1>3, FirstToCome DEF Asking
<1> HIDE DEF e
<1>5. Before(Entered, {x})
  <2>1. Places[5] = Entered /\ Places[6] = Coming /\ Before(Places[5], Places[6])
    BY DEF Places, OrderInv, Ordered
  <2> QED BY <1>4, <2>1 DEF Before
<1>6. Rising(bleRxQueue, PhoneKey) /\ bleRxQueue \in Seq(BleIn)
  BY QueueTypes DEF OrderInv, QueuesInOrder
<1>7. Before(Keys(bleRxQueue, PhoneKey), {PhoneKey[e.in]})
  BY <1>5 DEF Before, Entered
<1>8. /\ Rising(Append(bleRxQueue, e.in), PhoneKey)
      /\ Keys(Append(bleRxQueue, e.in), PhoneKey) = Keys(bleRxQueue, PhoneKey) \cup {x}
  BY <1>3, <1>6, <1>7, QueueAppend
<1> HIDE DEF x
<1>9. /\ Rising(bleRxQueue', PhoneKey)
      /\ Keys(bleRxQueue', PhoneKey) \subseteq Keys(bleRxQueue, PhoneKey) \cup {x}
  BY <1>1, <1>6, <1>8
<1>10. QueuesInOrder' /\ Entered' \subseteq Entered \cup {x}
  BY <1>1, <1>2, <1>9 DEF OrderInv, QueuesInOrder, Entered
<1> QED BY <1>1, <1>2, <1>4, <1>10, EnterOrder

(* The broker publishes: what it sends is queued, or dropped. *)
LEMMA PublishedOrder ==
    ASSUME NodeInv, OrderInv, NEW s \in DOMAIN todo, todo[s] # <<>>,
           todo' = [todo EXCEPT ![s] = Tail(todo[s])],
           Head(todo[s]).what = "mqttData", MqttData(Head(todo[s]).msg),
           UNCHANGED <<nmhVars, bleVars, gwVars>>
    PROVE  OrderInv'
<1> DEFINE e == Head(todo[s])
           x == BrokerKey[e.msg]
<1>1. /\ UNCHANGED <<rxWork, txQ, batch, server, answer, down, bleRxQueue>>
      /\ receivedMQTT' = Append(receivedMQTT, e.msg) \/ receivedMQTT' = receivedMQTT
  BY DEF MqttData
<1>2. e \in Event /\ Numbered(todo)' /\ Coming' \subseteq Coming
  BY <1>1, FirstToCome
<1>3. e.msg \in MqttMessage /\ AskedBy(e) = x
  BY <1>2, EventAsks
<1>4. x \in Coming /\ Before({x}, Coming')
  BY <1>1, <1>3, FirstToCome DEF Asking
<1> HIDE DEF e
<1>5. Before(Entered, {x})
  <2>1. Places[5] = Entered /\ Places[6] = Coming /\ Before(Places[5], Places[6])
    BY DEF Places, OrderInv, Ordered
  <2> QED BY <1>4, <2>1 DEF Before
<1>6. Rising(receivedMQTT, BrokerKey) /\ receivedMQTT \in Seq(MqttMessage)
  BY QueueTypes DEF OrderInv, QueuesInOrder
<1>7. Before(Keys(receivedMQTT, BrokerKey), {BrokerKey[e.msg]})
  BY <1>5 DEF Before, Entered
<1>8. /\ Rising(Append(receivedMQTT, e.msg), BrokerKey)
      /\ Keys(Append(receivedMQTT, e.msg), BrokerKey) = Keys(receivedMQTT, BrokerKey) \cup {x}
  BY <1>3, <1>6, <1>7, QueueAppend
<1> HIDE DEF x
<1>9. /\ Rising(receivedMQTT', BrokerKey)
      /\ Keys(receivedMQTT', BrokerKey) \subseteq Keys(receivedMQTT, BrokerKey) \cup {x}
  BY <1>1, <1>6, <1>8
<1>10. QueuesInOrder' /\ Entered' \subseteq Entered \cup {x}
  BY <1>1, <1>2, <1>9 DEF OrderInv, QueuesInOrder, Entered
<1> QED BY <1>1, <1>2, <1>4, <1>10, EnterOrder

(* The router sends up what another node has sent to this gateway: only its own *)
(* requests may be before that.                                              *)
LEMMA MeshUplinkOrder ==
    ASSUME NodeInv, OrderInv, NEW s \in DOMAIN todo, todo[s] # <<>>,
           todo' = [todo EXCEPT ![s] = Tail(todo[s])],
           Head(todo[s]).what = "uplink", UplinkFromMesh(Head(todo[s]).msg),
           UNCHANGED <<nmhVars, bleVars, mqttVars>>
    PROVE  OrderInv'
<1> DEFINE e == Head(todo[s])
           x == MsgKey[e.msg]
<1>1. /\ UNCHANGED <<rxVars, batch, server, answer, down, receivedMQTT>>
      /\ uplink(e.msg) \/ UNCHANGED txQ
  BY DEF UplinkFromMesh, mqttVars
<1>2. e \in Event /\ Numbered(todo)' /\ Coming' \subseteq Coming
  BY <1>1, FirstToCome
<1>3. e.msg \in OutgoingMessage /\ AskedBy(e) = x /\ x.source = "mesh"
  BY <1>2, EventAsks
<1>4. x \in Coming /\ Before({x}, Coming')
  BY <1>1, <1>3, FirstToCome DEF Asking
<1>5. Before(Called \cup Gone, {MsgKey[e.msg]})
  <2>1. Places[1] = Called \cup Gone /\ Places[6] = Coming /\ Before(Places[1], Places[6])
    BY DEF Places, OrderInv, Ordered
  <2> QED BY <1>4, <2>1 DEF Before
<1> HIDE DEF e
<1>6. Rising(Up', MsgKey) /\ Gone' \subseteq Gone \cup {x} /\ Called \cap Gone' = {}
  <2>1. CASE uplink(e.msg)
    BY <1>1, <1>3, <1>5, <2>1, UplinkOrder DEF OrderInv
  <2>2. CASE UNCHANGED txQ
    BY <1>1, <2>2 DEF OrderInv, Up, Gone
  <2> QED BY <1>1, <2>1, <2>2
<1> HIDE DEF x
<1>7. /\ Called' = Called /\ InHand' = InHand /\ Waiting' = Waiting
      /\ Working' = Working /\ Entered' = Entered /\ MeshFirst' = MeshFirst
      /\ UNCHANGED <<routerCalls, sendQueue>>
  BY <1>1 DEF Called, InHand, Waiting, Working, Entered, MeshFirst, nmhVars
<1>8. QueuesInOrder'
  BY <1>1, <1>2 DEF OrderInv, QueuesInOrder
<1>9. Before({x}, InHand) /\ Before({x}, Waiting) /\ Before({x}, Working) /\ Before({x}, Entered)
  <2>1. Before({x}, InHand) /\ Before({x}, Waiting)
    BY <1>3 DEF OrderInv, NoneOfMesh, Before
  <2>2. Before({x}, Working)
    BY <1>3, OtherSources, SourceAssumption
  <2>3. Before({x}, Entered)
    BY <1>3, Sources, SourceAssumption DEF Before, Entered
  <2> QED BY <2>1, <2>2, <2>3
<1>10. Ordered(Places')
  <2>1. /\ Places'[1] \subseteq Places[1] \cup {x}
        /\ Places'[2] = Places[2] /\ Before({x}, Places'[2])
        /\ Places'[3] = Places[3] /\ Before({x}, Places'[3])
        /\ Places'[4] = Places[4] /\ Before({x}, Places'[4])
        /\ Places'[5] = Places[5] /\ Before({x}, Places'[5])
        /\ Places'[6] \subseteq Places[6] /\ {x} \subseteq Places[6] /\ Before({x}, Places'[6])
    BY <1>2, <1>4, <1>6, <1>7, <1>9 DEF Places
  <2>2. \A i \in 1..6 : i # 1 => Places'[i] \subseteq Places[i]
    BY <2>1
  <2>3. Ordered(Places) /\ Places'[1] \subseteq Places[1] \cup {x}
    BY <2>1 DEF OrderInv
  <2>4. \A i \in 2..6 : Before({x}, Places'[i])
    BY <2>1
  <2> QED BY <2>2, <2>3, <2>4, FlowUp
<1> QED BY <1>6, <1>7, <1>8, <1>10 DEF OrderInv, NoneOfMesh

(* Nothing else that happens is a request. *)
LEMMA OtherEventOrder ==
    ASSUME NodeInv, OrderInv, NEW s \in DOMAIN todo, todo[s] # <<>>,
           todo' = [todo EXCEPT ![s] = Tail(todo[s])],
           UNCHANGED <<nmhVars, rxVars, receivedMQTT, txQ, syncVars>>
    PROVE  OrderInv'
<1>1. Numbered(todo)' /\ Coming' \subseteq Coming
  BY FirstToCome
<1>2. /\ Working' = Working /\ MeshFirst' = MeshFirst /\ Entered' = Entered
      /\ Up' = Up /\ Gone' = Gone
  BY DEF Working, MeshFirst, Entered, Up, Gone
<1>3. QueuesInOrder'
  BY <1>1 DEF OrderInv, QueuesInOrder
<1> QED BY <1>1, <1>2, <1>3, ShrinkOrder DEF OrderInv, nmhVars

(* Whatever happens to the node keeps the order. *)
LEMMA HappensOrder ==
    ASSUME NodeInv, OrderInv, Happens
    PROVE  OrderInv'
<1>1. PICK s \in DOMAIN todo :
          /\ todo[s] # <<>>
          /\ LET e == Head(todo[s])
             IN AtPhone(e) \/ AtWifi(e) \/ AtBroker(e) \/ AtRouter(e)
          /\ todo' = [todo EXCEPT ![s] = Tail(@)]
  BY DEF Happens
<1>2. todo' = [todo EXCEPT ![s] = Tail(todo[s])]
  BY <1>1
<1> DEFINE e == Head(todo[s])
<1>3. CASE AtPhone(e)
  <2>1. CASE e.what = "write" /\ onWrite(e.in)
    BY <1>1, <1>2, <1>3, <2>1, WriteOrder DEF AtPhone
  <2>2. CASE onConnect(e.handle) \/ onDisconnect(e.handle)
    BY <1>1, <1>2, <1>3, <2>2, OtherEventOrder DEF AtPhone, onConnect, onDisconnect, mqttVars
  <2> QED BY <1>3, <2>1, <2>2 DEF AtPhone
<1>4. CASE AtWifi(e)
  BY <1>1, <1>2, <1>4, OtherEventOrder DEF AtWifi, onWifiUp, onWifiDown, mqttVars
<1>5. CASE AtBroker(e)
  <2>1. CASE e.what = "mqttData" /\ MqttData(e.msg)
    BY <1>1, <1>2, <1>5, <2>1, PublishedOrder DEF AtBroker
  <2>2. CASE MqttConnected \/ MqttDisconnected \/ publish(e.action)
    BY <1>1, <1>2, <1>5, <2>2, OtherEventOrder DEF AtBroker, MqttConnected, MqttDisconnected, publish
  <2> QED BY <1>5, <2>1, <2>2 DEF AtBroker
<1>6. CASE AtRouter(e)
  <2>1. CASE e.what = "uplink" /\ UplinkFromMesh(e.msg) /\ UNCHANGED bleVars
    BY <1>1, <1>2, <1>6, <2>1, MeshUplinkOrder DEF AtRouter
  <2>2. CASE (notify(e.o) \/ park(e.o)) /\ UNCHANGED gwVars
    BY <1>1, <1>2, <1>6, <2>2, OtherEventOrder DEF AtRouter, notify, park, mqttVars
  <2>3. CASE setGatewayState("router", e.gateway) /\ UNCHANGED <<txQ, syncVars>>
    BY <1>1, <1>2, <1>6, <2>3, OtherEventOrder DEF AtRouter, setGatewayState, mqttVars
  <2> QED BY <1>6, <2>1, <2>2, <2>3 DEF AtRouter
<1> QED BY <1>1, <1>3, <1>4, <1>5, <1>6

(* So does every task. *)
LEMMA TasksOrder ==
    ASSUME NodeInv, OrderInv, Tasks
    PROVE  OrderInv'
<1>1. UNCHANGED todo
  BY DEF Tasks
<1>2. CASE BluetoothTasks /\ UNCHANGED <<gwVars, mqttVars>>
  BY <1>1, <1>2, BluetoothOrder
<1>3. CASE GatewayTasks /\ UNCHANGED mqttVars
  <2>1. CASE Register /\ UNCHANGED <<nmhVars, bleVars>>
    BY <1>1, <1>3, <2>1, OrderKept DEF Register, TestRegistered, registerNode, orderVars, nmhVars, mqttVars
  <2>2. CASE Synchronise /\ UNCHANGED <<nmhVars, bleVars>>
    BY <1>1, <1>3, <2>2, SynchroniseOrder
  <2>3. CASE wifiEventTask /\ UNCHANGED nmhVars
    BY <1>1, <1>3, <2>3, OrderKept DEF wifiEventTask, setGatewayState, orderVars, nmhVars, mqttVars
  <2>4. CASE SendToGateway /\ UNCHANGED bleVars
    BY <1>1, <1>3, <2>4, ProcessQueueOrder
  <2>5. CASE (\E d \in ToSet(answer) : ShowDown(d)) /\ UNCHANGED nmhVars
    BY <1>1, <1>3, <2>5, DownOrder
  <2>6. CASE /\ \E d \in ToSet(answer) : DownToMesh(d)
             /\ UNCHANGED <<sending, routerCalls, bleVars>>
    BY <1>1, <1>3, <2>6, DownOrder
  <2> QED BY <1>3, <2>1, <2>2, <2>3, <2>4, <2>5, <2>6 DEF GatewayTasks
<1>4. CASE MqttTasks /\ UNCHANGED <<bleVars, gwVars>>
  BY <1>1, <1>4, MqttOrder
<1>5. CASE (SenderTask \/ processQueue) /\ UNCHANGED <<bleVars, gwVars, mqttVars>>
  BY <1>1, <1>5, SenderTaskOrder, ProcessQueueOrder
<1> QED BY <1>2, <1>3, <1>4, <1>5 DEF Tasks

(* At first there are only the scripts and what the server has. *)
LEMMA OrderInit ==
    ASSUME NodeInv, Init
    PROVE  OrderInv
<1>1. PICK w \in Workloads : BleInit(w.sessions) /\ GatewayInit(w.down) /\ todo = w.scripts
  BY DEF Init
<1>2. /\ sendQueue = <<>> /\ sending = Nothing /\ routerCalls = <<>>
      /\ receivedMQTT = <<>> /\ bleRxQueue = <<>> /\ rxWork = <<>>
      /\ txQ = <<>> /\ batch = <<>> /\ server = <<>> /\ answer = <<>> /\ down = w.down
  BY <1>1 DEF Init, HandlerInit, MqttInit, BleInit, GatewayInit
<1>3. Joined(<<>>, <<>>, <<>>) = <<>>
  BY EmptySeq DEF Joined
<1>4. Up = <<>>
  BY <1>2, <1>3 DEF Up
<1>5. /\ Rising(routerCalls, CallKey) /\ Called = {}
      /\ Rising(Up, MsgKey) /\ Gone = {}
      /\ Rising(sendQueue, MsgKey) /\ Waiting = {}
      /\ Rising(bleRxQueue, PhoneKey) /\ Keys(bleRxQueue, PhoneKey) = {}
      /\ Rising(receivedMQTT, BrokerKey) /\ Keys(receivedMQTT, BrokerKey) = {}
      /\ Rising(answer, DownKey) /\ Keys(answer, DownKey) = {}
  BY <1>2, <1>4, QueueEmpty DEF Called, Gone, Waiting
<1>6. InHand = {} /\ Working = {} /\ MeshFirst
  BY <1>2 DEF InHand, Working, MeshFirst
<1>7. Entered = {}
  BY <1>5 DEF Entered
<1>8. Numbered(todo) /\ \A i, j \in DOMAIN down : i < j => down[i].seq < down[j].seq
  BY <1>1, <1>2, NumberingAssumption
<1>9. Rising(down, DownKey)
  <2>1. \A i \in DOMAIN down : DownKey[down[i]] = [source |-> "server", seq |-> down[i].seq]
    BY QueueTypes, KeyOf
  <2> SUFFICES ASSUME NEW i \in DOMAIN down, NEW j \in DOMAIN down, i < j
               PROVE  DownKey[down[i]].seq < DownKey[down[j]].seq
    BY DEF Rising
  <2> DEFINE c == down[i]
             d == down[j]
  <2>2. c.seq < d.seq
    BY <1>8
  <2>3. DownKey[c] = [source |-> "server", seq |-> c.seq]
    BY <2>1
  <2>4. DownKey[d] = [source |-> "server", seq |-> d.seq]
    BY <2>1
  <2> QED BY <2>2, <2>3, <2>4
<1>10. Ordered(Places)
  <2>1. /\ Places[1] = {} /\ Places[2] = {} /\ Places[3] = {} /\ Places[4] = {} /\ Places[5] = {}
    BY <1>5, <1>6, <1>7 DEF Places
  <2>2. \A i, j \in 1..6 : i < j => Places[i] = {}
    BY <2>1
  <2> QED BY <2>2 DEF Ordered, Before
<1> QED BY <1>5, <1>6, <1>8, <1>9, <1>10 DEF OrderInv, QueuesInOrder, NoneOfMesh

(* Every step keeps the order.                                               *)
LEMMA OrderStep ==
    ASSUME NodeInv, OrderInv, [Next]_vars
    PROVE  OrderInv'
<1>1. CASE Happens
  BY <1>1, HappensOrder
<1>2. CASE Tasks
  BY <1>2, TasksOrder
<1>3. CASE UNCHANGED vars
  BY <1>3, OrderKept DEF vars, orderVars, nmhVars, mqttVars
<1> QED BY <1>1, <1>2, <1>3 DEF Next

(* It holds in every reachable state.                                        *)
LEMMA OrderInvariant == Spec => []OrderInv
<1>1. Init => OrderInv
  BY NodeInvInit, OrderInit
<1>2. NodeInv /\ OrderInv /\ [Next]_vars => OrderInv'
  BY OrderStep
<1> QED BY <1>1, <1>2, NodeInvariant, PTL DEF Spec

(* What one phone, the broker or the server asks for reaches the router in the  *)
(* order it was asked for, and once at most: whatever the lengths of the     *)
(* queues, however the tasks interleave, and whatever is dropped.            *)
THEOREM RequestsInOrder == Spec => []RequestsKeepOrder
<1>1. NodeInv /\ OrderInv => RequestsKeepOrder
  <2> SUFFICES ASSUME NodeInv, OrderInv, NEW i \in DOMAIN routerCalls, NEW j \in DOMAIN routerCalls,
                      i < j, routerCalls[i].msg.source = routerCalls[j].msg.source
               PROVE  routerCalls[i].msg.seq < routerCalls[j].msg.seq
    BY DEF RequestsKeepOrder
  <2> DEFINE c == routerCalls[i]
             d == routerCalls[j]
  <2>1. c \in RouterCall /\ d \in RouterCall
    BY DEF NodeInv, HandlerTypeOK
  <2>2. /\ CallKey[c] = [source |-> c.msg.source, seq |-> c.msg.seq]
        /\ CallKey[d] = [source |-> d.msg.source, seq |-> d.msg.seq]
    BY <2>1 DEF CallKey
  <2>3. CallKey[c].source = CallKey[d].source
    BY <2>2
  <2>4. CallKey[c].seq < CallKey[d].seq
    BY <2>3 DEF OrderInv, Rising
  <2> QED BY <2>2, <2>4
<1> QED BY <1>1, NodeInvariant, OrderInvariant, PTL

(* The server gets nothing twice, and nothing that went into the mesh as well: *)
(* between the queue, the batch and the server a message is in one place.    *)
THEOREM UplinksOnce == Spec => []UplinkedOnce
<1>1. NodeInv /\ OrderInv => UplinkedOnce
  <2> SUFFICES ASSUME NodeInv, OrderInv
               PROVE  UplinkedOnce
    OBVIOUS
  <2> DEFINE q == server \o batch \o txQ
  <2>1. q = Up /\ q \in Seq(OutgoingMessage)
    BY QueueTypes, ConcatTyped DEF Up, Joined
  <2> HIDE DEF q
  <2>2. \A i \in DOMAIN q : q[i] \in OutgoingMessage
    BY <2>1
  <2>3. \A i \in DOMAIN q : MsgKey[q[i]].seq \in Nat
    BY <2>2, KeyTyped
  <2>4. \A i, j \in DOMAIN q : i < j => q[i] # q[j]
    <3> SUFFICES ASSUME NEW i \in DOMAIN q, NEW j \in DOMAIN q, i < j, q[i] = q[j]
                 PROVE  FALSE
      OBVIOUS
    <3>1. MsgKey[q[i]].seq < MsgKey[q[j]].seq
      BY <2>1 DEF OrderInv, Rising
    <3> QED BY <2>3, <3>1
  <2>5. IsInjective(q)
    <3>1. \A i, j \in DOMAIN q : i # j => i < j \/ j < i
      BY <2>1
    <3> QED BY <2>4, <3>1 DEF IsInjective
  <2>6. \A i \in DOMAIN routerCalls : routerCalls[i].msg \notin ToSet(q)
    <3> SUFFICES ASSUME NEW i \in DOMAIN routerCalls, NEW k \in DOMAIN q,
                        routerCalls[i].msg = q[k]
                 PROVE  FALSE
      BY DEF ToSet
    <3>1. routerCalls[i] \in RouterCall
      BY DEF NodeInv, HandlerTypeOK
    <3>2. CallKey[routerCalls[i]] = MsgKey[q[k]]
      BY <3>1, KeyOf
    <3>3. CallKey[routerCalls[i]] \in Called /\ MsgKey[q[k]] \in Gone
      BY <2>1 DEF Called, Gone, Keys
    <3> QED BY <3>2, <3>3 DEF OrderInv
  <2> QED BY <2>5, <2>6 DEF UplinkedOnce, q
<1> QED BY <1>1, NodeInvariant, OrderInvariant, PTL

=============================================================================
