----------------------------- MODULE MQTTManager -----------------------------
(***************************************************************************)
(* MQTTManager of one node: what the node reports to the simulator, and    *)
(* what the simulator injects.  The client's event handler fills one queue,*)
(* the tasks of the node the other; each has a task that empties it.       *)
(***************************************************************************)
EXTENDS NetworkMessageHandler

CONSTANTS
    MQTT_LENGTH,  \* length of either queue (10)
    RX_LENGTH     \* length of the radio's receive queue

ASSUME MqttAssumption == MQTT_LENGTH \in Nat \ {0} /\ RX_LENGTH \in Nat \ {0}

(* A message of the broker: a packet for the radio, a text to send, or a text  *)
(* that is not JSON.                                                         *)
MqttMessage == [topic : {"process", "send", "garbled"}, seq : Nat]

(* ACTION_MESSAGE, ACTION_UPDATE_ROUTE, ACTION_INVALIDATE_ROUTE, ACTION_USER_ADDED *)
Action == {"message", "update route", "invalidate route", "user added"}

VARIABLES
    connected,    \* connected; the subscriptions are made when it is set
    receivedMQTT, \* receivedMQTTMessageQueue
    sendMQTT,     \* sendMQTTMessageQueue
    published,    \* history: what the broker has got
    radioRx       \* packets handed to the radio manager's receive queue

mqttVars == <<connected, receivedMQTT, sendMQTT, published, radioRx>>

MqttTypeOK ==
    /\ connected \in BOOLEAN
    /\ receivedMQTT \in Seq(MqttMessage)
    /\ Len(receivedMQTT) <= MQTT_LENGTH
    /\ sendMQTT \in Seq(Action)
    /\ Len(sendMQTT) <= MQTT_LENGTH
    /\ published \in Seq(Action \cup {"register"})
    /\ radioRx \in Seq(Nat)
    /\ Len(radioRx) <= RX_LENGTH

MqttInit ==
    /\ connected = FALSE
    /\ receivedMQTT = <<>>
    /\ sendMQTT = <<>>
    /\ published = <<>>
    /\ radioRx = <<>>

(* mqttEventHandler *)
MqttConnected ==
    /\ connected' = TRUE
    /\ published' = Append(published, "register")
    /\ UNCHANGED <<receivedMQTT, sendMQTT, radioRx>>

MqttDisconnected ==
    /\ connected' = FALSE
    /\ UNCHANGED <<receivedMQTT, sendMQTT, published, radioRx>>

(* The broker sends what was subscribed to. *)
MqttData(msg) ==
    /\ connected
    /\ receivedMQTT' = IF Len(receivedMQTT) < MQTT_LENGTH THEN Append(receivedMQTT, msg)
                                                          ELSE receivedMQTT
    /\ UNCHANGED <<connected, sendMQTT, published, radioRx>>

(* publishPacket, publishUpdateRoute, publishInvalidateRoute, publishUserAdded *)
publish(action) ==
    /\ sendMQTT' = IF connected /\ Len(sendMQTT) < MQTT_LENGTH THEN Append(sendMQTT, action)
                                                              ELSE sendMQTT
    /\ UNCHANGED <<connected, receivedMQTT, published, radioRx>>

(* publishMessage: without a connection, a message of QoS 0 is lost. *)
sendMQTTQueueTask ==
    /\ sendMQTT # <<>>
    /\ sendMQTT' = Tail(sendMQTT)
    /\ published' = IF connected THEN Append(published, Head(sendMQTT)) ELSE published
    /\ UNCHANGED <<connected, receivedMQTT, radioRx>>

(* processMessage *)
InjectPacket ==
    /\ receivedMQTT # <<>>
    /\ Head(receivedMQTT).topic = "process"
    /\ receivedMQTT' = Tail(receivedMQTT)
    /\ radioRx' = IF Len(radioRx) < RX_LENGTH THEN Append(radioRx, Head(receivedMQTT).seq)
                                              ELSE radioRx
    /\ UNCHANGED <<connected, sendMQTT, published>>

InjectMessage ==
    /\ receivedMQTT # <<>>
    /\ Head(receivedMQTT).topic = "send"
    /\ receivedMQTT' = Tail(receivedMQTT)
    /\ enqueueMessage([kind |-> "NODE", flags |-> "NONE", source |-> "broker",
                       seq |-> Head(receivedMQTT).seq])
    /\ UNCHANGED <<connected, sendMQTT, published, radioRx>>

DropGarbled ==
    /\ receivedMQTT # <<>>
    /\ Head(receivedMQTT).topic = "garbled"
    /\ receivedMQTT' = Tail(receivedMQTT)
    /\ UNCHANGED <<connected, sendMQTT, published, radioRx>>

MqttTasks ==
    \/ (sendMQTTQueueTask \/ InjectPacket \/ DropGarbled) /\ UNCHANGED nmhVars
    \/ InjectMessage /\ UNCHANGED <<sending, routerCalls>>

=============================================================================
