------------------------ MODULE NetworkMessageHandler ------------------------
(***************************************************************************)
(* NetworkMessageHandler of one node: the queue of what the phones, the    *)
(* server and the MQTT broker want sent, and the task that takes it to the *)
(* router one by one.  Here the router only receives the calls: what it    *)
(* does with them is the subject of AodvRouter and UserRouting.            *)
(***************************************************************************)
EXTENDS Integers, FiniteSets, SequencesExt

CONSTANTS
    Handle,         \* connection handles of phones
    QUEUE_LENGTH,   \* messages the queue holds (10)
    Nothing         \* a task with nothing in hand

ASSUME QueueAssumption == QUEUE_LENGTH \in Nat \ {0}

(* Who asks for something: a phone, the simulator, the server, or another node *)
(* of the mesh.                                                              *)
Source == Handle \cup {"broker", "server", "mesh"}

ASSUME SourceAssumption == Handle \cap {"broker", "server", "mesh"} = {}

MsgKind == {"NODE", "USER", "TO_GATEWAY", "FROM_GATEWAY", "REQ_PUB_KEY", "ENC_USER",
            "MOVE_USER_REQ"}

(* What is asked for: the seq-th request of its source.  The destination and   *)
(* the text do not matter here.                                              *)
OutgoingMessage ==
    [kind : MsgKind,
     flags : {"NONE", "REQ_ACK", "ENC_MSG", "ENC_ACK", "TO_GATEWAY", "FROM_GATEWAY"},
     source : Source,
     seq : Nat]

VARIABLES
    sendQueue,    \* _sendQueue
    sending,      \* the message SenderTask is working on, or Nothing
    routerCalls   \* history: the calls of the router, with their messages

nmhVars == <<sendQueue, sending, routerCalls>>

RouterCall == [call : {"sendData", "sendUserMessage", "sendPubKeyReq", "sendMoveUserReq"},
               msg : OutgoingMessage]

HandlerTypeOK ==
    /\ sendQueue \in Seq(OutgoingMessage)
    /\ Len(sendQueue) <= QUEUE_LENGTH
    /\ sending \in OutgoingMessage \cup {Nothing}
    /\ routerCalls \in Seq(RouterCall)

HandlerInit ==
    /\ sendQueue = <<>>
    /\ sending = Nothing
    /\ routerCalls = <<>>

(* The caller waits for room, but not longer than 100 ms: then the message is  *)
(* dropped, and no caller but the MQTT task looks at the result.             *)
enqueueMessage(msg) ==
    IF Len(sendQueue) < QUEUE_LENGTH THEN sendQueue' = Append(sendQueue, msg)
                                     ELSE UNCHANGED sendQueue

SenderTask ==
    /\ sending = Nothing
    /\ sendQueue # <<>>
    /\ sending' = Head(sendQueue)
    /\ sendQueue' = Tail(sendQueue)
    /\ UNCHANGED routerCalls

CallOf(msg) ==
    CASE msg.kind = "NODE" -> "sendData"
      [] msg.kind = "REQ_PUB_KEY" -> "sendPubKeyReq"
      [] msg.kind = "MOVE_USER_REQ" -> "sendMoveUserReq"
      [] OTHER -> "sendUserMessage"

CallRouter(msg) ==
    routerCalls' = Append(routerCalls, [call |-> CallOf(msg), msg |-> msg])

(* processQueue, for what goes to the router. *)
processQueue ==
    /\ sending # Nothing
    /\ sending.kind # "TO_GATEWAY"
    /\ CallRouter(sending)
    /\ sending' = Nothing
    /\ UNCHANGED sendQueue

=============================================================================
