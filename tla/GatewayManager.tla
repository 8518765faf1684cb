--------------------------- MODULE GatewayManager ----------------------------
(***************************************************************************)
(* GatewayManager of one node: the Wi-Fi events, the registration with the *)
(* server, the queue of what is to go up, and the synchronisation that     *)
(* takes it there and brings down what the server has.  Its tasks:         *)
(*   - the Wi-Fi event handler sets and clears the bits of an event group  *)
(*     (onWifiUp, onWifiDown) and starts a GW-REG task while the node is   *)
(*     not registered;                                                     *)
(*   - wifiEventTask tells the phones of the edges;                        *)
(*   - syncTask posts what is queued.                                      *)
(* SenderTask of NetworkMessageHandler fills the queue.                    *)
(***************************************************************************)
EXTENDS BluetoothManager

CONSTANTS
    UPLINK_LENGTH,  \* length of _txQ (30)
    BATCH           \* messages in a POST (10)

ASSUME GatewayAssumption == UPLINK_LENGTH \in Nat \ {0} /\ BATCH \in Nat \ {0}

(* What the server wants sent down: the seq-th message, for a user. *)
Downlink == [to : User, seq : Nat]

VARIABLES
    wifiReady,   \* WIFI_READY
    edges,       \* GW_EVT_ON and GW_EVT_OFF
    registered,  \* _registered
    checking,    \* the GW-REG tasks about to test _registered
    registering, \* the GW-REG tasks whose POST is under way
    txQ,         \* _txQ
    accepted,    \* history: the messages it has taken
    syncStep,    \* where syncTask is
    batch,       \* what it has taken out of the queue
    answer,      \* the messages down of the server's answer
    server,      \* history: the messages the server has got
    failed,      \* history: the messages of POSTs that failed
    down,        \* what the server has for the users behind this gateway
    offered,     \* history: all that it had for them
    unread,      \* history: the messages down of answers that could not be read
    handed,      \* history: those that had their turn in the loop over the answer
    gatewayInMesh \* haveGateway of the router

linkVars == <<wifiReady, edges>>
regVars == <<registered, checking, registering>>
upVars == <<txQ, accepted>>
serverVars == <<server, failed, down, offered, unread>>
syncVars == <<syncStep, batch, answer, handed, serverVars>>
gwVars == <<linkVars, regVars, upVars, syncVars, gatewayInMesh>>

GatewayTypeOK ==
    /\ wifiReady \in BOOLEAN
    /\ edges \subseteq {"on", "off"}
    /\ registered \in BOOLEAN
    /\ checking \in Nat
    /\ registering \in Nat
    /\ txQ \in Seq(OutgoingMessage)
    /\ Len(txQ) <= UPLINK_LENGTH
    /\ accepted \subseteq OutgoingMessage
    /\ syncStep \in {"wait", "check", "batch", "post", "answer", "down", "show"}
    /\ batch \in Seq(OutgoingMessage)
    /\ Len(batch) <= BATCH
    /\ answer \in Seq(Downlink)
    /\ server \in Seq(OutgoingMessage)
    /\ failed \subseteq OutgoingMessage
    /\ down \in Seq(Downlink)
    /\ offered \subseteq Downlink
    /\ unread \subseteq Downlink
    /\ handed \subseteq Downlink
    /\ gatewayInMesh \in BOOLEAN

GatewayInit(waiting) ==
    /\ wifiReady = FALSE
    /\ edges = {}
    /\ registered = FALSE
    /\ checking = 0
    /\ registering = 0
    /\ txQ = <<>>
    /\ accepted = {}
    /\ syncStep = "wait"
    /\ batch = <<>>
    /\ answer = <<>>
    /\ server = <<>>
    /\ failed = {}
    /\ down = waiting
    /\ offered = ToSet(waiting)
    /\ unread = {}
    /\ handed = {}
    /\ gatewayInMesh = FALSE

-----------------------------------------------------------------------------
(* Wi-Fi events.  An access point that is found and an address that is got    *)
(* are two of them.                                                          *)
onWifiUp ==
    /\ wifiReady' = TRUE
    /\ edges' = edges \cup {"on"}
    /\ checking' = IF registered THEN checking ELSE checking + 1
    /\ UNCHANGED <<registered, registering, upVars, syncVars, gatewayInMesh>>

onWifiDown ==
    /\ wifiReady' = FALSE
    /\ edges' = edges \cup {"off"}
    /\ UNCHANGED <<regVars, upVars, syncVars, gatewayInMesh>>

(* Mutant: the task ends after a failed attempt. *)
AfterFailure(n) == n

RetryAfterFailure(n) == n + 1

(* A GW-REG task: while not registered, POST and wait 2 s. *)
TestRegistered ==
    /\ checking > 0
    /\ checking' = checking - 1
    /\ registering' = IF registered THEN registering ELSE registering + 1
    /\ UNCHANGED <<linkVars, registered, upVars, syncVars, gatewayInMesh>>

registerNode ==
    /\ registering > 0
    /\ registering' = registering - 1
    /\ \/ registered' = TRUE /\ UNCHANGED checking
       \/ UNCHANGED registered /\ checking' = RetryAfterFailure(checking)
    /\ UNCHANGED <<linkVars, upVars, syncVars, gatewayInMesh>>

(* When both edges have been raised, the phones are told that it is up. *)
wifiEventTask ==
    /\ edges # {}
    /\ edges' = {}
    /\ setGatewayState("wifi", "on" \in edges)
    /\ UNCHANGED <<wifiReady, regVars, upVars, syncVars, gatewayInMesh>>

-----------------------------------------------------------------------------
(* What is to go up. *)

isOnline == registered /\ wifiReady

(* Mutant: the queue takes everything. *)
uplinkUnbounded(msg) == txQ' = Append(txQ, msg) /\ accepted' = accepted \cup {msg}

(* A message that finds the queue full is dropped at once. *)
uplink(msg) ==
    IF Len(txQ) < UPLINK_LENGTH THEN /\ txQ' = Append(txQ, msg)
                                     /\ accepted' = accepted \cup {msg}
                                ELSE UNCHANGED upVars

(* processQueue, for what is to leave the mesh. *)
SendToGateway ==
    /\ sending # Nothing
    /\ sending.kind = "TO_GATEWAY"
    /\ sending' = Nothing
    /\ IF isOnline THEN uplink(sending) /\ UNCHANGED routerCalls
       ELSE /\ IF gatewayInMesh THEN CallRouter(sending) ELSE UNCHANGED routerCalls
            /\ UNCHANGED upVars
    /\ UNCHANGED <<sendQueue, linkVars, regVars, syncVars, gatewayInMesh>>

(* handleUserMessage of the router, for a message sent to this gateway. *)
UplinkFromMesh(msg) ==
    /\ IF isOnline THEN uplink(msg) ELSE UNCHANGED upVars
    /\ UNCHANGED <<linkVars, regVars, syncVars, gatewayInMesh>>

-----------------------------------------------------------------------------
(* syncTask and oneSync. *)

Steps(from, to) == syncStep = from /\ syncStep' = to

SyncWaits ==
    /\ wifiReady
    /\ Steps("wait", "check")
    /\ UNCHANGED <<linkVars, regVars, upVars, batch, answer, handed, serverVars, gatewayInMesh>>

SyncChecks ==
    /\ Steps("check", IF registered THEN "batch" ELSE "wait")
    /\ UNCHANGED <<linkVars, regVars, upVars, batch, answer, handed, serverVars, gatewayInMesh>>

(* Mutant: the message is read, and stays in the queue. *)
PeekUplink == txQ' = txQ

PopUplink == txQ' = Tail(txQ)

TakeForBatch ==
    /\ syncStep = "batch"
    /\ txQ # <<>>
    /\ Len(batch) < BATCH
    /\ batch' = Append(batch, Head(txQ))
    /\ PopUplink
    /\ UNCHANGED <<linkVars, regVars, accepted, syncStep, answer, handed, serverVars,
                   gatewayInMesh>>

(* Mutant: a batch waits until it is full. *)
BatchIsFull == Len(batch) = BATCH

BatchIsComplete == txQ = <<>> \/ Len(batch) = BATCH

EndBatch ==
    /\ BatchIsComplete
    /\ Steps("batch", "post")
    /\ UNCHANGED <<linkVars, regVars, upVars, batch, answer, handed, serverVars, gatewayInMesh>>

(* The POST may not arrive, or not be answered by 200: what it carried has      *)
(* left the queue and is not put back.                                       *)
PostIsLost ==
    /\ Steps("post", "wait")
    /\ failed' = failed \cup ToSet(batch)
    /\ batch' = <<>>
    /\ UNCHANGED <<linkVars, regVars, upVars, answer, handed, server, down, offered, unread,
                   gatewayInMesh>>

PostArrives ==
    /\ wifiReady
    /\ Steps("post", "answer")
    /\ server' = server \o batch
    /\ batch' = <<>>
    /\ answer' = down
    /\ down' = <<>>
    /\ UNCHANGED <<linkVars, regVars, upVars, handed, failed, offered, unread, gatewayInMesh>>

(* The answer may not arrive, or may not be JSON. *)
AnswerIsLost ==
    /\ Steps("answer", "wait")
    /\ unread' = unread \cup ToSet(answer)
    /\ answer' = <<>>
    /\ UNCHANGED <<linkVars, regVars, upVars, batch, handed, server, failed, down, offered,
                   gatewayInMesh>>

AnswerArrives ==
    /\ Steps("answer", "down")
    /\ UNCHANGED <<linkVars, regVars, upVars, batch, answer, handed, serverVars, gatewayInMesh>>

(* The loop over the messages down. *)
HandsOn(d) ==
    /\ answer # <<>>
    /\ d = Head(answer)
    /\ answer' = Tail(answer)
    /\ handed' = handed \cup {d}
    /\ UNCHANGED <<linkVars, regVars, upVars, batch, serverVars, gatewayInMesh>>

UserIsOnline(u) == getBleHandle(u) # INVALID_HANDLE

(* A message for a user whose phone is away is dropped ("TODO store"). *)
DownToAbsent(d) ==
    /\ Steps("down", "down")
    /\ d.to \in DOMAIN handleOf
    /\ ~UserIsOnline(d.to)
    /\ HandsOn(d)

DownToPhone ==
    /\ Steps("down", "show")
    /\ answer # <<>>
    /\ UserIsOnline(Head(answer).to)
    /\ UNCHANGED <<linkVars, regVars, upVars, batch, answer, handed, serverVars, gatewayInMesh>>

(* isOnline has said yes; the handle is looked up now. *)
ShowDown(d) ==
    /\ Steps("show", "down")
    /\ HandsOn(d)
    /\ notify([type |-> "BLE_USER_GATEWAY", to |-> d.to, text |-> d.seq])

(* A message for a user this node does not know goes to the mesh. *)
DownToMesh(d) ==
    /\ Steps("down", "down")
    /\ d.to \notin DOMAIN handleOf
    /\ HandsOn(d)
    /\ enqueueMessage([kind |-> "FROM_GATEWAY", flags |-> "FROM_GATEWAY",
                       source |-> "server", seq |-> d.seq])

(* Mutant: the first message of an answer is the last. *)
FirstIsDown == TRUE

AllIsDown == answer = <<>>

DownDone ==
    /\ AllIsDown
    /\ Steps("down", "wait")
    /\ UNCHANGED <<linkVars, regVars, upVars, batch, answer, handed, serverVars, gatewayInMesh>>

Register == TestRegistered \/ registerNode

(* The steps of syncTask that change nothing but the gateway manager. *)
Synchronise ==
    \/ SyncWaits
    \/ SyncChecks
    \/ TakeForBatch
    \/ EndBatch
    \/ PostIsLost
    \/ PostArrives
    \/ AnswerIsLost
    \/ AnswerArrives
    \/ \E d \in ToSet(answer) : DownToAbsent(d)
    \/ DownToPhone
    \/ DownDone

GatewayTasks ==
    \/ (Register \/ Synchronise) /\ UNCHANGED <<nmhVars, bleVars>>
    \/ wifiEventTask /\ UNCHANGED nmhVars
    \/ SendToGateway /\ UNCHANGED bleVars
    \/ (\E d \in ToSet(answer) : ShowDown(d)) /\ UNCHANGED nmhVars
    \/ (\E d \in ToSet(answer) : DownToMesh(d))
          /\ UNCHANGED <<sending, routerCalls, bleVars>>

=============================================================================
