# Verification of the mesh firmware

This directory holds TLA+ models of the ESP32 LoRa mesh node in `src/src/`, the TLC runs
that check them on small meshes, and proofs for every mesh. Paths below are relative to
`src/src/` unless they start with another directory.

## 1. The system

A node is one ESP32 with an SX1262 LoRa radio. Phones connect to it over BLE, nodes talk to
each other over the radio, and a node with Wi-Fi is a gateway to a server. Everything runs
as FreeRTOS tasks that share state under mutexes and pass work through queues.

| Component | State | Operations | Talks to |
|---|---|---|---|
| **AODVRouter**, node to node (`aodvRouter.cpp`, `packet.h`) | route table, seen packet identifiers, data buffer, ACK buffer | `handlePacket` and the handlers of RREQ, RREP, RERR, DATA, ACK; `sendData`; `cleanupAckBuffer` | RadioManager (both queues), BluetoothManager (`notify`) |
| **AODVRouter**, users (same files) | GUT (user -> node), user message buffers, gateways, public keys | handlers of UREQ, UREP, UERR, USER_MSG, MOVE_USER_REQ, BROADCAST_INFO, PUBKEY_*; `sendUserMessage`, `sendBroadcastInfo` | route table, UserSessionManager, GatewayManager |
| **RadioManager** (`radioManager.cpp`) | transmit and receive queues of 10, `_isTransmitting`, two semaphores | `txTask` (CSMA back-off), `radioTask`, `dio1Isr` | SX1262, router |
| **UserSessionManager** (`userSessionManager.*`) | users, inboxes of 10, changes not announced yet, reader-writer lock | add, disconnect, remove, queue and pop inbox, take changes | router, BLE, gateway |
| **GatewayManager** (`gatewayManager.cpp`) | uplink queue of 30, event bits, registration | `uplink`, `oneSync`, `wifiEventTask`, GW-REG tasks, Wi-Fi events | server, NetworkMessageHandler, BluetoothManager |
| **NetworkMessageHandler** (`networkMessageHandler.cpp`) | queue of 10 | `enqueueMessage`, `processQueue` | router, GatewayManager |
| **BluetoothManager** (`bluetoothManager.cpp`) | connections, queues of 20 in both directions, the RX characteristic, the gateway flag | `notify`, `setGatewayState`, `bleTxWorker`, `bleRxWorker` with `processIncomingMessage` | phones, UserSessionManager, NetworkMessageHandler |
| **MQTTManager** (`mqttManager.cpp`) | queues of 10 in both directions, `connected` | event handler, `publishPacket` and its likes, `processMessage` | broker, NetworkMessageHandler, RadioManager |
| **crypto**, **wifiManager**, **DisplayManager**, `main.cpp` | - | AES-GCM, start-up and Wi-Fi events, screen | - |
| `pingPongRouter`, `LoRaManager.h` | - | earlier prototypes, not started | - |

What makes it hard: every router has three tasks in it at once (router task, application
task, timer worker) and takes its mutex once per helper, not once per operation; the medium
loses, repeats and reorders; the protocol is AODV *without* sequence numbers and without a
hop limit on route requests; packets are retransmitted while their acknowledgement may be
on its way; and a node that reboots keeps nothing. The homes of users are caches that only
broadcasts correct, while users move and messages for them wait at three kinds of places. Around
the router a node has some ten more tasks, which share queues that drop, one characteristic and two flags.

What makes each part correct:

- **routing**: a route never promises what the topology does not have; routes do not loop;
  a data packet on its way can always be served; floods end.
- **acknowledgement**: a phone sees a packet once, only where it was sent, and gets one
  verdict; no packet stays pending for ever; a packet is given up only when the next hop has it.
- **users**: a message is in one place at a time, however often it is parked, moved or sent again; what
  is learnt on the side keeps the routes truthful and in order; a move leaves nothing behind.
- **radio**: at most one transmission at a time, the radio listens when it does not send, no
  task waits for ever.
- **sessions**: readers exclude writers and nobody waits for ever; no message is duplicated; the
  mesh is told of every change.
- **tasks of a node**: requests reach the router in order; what is queued for one phone is not shown on another
  (with exceptions, see `PrivateStaysPrivate` in section 3); the server gets nothing twice, and what it does not get was in a
  POST that failed; a node goes on registering; phones know whether there is a gateway.

`PROJECT.json` lists each hazard at the line where it bites, with the properties that would
catch it.

## 2. Modules

| Module | What it is |
|---|---|
| `AodvRouter` | the node-to-node plane of AODVRouter on every node, and the medium |
| `PhoneService` | abstract: what the phones may rely on |
| `AodvProperties` | the invariants, action and liveness properties of `AodvRouter`, and the refinement of `PhoneService` |
| `MC_Aodv` | topologies, workloads, initial states for TLC |
| `AodvProofs` | type correctness of the node plane; hop counts never underestimate, routes do not loop, data is served, floods end; the lemmas about frames the others share |
| `AodvPhoneProofs` | `AodvRouter` implements `PhoneService` |
| `RadioManager` | the transmit and receive tasks of one node, its interrupt routine and its radio, with their properties |
| `RadioProofs` | type correctness and the safety invariants of `RadioManager` |
| `SessionLock` | the reader-writer lock of UserSessionManager, for any set of tasks |
| `SessionLockProofs` | the lock excludes |
| `UserSessions` | the tables of UserSessionManager and the tasks of one node that use them |
| `MC_Sessions` | the recipients, for TLC |
| `UserSessionProofs` | type correctness, the changes to be broadcast, the move of a user, no message twice |
| `UserRouting` | the whole of AODVRouter: EXTENDS `AodvRouter` by the user plane, on every node |
| `UserProperties` | the properties of `UserRouting` |
| `MC_Users` | topologies and scripts for TLC |
| `UserProofs` | type correctness of `UserRouting`, both planes together, and the lemmas about its frames and handlers |
| `UserRouteProofs` | hop counts never underestimate and routes keep their order, with both planes writing the table; a user message is in one place at a time |
| `NetworkMessageHandler` | the application task of one node and its queue |
| `BluetoothManager` | phones, their two queues and workers; EXTENDS `NetworkMessageHandler` |
| `GatewayManager` | registration, uplink queue and synchronisation; EXTENDS `BluetoothManager` |
| `MQTTManager` | telemetry and injected messages; EXTENDS `NetworkMessageHandler` |
| `NodeApplication` | composes these four: the tasks of one node around its router, with their properties |
| `MC_Node` | scripts for TLC |
| `NodeProofs` | type correctness, which phone is shown what, registration, the order of requests and single uplinks of `NodeApplication` |

The modules meet where the code does:

- `RadioManager` counts packets and knows nothing of their contents; `AodvRouter` and `UserRouting` see a queue that
  may refuse a frame and a medium that may lose it.
- `UserRouting` is `AodvRouter` with more frames, more handlers and more variables: its `UserHandlePacket` is
  `handlePacket` of `AodvRouter` where the frame is one of the node plane, and its application and timer tasks are those of
  `AodvRouter`.
- `NodeApplication` ends where the router is called (`routerCalls`) and called back (the events `broadcast`, `notify`,
  `park`, `uplink`); the scripts of `UserRouting` begin with these calls (`Outside`).
- `SessionLock` is what makes a call of UserSessionManager one step in `UserSessions`: only the two halves of the argument
  together, exclusion (proved) and the absence of waiting for ever (checked), say so. What lies between two
  such calls is the subject of `UserSessions`; `UserRouting` takes the calls of one handler together;
  `NodeApplication` takes those apart between which its tasks queue something.

### AodvRouter and the code

| Variable | Code |
|---|---|
| `routeTable` | `_routeTable`; `NoRoute` stands for an absent key |
| `receivedPacketIDs` | `receivedPacketIDs` |
| `dataBuffer` | `_dataBuffer`: identifiers waiting, by destination |
| `ackBuffer` | `ackBuffer`: the transmitted frame and `attempts` (timestamps are left open) |
| `expired` | the local vector of `cleanupAckBuffer` between its two passes |
| `sender` | the local variables of `sendData` between two of its helpers |
| `air` | copies of frames not received yet: the transmit queues, the medium, the receive queues |
| `issued`, `client`, `sent`, `restarts` | identifiers drawn; what `notify` was called with since boot; history; bound |

Steps are as large as the code makes them atomic. The router task is the only writer of the
route table and the seen set, so `handlePacket` with the handler it calls is one step,
including what the handler sends. `sendData` is split at the points where another task's step
can matter: after `getRoute` (404), after `enqueueTxPacket` (1912) and before `storeAckPacket`
(1925). `cleanupAckBuffer` is split where it releases the mutex (326).

`air` is a set of (receiver, frame) pairs. A copy may be received late, out of order or
never, which covers radio loss, a failed authentication, a full receive queue and a full
transmit queue alike; only where a refused enqueue changes what the router does next (it
does not store the packet for retransmission) is it a step of its own, `SendDataDrop` and the
second branch of `ForwardData`. Two identical copies waiting at the same receiver are one. In
`CleanupAckBuffer` the set `due` is any set of pending packets, which leaves open both which
entries are older than `ACK_TIMEOUT` and which retransmissions the transmit queue refuses
(309): in both cases the entry stays as it was.

Encryption covers everything after the base header. Its one consequence for the protocol is
in the model: `cleanupAckBuffer` reads the DATA header back from the bytes it transmitted, so
`originalDestNodeID` of its RERR is `Undecipherable`, which is no node.

`MQTTNode` are the nodes whose Wi-Fi was up at start: `main.cpp` (133-145) gives the router its
MQTTManager only there. `handleRERR` reads `_mqttManager->connected` without the null check the other
users of the pointer make (868), so on the other nodes the RERR of an exhausted retry is a reboot
(`CrashOnRERR`).

`esp_random`, and a phone that chooses the identifier itself (`bluetoothManager.cpp` 444), are modelled as never repeating an
identifier. Payloads are left out. A frame that is
too short, of unknown type or oversized does not occur: every frame is one a node has sent.

### PhoneService

The abstract machine has two variables, the packets accepted and what each node has told its
phones. It says: a unicast is shown once, only at its destination; a broadcast once per node;
at a node a packet gets at most one of BLE_ACK and BLE_ACK_FAILURE; BLE_ACK only at the
origin; BLE_ACK_FAILURE never at the final destination. It does *not* say that a
verdict is true: a packet can be delivered and reported as failed (a lost ACK is never
repeated, because the receiver drops the retransmission as a duplicate before it
acknowledges), a relay tells its own phones of failures (`BLE_ACK_FAILURE` is broadcast with
`to = 0`, 346), and a packet released by an implicit acknowledgement gets no verdict at all. A packet that is
dropped on the way is a silence the machine permits too: it says what phones may be told, and not that they are told anything.

### RadioManager and the code

| Variable | Code |
|---|---|
| `txQueue`, `rxQueue` | number of packets in `_txQueue`, `_rxQueue` |
| `isTransmitting` | `_isTransmitting` |
| `irqSemaphore`, `txDoneSemaphore` | the two binary semaphores: is there a token? |
| `txPc`, `radioPc` | where `txTask` (527-613) and `radioTask` with its two handlers (205-289) are |
| `mode`, `frame` | what the SX1262 is doing; is there a received frame in its buffer? |
| `dio1Attached` | is `dio1Isr` attached to DIO1 (`setDio1Callback`, `clearDio1Action`)? |
| `startOK`, `accepted` | history: the last `startTransmit` succeeded; bound |

The tasks run on two cores, so one driver call, or one access to the flag, a queue or a
semaphore, is one step. `isChannelFree` (`SX1262Config.cpp` 70-96) is four: standby, detach,
start the scan, its outcome. A scan has an outcome of its own only if the radio task has not
restarted reception under it (277); otherwise it counts as busy. Back-off and PCSMA only decide how
long `txTask` waits before the next check, which the model leaves open. The early returns of
`handleReceiveInterrupt` are the branch of `ReadFrame` that queues nothing.

RadioLib is outside the repository: `startReceive`, `startTransmit`, `standby` and `scanChannel` are modelled by
the mode they put the chip in, `readData` may or may not leave it in standby, and only `startTransmit` fails (a failing `startReceive` is an
`assert`, `SX1262Config.cpp` 40).

Two facts about time are assumed, each in an operator of its own:

- `OutlastsAttach`: a transmission does not end between `startTransmit` and `setDio1Callback`, the very next
  statement (594-597). With the parameters of `begin` (SF 9, 125 kHz) the shortest frame takes more than a tenth
  of a second.
- `GuardElapsed`: when the 2 ms of guard time (590) are over, the radio task has finished with older interrupts. It has priority 5
  against `txTask`'s 3, DIO1 was detached before the channel scan, and the scan takes several milliseconds more.
  The code depends on it: without it (the mutant `NoGuard`) `RadioTaskNeverAborts` is violated.

### SessionLock and the code

| Variable | Code |
|---|---|
| `readCountMutex`, `writeMutex` | holder of `_readCountMutex`, `_writeMutex` |
| `readCount` | `_readCount` |
| `stage` | where a task is in `readLock`, `readUnlock`, `writeLock`, `writeUnlock` (`userSessionManager.h` 116-147) |
| `aborted` | FreeRTOS has failed an assertion |

Every call of FreeRTOS is one step. The constructor makes mutexes (`xSemaphoreCreateMutex`), which belong to the task that
took them, although the lock needs binary semaphores: when readers overlap and the first leaves before the last, the last one gives a
mutex it never took (134). FreeRTOS then either fails an assertion, which reboots the node (`aborted`), or frees the mutex;
`LetWritersIn` is that choice.

### UserSessions and the code

| Variable | Code |
|---|---|
| `users` | `_users`: its domain is the users known |
| `diffAdded`, `diffRemoved` | `_diffAdded`, `_diffRemoved` |
| `pc`, `job` | the next call, and the local variables, of the router task, the BLE-RX worker, the sync task |
| `link`, `closed` | the phone connected on each handle; the handle whose disconnection is being handled |
| `bleRxQueue`, `bleTxQueue` | `_bleRxQueue`, `_bleTxQueue` |
| `shown`, `forwarded`, `announced` | what the phones got; what was sent after a user; where the broadcasts have placed the users |
| `arriving`, `connections`, `moves` | bounds |

A call is a step of its own whenever what it read or did can be overtaken before the next one. Calls that follow each other are
one step where nothing can come in between that matters: a message and `knowsUser`, taking an announcement from its queue and
`addOrRefresh`, starting a broadcast and `getAndClearDiff`, a MOVE_USER_REQ and `popInbox`. The sync task delivers one message per request. `queueOffline` and `getBleHandle` are modelled for any task, as they are
methods anybody may call; who calls them is decided by `isOnline`. Full BLE queues (the packet is dropped after 10 ms) are left out: they only lose messages, and
no property says a message arrives.

NimBLE is outside the repository: a message for a handle goes to the phone connected there, if any, and one for handle 0xFFFF, which is
`INVALID_HANDLE`, to all phones (`Notified`). The gateway and the mesh are the set `arriving`.

### UserRouting and the code

| Variable | Code |
|---|---|
| `users`, `online`, `inbox`, `diff` | what `_usm` has on each node: users, those with a phone, inboxes, `_diffAdded` and `_diffRemoved` |
| `gut` | `_gut`: the home of each user, or `NoRoute` |
| `userMsgBuffer`, `userRouteBuffer`, `moveReqBuffer` | `_userMsgBuffer` (by user), `_userRouteBuffer` and `_moveReqBuffer` (by node) |
| `gateways`, `closestGw`, `gatewayState` | `_gateways`, `_closestGw`, the last argument of `setGatewayState` |
| `userKeys`, `discoveredNodes` | `_userKeys` (its domain), the nodes known |
| `gwOnline` | the nodes whose `GatewayManager::isOnline` holds |
| `todo` | scripts: what phones, timers, gateways and power failures still do; they run side by side |
| `messages`, `uplinked` | history: user messages accepted, packets handed to a gateway manager |

A handler is one step, as in `AodvRouter`. `sendUserMessage`, run by the application task, has a step for each of its
reads (`_gateways` without the mutex 456 and with it 463, the GUT 494, the route 516) and for what follows; run by the router task
(`handleUREP`, `handleMoveUserReq`, `flushUserRouteBuffer`) it is the operator `Resend` inside the handler. The retransmission of
a USER_MSG and its acknowledgement are those of `AodvRouter`.

The code's oddities are kept as they are: a parked message loses its flags; an intermediate node answers a UREQ with its
own identifier; PUBKEY_REQ and RERR are addressed to the remote node instead of the next hop; all packets of one
broadcast have one identifier; a list of more than `IdsThatFit` changes in one packet is dropped by `transmitPacket`;
`*_gateways.begin()` of an empty set is taken for a reboot (`PickNoGateway`).
Headers and their serialisers (`packet.h`) copy field by field, so a frame is the record of its fields. The handler of a
MOVE_USER_REQ sleeps a second for each message it sends; here it is one step, and `UserSessions` takes it apart.

### NodeApplication and the code

| Variable | Code |
|---|---|
| `sendQueue`, `sending` | `_sendQueue`; the message `SenderTask` is processing |
| `connectedDevices`, `handleOf`, `inbox` | `_connectedDevices`; the users of the session manager with their BLE handles; their inboxes |
| `bleRxQueue`, `rxWork` | `_bleRxQueue`; what `processIncomingMessage` still has to do for the packet in hand |
| `pubKeys` | the users whose keys `announcePubKey` has given to the router |
| `bleTxQueue`, `txPkt`, `value` | `_bleTxQueue`; the notification `bleTxWorker` is sending; the value of the RX characteristic |
| `gatewayOnline`, `telling` | `_gatewayOnline`; what is left of a call of `setGatewayState`, by the task that made it |
| `wifiReady`, `edges` | `WIFI_READY`; `GW_EVT_ON` and `GW_EVT_OFF` |
| `registered`, `checking`, `registering` | `_registered`; the GW-REG tasks before their test of it, and those in their POST |
| `txQ`, `syncStep`, `batch`, `answer` | `_txQ`; where `syncTask` is, and its local variables |
| `connected`, `receivedMQTT`, `sendMQTT` | `connected` and the two queues of MQTTManager |
| `accepted`, `failed`, `offered`, `unread`, `handed` | history, for `GatewayDrains`: what `_txQ` has taken, what was in POSTs that failed; what the server had, what was in answers that could not be read, what had its turn in the loop over the messages down |
| `server`, `down`, `published`, `radioRx`, `phone`, `notified`, `routerCalls` | the outside: what server and broker have got and have for the node, frames for the radio, what the phones were told, calls of the router |
| `todo` | scripts of the phones, the Wi-Fi, the broker and the router |

One step is one use of a queue, of the characteristic, of the event group or of a flag. A packet of a phone is looked at in one step
(`bleRxWorker`), which lists what the worker then does (`WorkFor`); every entry of the list is a step of its own, so the
TX worker and the other tasks come in between. A queue that is full drops, after the time-out of the code. Messages are a kind, their
flags, their source and a number; whether the sender is known matters only where the code asks (`NeedsKnownSender`). The source is a phone, the
broker, the server, or the mesh; each makes its requests one after the other, in the order of their numbers (`NumberingAssumption`: in one script, and in
the server's list).

Handles are as in the code. `ZeroHandle` (0) is what `notify` gives a notification for nobody in particular, and NimBLE gives the same number
to a phone: the theorems leave open whether `ZeroHandle` is in `Handle`, and in the runs it is `h1`. `bleTxWorker` broadcasts a verdict
with that handle (138, 165), and everything of the types it always broadcasts (`SentToAll`). `INVALID_HANDLE` (0xFFFF) is what `getBleHandle` returns for a
user without a phone; `sendToClient` gives it to NimBLE, which notifies every phone.
`notify` of the router, the messages popped from an inbox (`RxDeliver`) and the messages down (`ShowDown`) all look the handle up when they are queued. A
phone that announces itself (`Announces`) is worked for in the order of the handler: `announcePubKey` and `addOrRefresh`, the
state of the gateway (the old form of the announcement only), `popInbox` (`RxPop`), one notification for each message, the node's
identifier (`Welcome`). The router fills the inboxes (`park`); that `isOnline`, asked before, may be out of date by then is in the
order of the events. The old form of the announcement passes the messages on without their packet identifiers, which nothing here reads. A packet that is too short, a key of another length than 32 bytes and a request for a
key by sender 0 are `malformed`: nothing comes of them.
`oneSync` asks `isOnline` in one step (`DownToPhone`) and `getBleHandle` in the next, so the phone may leave in between.

HTTP, MQTT and NimBLE are outside the repository: a POST may be lost before or after the server has taken it, and a
publication without a connection is lost.

## 3. Runs

The `aodv_` runs use `MC_Aodv`. There, `MAX_RETRANS` is 1 instead of 3: one retransmission is enough to have
a retry race an acknowledgement and a retry that exhausts the budget. Deadlock is not checked
since a mesh with nothing to send may stop. No action replaces another and no symmetry
is used, because the topologies are not symmetric.

| Run | Mesh, workload | Checks | States |
|---|---|---|---|
| `aodv_kite` | triangle A-B-C with tail C-D, one acknowledged packet A to D, empty or complete tables | `TypeOK`, `HopCountsNeverUnderestimate`, `NextHopIsCloser`, `DataFollowsRoutes`, `FloodsDieOut`, `PhoneServiceHolds` | 265 553 |
| `aodv_reboot` | line A-B-C, an acknowledged packet or a broadcast, complete tables, one reboot of any node at any time, A without an MQTTManager | `HopCountsNeverUnderestimate`, `NeverComesBack`, `PhoneServiceHolds`, `PendingIsResolved` | 92 543 |
| `aodv_live` | line A-B-C, two plain packets A to C, empty or complete tables, no loss | `Delivered` | 44 622 |
| `aodv_overheard` | triangle, packets both ways | `DuplicateWasProcessed`: violated | |
| `radio_tasks` | one node, queues of 2, four packets to send, any number received, starts may fail | `TypeOK`, `RadioTaskNeverAborts`, `WaiterIsWoken`, `QuietNodeListens`, `Drains` | 12 483 |
| `radio_stale` | the same, starts do not fail | `PriorTransmissionDone`: violated | |
| `sessions_lock` | five tasks that lock as often as they like | `TypeOK`, `ReadersExcludeWriters`, `SectionsEnd` | 1 011 |
| `sessions_tasks` | two users, two handles, two connections, two messages from the mesh and one from the server, inboxes of 1, one move | `TypeOK`, `AtMostOnce`, `DiffsAccountForUsers`, `MovedUserLeavesNothing` | 1 146 712 |
| `users_mesh` | line A-B-C, two users, nine scripts: a user who is searched for, is moved near and far, leaves and returns; a gateway that comes and goes; users of one node; a relay that reboots; a sender without an MQTTManager; public keys | `UserTypeOK`, `HopCountsNeverUnderestimate`, `RoutesKeepOrder`, `OneCopy` | 544 079 |
| `users_home` | line A-B-C-D, a message while a broadcast spreads | `HomeIsFound`: violated | |
| `node_tasks` | one node, two users on two phones, one with the handle 0, queues of one or two, inboxes of one, ten workloads | `NodeTypeOK`, `RequestsKeepOrder`, `PrivateStaysPrivate`, `UplinkedOnce`, `RegistrationIsUnderWay`, `GatewayDrains` | 268 625 |
| `node_gateway` | one node, the Wi-Fi up and down | `PhonesHearOfLoss`: violated | |

Why the bounds are enough: the kite is the smallest mesh with two paths of different length to
a node two hops away, so requests meet, replies cross, and an intermediate node can answer;
the line is the smallest with a relay. One packet suffices for the per-packet properties, since
nothing in the router couples two packets but the route table and the identifiers;
`aodv_live` and `aodv_overheard` send two. `MaxPacketIDs` limits how many frames a node may
originate. In `aodv_live` it is 7, more than any node there can use, so that no step the
fairness promises is disabled by it; in the safety runs (3 and 4) it cuts behaviours off.
In `aodv_reboot` the
bound can be reached, but never by a node that still has a packet to report: `ReportExpired` draws an identifier, and
if the bound ever disabled it `PendingIsResolved` would fail.

The `radio_` runs need no MC module: the constants are numbers. A queue of 2 is empty, partly full and full; a
stale token needs one packet to leave it, one to be in flight and one to wait for it, so with four there
is one more. An idle radio may stop for good when `MaxPackets` have been sent, so deadlock is not checked
there either; `Drains` says nobody is left waiting.

What `AtMostOnce` and `OneCopy` exclude is a duplicate: a message stuck in the inbox of an online user, shown on a phone that has got the
handle of another, without its flags, or lost, satisfies both.

In `sessions_lock` the tasks are the five of the node that use the lock: router, BLE-RX worker, NimBLE host, timer worker, sync. Two
readers and two writers would do; the proof is for any number. It stops only when FreeRTOS has stopped the node. In `sessions_tasks` two connections let a user leave and come back, or
one take the other's handle; two messages overfill an inbox of 1, and the third comes through the sync task while the router works. The system stops when
the bounds are used up and nothing is left to broadcast, so deadlock is not checked.

In `users_mesh` every script is a situation named by a comment of `MC_Users`; its parts are done by different nodes or tasks and
interleave freely. `MAX_RETRANS` is 0 there: an acknowledged message is kept and resolved, but its retransmissions, which the `aodv_` runs
are about, would multiply the states. One change per broadcast packet and one that fits (`IdsPerPacket`, `IdsThatFit`) make a list of two
changes need two packets with one identifier; inboxes of 1 overflow with the second message. Six identifiers per node are more than any
script draws but for answers to floods. `users_home` needs four nodes since only a node two hops from the home answers for it.
In `node_tasks` a queue of 1 or 2 is full as soon as a second or third message comes, `_txQ` and a POST take two
messages, so that a batch is empty, partly full and full, and two messages come down in one answer. An inbox of 1 loses its oldest
message with the second (`Returns`). A mesh and a node with nothing to do may stop, so deadlock is not checked; `GatewayDrains` says
what must have happened by then.

`PrivateStaysPrivate` says that a notification is shown only on the phone with the handle it was queued with, and names what is shown elsewhere:

- what is for all: the messages of nodes, broadcasts, keys, verdicts with handle 0, and BLE_NODE_ID, which is queued with the handle
  of the phone that announced itself and broadcast all the same (157-161);
- a message or a verdict for a user who had no phone when it was queued: its handle is `INVALID_HANDLE`, and *every* phone is shown it. The
  router, `oneSync` and the BLE-RX worker ask whether the user has a phone before they ask for the handle, so it takes a
  disconnection in between; a verdict needs none, since nobody asks (`Returns`, `Fetches`);
- the reply to REQUEST_NODE_ID.

TLC violates the property when either of the last two is taken out. It tells phones apart by their handles: another phone that has got the handle of one that left is
shown what was queued for it, and a verdict meant for the phone with handle 0 goes to all.

`GatewayDrains` says, while the Wi-Fi lasts: every message that `_txQ` has taken is with the server in the end, or was in a POST that failed;
every message that the server had has had its turn in the loop over the messages down, or was in an answer that could not be read. A failed POST
thus loses its batch and nothing else, and an unreadable answer its own messages and nothing else. It does not say that the batch of a failed POST is sent
again: the code does not do it (see below). Full queues before and after (`uplink`, `enqueueBleOut`, `enqueueMessage`) drop, and the loop
drops what is for a user of this node whose phone is away. Its two mutants are a batch that waits until it is full (nothing goes up) and
a loop that stops after its first message (the second never comes down).

"Complete tables" (`WarmInit`) is the state after the boot announcements of every node (BROADCAST_INFO)
have gone round without loss, which teaches every node a shortest route to every other.

### Fairness

`TimerFairness`: the timer worker keeps running. The cleanup timer is auto-reload and the worker
has a higher priority than the tasks it competes with (`begin`, 48-101); entries that are due stay
due until they are handled. `PendingIsResolved` needs nothing else: neither the medium nor any
other task is assumed to make progress.

`Fairness` adds weak fairness of the router task and of the steps of `sendData`, which are
tasks that loop for ever on blocking queues, and with `QueueMayFill = FALSE` a medium without loss.
It is used for `Delivered` only, which is a statement about runs without loss; with losses nothing
retries a route request, and the property would be false.

`FairSpec` of `RadioManager`: weak fairness of both tasks, which loop for ever at priorities above the
router's, and of the end of a transmission; strong fairness of `ChannelFree`, because a node that checks the
channel again and again must find it free at some time for anything to be sent, and a scan may be
disturbed by receptions (but DIO1 is detached meanwhile, so not for ever).

`FairSpec` of `SessionLock`: strong fairness of what a task does once it has begun to lock. A FreeRTOS mutex goes to the waiting task of highest
priority, and every task blocks between two sections (on a queue, a delay, an HTTP request), so none takes a mutex so often that
another waits for it for ever. With weak fairness alone a writer that comes back at once could starve a reader.
`UserSessions` and `UserRouting` have no liveness property and need no fairness (an unanswered UREQ is never repeated, so
nothing much is bound to happen).

`FairSpec` of `NodeApplication`: weak fairness of the phones' scripts and of every task of the node, each of which loops for ever on a
blocking queue or a delay; strong fairness of a registration that is accepted, of a POST that arrives and of an answer that
arrives: a server that is asked again and again while the Wi-Fi lasts answers some day. `GatewayDrains` is conditional
on the Wi-Fi (`<>[]wifiReady`).

### What the violated properties show

- `DuplicateWasProcessed` - identifiers are stored (652) before the address is looked at (660). A node that
  overhears its packet on the way to a relay drops it when the relay hands it over.
- `PriorTransmissionDone` - `_txDoneSemaphore` is given after every transmission (287) but taken only by a `txTask`
  that waits (538-539). A packet that finds the radio idle leaves its token behind; the next time `txTask` has
  to wait it does not, and the channel check puts the radio in standby under the packet being sent. Two packets
  queued back to back are enough, as when `handleData` acknowledges a packet and forwards it.

- `HomeIsFound` - a node that has a user in its GUT and is two or more hops from the home answers a UREQ for it, but with `myNodeID`
  where the home belongs (1226). The asker sends its waiting message there; that node does not know the user, answers with a UERR,
  and the message is lost. A comment (2281) says that the message is kept until the home is found.

- `PhonesHearOfLoss` - `wifiEventTask` takes both edges at once and looks at ON first (129): when the Wi-Fi goes up and down before the
  task has run, the phones are told of a gateway and never of its loss. The comment on the bit (`gatewayManager.h` 58) says
  "tell BLE".

### Met while modelling, without a run

These are in the models as they are in the code; the models show them on the way. A comment or a document that says otherwise is quoted.

- `handlePacket` takes any frame with a pending identifier as its acknowledgement (643): a relay that hears the upstream node
  retransmit gives its own copy up.
- The RERR of an exhausted retry names a destination read from ciphertext (344), so no route is ever invalidated by it.
- After a reboot an old route can lead back to the node that asks, and be learnt: routes can loop.
- A packet can come back to its origin without any reboot. On a ring A-B-C-D-E the frames between A and E are lost while A searches for E, so
  that A's route leads by B and is four hops long. A sends an acknowledged packet; E searches for C, and its RREQ teaches A, and from A
  also B, a shorter way to E. B forwards the packet, once it has it, to A. A stores the identifiers it receives (652) and not those it draws, so
  it takes the packet for one to forward, keeps it for acknowledgement once more (1925), and tells its phone of E's answer. If it had given the packet up
  by then, the phone hears "failed" and then "acknowledged". Losses are enough for that (A's copies but the last, B's acknowledgement and
  first copy), as retransmissions are a minute apart (line 85). TLC finds it in 13 steps of `AodvRouter` from these tables, with the two requests
  A to E (`REQ_ACK`) and E to C (`NONE`), one retransmission and three identifiers per node; with fewer nodes B's long way is not longer than the one by A.
- The flags of a message are lost while it waits (503-508), so that a message for a gateway that waited for a route arrives
  there as one for a user, and is refused.
- The request for a public key is addressed to the home itself, and ignored by the relays when the home is further than one hop.
- An unanswered UREQ is never repeated; its messages wait until some other UREP comes.
- A broadcast of 56 or 57 changes is too large for `transmitPacket` and is dropped; one of more than 57 is cut into packets that
  receivers take for duplicates.
- `handleMoveUserReq` sends the inbox under the old identifiers: a relay that has seen the message on its way to the old home drops
  it as a duplicate, and so do the new home's neighbours.
- The reply to REQUEST_NODE_ID can be sent to all phones, when the RX worker writes the characteristic between the two
  calls of the TX worker (228-229). The comment on the reply says "Send as a unicast (so only that phone sees it)" (`bluetoothManager.cpp` 636);
  `PrivateStaysPrivate` has it as an exception. What the others see is the identifier of the node, which BLE_NODE_ID tells all phones anyway.
- A message or a verdict for a user who has just disconnected is queued with the handle 0xFFFF (256, 270), and NimBLE shows it to every phone (246): the
  second exception of `PrivateStaysPrivate`.
- The messages of a POST that fails are lost: `oneSync` has popped them (159) and does not put them back. The comment on the call says "If it
  returns false (HTTP error / JSON parse fail) wait 2 s and retry" (`gatewayManager.cpp` 111-112), and `spec-lists/internet-gateway-spec.md`
  says "the API returns 503 so gateways retry later" (182). What is repeated, after 30 s (115), is the request, with what has been queued since; and the messages of an answer that
  cannot be read (191) are lost on the way down. `GatewayDrains` has both as exceptions.
- A phone that asks REQUEST_NODE_ID with one byte, as the comment in its handler has it (`bluetoothManager.cpp` 625), is not
  answered: a packet of less than nine bytes is dropped first (318).
- The router asks `isOnline` (1110), the phone announces itself and has its inbox emptied, and only then the message is
  parked (1120): it stays in the inbox of an online user until the next announcement.
- An announcement that waits in the BLE-RX queue while its phone disconnects marks the user online with a dead handle, and a
  user who reconnects while `handleMoveUserReq` sends the inbox away is removed although connected (1469).
- A message of the server for a user of this node whose phone is away is dropped (a TODO, `gatewayManager.cpp` 231).
- `setup()` registers the Wi-Fi events after connecting (`main.cpp` 113-118) and calls `onWifiUp` itself; a loss of the Wi-Fi
  between the two is never seen.

## 4. Proofs

Those about `AodvRouter` are checked by `tlapm` for every finite `Node`, every `Link`, every workload and all bounds.

1. `TypeCorrect == Spec => []TypeOK`. `TypeOK` is inductive. The one part that is not mere typing is
   `attempts <= MAX_RETRANS`, which rests on the guard of line 307.
2. `HopCountsTruthful == Spec /\ []HopsFit => []HopCountsNeverUnderestimate`. The property is not
   inductive: a handler believes the frame. `HopInv` adds that every RREQ and RREP, in the
   air, pending or about to be sent, states a hop count that is no less than the distance between
   the node it was sent by (`prevHopID`) and its subject, and that a copy in the air is at a
   neighbour of that node. `HopsFit` says no counter in the air has reached 255: `uint8_t` arithmetic
   wraps there (741, 799) and the property would fail. The theorem thus covers reboots and losses, but
   makes the wrap-around its explicit hypothesis. `Dist` is any function that changes by at most one per link.
3. `RoutesLoopFree == ASSUME MaxRestarts = 0, MQTTNode = Node PROVE Spec /\ []HopsFit => []NextHopIsCloser` and
   `DataServed`, with the same hypotheses (no reboot from outside, and none of `CrashOnRERR`), for `DataFollowsRoutes`. The inductive invariant `LoopInv`
   adds `Backed`: the sender of a RREQ or RREP still has a route at least as short as the frame says, and
   whoever a data frame is addressed to can serve it. It is preserved because routes only
   improve (`RoutesImprove`): `updateRoute` replaces a route by a strictly shorter one, and the only
   RERRs that occur are those of exhausted retries, which name no destination. So loop-freedom
   rests on no RERR naming a destination: were the header decrypted, routes would be
   erased, and a node without routes learns from its neighbours' old ones, as after a reboot.
4. `FloodsEnd == ASSUME MaxRestarts = 0, MQTTNode = Node PROVE Spec => []FloodsDieOut`. `FloodInv` extends the bound
   to pending packets and to the one `sendData` is about to transmit. A frame makes a hop only at a node that had not seen
   its identifier, and that node has now. This needs no `HopsFit`: a counter that wraps only gets smaller.
5. `PhonesServed == ASSUME \A r \in Requests : r.from # r.to PROVE Spec /\ []NeverComesBack => PhoneServiceHolds`, the
   refinement, with losses, full queues and reboots of both kinds. `PhoneInv` says that every data packet, in the air, kept, buffered or in the
   hands of `sendData`, is one an application has sent (`DataIsSent`); that an identifier is drawn once, by the origin
   (`SentIsIssued`); that what was shown is in the seen-packet set (`ShownIsSeen`); and that a packet
   awaits one verdict (`OneVerdict`): its entry is in the ACK buffer or among the expired ones and not in both, nothing
   is decided while there is one, and whoever has decided has seen the identifier or is the origin. A relay stores an entry only at the first
   sight of the identifier, so it is never a second one. The origin is different: it never stores the identifiers it draws, so a packet that came back to it after it
   was given up would be forwarded, stored and perhaps acknowledged after the failure. `NeverComesBack` excludes that, as a hypothesis: it is
   checked on a line (`aodv_reboot`), and false on a ring of five, where no node reboots and the conclusion fails as well (section 3): the theorem says that this is the only way
   in which it can. It is not a consequence of `NextHopIsCloser`, which is about the tables at one moment: the packet was sent by an older table. That no phone names its own node as the destination is the other
   hypothesis: no code checks it (`bluetoothManager.cpp` 444), and such a packet, announced as failed, would be one `PhoneService` does not allow (`Fail` at the final destination).

Those about `UserRouting`, where both planes write one route table, hold for all finite sets of nodes, all users, topologies, scripts and bounds:

6. `UserTypeCorrect == UserSpec => []UserTypeOK`. `UserTyped` is inductive: `UserTypeOK`, the types of the node plane with the user frames
   added, and that what `sendUserMessage` holds between two of its reads fits the step it is at. The lemmas about
   the handlers of `AodvProofs` are used again for the frames of the node plane. `Only`, which leaves of a list of messages those that
   have to wait, is a recursive function; that it returns messages of the list is proved by the least index at which it would not.
7. `UserHopCountsCorrect == UserSpec /\ []HopsFit => []HopCountsNeverUnderestimate`, with losses, moves and reboots. The invariant,
   `UserHopInv`, is `HopInv` for every frame that teaches a route: RREQ, RREP, UREQ, UREP and BROADCAST_INFO. `HopsFit` is a hypothesis as in 2.
8. `UserRoutesCorrect == ASSUME MQTTNode = Node PROVE UserSpec /\ []HopsFit => []RoutesKeepOrder`: until a node has rebooted, every next hop is
   strictly closer. In `UserLoopInv` whoever sends a frame that teaches still has a route as short as it claims, whoever a DATA or USER_MSG is
   addressed to can carry it on, and no RERR names a route. A node without an MQTTManager reboots when it handles a RERR (a null pointer), which is what the
   assumption excludes; unlike in 3, reboots may happen, and the property says what holds before the first.

Both 7 and 8 rest on one account of what a step does to the routes, `Moves`, proved handler by handler (`UserMoves`): one node's
table stays, or learns from a frame that node heard, or loses routes, the last only after a reboot or a frame that makes trouble (`Trouble`: a RERR that names a route, or a packet
for which there is none); and what the node sends is `Supported` by its table after the step, or a copy of what it kept. The handlers of the user plane use the table in more places
than those of the node plane (a UREP makes a node send all messages that waited for the user, a move sends an inbox), which is why the argument is not repeated for each property.

9. `OneCopyKept == UserSpec /\ [][NobodyCrashes]_allVars => []OneCopy`: until a node reboots, a user message is in one place at a time, however often its
   frames are repeated and whatever is moved and flushed meanwhile. `NobodyCrashes` excludes the step of a node without an MQTTManager that handles a RERR, because it forgets what it has seen,
   like a node that reboots; `OneCopyWithBroker` is the case in which no node lacks one. (`users_mesh` has such a node, and
   finds no second copy.)

`OneCopy` counts the copies in buffers, inboxes, phones and the hands of the gateway managers. That is not inductive: a buffer is filled from a frame or from the hands of the application task. `CopyInv` therefore adds
to the places those two, and a last one, the identifiers not drawn yet. A message is on its way to a home (`OnTheWay`) if a frame with it is on the air, in an ACK buffer or about to be transmitted by `sendData`
*and that home has not seen its identifier*. That makes a retransmission, a frame that arrives late and one overheard count for nothing once the first has arrived, and it is
why one message and not one frame is what moves. `Apart` says that no two places hold a message; `Single`, that no buffer, inbox or phone has it twice. Every step either moves nothing (`Undisturbed`: what is on its way or in hand was so before, and
phones are told other things), or is an instance of `HandsOver`: what a place holds afterwards it held before, or the one source of the step gave it up to that place. The eight steps that
move a message are each of one source: `handleUREP` empties the buffer of a user, `flushUserRouteBuffer` that of a destination and `handleMoveUserReq` an inbox, each of which may put its messages into three other
places (`Goes`); an arrival moves one message from the way to the inbox, the phone or the gateway manager, a phone that connects a whole inbox, `sendUserMessage` one message from its hands to a buffer
or the way, and a call of a phone one identifier from the undrawn to the hands. `Only`, the messages that have to wait, keeps their order and so repeats none (`TakenFrom`).

Those about `RadioManager` hold for queues of any length and any number of packets: `RadioTypeCorrect`,
`TransmissionsUndisturbed` (`RadioTaskNeverAborts`), `NoLostWakeup` (`WaiterIsWoken`) and `QuietListens`
(`QuietNodeListens`). All follow from `RadioInv`: DIO1 is detached from the channel check to the end of
the start (`Detached`), therefore a radio task that sleeps when the guard time is over sleeps on until then
(`Drained`); the transmission being started is flagged (`Starting`); a transmission in flight is flagged,
DIO1 is attached for its end (`InFlight`) and nobody else has the radio (`Asleep`); a set flag always has a
cause (`Flagged`); and between two packets the radio listens, sends, or is about to be told to listen
(`Between`). The two assumptions about time are guards of the model, so the theorems rest on them too.

The one about the lock, `LockExcludes` (`ReadersExcludeWriters`), holds for any finite set of tasks, with `LockTypeCorrect`.
The invariant `LockInv` ties `readCount` to the number of tasks counted; says who has the counting mutex, and that the count stays 0 while the last
reader gives the write mutex back (`Counting`); and that somebody has the write mutex as long as a reader is inside, though not who (`Excluding`). The
last point is what makes it survive a mutex that is given by another task than took it.

Those about `UserSessions` hold for any users, handles, messages and bounds: `SessionsTyped` (`TypeOK`), `DiffsAccount` (`DiffsAccountForUsers`),
`MoveLeavesNothing` (`MovedUserLeavesNothing`) and `DeliveredOnce` (`AtMostOnce`). `queueOffline` makes an unknown user known without noting it in the changes, and `remove` does not look at the
inbox; the two properties hold because both are called by one task only. `SessionInv` says so: only the router parks (`OnlyRouterParks`), a user it found known is known until it has
parked (`RouterKnows`), and an inbox it emptied is empty until it removes the user (`RouterEmptied`). The mutant `AlwaysPark`, in which the sync task parks as well
(a TODO of the code, `gatewayManager.cpp` 231), breaks both. `AtMostOnce` follows from `DeliveryInv`: a message is held in one place (`OnePlace`, in which the air it has not
left counts as a place, so that none can arrive again), and no place holds it twice (`NoRepeats`). Every call then either moves one message, or a whole inbox, or
moves nothing. That `popInbox` reads and empties the inbox under one lock is what the last case needs: the mutant `CopyInbox` breaks it.

Those about `NodeApplication` hold for any users, phones, queue lengths and scripts: `NodeTyped` (`NodeTypeOK`), `PrivateKept`
(`PrivateStaysPrivate`), `RegistrationGoesOn` (`RegistrationIsUnderWay`), `RequestsInOrder` (`RequestsKeepOrder`) and `UplinksOnce` (`UplinkedOnce`). The second states its exceptions: the theorem does not say that nothing for one phone is ever
shown on another, but that these are the only ways. `NodeInv` adds to the first what the second needs: whatever
is in the queue of the TX worker, in its hands, in a call of `setGatewayState` or still to be queued by the RX worker has
`INVALID_HANDLE` only if it is a user's message or verdict (`SafeOut`, `SafeWork`); and the characteristic holds what the TX worker is sending, unless the
RX worker has written a reply over it (`ValueKnown`). The third is inductive with the types: `onWifiUp` starts a task, a task that fails
begins again, and one that stops has found the node registered.

The last two follow from `OrderInv`. A request is in one of six places, in the order of its way back to front: gone (to the router, or to the queue,
batch or list of the server), in SenderTask's hands, in `_sendQueue`, with the BLE-RX worker, in a queue by which it entered, and still to be asked for.
`Ordered` says that of two requests of one source, in two places, the one further on has the lower number; each queue is in order itself (`Rising`). The lemma
`Flow` is what the steps share: requests that go from one place to an earlier one keep `Ordered` if they are before what stays in the places they leave and pass. That the
BLE-RX worker passes nothing by needs `MeshFirst` (its only request is the first thing it does, and a phone's); that the router's own uplinks, which jump five places, overtake
nobody needs `NoneOfMesh`. A message that is dropped, or a batch that is lost, leaves its place for none, which keeps every part. The numbers rise strictly, so
nothing is twice in a queue, and what went into the mesh (`Called`) is not among what goes up (`Gone`). That each source's numbers rise in its script is the
assumption that states what the property means by the order of asking; it restricts no interleaving of the sources.

Only model-checked: `NeverComesBack`, the hypothesis of `PhonesServed`, which does not hold in every mesh; `PendingIsResolved`, `Delivered`, `Drains`, `SectionsEnd` and `GatewayDrains`
(liveness under fairness is out of the prover's reach); and the four violations.

## 5. What is not modelled, and the plan

`DataServed`, `FloodsEnd` and `PhonesServed` are about the node plane alone, with complete tables as the only trace of BROADCAST_INFO; the
order of routes, the hop counts and the single copy of a user message are proved for both planes together. Next, in order:

1. Proofs: the topologies in which `NeverComesBack` holds; a bound on `numHops` that discharges
   `HopsFit` for meshes of a given size.
2. `UserSessions` and `UserRouting` joined at the calls of the session manager, instead of one refining the steps of the other.

Left out for good: the display and `lib/DISPLAY` (output, vendored), Wi-Fi credentials and start-up order (straight-line), byte
layout and AES-GCM (a pure library function; a frame that does not authenticate is a lost frame), the JSON of server and broker,
`buildSeen` (only reads), `broadcastUtc`, `fetchUtc` and the commands nothing calls, the prototypes.
