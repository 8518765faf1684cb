---------------------------- MODULE UserSessions ----------------------------
(***************************************************************************)
(* UserSessionManager of one node and the tasks that use it:               *)
(*   - the router task delivers a user message (handleUserMessage) or      *)
(*     sends an inbox after its user (handleMoveUserReq);                  *)
(*   - the BLE-RX worker handles a phone's announcement                    *)
(*     (processIncomingMessage);                                           *)
(*   - the NimBLE host task reports connections and disconnections;        *)
(*   - the timer worker announces changes (sendBroadcastInfo);             *)
(*   - the gateway's sync task delivers messages from the server (oneSync);*)
(*   - the BLE-TX worker sends what the others have queued.                *)
(*                                                                         *)
(* A call of UserSessionManager is one step, for its lock excludes the     *)
(* others (SessionLock).  But a task makes its calls one after the other,  *)
(* and what it read in one may be stale in the next.                       *)
(***************************************************************************)
EXTENDS Integers, FiniteSets, SequencesExt

CONSTANTS
    User, Handle, Message,
    None,           \* no user, no handle (INVALID_HANDLE)
    Recipient,      \* [Message -> User]
    FromServer,     \* the messages that arrive through the gateway
    InboxLength,    \* messages kept in an inbox (10)
    MaxConnections, \* bound: connections made by phones
    MaxMoves        \* bound: MOVE_USER_REQs received

ASSUME SessionAssumption ==
    /\ None \notin User \cup Handle
    /\ Recipient \in [Message -> User]
    /\ FromServer \subseteq Message
    /\ InboxLength \in Nat \ {0}
    /\ MaxConnections \in Nat
    /\ MaxMoves \in Nat

VARIABLES
    users,       \* _users: a UserInfo for every user known
    diffAdded,   \* _diffAdded
    diffRemoved, \* _diffRemoved
    pc,          \* the call each task makes next, or "idle"
    job,         \* what each task is working on
    link,        \* by handle, the user whose phone is connected, or None
    closed,      \* handle whose disconnection is being reported, or None
    bleRxQueue,  \* announcements on their way to the BLE-RX worker
    bleTxQueue,  \* messages on their way to the phones
    shown,       \* by user, the messages its phone has got
    forwarded,   \* messages sent after their user
    announced,   \* history: the users the broadcasts have placed here
    arriving,    \* messages that have not reached the node
    connections, \* bound
    moves        \* bound

mapVars == <<users, diffAdded, diffRemoved>>
taskVars == <<pc, job>>
linkVars == <<link, closed, bleRxQueue, connections>>
outVars == <<bleTxQueue, shown>>
vars == <<mapVars, taskVars, linkVars, outVars, forwarded, announced, arriving, moves>>

Task == {"router", "bleRx", "sync"}

Call == {"isOnline", "getBleHandle", "queueOffline", "popInbox", "remove"}

UserInfo == [isConnected : BOOLEAN, bleConnHandle : Handle \cup {None}, inbox : Seq(Message)]

Job == [user : User \cup {None}, msgs : Seq(Message)]

NoJob == [user |-> None, msgs |-> <<>>]

TypeOK ==
    /\ DOMAIN users \subseteq User
    /\ \A u \in DOMAIN users : users[u] \in UserInfo /\ Len(users[u].inbox) <= InboxLength
    /\ diffAdded \subseteq User
    /\ diffRemoved \subseteq User
    /\ pc \in [Task -> Call \cup {"idle"}]
    /\ job \in [Task -> Job]
    /\ link \in [Handle -> User \cup {None}]
    /\ closed \in Handle \cup {None}
    /\ bleRxQueue \in Seq(Handle \X User)
    /\ bleTxQueue \in Seq((Handle \cup {None}) \X Message)
    /\ shown \in [User -> Seq(Message)]
    /\ forwarded \subseteq Message
    /\ announced \subseteq User
    /\ arriving \subseteq Message
    /\ connections \in 0..MaxConnections
    /\ moves \in 0..MaxMoves

Init ==
    /\ users = [u \in {} |-> None]
    /\ diffAdded = {}
    /\ diffRemoved = {}
    /\ pc = [t \in Task |-> "idle"]
    /\ job = [t \in Task |-> NoJob]
    /\ link = [h \in Handle |-> None]
    /\ closed = None
    /\ bleRxQueue = <<>>
    /\ bleTxQueue = <<>>
    /\ shown = [u \in User |-> <<>>]
    /\ forwarded = {}
    /\ announced = {}
    /\ arriving = Message
    /\ connections = 0
    /\ moves = 0

-----------------------------------------------------------------------------
Known(u) == u \in DOMAIN users

Online(u) == Known(u) /\ users[u].isConnected

Inbox(u) == IF Known(u) THEN users[u].inbox ELSE <<>>

Put(u, info) ==
    users' = [v \in DOMAIN users \cup {u} |-> IF v = u THEN info ELSE users[v]]

(* Task t goes on to its next call, or has done its job. *)
Calls(t, call, j) ==
    /\ pc' = [pc EXCEPT ![t] = call]
    /\ job' = [job EXCEPT ![t] = j]

Done(t) == Calls(t, "idle", NoJob)

-----------------------------------------------------------------------------
(* The phones and the NimBLE host task. *)

(* A phone connects and announces itself. *)
Connect(u, h) ==
    /\ connections < MaxConnections
    /\ \A g \in Handle : link[g] # u
    /\ link[h] = None
    /\ closed = None
    /\ link' = [link EXCEPT ![h] = u]
    /\ bleRxQueue' = Append(bleRxQueue, <<h, u>>)
    /\ connections' = connections + 1
    /\ UNCHANGED <<mapVars, taskVars, closed, outVars, forwarded, announced, arriving, moves>>

Disconnect(h) ==
    /\ closed = None
    /\ link[h] # None
    /\ link' = [link EXCEPT ![h] = None]
    /\ closed' = h
    /\ UNCHANGED <<mapVars, taskVars, bleRxQueue, connections, outVars, forwarded, announced,
                   arriving, moves>>

(* Of the users with the handle, the one found first goes offline. *)
handleBleDisconnect ==
    /\ closed # None
    /\ closed' = None
    /\ LET holders == {u \in DOMAIN users : users[u].bleConnHandle = closed}
       IN  IF holders = {}
           THEN UNCHANGED users
           ELSE \E u \in holders :
                    users' = [users EXCEPT ![u].isConnected = FALSE, ![u].bleConnHandle = None]
    /\ UNCHANGED <<diffAdded, diffRemoved, taskVars, link, bleRxQueue, connections, outVars,
                   forwarded, announced, arriving, moves>>

(* The phones NimBLE notifies: those of the handle, and all if it is 0xFFFF,  *)
(* which is INVALID_HANDLE.                                                  *)
Notified(h) == {u \in User : \E g \in Handle : link[g] = u /\ h \in {g, None}}

(* A message for a handle that is not connected is lost. *)
bleTxWorker ==
    LET h == Head(bleTxQueue)[1]
        m == Head(bleTxQueue)[2]
    IN  /\ bleTxQueue # <<>>
        /\ bleTxQueue' = Tail(bleTxQueue)
        /\ shown' = [u \in User |-> IF u \in Notified(h) THEN Append(shown[u], m) ELSE shown[u]]
        /\ UNCHANGED <<mapVars, taskVars, linkVars, forwarded, announced, arriving, moves>>

-----------------------------------------------------------------------------
(* A message for a user of this node, from the router or the sync task. *)

(* knowsUser: a message for an unknown user leaves, answered with a UERR by the *)
(* router, handed to the mesh by the sync task.                              *)
Arrives(t, m) ==
    /\ pc[t] = "idle"
    /\ arriving' = arriving \ {m}
    /\ IF Known(Recipient[m])
       THEN Calls(t, "isOnline", [user |-> Recipient[m], msgs |-> <<m>>])
       ELSE UNCHANGED taskVars
    /\ UNCHANGED <<mapVars, linkVars, outVars, forwarded, announced, moves>>

handleUserMessage(m) == m \in arriving \ FromServer /\ Arrives("router", m)

oneSync(m) == m \in arriving \cap FromServer /\ Arrives("sync", m)

(* Mutant: the sync task parks messages, too. *)
AlwaysPark(t) == Calls(t, "queueOffline", job[t])

(* The router parks a message for a user who is offline, the sync task drops it. *)
WhenOffline(t) == IF t = "router" THEN Calls(t, "queueOffline", job[t]) ELSE Done(t)

isOnline(t) ==
    /\ pc[t] = "isOnline"
    /\ IF Online(job[t].user) THEN Calls(t, "getBleHandle", job[t]) ELSE WhenOffline(t)
    /\ UNCHANGED <<mapVars, linkVars, outVars, forwarded, announced, arriving, moves>>

(* notify, or the sync task itself: read the handle and queue the message.  The *)
(* BLE-RX worker does it for every message it has popped.                    *)
getBleHandle(t) ==
    LET u == job[t].user
        rest == Tail(job[t].msgs)
        h == IF Known(u) THEN users[u].bleConnHandle ELSE None
    IN  /\ pc[t] = "getBleHandle"
        /\ bleTxQueue' = Append(bleTxQueue, <<h, Head(job[t].msgs)>>)
        /\ IF rest = <<>> THEN Done(t) ELSE Calls(t, "getBleHandle", [job[t] EXCEPT !.msgs = rest])
        /\ UNCHANGED <<mapVars, linkVars, shown, forwarded, announced, arriving, moves>>

(* Mutant: an inbox keeps everything. *)
ParkAll(box, m) == Append(box, m)

(* An inbox keeps the newest messages. *)
Park(box, m) == Append(IF Len(box) = InboxLength THEN Tail(box) ELSE box, m)

queueOffline(t) ==
    LET u == job[t].user
        info == IF Known(u) THEN users[u]
                ELSE [isConnected |-> FALSE, bleConnHandle |-> None, inbox |-> <<>>]
    IN  /\ pc[t] = "queueOffline"
        /\ Put(u, [info EXCEPT !.inbox = Park(@, Head(job[t].msgs))])
        /\ Done(t)
        /\ UNCHANGED <<diffAdded, diffRemoved, linkVars, outVars, forwarded, announced, arriving,
                       moves>>

-----------------------------------------------------------------------------
(* Inboxes are emptied after a move and at an announcement. *)

(* Mutant: the inbox is copied, not emptied. *)
CopyInbox(u) == UNCHANGED users

EmptyInbox(u) ==
    IF Known(u) THEN users' = [users EXCEPT ![u].inbox = <<>>] ELSE UNCHANGED users

(* The router task: popInbox, sendUserMessage for each message, remove. *)
handleMoveUserReq(u) ==
    /\ pc["router"] = "idle"
    /\ moves < MaxMoves
    /\ moves' = moves + 1
    /\ EmptyInbox(u)
    /\ forwarded' = forwarded \cup ToSet(Inbox(u))
    /\ Calls("router", "remove", [user |-> u, msgs |-> <<>>])
    /\ UNCHANGED <<diffAdded, diffRemoved, linkVars, outVars, announced, arriving>>

remove ==
    LET u == job["router"].user
    IN  /\ pc["router"] = "remove"
        /\ users' = [v \in DOMAIN users \ {u} |-> users[v]]
        /\ diffAdded' = diffAdded \ {u}
        /\ diffRemoved' = diffRemoved \cup {u}
        /\ Done("router")
        /\ UNCHANGED <<linkVars, outVars, forwarded, announced, arriving, moves>>

(* Mutant: a removal that has not been announced yet will be. *)
KeepRemoved(u) == diffRemoved

ForgetRemoved(u) == diffRemoved \ {u}

(* The BLE-RX worker: addOrRefresh, popInbox, notify for each message. *)
processIncomingMessage ==
    LET h == Head(bleRxQueue)[1]
        u == Head(bleRxQueue)[2]
    IN  /\ pc["bleRx"] = "idle"
        /\ bleRxQueue # <<>>
        /\ bleRxQueue' = Tail(bleRxQueue)
        /\ Put(u, [isConnected |-> TRUE, bleConnHandle |-> h, inbox |-> Inbox(u)])
        /\ IF Known(u)
           THEN UNCHANGED <<diffAdded, diffRemoved>>
           ELSE /\ diffRemoved' = ForgetRemoved(u)
                /\ diffAdded' = diffAdded \cup {u}
        /\ Calls("bleRx", "popInbox", [user |-> u, msgs |-> <<>>])
        /\ UNCHANGED <<link, closed, connections, outVars, forwarded, announced, arriving, moves>>

popInbox ==
    LET u == job["bleRx"].user
    IN  /\ pc["bleRx"] = "popInbox"
        /\ EmptyInbox(u)
        /\ IF Inbox(u) = <<>> THEN Done("bleRx")
           ELSE Calls("bleRx", "getBleHandle", [user |-> u, msgs |-> Inbox(u)])
        /\ UNCHANGED <<diffAdded, diffRemoved, linkVars, outVars, forwarded, announced, arriving,
                       moves>>

(* The timer worker: getAndClearDiff; receivers add, then remove. *)
sendBroadcastInfo ==
    /\ announced' = (announced \cup diffAdded) \ diffRemoved
    /\ diffAdded' = {}
    /\ diffRemoved' = {}
    /\ UNCHANGED <<users, taskVars, linkVars, outVars, forwarded, arriving, moves>>

-----------------------------------------------------------------------------
Next ==
    \/ \E u \in User, h \in Handle : Connect(u, h)
    \/ \E h \in Handle : Disconnect(h)
    \/ handleBleDisconnect
    \/ bleTxWorker
    \/ \E m \in Message : handleUserMessage(m) \/ oneSync(m)
    \/ \E t \in Task : isOnline(t) \/ getBleHandle(t) \/ queueOffline(t)
    \/ \E u \in User : handleMoveUserReq(u)
    \/ remove
    \/ processIncomingMessage
    \/ popInbox
    \/ sendBroadcastInfo

Spec == Init /\ [][Next]_vars

-----------------------------------------------------------------------------
(* Properties. *)

Places(m) ==
    {<<"inbox", u>> : u \in {v \in DOMAIN users : Contains(users[v].inbox, m)}}
    \cup {<<"job", t>> : t \in {s \in Task : Contains(job[s].msgs, m)}}
    \cup {<<"queue", i>> : i \in {j \in DOMAIN bleTxQueue : bleTxQueue[j][2] = m}}
    \cup {<<"phones">> : u \in {v \in User : Contains(shown[v], m)}}
    \cup {<<"forwarded">> : x \in {m} \cap forwarded}

(* A message is in one place at most and on no phone twice: an inbox emptied  *)
(* by the router after a move and by the BLE-RX worker at an announcement,   *)
(* with deliveries around it, never yields a message twice.                  *)
AtMostOnce ==
    /\ \A m \in Message : Cardinality(Places(m)) <= 1
    /\ \A u \in User : IsInjective(shown[u])

(* The changes not broadcast yet lead from what the mesh was told to what is  *)
(* the case, however additions, removals and broadcasts follow each other.   *)
DiffsAccountForUsers == DOMAIN users = (announced \cup diffAdded) \ diffRemoved

(* A user that has moved away leaves no message behind: none is parked between *)
(* the emptying of the inbox and the removal of the user.                    *)
MovedUserLeavesNothing ==
    [][\A u \in User : Known(u) /\ ~Known(u)' => users[u].inbox = <<>>]_users

=============================================================================
