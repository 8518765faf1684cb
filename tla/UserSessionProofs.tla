-------------------------- MODULE UserSessionProofs --------------------------
(***************************************************************************)
(* UserSessions for any users, phones and messages, and inboxes of any     *)
(* length: the tables are well typed, the changes to be broadcast account  *)
(* for the users known, a user who moves leaves no message behind, and no  *)
(* message is delivered twice.                                             *)
(***************************************************************************)
EXTENDS UserSessions, FiniteSetTheorems, TLAPS

(* A task with a job has a user to do it for and, where it delivers, a message. *)
Equipped ==
    \A t \in Task :
        /\ pc[t] # "idle" => job[t].user \in User
        /\ pc[t] \in {"isOnline", "getBleHandle", "queueOffline"} => job[t].msgs # <<>>

(* Only the router parks messages. *)
OnlyRouterParks == \A t \in Task : pc[t] = "queueOffline" => t = "router"

(* A user the router has found known stays known until it parks the message:  *)
(* only the router removes users.                                            *)
RouterKnows == pc["router"] \in {"isOnline", "queueOffline"} => Known(job["router"].user)

(* The inbox the router has emptied stays empty until it removes the user. *)
RouterEmptied == pc["router"] = "remove" => Inbox(job["router"].user) = <<>>

SessionInv ==
    /\ TypeOK
    /\ Equipped
    /\ OnlyRouterParks
    /\ RouterKnows
    /\ RouterEmptied
    /\ DiffsAccountForUsers

-----------------------------------------------------------------------------
(* The parts of TypeOK that every action disturbs. *)
UsersOK ==
    /\ DOMAIN users \subseteq User
    /\ \A u \in DOMAIN users : users[u] \in UserInfo /\ Len(users[u].inbox) <= InboxLength

TasksOK ==
    /\ pc \in [Task -> Call \cup {"idle"}]
    /\ job \in [Task -> Job]

LEMMA PutTyped ==
    ASSUME UsersOK, NEW u \in User, NEW info \in UserInfo,
           Len(info.inbox) <= InboxLength, Put(u, info)
    PROVE  UsersOK' /\ DOMAIN users' = DOMAIN users \cup {u}
BY DEF UsersOK, Put

(* An inbox of at most InboxLength messages stays one. *)
LEMMA ParkTyped ==
    ASSUME NEW box \in Seq(Message), Len(box) <= InboxLength, NEW m \in Message
    PROVE  Park(box, m) \in Seq(Message) /\ Len(Park(box, m)) <= InboxLength
<1>1. CASE Len(box) = InboxLength
    <2>1. box # <<>>
        BY <1>1, SessionAssumption
    <2>2. Tail(box) \in Seq(Message) /\ Len(Tail(box)) = InboxLength - 1
        BY <1>1, <2>1, SessionAssumption
    <2> QED BY <1>1, <2>2, SessionAssumption DEF Park
<1>2. CASE Len(box) # InboxLength
    BY <1>2, SessionAssumption DEF Park
<1> QED BY <1>1, <1>2

LEMMA CallsTyped ==
    ASSUME TasksOK, NEW t \in Task, NEW call \in Call \cup {"idle"}, NEW j \in Job,
           Calls(t, call, j)
    PROVE  /\ TasksOK'
           /\ pc'[t] = call /\ job'[t] = j
           /\ \A s \in Task : s # t => pc'[s] = pc[s] /\ job'[s] = job[s]
BY DEF TasksOK, Calls

LEMMA NoJobTyped == NoJob \in Job
BY DEF NoJob, Job

LEMMA InboxReplaced ==
    ASSUME NEW info \in UserInfo, NEW box \in Seq(Message)
    PROVE  /\ [info EXCEPT !.inbox = box] \in UserInfo
           /\ [info EXCEPT !.inbox = box].inbox = box
BY DEF UserInfo

(* Emptying an inbox touches nothing else. *)
LEMMA EmptyInboxTyped ==
    ASSUME UsersOK, NEW u \in User, EmptyInbox(u)
    PROVE  /\ UsersOK' /\ DOMAIN users' = DOMAIN users
           /\ \A v \in DOMAIN users : v # u => users'[v] = users[v]
           /\ u \in DOMAIN users => users'[u].inbox = <<>>
<1>1. CASE u \in DOMAIN users
    <2>1. users' = [users EXCEPT ![u].inbox = <<>>]
        BY <1>1 DEF EmptyInbox, Known
    <2>2. users[u] \in UserInfo
        BY <1>1 DEF UsersOK
    <2> DEFINE info == [users[u] EXCEPT !.inbox = <<>>]
    <2>e. <<>> \in Seq(Message)
        OBVIOUS
    <2>3. info \in UserInfo /\ info.inbox = <<>>
        BY <2>2, <2>e, InboxReplaced, Zenon
    <2>4. users' = [users EXCEPT ![u] = info]
        BY <2>1
    <2> HIDE DEF info
    <2> QED BY <1>1, <2>3, <2>4, SessionAssumption DEF UsersOK
<1>2. CASE u \notin DOMAIN users
    BY <1>2 DEF EmptyInbox, Known, UsersOK
<1> QED BY <1>1, <1>2

-----------------------------------------------------------------------------
LEMMA InitEstablishes == Init => SessionInv
BY SessionAssumption
   DEF Init, SessionInv, TypeOK, Equipped, OnlyRouterParks, RouterKnows, RouterEmptied,
       DiffsAccountForUsers, NoJob, Job, Task, Call

(* What the phones do reaches neither the tables nor the tasks. *)
LEMMA PhonesPreserve ==
    ASSUME SessionInv, UNCHANGED <<mapVars, taskVars, announced>>, TypeOK'
    PROVE  SessionInv'
BY DEF SessionInv, Equipped, OnlyRouterParks, RouterKnows, RouterEmptied, DiffsAccountForUsers,
       Known, Inbox, mapVars, taskVars

LEMMA ConnectTyped ==
    ASSUME TypeOK, NEW u \in User, NEW h \in Handle, Connect(u, h)
    PROVE  TypeOK'
<1>1. bleRxQueue' \in Seq(Handle \X User)
    BY DEF TypeOK, Connect
<1>2. connections' \in 0..MaxConnections
    BY SessionAssumption DEF TypeOK, Connect
<1> QED BY <1>1, <1>2 DEF TypeOK, Connect, mapVars, taskVars, outVars

LEMMA DisconnectTyped ==
    ASSUME TypeOK, NEW h \in Handle, Disconnect(h)
    PROVE  TypeOK'
BY DEF TypeOK, Disconnect, mapVars, taskVars, outVars

LEMMA bleTxWorkerTyped ==
    ASSUME TypeOK, bleTxWorker
    PROVE  TypeOK'
<1> DEFINE h == Head(bleTxQueue)[1]
           m == Head(bleTxQueue)[2]
<1>1. bleTxQueue' \in Seq((Handle \cup {None}) \X Message)
    BY DEF TypeOK, bleTxWorker
<1>2. Head(bleTxQueue) \in (Handle \cup {None}) \X Message
    BY DEF TypeOK, bleTxWorker
<1>3. m \in Message
    BY <1>2
<1>4. shown' \in [User -> Seq(Message)]
    <2> HIDE DEF m, h
    <2>1. \A u \in User : Append(shown[u], m) \in Seq(Message)
        BY <1>3 DEF TypeOK
    <2>2. shown' = [u \in User |-> IF u \in Notified(h) THEN Append(shown[u], m) ELSE shown[u]]
        BY DEF bleTxWorker, m, h
    <2> QED BY <2>1, <2>2 DEF TypeOK
<1> QED BY <1>1, <1>4 DEF TypeOK, bleTxWorker, mapVars, taskVars, linkVars

(* A disconnection changes neither who is known nor what waits for them. *)
LEMMA handleBleDisconnectPreserves ==
    ASSUME SessionInv, handleBleDisconnect
    PROVE  SessionInv'
<1>1. UsersOK' /\ DOMAIN users' = DOMAIN users
      /\ \A u \in DOMAIN users : users'[u].inbox = users[u].inbox
    <2>1. CASE UNCHANGED users
        BY <2>1 DEF SessionInv, TypeOK, UsersOK
    <2>2. ASSUME NEW u \in DOMAIN users,
                 users' = [users EXCEPT ![u].isConnected = FALSE, ![u].bleConnHandle = None]
          PROVE  UsersOK' /\ DOMAIN users' = DOMAIN users
                 /\ \A v \in DOMAIN users : users'[v].inbox = users[v].inbox
        <3>1. users[u] \in UserInfo
            BY DEF SessionInv, TypeOK
        <3>2. users'[u] = [users[u] EXCEPT !.isConnected = FALSE, !.bleConnHandle = None]
            BY <2>2
        <3>3. users'[u] \in UserInfo /\ users'[u].inbox = users[u].inbox
            BY <3>1, <3>2 DEF UserInfo
        <3>4. DOMAIN users' = DOMAIN users /\ \A v \in DOMAIN users : v # u => users'[v] = users[v]
            BY <2>2
        <3> QED BY <3>3, <3>4 DEF SessionInv, TypeOK, UsersOK
    <2> QED BY <2>1, <2>2 DEF handleBleDisconnect
<1>2. TypeOK'
    BY <1>1 DEF SessionInv, TypeOK, UsersOK, handleBleDisconnect, taskVars, outVars
<1>3. RouterKnows' /\ RouterEmptied'
    BY <1>1 DEF SessionInv, handleBleDisconnect, RouterKnows, RouterEmptied, Known, Inbox, taskVars
<1> QED BY <1>1, <1>2, <1>3
        DEF SessionInv, Equipped, OnlyRouterParks, DiffsAccountForUsers, handleBleDisconnect, taskVars

-----------------------------------------------------------------------------
(* A task goes on with a job it is equipped for, and the tables stay as they are. *)
LEMMA GoesOn ==
    ASSUME SessionInv, NEW t \in Task, NEW call \in Call \cup {"idle"}, NEW j \in Job,
           Calls(t, call, j), UNCHANGED <<mapVars, announced>>,
           call # "idle" => j.user \in User,
           call \in {"isOnline", "getBleHandle", "queueOffline"} => j.msgs # <<>>,
           call = "queueOffline" => t = "router",
           t = "router" /\ call \in {"isOnline", "queueOffline"} => Known(j.user),
           t = "router" => call # "remove"
    PROVE  /\ TasksOK' /\ UsersOK' /\ Equipped' /\ OnlyRouterParks'
           /\ RouterKnows' /\ RouterEmptied' /\ DiffsAccountForUsers'
<1>1. /\ TasksOK'
      /\ pc'[t] = call /\ job'[t] = j
      /\ \A s \in Task : s # t => pc'[s] = pc[s] /\ job'[s] = job[s]
    BY CallsTyped DEF SessionInv, TypeOK, TasksOK
<1>2. UsersOK'
    BY DEF SessionInv, TypeOK, UsersOK, mapVars
<1>3. Equipped' /\ OnlyRouterParks'
    BY <1>1 DEF SessionInv, Equipped, OnlyRouterParks
<1>4. RouterKnows' /\ RouterEmptied'
    BY <1>1 DEF SessionInv, RouterKnows, RouterEmptied, Known, Inbox, mapVars, Task
<1>5. DiffsAccountForUsers'
    BY DEF SessionInv, DiffsAccountForUsers, mapVars
<1> QED BY <1>1, <1>2, <1>3, <1>4, <1>5

LEMMA TasksUnchanged ==
    ASSUME SessionInv, UNCHANGED <<mapVars, taskVars, announced>>
    PROVE  /\ TasksOK' /\ UsersOK' /\ Equipped' /\ OnlyRouterParks'
           /\ RouterKnows' /\ RouterEmptied' /\ DiffsAccountForUsers'
BY DEF SessionInv, TypeOK, TasksOK, UsersOK, Equipped, OnlyRouterParks, RouterKnows, RouterEmptied,
       Known, Inbox, DiffsAccountForUsers, mapVars, taskVars

LEMMA ArrivesPreserves ==
    ASSUME SessionInv, NEW t \in {"router", "sync"}, NEW m \in Message, Arrives(t, m)
    PROVE  SessionInv'
<1> DEFINE j == [user |-> Recipient[m], msgs |-> <<m>>]
           Goal == /\ TasksOK' /\ UsersOK' /\ Equipped' /\ OnlyRouterParks'
                   /\ RouterKnows' /\ RouterEmptied' /\ DiffsAccountForUsers'
<1>1. Goal
    <2>1. CASE Known(Recipient[m])
        <3>1. j \in Job /\ j.user \in User /\ j.msgs # <<>>
            BY SessionAssumption DEF Job
        <3>2. Calls(t, "isOnline", j) /\ Known(j.user)
            BY <2>1 DEF Arrives
        <3>3. UNCHANGED <<mapVars, announced>> /\ t \in Task /\ "isOnline" \in Call
            BY DEF Arrives, Task, Call
        <3> HIDE DEF j
        <3> QED BY <3>1, <3>2, <3>3, GoesOn
    <2>2. CASE ~Known(Recipient[m])
        BY <2>2, TasksUnchanged DEF Arrives
    <2> QED BY <2>1, <2>2
<1> QED BY <1>1 DEF SessionInv, TypeOK, TasksOK, UsersOK, Arrives, linkVars, outVars, mapVars

LEMMA isOnlinePreserves ==
    ASSUME SessionInv, NEW t \in Task, isOnline(t)
    PROVE  SessionInv'
<1>1. /\ job[t] \in Job /\ job[t].user \in User /\ job[t].msgs # <<>>
      /\ t = "router" => Known(job[t].user)
    BY DEF SessionInv, TypeOK, Equipped, RouterKnows, isOnline
<1>2. UNCHANGED <<mapVars, announced>>
    BY DEF isOnline
<1>3. {"idle", "getBleHandle", "queueOffline"} \subseteq Call \cup {"idle"}
    BY DEF Call
<1>4. /\ TasksOK' /\ UsersOK' /\ Equipped' /\ OnlyRouterParks'
      /\ RouterKnows' /\ RouterEmptied' /\ DiffsAccountForUsers'
    <2>1. CASE Calls(t, "getBleHandle", job[t])
        BY <1>1, <1>2, <1>3, <2>1, GoesOn
    <2>2. CASE t = "router" /\ Calls(t, "queueOffline", job[t])
        BY <1>1, <1>2, <1>3, <2>2, GoesOn
    <2>3. CASE Done(t)
        <3>1. Calls(t, "idle", NoJob)
            BY <2>3 DEF Done
        <3> QED BY <1>2, <3>1, NoJobTyped, GoesOn
    <2> QED BY <2>1, <2>2, <2>3 DEF isOnline, WhenOffline
<1> QED BY <1>4 DEF SessionInv, TypeOK, TasksOK, UsersOK, isOnline, linkVars, outVars, mapVars

LEMMA getBleHandlePreserves ==
    ASSUME SessionInv, NEW t \in Task, getBleHandle(t)
    PROVE  SessionInv'
<1> DEFINE u == job[t].user
           rest == Tail(job[t].msgs)
           j == [job[t] EXCEPT !.msgs = rest]
           h == IF Known(u) THEN users[u].bleConnHandle ELSE None
<1>1. job[t] \in Job /\ job[t].user \in User /\ job[t].msgs # <<>>
    BY DEF SessionInv, TypeOK, Equipped, getBleHandle
<1>2. job[t].msgs \in Seq(Message)
    BY <1>1 DEF Job
<1>3. rest \in Seq(Message) /\ Head(job[t].msgs) \in Message
    BY <1>1, <1>2
<1>4. j \in Job /\ j.user \in User /\ j.msgs = rest
    BY <1>1, <1>3 DEF Job
<1>5. /\ TasksOK' /\ UsersOK' /\ Equipped' /\ OnlyRouterParks'
      /\ RouterKnows' /\ RouterEmptied' /\ DiffsAccountForUsers'
    <2>1. UNCHANGED <<mapVars, announced>> /\ "getBleHandle" \in Call
        BY DEF getBleHandle, Call
    <2>2. CASE rest = <<>>
        <3>1. Calls(t, "idle", NoJob)
            BY <2>2 DEF getBleHandle, Done
        <3> QED BY <2>1, <3>1, NoJobTyped, GoesOn
    <2>3. CASE rest # <<>>
        <3>1. Calls(t, "getBleHandle", j)
            BY <2>3 DEF getBleHandle
        <3>2. j.msgs # <<>>
            BY <1>4, <2>3
        <3> HIDE DEF j, rest
        <3> QED BY <1>4, <2>1, <3>1, <3>2, GoesOn
    <2> QED BY <2>2, <2>3
<1>6. bleTxQueue' \in Seq((Handle \cup {None}) \X Message)
    <2>1. h \in Handle \cup {None}
        BY DEF SessionInv, TypeOK, UserInfo, Known
    <2>2. <<h, Head(job[t].msgs)>> \in (Handle \cup {None}) \X Message
        BY <1>3, <2>1
    <2>3. bleTxQueue' = Append(bleTxQueue, <<h, Head(job[t].msgs)>>)
        BY DEF getBleHandle
    <2> HIDE DEF h
    <2> QED BY <2>2, <2>3 DEF SessionInv, TypeOK
<1> QED BY <1>5, <1>6 DEF SessionInv, TypeOK, TasksOK, UsersOK, getBleHandle, linkVars, mapVars

-----------------------------------------------------------------------------
LEMMA queueOfflinePreserves ==
    ASSUME SessionInv, NEW t \in Task, queueOffline(t)
    PROVE  SessionInv'
<1> DEFINE u == job["router"].user
           box == Park(users[u].inbox, Head(job["router"].msgs))
           info == [users[u] EXCEPT !.inbox = box]
<1>1. t = "router" /\ Known(u) /\ u \in User /\ job["router"] \in Job
      /\ job["router"].msgs # <<>> /\ "router" \in Task
    BY DEF SessionInv, TypeOK, Equipped, OnlyRouterParks, RouterKnows, queueOffline
<1>2. users[u] \in UserInfo /\ Len(users[u].inbox) <= InboxLength
    BY <1>1 DEF SessionInv, TypeOK, Known
<1>3. users[u].inbox \in Seq(Message) /\ Head(job["router"].msgs) \in Message
    BY <1>1, <1>2 DEF UserInfo, Job
<1>4. box \in Seq(Message) /\ Len(box) <= InboxLength
    BY <1>2, <1>3, ParkTyped
<1>5. Put(u, info)
    BY <1>1 DEF queueOffline
<1>6. info \in UserInfo /\ Len(info.inbox) <= InboxLength
    <2> HIDE DEF box
    <2>1. info \in UserInfo /\ info.inbox = box
        BY <1>2, <1>4, InboxReplaced, Zenon
    <2> QED BY <1>4, <2>1
<1>7. UsersOK' /\ DOMAIN users' = DOMAIN users
    <2> HIDE DEF info, u
    <2>1. UsersOK' /\ DOMAIN users' = DOMAIN users \cup {u}
        BY <1>1, <1>5, <1>6, PutTyped DEF SessionInv, TypeOK, UsersOK
    <2> QED BY <1>1, <2>1 DEF Known
<1>8. /\ TasksOK'
      /\ pc'["router"] = "idle" /\ job'["router"] = NoJob
      /\ \A s \in Task : s # "router" => pc'[s] = pc[s] /\ job'[s] = job[s]
    BY <1>1, NoJobTyped, CallsTyped DEF queueOffline, Done, SessionInv, TypeOK, TasksOK
<1>9. TypeOK'
    BY <1>7, <1>8 DEF SessionInv, TypeOK, UsersOK, TasksOK, queueOffline, linkVars, outVars
<1>10. Equipped' /\ OnlyRouterParks' /\ RouterKnows' /\ RouterEmptied'
    BY <1>8 DEF SessionInv, Equipped, OnlyRouterParks, RouterKnows, RouterEmptied
<1> QED BY <1>7, <1>9, <1>10 DEF SessionInv, DiffsAccountForUsers, queueOffline

LEMMA handleMoveUserReqPreserves ==
    ASSUME SessionInv, NEW u \in User, handleMoveUserReq(u)
    PROVE  SessionInv'
<1> DEFINE j == [user |-> u, msgs |-> <<>>]
<1>1. /\ UsersOK' /\ DOMAIN users' = DOMAIN users
      /\ u \in DOMAIN users => users'[u].inbox = <<>>
    BY EmptyInboxTyped DEF handleMoveUserReq, SessionInv, TypeOK, UsersOK
<1>2. j \in Job /\ j.user = u
    BY DEF Job
<1>3. Calls("router", "remove", j) /\ "router" \in Task /\ "remove" \in Call
    BY DEF handleMoveUserReq, Task, Call
<1>4. /\ TasksOK'
      /\ pc'["router"] = "remove" /\ job'["router"] = j
      /\ \A s \in Task : s # "router" => pc'[s] = pc[s] /\ job'[s] = job[s]
    <2> HIDE DEF j
    <2> QED BY <1>2, <1>3, CallsTyped DEF SessionInv, TypeOK, TasksOK
<1> HIDE DEF j
<1>5. forwarded' \subseteq Message
    <2>1. Inbox(u) \in Seq(Message)
        BY DEF SessionInv, TypeOK, UserInfo, Inbox, Known
    <2>2. ToSet(Inbox(u)) \subseteq Message
        BY <2>1 DEF ToSet
    <2> QED BY <2>2 DEF SessionInv, TypeOK, handleMoveUserReq
<1>6. TypeOK'
    BY <1>1, <1>4, <1>5, SessionAssumption
       DEF SessionInv, TypeOK, UsersOK, TasksOK, handleMoveUserReq, linkVars, outVars
<1>7. Equipped' /\ OnlyRouterParks' /\ RouterKnows' /\ RouterEmptied'
    BY <1>1, <1>2, <1>4
       DEF SessionInv, Equipped, OnlyRouterParks, RouterKnows, RouterEmptied, Inbox, Known
<1> QED BY <1>1, <1>6, <1>7 DEF SessionInv, DiffsAccountForUsers, handleMoveUserReq

LEMMA removePreserves ==
    ASSUME SessionInv, remove
    PROVE  SessionInv'
<1> DEFINE u == job["router"].user
<1>1. /\ TasksOK'
      /\ pc'["router"] = "idle" /\ job'["router"] = NoJob
      /\ \A s \in Task : s # "router" => pc'[s] = pc[s] /\ job'[s] = job[s]
    BY NoJobTyped, CallsTyped DEF remove, Done, Task, SessionInv, TypeOK, TasksOK
<1>2. u \in User
    BY DEF remove, Task, SessionInv, Equipped
<1>3. UsersOK' /\ DOMAIN users' = DOMAIN users \ {u}
    BY DEF remove, SessionInv, TypeOK, UsersOK
<1>4. TypeOK'
    BY <1>1, <1>2, <1>3 DEF SessionInv, TypeOK, UsersOK, TasksOK, remove, linkVars, outVars
<1>5. Equipped' /\ OnlyRouterParks' /\ RouterKnows' /\ RouterEmptied'
    BY <1>1 DEF SessionInv, Equipped, OnlyRouterParks, RouterKnows, RouterEmptied
<1>6. DiffsAccountForUsers'
    BY <1>3 DEF SessionInv, DiffsAccountForUsers, remove
<1> QED BY <1>4, <1>5, <1>6 DEF SessionInv

LEMMA processIncomingMessagePreserves ==
    ASSUME SessionInv, processIncomingMessage
    PROVE  SessionInv'
<1> DEFINE h == Head(bleRxQueue)[1]
           u == Head(bleRxQueue)[2]
           info == [isConnected |-> TRUE, bleConnHandle |-> h, inbox |-> Inbox(u)]
           j == [user |-> u, msgs |-> <<>>]
<1>1. bleRxQueue \in Seq(Handle \X User) /\ bleRxQueue # <<>>
    BY DEF SessionInv, TypeOK, processIncomingMessage
<1>2. Head(bleRxQueue) \in Handle \X User /\ bleRxQueue' \in Seq(Handle \X User)
    BY <1>1 DEF processIncomingMessage
<1>3. h \in Handle /\ u \in User
    BY <1>2
<1>4. Inbox(u) \in Seq(Message) /\ Len(Inbox(u)) <= InboxLength
    BY SessionAssumption DEF SessionInv, TypeOK, UserInfo, Inbox, Known
<1>5. info \in UserInfo /\ info.inbox = Inbox(u)
    <2> HIDE DEF h, u
    <2> QED BY <1>3, <1>4 DEF UserInfo
<1>6. Put(u, info) /\ Calls("bleRx", "popInbox", j) /\ "bleRx" \in Task /\ "popInbox" \in Call
    BY DEF processIncomingMessage, Task, Call
<1>7. j \in Job /\ j.user = u
    <2> HIDE DEF u
    <2> QED BY <1>3 DEF Job
<1>8. /\ UsersOK' /\ DOMAIN users' = DOMAIN users \cup {u}
      /\ \A v \in User : Inbox(v)' = Inbox(v)
    <2>1. UsersOK' /\ DOMAIN users' = DOMAIN users \cup {u}
        <3> HIDE DEF info, u
        <3> QED BY <1>3, <1>4, <1>5, <1>6, PutTyped DEF SessionInv, TypeOK, UsersOK
    <2>2. \A v \in User : Inbox(v)' = Inbox(v)
        <3> HIDE DEF info, u
        <3> QED BY <1>5, <1>6 DEF Put, Inbox, Known
    <2> QED BY <2>1, <2>2
<1>9. /\ TasksOK'
      /\ pc'["bleRx"] = "popInbox" /\ job'["bleRx"] = j
      /\ \A s \in Task : s # "bleRx" => pc'[s] = pc[s] /\ job'[s] = job[s]
    <2> HIDE DEF j
    <2> QED BY <1>6, <1>7, CallsTyped DEF SessionInv, TypeOK, TasksOK
<1>10. CASE u \in DOMAIN users
    <2>1. DOMAIN users' = DOMAIN users /\ UNCHANGED <<diffAdded, diffRemoved>>
        BY <1>8, <1>10 DEF processIncomingMessage, Known
    <2>2. TypeOK'
        BY <1>2, <1>8, <1>9, <2>1
           DEF SessionInv, TypeOK, UsersOK, TasksOK, processIncomingMessage, outVars
    <2>3. Equipped' /\ OnlyRouterParks' /\ RouterKnows' /\ RouterEmptied'
        BY <1>3, <1>7, <1>8, <1>9, <2>1
           DEF SessionInv, Equipped, OnlyRouterParks, RouterKnows, RouterEmptied, Known, Task
    <2> QED BY <2>1, <2>2, <2>3 DEF SessionInv, DiffsAccountForUsers, processIncomingMessage
<1>11. CASE u \notin DOMAIN users
    <2>1. diffRemoved' = diffRemoved \ {u} /\ diffAdded' = diffAdded \cup {u}
        BY <1>11 DEF processIncomingMessage, ForgetRemoved, Known
    <2>2. TypeOK'
        BY <1>2, <1>3, <1>8, <1>9, <2>1
           DEF SessionInv, TypeOK, UsersOK, TasksOK, processIncomingMessage, outVars
    <2>3. Equipped' /\ OnlyRouterParks' /\ RouterKnows' /\ RouterEmptied'
        BY <1>3, <1>7, <1>8, <1>9
           DEF SessionInv, Equipped, OnlyRouterParks, RouterKnows, RouterEmptied, Known, Task
    <2>4. DiffsAccountForUsers'
        BY <1>8, <2>1 DEF SessionInv, DiffsAccountForUsers, processIncomingMessage
    <2> QED BY <2>2, <2>3, <2>4 DEF SessionInv
<1> QED BY <1>10, <1>11

LEMMA popInboxPreserves ==
    ASSUME SessionInv, popInbox
    PROVE  SessionInv'
<1> DEFINE u == job["bleRx"].user
           j == [user |-> u, msgs |-> Inbox(u)]
<1>1. u \in User
    BY DEF SessionInv, Equipped, popInbox, Task
<1>2. Inbox(u) \in Seq(Message)
    BY DEF SessionInv, TypeOK, UserInfo, Inbox, Known
<1>3. j \in Job /\ j.user = u /\ j.msgs = Inbox(u)
    <2> HIDE DEF u
    <2> QED BY <1>1, <1>2 DEF Job
<1>4. /\ UsersOK' /\ DOMAIN users' = DOMAIN users
      /\ \A v \in DOMAIN users : v # u => users'[v] = users[v]
      /\ u \in DOMAIN users => users'[u].inbox = <<>>
    <2> HIDE DEF u
    <2>1. EmptyInbox(u)
        BY DEF popInbox, u
    <2> QED BY <1>1, <2>1, EmptyInboxTyped DEF SessionInv, TypeOK, UsersOK
<1>5. /\ TasksOK'
      /\ \/ pc'["bleRx"] = "idle"
         \/ /\ pc'["bleRx"] = "getBleHandle"
            /\ job'["bleRx"].user \in User
            /\ job'["bleRx"].msgs # <<>>
      /\ \A s \in Task : s # "bleRx" => pc'[s] = pc[s] /\ job'[s] = job[s]
    <2>1. "bleRx" \in Task /\ "getBleHandle" \in Call
        BY DEF Task, Call
    <2>2. CASE Inbox(u) = <<>>
        <3>1. Calls("bleRx", "idle", NoJob)
            BY <2>2 DEF popInbox, Done
        <3> QED BY <2>1, <3>1, NoJobTyped, CallsTyped DEF SessionInv, TypeOK, TasksOK
    <2>3. CASE Inbox(u) # <<>>
        <3>1. Calls("bleRx", "getBleHandle", j)
            BY <2>3 DEF popInbox
        <3> HIDE DEF j
        <3> QED BY <1>1, <1>3, <2>1, <2>3, <3>1, CallsTyped DEF SessionInv, TypeOK, TasksOK
    <2> QED BY <2>2, <2>3
<1>6. TypeOK'
    BY <1>4, <1>5 DEF SessionInv, TypeOK, UsersOK, TasksOK, popInbox, linkVars, outVars
<1>7. Equipped' /\ OnlyRouterParks' /\ RouterKnows' /\ RouterEmptied'
    BY <1>4, <1>5
       DEF SessionInv, Equipped, OnlyRouterParks, RouterKnows, RouterEmptied, Known, Inbox, Task
<1> QED BY <1>4, <1>6, <1>7 DEF SessionInv, DiffsAccountForUsers, popInbox

LEMMA sendBroadcastInfoPreserves ==
    ASSUME SessionInv, sendBroadcastInfo
    PROVE  SessionInv'
<1>1. TypeOK'
    BY DEF SessionInv, TypeOK, sendBroadcastInfo, taskVars, linkVars, outVars
<1>2. Equipped' /\ OnlyRouterParks' /\ RouterKnows' /\ RouterEmptied'
    BY DEF SessionInv, sendBroadcastInfo, Equipped, OnlyRouterParks, RouterKnows, RouterEmptied,
           Known, Inbox, taskVars
<1>3. DiffsAccountForUsers'
    BY DEF SessionInv, DiffsAccountForUsers, sendBroadcastInfo
<1> QED BY <1>1, <1>2, <1>3 DEF SessionInv

-----------------------------------------------------------------------------
LEMMA StepPreserves == SessionInv /\ [Next]_vars => SessionInv'
<1> SUFFICES ASSUME SessionInv, [Next]_vars PROVE SessionInv'
    OBVIOUS
<1>1. CASE UNCHANGED vars
    <2>1. TypeOK'
        BY <1>1 DEF SessionInv, TypeOK, vars, mapVars, taskVars, linkVars, outVars
    <2> QED BY <1>1, <2>1, PhonesPreserve DEF vars
<1>2. ASSUME NEW u \in User, NEW h \in Handle, Connect(u, h) PROVE SessionInv'
    BY <1>2, ConnectTyped, PhonesPreserve DEF Connect, SessionInv
<1>3. ASSUME NEW h \in Handle, Disconnect(h) PROVE SessionInv'
    BY <1>3, DisconnectTyped, PhonesPreserve DEF Disconnect, SessionInv
<1>4. ASSUME bleTxWorker PROVE SessionInv'
    BY <1>4, bleTxWorkerTyped, PhonesPreserve DEF bleTxWorker, SessionInv
<1>5. ASSUME NEW m \in Message, handleUserMessage(m) \/ oneSync(m) PROVE SessionInv'
    BY <1>5, ArrivesPreserves DEF handleUserMessage, oneSync
<1> QED BY <1>1, <1>2, <1>3, <1>4, <1>5, handleBleDisconnectPreserves, isOnlinePreserves,
           getBleHandlePreserves, queueOfflinePreserves, handleMoveUserReqPreserves,
           removePreserves, processIncomingMessagePreserves, popInboxPreserves,
           sendBroadcastInfoPreserves
        DEF Next

(* The invariant the theorems follow from. *)
THEOREM SessionInvariant == Spec => []SessionInv
<1> QED BY InitEstablishes, StepPreserves, PTL DEF Spec

(* The session tables are well typed, whatever the tasks do: no inbox holds   *)
(* more than InboxLength messages.                                           *)
THEOREM SessionsTyped == Spec => []TypeOK
<1>1. SessionInv => TypeOK
    BY DEF SessionInv
<1> QED BY <1>1, SessionInvariant, PTL

(* The changes to be broadcast always account for the users known. *)
THEOREM DiffsAccount == Spec => []DiffsAccountForUsers
<1>1. SessionInv => DiffsAccountForUsers
    BY DEF SessionInv
<1> QED BY <1>1, SessionInvariant, PTL

(* Only remove makes a user unknown, and the router has emptied the inbox. *)
LEMMA OnlyRemoveForgets ==
    ASSUME SessionInv, [Next]_vars, NEW u \in User, Known(u), ~Known(u)'
    PROVE  remove /\ u = job["router"].user
<1>1. remove
    <2>1. CASE UNCHANGED users
        BY <2>1 DEF Known
    <2>2. ASSUME handleBleDisconnect PROVE DOMAIN users \subseteq DOMAIN users'
        BY <2>2 DEF handleBleDisconnect
    <2>3. ASSUME NEW t \in Task, queueOffline(t) PROVE DOMAIN users \subseteq DOMAIN users'
        BY <2>3 DEF queueOffline, Put
    <2>4. ASSUME NEW v, EmptyInbox(v) PROVE DOMAIN users \subseteq DOMAIN users'
        BY <2>4 DEF EmptyInbox
    <2>5. ASSUME processIncomingMessage PROVE DOMAIN users \subseteq DOMAIN users'
        BY <2>5 DEF processIncomingMessage, Put
    <2>6. ~(DOMAIN users \subseteq DOMAIN users')
        BY DEF Known
    <2> QED BY <2>1, <2>2, <2>3, <2>4, <2>5, <2>6
            DEF Next, vars, mapVars, Connect, Disconnect, bleTxWorker, handleUserMessage, oneSync,
                Arrives, isOnline, getBleHandle, handleMoveUserReq, popInbox, sendBroadcastInfo
<1>2. u = job["router"].user
    BY <1>1 DEF remove, Known
<1> QED BY <1>1, <1>2

(* A user who has moved leaves no message behind, however long the router     *)
(* takes to send the inbox after them.                                       *)
THEOREM MoveLeavesNothing == Spec => MovedUserLeavesNothing
<1>1. SessionInv /\ [Next]_vars =>
          [\A u \in User : Known(u) /\ ~Known(u)' => users[u].inbox = <<>>]_users
    <2> SUFFICES ASSUME SessionInv, [Next]_vars, NEW u \in User, Known(u), ~Known(u)'
                 PROVE  users[u].inbox = <<>>
        OBVIOUS
    <2>1. remove /\ u = job["router"].user
        BY OnlyRemoveForgets
    <2> QED BY <2>1 DEF remove, SessionInv, RouterEmptied, Inbox
<1> QED BY <1>1, SessionInvariant, PTL DEF Spec, MovedUserLeavesNothing

-----------------------------------------------------------------------------
(* Where a message is.  A message that several phones show is in one place,   *)
(* "phones"; "arriving" is the place of those that have yet to come.         *)
Kind == {"inbox", "job", "queue", "phones", "forwarded", "arriving"}

Slot == User \cup Task \cup {None}

Held(m, k, x) ==
    \/ k = "inbox" /\ x \in DOMAIN users /\ Contains(users[x].inbox, m)
    \/ k = "job" /\ x \in Task /\ Contains(job[x].msgs, m)
    \/ k = "queue" /\ x = None /\ \E i \in DOMAIN bleTxQueue : bleTxQueue[i][2] = m
    \/ k = "phones" /\ x = None /\ \E u \in User : Contains(shown[u], m)
    \/ k = "forwarded" /\ x = None /\ m \in forwarded
    \/ k = "arriving" /\ x = None /\ m \in arriving

OnePlace ==
    \A m \in Message : \A k, l \in Kind, x, y \in Slot :
        Held(m, k, x) /\ Held(m, l, y) => k = l /\ x = y

(* No place holds a message twice. *)
NoRepeats ==
    /\ \A u \in DOMAIN users : IsInjective(users[u].inbox)
    /\ \A t \in Task : IsInjective(job[t].msgs)
    /\ \A i, j \in DOMAIN bleTxQueue : bleTxQueue[i][2] = bleTxQueue[j][2] => i = j
    /\ \A u \in User : IsInjective(shown[u])

DeliveryInv == OnePlace /\ NoRepeats

(* Each message stays where it is, disappears, or ends up in one place alone. *)
LEMMA OnePlaceKept ==
    ASSUME OnePlace,
           \A m \in Message :
               \/ \A k \in Kind, x \in Slot : Held(m, k, x)' => Held(m, k, x)
               \/ \E l \in Kind, y \in Slot :
                      \A k \in Kind, x \in Slot : Held(m, k, x)' => k = l /\ x = y
    PROVE  OnePlace'
BY DEF OnePlace

(* One message moves, the others stay where they are. *)
LEMMA OneMoves ==
    ASSUME OnePlace, NEW m \in Message, NEW l \in Kind, NEW y \in Slot,
           \A k \in Kind, x \in Slot : Held(m, k, x)' => k = l /\ x = y,
           \A n \in Message \ {m} : \A k \in Kind, x \in Slot : Held(n, k, x)' => Held(n, k, x)
    PROVE  OnePlace'
<1>1. \A n \in Message :
          \/ \A k \in Kind, x \in Slot : Held(n, k, x)' => Held(n, k, x)
          \/ \E g \in Kind, z \in Slot :
                 \A k \in Kind, x \in Slot : Held(n, k, x)' => k = g /\ x = z
    <2> SUFFICES ASSUME NEW n \in Message, n = m
                 PROVE  \E g \in Kind, z \in Slot :
                            \A k \in Kind, x \in Slot : Held(n, k, x)' => k = g /\ x = z
        OBVIOUS
    <2> QED OBVIOUS
<1> QED BY <1>1, OnePlaceKept

LEMMA TypedPlaces ==
    ASSUME TypeOK
    PROVE  /\ DOMAIN users \subseteq User
           /\ \A u \in DOMAIN users : users[u].inbox \in Seq(Message)
           /\ \A t \in Task : job[t].msgs \in Seq(Message)
           /\ bleTxQueue \in Seq((Handle \cup {None}) \X Message)
           /\ \A u \in User : shown[u] \in Seq(Message)
BY DEF TypeOK, UserInfo, Job

LEMMA AppendedOnce ==
    ASSUME NEW s \in Seq(Message), NEW e \in Message
    PROVE  /\ \A m : Contains(Append(s, e), m) => Contains(s, m) \/ m = e
           /\ IsInjective(s) /\ ~Contains(s, e) => IsInjective(Append(s, e))
<1>1. /\ Len(Append(s, e)) = Len(s) + 1
      /\ \A i \in 1..Len(s) : Append(s, e)[i] = s[i]
      /\ Append(s, e)[Len(s) + 1] = e
      /\ DOMAIN Append(s, e) = 1..(Len(s) + 1) /\ DOMAIN s = 1..Len(s)
      /\ Len(s) \in Nat
    OBVIOUS
<1>2. \A i \in 1..(Len(s) + 1) : i \in 1..Len(s) \/ i = Len(s) + 1
    BY <1>1
<1> DEFINE r == Append(s, e)
<1> HIDE DEF r
<1> QED BY <1>1, <1>2 DEF Contains, IsInjective, r

LEMMA TakenOff ==
    ASSUME NEW s \in Seq(Message), s # <<>>
    PROVE  /\ Head(s) \in Message /\ Tail(s) \in Seq(Message) /\ Contains(s, Head(s))
           /\ \A m : Contains(Tail(s), m) => Contains(s, m)
           /\ IsInjective(s) => IsInjective(Tail(s)) /\ ~Contains(Tail(s), Head(s))
<1>1. /\ Len(s) \in Nat \ {0} /\ DOMAIN s = 1..Len(s)
      /\ Tail(s) \in Seq(Message) /\ Len(Tail(s)) = Len(s) - 1
      /\ DOMAIN Tail(s) = 1..(Len(s) - 1)
      /\ \A i \in 1..(Len(s) - 1) : Tail(s)[i] = s[i + 1]
      /\ Head(s) = s[1] /\ Head(s) \in Message
    OBVIOUS
<1>2. 1 \in 1..Len(s) /\ \A i \in 1..(Len(s) - 1) : i + 1 \in 1..Len(s) /\ i + 1 # 1
    BY <1>1
<1>3. \A i, j \in 1..(Len(s) - 1) : i + 1 = j + 1 => i = j
    BY <1>1
<1> DEFINE r == Tail(s)
<1> HIDE DEF r
<1> QED BY <1>1, <1>2, <1>3 DEF Contains, IsInjective, r

LEMMA NothingInEmpty ==
    /\ \A m : ~Contains(<<>>, m)
    /\ IsInjective(<<>>)
BY DEF Contains, IsInjective

(* Where nothing is added to an inbox, a job or a queue, nothing is doubled. *)
LEMMA KeptBack ==
    ASSUME DeliveryInv,
           \A u \in DOMAIN users' :
               \/ users'[u].inbox = <<>>
               \/ u \in DOMAIN users /\ users'[u].inbox = users[u].inbox,
           \A t \in Task : job'[t].msgs = <<>> \/ job'[t].msgs = job[t].msgs,
           UNCHANGED <<outVars, forwarded>>, arriving' \subseteq arriving
    PROVE  DeliveryInv'
<1>1. \A m \in Message : \A k \in Kind, x \in Slot : Held(m, k, x)' => Held(m, k, x)
    BY NothingInEmpty DEF Held, outVars
<1>2. OnePlace'
    BY <1>1, OnePlaceKept DEF DeliveryInv
<1>3. NoRepeats'
    BY NothingInEmpty DEF DeliveryInv, NoRepeats, outVars
<1> QED BY <1>2, <1>3 DEF DeliveryInv

-----------------------------------------------------------------------------
LEMMA InitPlaces == Init => DeliveryInv
<1> SUFFICES ASSUME Init PROVE DeliveryInv
    OBVIOUS
<1>1. \A m \in Message : \A k \in Kind, x \in Slot : Held(m, k, x) => k = "arriving" /\ x = None
    BY NothingInEmpty DEF Init, Held, NoJob
<1>2. NoRepeats
    BY NothingInEmpty DEF Init, NoRepeats, NoJob
<1> QED BY <1>1, <1>2 DEF DeliveryInv, OnePlace

(* What the phones and the timer worker do moves no message. *)
LEMMA PhonesMoveNothing ==
    ASSUME DeliveryInv, UNCHANGED <<users, job, outVars, forwarded, arriving>>
    PROVE  DeliveryInv'
BY KeptBack

LEMMA handleBleDisconnectMoves ==
    ASSUME SessionInv, DeliveryInv, handleBleDisconnect
    PROVE  DeliveryInv'
<1>1. \A u \in DOMAIN users' : u \in DOMAIN users /\ users'[u].inbox = users[u].inbox
    <2>1. CASE UNCHANGED users
        BY <2>1
    <2>2. ASSUME NEW u \in DOMAIN users,
                 users' = [users EXCEPT ![u].isConnected = FALSE, ![u].bleConnHandle = None]
          PROVE  \A v \in DOMAIN users' : v \in DOMAIN users /\ users'[v].inbox = users[v].inbox
        <3>1. users[u] \in UserInfo
            BY DEF SessionInv, TypeOK
        <3>2. users'[u] = [users[u] EXCEPT !.isConnected = FALSE, !.bleConnHandle = None]
            BY <2>2
        <3>3. users'[u].inbox = users[u].inbox
            BY <3>1, <3>2 DEF UserInfo
        <3>4. DOMAIN users' = DOMAIN users /\ \A v \in DOMAIN users : v # u => users'[v] = users[v]
            BY <2>2
        <3> QED BY <3>3, <3>4
    <2> QED BY <2>1, <2>2 DEF handleBleDisconnect
<1> QED BY <1>1, KeptBack DEF handleBleDisconnect, taskVars

LEMMA isOnlineMoves ==
    ASSUME SessionInv, DeliveryInv, NEW t \in Task, isOnline(t)
    PROVE  DeliveryInv'
<1>1. \A s \in Task : job'[s].msgs = <<>> \/ job'[s].msgs = job[s].msgs
    BY DEF isOnline, WhenOffline, Done, Calls, NoJob, SessionInv, TypeOK
<1> QED BY <1>1, KeptBack DEF isOnline, mapVars

LEMMA removeMoves ==
    ASSUME SessionInv, DeliveryInv, remove
    PROVE  DeliveryInv'
<1>1. \A s \in Task : job'[s].msgs = <<>> \/ job'[s].msgs = job[s].msgs
    BY DEF remove, Done, Calls, NoJob, SessionInv, TypeOK
<1>2. \A u \in DOMAIN users' : u \in DOMAIN users /\ users'[u].inbox = users[u].inbox
    BY DEF remove
<1> QED BY <1>1, <1>2, KeptBack DEF remove

(* addOrRefresh keeps the inbox of the user it finds. *)
LEMMA processIncomingMessageMoves ==
    ASSUME SessionInv, DeliveryInv, processIncomingMessage
    PROVE  DeliveryInv'
<1> DEFINE u == Head(bleRxQueue)[2]
           info == [isConnected |-> TRUE, bleConnHandle |-> Head(bleRxQueue)[1],
                    inbox |-> Inbox(u)]
<1>1. \A s \in Task : job'[s].msgs = <<>> \/ job'[s].msgs = job[s].msgs
    BY DEF processIncomingMessage, Calls, SessionInv, TypeOK
<1>2. users' = [v \in DOMAIN users \cup {u} |-> IF v = u THEN info ELSE users[v]]
    BY DEF processIncomingMessage, Put
<1>3. info.inbox = Inbox(u)
    OBVIOUS
<1>4. \A v \in DOMAIN users' :
          \/ users'[v].inbox = <<>>
          \/ v \in DOMAIN users /\ users'[v].inbox = users[v].inbox
    <2> HIDE DEF info, u
    <2> QED BY <1>2, <1>3 DEF Inbox, Known
<1> QED BY <1>1, <1>4, KeptBack DEF processIncomingMessage

-----------------------------------------------------------------------------
(* A message in one place is in no other. *)
LEMMA OnlyThere ==
    ASSUME OnePlace, NEW m \in Message, NEW k \in Kind, NEW x \in Slot, Held(m, k, x)
    PROVE  \A l \in Kind, y \in Slot : Held(m, l, y) => l = k /\ y = x
BY DEF OnePlace

(* From the air into the job of the task that has received it. *)
LEMMA ArrivesMoves ==
    ASSUME SessionInv, DeliveryInv, NEW t \in {"router", "sync"}, NEW m \in arriving,
           Arrives(t, m)
    PROVE  DeliveryInv'
<1>1. CASE UNCHANGED taskVars
    BY <1>1, KeptBack DEF Arrives, taskVars, mapVars
<1>2. CASE Known(Recipient[m])
    <2> DEFINE j == [user |-> Recipient[m], msgs |-> <<m>>]
    <2>1. m \in Message /\ t \in Task /\ t \in Slot /\ None \in Slot
          /\ "job" \in Kind /\ "arriving" \in Kind
        BY DEF SessionInv, TypeOK, Task, Slot, Kind
    <2>2. job' = [job EXCEPT ![t] = j] /\ job \in [Task -> Job]
        BY <1>2 DEF Arrives, Calls, SessionInv, TypeOK
    <2>3. job'[t].msgs = <<m>> /\ \A s \in Task : s # t => job'[s] = job[s]
        BY <2>1, <2>2
    <2>4. IsInjective(<<m>>) /\ \A n : Contains(<<m>>, n) => n = m
        BY DEF IsInjective, Contains
    <2>5. UNCHANGED <<users, outVars, forwarded>> /\ arriving' = arriving \ {m}
        BY DEF Arrives, mapVars
    <2>6. Held(m, "arriving", None)
        BY DEF Held
    <2>7. ASSUME NEW k \in Kind, NEW x \in Slot, Held(m, k, x)'
          PROVE  k = "job" /\ x = t
        <3>1. \A l \in Kind, y \in Slot : Held(m, l, y) => l = "arriving" /\ y = None
            BY <2>1, <2>6, OnlyThere DEF DeliveryInv
        <3>2. Held(m, k, x) \/ (k = "job" /\ x = t)
            BY <2>3, <2>5, <2>7 DEF Held, outVars
        <3>3. ~Held(m, "arriving", None)'
            BY <2>5 DEF Held
        <3> QED BY <2>7, <3>1, <3>2, <3>3
    <2>8. ASSUME NEW n \in Message, n # m, NEW k \in Kind, NEW x \in Slot, Held(n, k, x)'
          PROVE  Held(n, k, x)
        BY <2>3, <2>4, <2>5, <2>8 DEF Held, outVars
    <2>9. OnePlace'
        BY <2>1, <2>7, <2>8, OneMoves DEF DeliveryInv
    <2>10. NoRepeats'
        BY <2>3, <2>4, <2>5 DEF DeliveryInv, NoRepeats, outVars
    <2> QED BY <2>9, <2>10 DEF DeliveryInv
<1> QED BY <1>1, <1>2 DEF Arrives

-----------------------------------------------------------------------------
(* From a task's job to the end of the queue to the phones. *)
LEMMA getBleHandleMoves ==
    ASSUME SessionInv, DeliveryInv, NEW t \in Task, getBleHandle(t)
    PROVE  DeliveryInv'
<1> DEFINE s == job[t].msgs
           h == IF Known(job[t].user) THEN users[job[t].user].bleConnHandle ELSE None
           q == bleTxQueue
<1>1. s \in Seq(Message) /\ s # <<>> /\ t \in Slot /\ None \in Slot
      /\ "job" \in Kind /\ "queue" \in Kind
    BY TypedPlaces DEF SessionInv, Equipped, getBleHandle, Slot, Kind
<1>0. PICK m \in Message : m = Head(s)
    <2> HIDE DEF s
    <2> QED BY <1>1, TakenOff
<1>2. /\ Contains(s, m) /\ Tail(s) \in Seq(Message)
      /\ IsInjective(Tail(s)) /\ ~Contains(Tail(s), m)
      /\ \A n : Contains(Tail(s), n) => Contains(s, n)
    <2>1. IsInjective(s)
        BY DEF DeliveryInv, NoRepeats
    <2> HIDE DEF s
    <2> QED BY <1>0, <1>1, <2>1, TakenOff
<1>3. job'[t].msgs = Tail(s) \/ job'[t].msgs = <<>>
    <2>1. job[t] \in Job /\ job \in [Task -> Job]
        BY DEF SessionInv, TypeOK
    <2> DEFINE j == [job[t] EXCEPT !.msgs = Tail(s)]
    <2>2. job' = [job EXCEPT ![t] = NoJob] \/ job' = [job EXCEPT ![t] = j]
        BY DEF getBleHandle, Done, Calls
    <2>3. j.msgs = Tail(s)
        BY <2>1 DEF Job
    <2> HIDE DEF s, j
    <2> QED BY <2>1, <2>2, <2>3 DEF NoJob
<1>4. \A r \in Task : r # t => job'[r] = job[r]
    BY DEF getBleHandle, Done, Calls, SessionInv, TypeOK
<1>5. UNCHANGED <<users, shown, forwarded, arriving>> /\ q' = Append(q, <<h, m>>)
    BY <1>0 DEF getBleHandle, mapVars
<1>6. /\ Len(q) \in Nat /\ DOMAIN q = 1..Len(q) /\ DOMAIN q' = 1..(Len(q) + 1)
      /\ \A i \in DOMAIN q : q'[i] = q[i]
      /\ q'[Len(q) + 1] = <<h, m>>
    <2>1. q \in Seq((Handle \cup {None}) \X Message)
        BY TypedPlaces DEF SessionInv
    <2>2. h \in Handle \cup {None}
        BY DEF SessionInv, TypeOK, UserInfo, Known
    <2>3. <<h, m>> \in (Handle \cup {None}) \X Message
        BY <2>2
    <2> HIDE DEF h
    <2> QED BY <1>5, <2>1, <2>3
<1>7. q'[Len(q) + 1][2] = m
    BY <1>6
<1>8. \A i \in DOMAIN q' : i \in DOMAIN q \/ i = Len(q) + 1
    BY <1>6
<1>9. \A k \in Kind, x \in Slot : Held(m, k, x) => k = "job" /\ x = t
    <2>1. Held(m, "job", t)
        BY <1>2 DEF Held
    <2> QED BY <1>1, <2>1, OnlyThere DEF DeliveryInv
<1> HIDE DEF s, h, q
<1>10. \A n \in Message : (\E i \in DOMAIN q' : q'[i][2] = n) => n = m \/ \E i \in DOMAIN q : q[i][2] = n
    BY <1>6, <1>7, <1>8
<1>11. ASSUME NEW k \in Kind, NEW x \in Slot, Held(m, k, x)'
       PROVE  k = "queue" /\ x = None
    <2>1. Held(m, k, x) \/ (k = "queue" /\ x = None)
        <3>1. \A r \in Task : Contains(job'[r].msgs, m) => Contains(job[r].msgs, m)
            BY <1>2, <1>3, <1>4, NothingInEmpty DEF s
        <3> QED BY <1>5, <1>11, <3>1 DEF Held
    <2>2. ~Held(m, "job", t)'
        BY <1>2, <1>3, NothingInEmpty DEF Held
    <2> QED BY <1>9, <1>11, <2>1, <2>2
<1>12. ASSUME NEW n \in Message, n # m, NEW k \in Kind, NEW x \in Slot, Held(n, k, x)'
       PROVE  Held(n, k, x)
    <2>1. \A r \in Task : Contains(job'[r].msgs, n) => Contains(job[r].msgs, n)
        BY <1>2, <1>3, <1>4, NothingInEmpty DEF s
    <2>2. (\E i \in DOMAIN q' : q'[i][2] = n) => \E i \in DOMAIN q : q[i][2] = n
        BY <1>10, <1>12
    <2> QED BY <1>5, <1>12, <2>1, <2>2 DEF Held, q
<1>13. OnePlace'
    BY <1>1, <1>11, <1>12, OneMoves DEF DeliveryInv
<1>14. NoRepeats'
    <2>1. \A r \in Task : IsInjective(job'[r].msgs)
        BY <1>2, <1>3, <1>4, NothingInEmpty DEF DeliveryInv, NoRepeats
    <2>2. \A i \in DOMAIN q : q[i][2] # m
        BY <1>1, <1>9 DEF Held, q
    <2>3. \A i, j \in DOMAIN q' : q'[i][2] = q'[j][2] => i = j
        BY <1>6, <1>7, <1>8, <2>2 DEF DeliveryInv, NoRepeats, q
    <2> QED BY <1>5, <2>1, <2>3 DEF DeliveryInv, NoRepeats, q
<1> QED BY <1>13, <1>14 DEF DeliveryInv

(* From the queue to the phones that are notified, if any. *)
LEMMA bleTxWorkerMoves ==
    ASSUME SessionInv, DeliveryInv, bleTxWorker
    PROVE  DeliveryInv'
<1> DEFINE q == bleTxQueue
<1>0. PICK m \in Message : m = Head(q)[2]
    BY TypedPlaces DEF SessionInv, bleTxWorker
<1>1. /\ Len(q) \in Nat \ {0} /\ DOMAIN q = 1..Len(q) /\ DOMAIN q' = 1..(Len(q) - 1)
      /\ \A i \in DOMAIN q' : q'[i] = q[i + 1]
      /\ m = q[1][2]
    <2>1. q \in Seq((Handle \cup {None}) \X Message) /\ q # <<>> /\ q' = Tail(q)
        BY TypedPlaces DEF SessionInv, bleTxWorker
    <2> HIDE DEF q
    <2> QED BY <1>0, <2>1
<1>2. \A i \in DOMAIN q' : i + 1 \in DOMAIN q /\ i + 1 # 1
    BY <1>1
<1>3. 1 \in DOMAIN q
    BY <1>1
<1>4. \A u \in User : shown'[u] = shown[u] \/ shown'[u] = Append(shown[u], m)
    BY <1>0 DEF bleTxWorker, SessionInv, TypeOK
<1>5. UNCHANGED <<users, job, forwarded, arriving>>
    BY DEF bleTxWorker, mapVars, taskVars
<1>6. \A u \in User : shown[u] \in Seq(Message)
    BY TypedPlaces DEF SessionInv
<1>7. \A k \in Kind, x \in Slot : Held(m, k, x) => k = "queue" /\ x = None
    <2>1. Held(m, "queue", None)
        BY <1>1, <1>3 DEF Held
    <2> QED BY <2>1, OnlyThere DEF DeliveryInv, Kind, Slot
<1>8. \A i \in DOMAIN q' : q'[i][2] # m
    BY <1>1, <1>2, <1>3 DEF DeliveryInv, NoRepeats
<1>9. \A u \in User : ~Contains(shown[u], m)
    BY <1>7 DEF Held, Kind, Slot
<1>10. \A u \in User, n \in Message : Contains(shown'[u], n) => Contains(shown[u], n) \/ n = m
    BY <1>4, <1>6, AppendedOnce
<1> HIDE DEF q
<1>11. ASSUME NEW k \in Kind, NEW x \in Slot, Held(m, k, x)'
       PROVE  k = "phones" /\ x = None
    <2>1. Held(m, k, x) \/ (k = "phones" /\ x = None)
        BY <1>5, <1>8, <1>11 DEF Held, q
    <2>2. ~Held(m, "queue", None)'
        BY <1>8 DEF Held, q
    <2> QED BY <1>7, <1>11, <2>1, <2>2
<1>12. ASSUME NEW n \in Message, n # m, NEW k \in Kind, NEW x \in Slot, Held(n, k, x)'
       PROVE  Held(n, k, x)
    <2>1. (\E i \in DOMAIN q' : q'[i][2] = n) => \E i \in DOMAIN q : q[i][2] = n
        BY <1>1, <1>2
    <2> QED BY <1>5, <1>10, <1>12, <2>1 DEF Held, q
<1>13. OnePlace'
    BY <1>11, <1>12, OneMoves DEF DeliveryInv, Kind, Slot
<1>14. NoRepeats'
    <2>1. \A u \in User : IsInjective(shown'[u])
        BY <1>4, <1>6, <1>9, AppendedOnce DEF DeliveryInv, NoRepeats
    <2>2. \A i, j \in DOMAIN q' : q'[i][2] = q'[j][2] => i = j
        <3>1. \A i, j \in DOMAIN q' : i + 1 = j + 1 => i = j
            BY <1>1
        <3> QED BY <1>1, <1>2, <3>1 DEF DeliveryInv, NoRepeats, q
    <2> QED BY <1>5, <2>1, <2>2 DEF DeliveryInv, NoRepeats, q
<1> QED BY <1>13, <1>14 DEF DeliveryInv

-----------------------------------------------------------------------------
(* From the router's job into an inbox, which may lose its oldest message. *)
LEMMA ParkedOnce ==
    ASSUME NEW box \in Seq(Message), Len(box) <= InboxLength, NEW m \in Message,
           IsInjective(box), ~Contains(box, m)
    PROVE  /\ IsInjective(Park(box, m))
           /\ \A n : Contains(Park(box, m), n) => Contains(box, n) \/ n = m
<1>1. CASE Len(box) = InboxLength
    <2>1. box # <<>>
        BY <1>1, SessionAssumption
    <2>2. /\ Tail(box) \in Seq(Message) /\ IsInjective(Tail(box))
          /\ \A n : Contains(Tail(box), n) => Contains(box, n)
        BY <2>1, TakenOff
    <2>3. Park(box, m) = Append(Tail(box), m)
        BY <1>1 DEF Park
    <2> DEFINE r == Tail(box)
    <2> HIDE DEF r
    <2> QED BY <2>2, <2>3, AppendedOnce DEF r
<1>2. CASE Len(box) # InboxLength
    BY <1>2, AppendedOnce DEF Park
<1> QED BY <1>1, <1>2

LEMMA queueOfflineMoves ==
    ASSUME SessionInv, DeliveryInv, NEW t \in Task, queueOffline(t)
    PROVE  DeliveryInv'
<1>1. PICK u \in User, m \in Message : u = job["router"].user /\ m = Head(job["router"].msgs)
    BY TypedPlaces, TakenOff
       DEF SessionInv, Equipped, OnlyRouterParks, queueOffline
<1> DEFINE box == users[u].inbox
           info == [users[u] EXCEPT !.inbox = Park(box, m)]
<1>2. t = "router" /\ Known(u) /\ "router" \in Slot /\ u \in Slot
      /\ "job" \in Kind /\ "inbox" \in Kind
    BY <1>1 DEF SessionInv, OnlyRouterParks, RouterKnows, queueOffline, Slot, Task, Kind
<1>3. /\ box \in Seq(Message) /\ Len(box) <= InboxLength
      /\ Park(box, m) \in Seq(Message) /\ info.inbox = Park(box, m)
    <2>1. users[u] \in UserInfo /\ box \in Seq(Message) /\ Len(box) <= InboxLength
        BY <1>2 DEF SessionInv, TypeOK, Known, UserInfo
    <2>2. Park(box, m) \in Seq(Message)
        BY <2>1, ParkTyped
    <2> HIDE DEF box
    <2> QED BY <2>1, <2>2, InboxReplaced, Zenon
<1>4. /\ DOMAIN users' = DOMAIN users /\ users'[u].inbox = Park(box, m)
      /\ \A v \in DOMAIN users : v # u => users'[v] = users[v]
    <2>1. users' = [v \in DOMAIN users \cup {u} |-> IF v = u THEN info ELSE users[v]]
        BY <1>1, <1>2 DEF queueOffline, Put
    <2> HIDE DEF info
    <2> QED BY <1>2, <1>3, <2>1 DEF Known
<1>5. /\ job'["router"].msgs = <<>>
      /\ \A s \in Task : s # "router" => job'[s] = job[s]
      /\ UNCHANGED <<outVars, forwarded, arriving>>
    BY <1>2 DEF queueOffline, Done, Calls, NoJob, SessionInv, TypeOK
<1>6. \A k \in Kind, x \in Slot : Held(m, k, x) => k = "job" /\ x = "router"
    <2>1. job["router"].msgs # <<>> /\ job["router"].msgs \in Seq(Message)
        BY <1>2, TypedPlaces DEF SessionInv, Equipped, queueOffline
    <2>2. Contains(job["router"].msgs, m)
        BY <1>1, <2>1, TakenOff
    <2>3. Held(m, "job", "router")
        BY <2>2 DEF Held, Task
    <2> QED BY <1>2, <2>3, OnlyThere DEF DeliveryInv
<1>7. IsInjective(box) /\ ~Contains(box, m)
    BY <1>2, <1>6 DEF DeliveryInv, NoRepeats, Held, Known
<1>8. IsInjective(Park(box, m)) /\ \A n : Contains(Park(box, m), n) => Contains(box, n) \/ n = m
    <2> HIDE DEF box
    <2> QED BY <1>3, <1>7, ParkedOnce
<1>9. ASSUME NEW k \in Kind, NEW x \in Slot, Held(m, k, x)'
      PROVE  k = "inbox" /\ x = u
    <2>1. Held(m, k, x) \/ (k = "inbox" /\ x = u)
        BY <1>4, <1>5, <1>9, NothingInEmpty DEF Held, outVars
    <2>2. ~Held(m, "job", "router")'
        BY <1>5, NothingInEmpty DEF Held
    <2> QED BY <1>6, <1>9, <2>1, <2>2
<1>10. ASSUME NEW n \in Message, n # m, NEW k \in Kind, NEW x \in Slot, Held(n, k, x)'
       PROVE  Held(n, k, x)
    <2>1. \A v \in DOMAIN users : Contains(users'[v].inbox, n) => Contains(users[v].inbox, n)
        BY <1>4, <1>8, <1>10
    <2>2. \A s \in Task : Contains(job'[s].msgs, n) => Contains(job[s].msgs, n)
        BY <1>5, NothingInEmpty
    <2> HIDE DEF box
    <2> QED BY <1>4, <1>5, <1>10, <2>1, <2>2 DEF Held, outVars
<1>11. OnePlace'
    BY <1>2, <1>9, <1>10, OneMoves DEF DeliveryInv
<1>12. NoRepeats'
    BY <1>4, <1>5, <1>8, NothingInEmpty DEF DeliveryInv, NoRepeats, outVars
<1> QED BY <1>11, <1>12 DEF DeliveryInv

-----------------------------------------------------------------------------
(* A whole inbox goes after its user, or to the BLE-RX worker. *)
LEMMA handleMoveUserReqMoves ==
    ASSUME SessionInv, DeliveryInv, NEW u \in User, handleMoveUserReq(u)
    PROVE  DeliveryInv'
<1>1. /\ DOMAIN users' = DOMAIN users
      /\ \A v \in DOMAIN users : v # u => users'[v] = users[v]
      /\ u \in DOMAIN users => users'[u].inbox = <<>>
    BY EmptyInboxTyped DEF handleMoveUserReq, SessionInv, TypeOK, UsersOK
<1>2. \A s \in Task : job'[s].msgs = <<>> \/ job'[s].msgs = job[s].msgs
    BY DEF handleMoveUserReq, Calls, SessionInv, TypeOK
<1>3. UNCHANGED <<outVars, arriving>> /\ u \in Slot /\ None \in Slot
      /\ "inbox" \in Kind /\ "forwarded" \in Kind
    BY DEF handleMoveUserReq, Slot, Kind
<1>4. \A m : m \in forwarded' => m \in forwarded \/ (u \in DOMAIN users /\ Contains(users[u].inbox, m))
    <2>1. CASE u \in DOMAIN users
        <3>1. Inbox(u) = users[u].inbox /\ Inbox(u) \in Seq(Message)
            BY <2>1, TypedPlaces DEF SessionInv, Inbox, Known
        <3>2. forwarded' = forwarded \cup ToSet(users[u].inbox)
            BY <3>1 DEF handleMoveUserReq
        <3>3. \A m : m \in ToSet(users[u].inbox) => Contains(users[u].inbox, m)
            BY <3>1 DEF ToSet, Contains
        <3> QED BY <2>1, <3>2, <3>3
    <2>2. CASE u \notin DOMAIN users
        <3>1. forwarded' = forwarded \cup ToSet(<<>>)
            BY <2>2 DEF handleMoveUserReq, Inbox, Known
        <3> QED BY <3>1 DEF ToSet
    <2> QED BY <2>1, <2>2
<1>5. ASSUME NEW m \in Message
      PROVE  \/ \A k \in Kind, x \in Slot : Held(m, k, x)' => Held(m, k, x)
             \/ \E l \in Kind, y \in Slot :
                    \A k \in Kind, x \in Slot : Held(m, k, x)' => k = l /\ x = y
    <2>1. CASE Held(m, "inbox", u)
        <3>1. \A k \in Kind, x \in Slot : Held(m, k, x) => k = "inbox" /\ x = u
            BY <1>3, <2>1, OnlyThere DEF DeliveryInv
        <3>2. ~Held(m, "inbox", u)'
            BY <1>1, NothingInEmpty DEF Held
        <3>3. ASSUME NEW k \in Kind, NEW x \in Slot, Held(m, k, x)'
              PROVE  Held(m, k, x) \/ (k = "forwarded" /\ x = None)
            BY <1>1, <1>2, <1>3, <3>3, NothingInEmpty DEF Held, outVars
        <3> QED BY <1>3, <3>1, <3>2, <3>3
    <2>2. CASE ~Held(m, "inbox", u)
        <3>1. ~(u \in DOMAIN users /\ Contains(users[u].inbox, m))
            BY <2>2 DEF Held
        <3>2. ASSUME NEW k \in Kind, NEW x \in Slot, Held(m, k, x)'
              PROVE  Held(m, k, x)
            BY <1>1, <1>2, <1>3, <1>4, <3>1, <3>2, NothingInEmpty DEF Held, outVars
        <3> QED BY <3>2
    <2> QED BY <2>1, <2>2
<1>6. OnePlace'
    BY <1>5, OnePlaceKept DEF DeliveryInv
<1>7. NoRepeats'
    BY <1>1, <1>2, <1>3, NothingInEmpty DEF DeliveryInv, NoRepeats, outVars
<1> QED BY <1>6, <1>7 DEF DeliveryInv

LEMMA popInboxMoves ==
    ASSUME SessionInv, DeliveryInv, popInbox
    PROVE  DeliveryInv'
<1>1. PICK u \in User : u = job["bleRx"].user
    BY DEF SessionInv, Equipped, popInbox, Task
<1>2. /\ DOMAIN users' = DOMAIN users
      /\ \A v \in DOMAIN users : v # u => users'[v] = users[v]
      /\ u \in DOMAIN users => users'[u].inbox = <<>>
    <2>1. EmptyInbox(u)
        BY <1>1 DEF popInbox
    <2> QED BY <2>1, EmptyInboxTyped DEF SessionInv, TypeOK, UsersOK
<1>3. UNCHANGED <<outVars, forwarded, arriving>> /\ u \in Slot /\ "bleRx" \in Slot
      /\ "bleRx" \in Task /\ "inbox" \in Kind /\ "job" \in Kind
    BY DEF popInbox, Slot, Task, Kind
<1>4. /\ \A s \in Task : s # "bleRx" => job'[s] = job[s]
      /\ job'["bleRx"].msgs = <<>> \/ job'["bleRx"].msgs = Inbox(u)
    <2>1. job \in [Task -> Job]
        BY DEF SessionInv, TypeOK
    <2> DEFINE j == [user |-> u, msgs |-> Inbox(u)]
    <2>2. job' = [job EXCEPT !["bleRx"] = NoJob] \/ job' = [job EXCEPT !["bleRx"] = j]
        BY <1>1 DEF popInbox, Done, Calls
    <2>3. j.msgs = Inbox(u)
        OBVIOUS
    <2> HIDE DEF j
    <2> QED BY <1>3, <2>1, <2>2, <2>3 DEF NoJob
<1>5. \A m : Contains(job'["bleRx"].msgs, m) => u \in DOMAIN users /\ Contains(users[u].inbox, m)
    BY <1>4, NothingInEmpty DEF Inbox, Known
<1>6. ASSUME NEW m \in Message
      PROVE  \/ \A k \in Kind, x \in Slot : Held(m, k, x)' => Held(m, k, x)
             \/ \E l \in Kind, y \in Slot :
                    \A k \in Kind, x \in Slot : Held(m, k, x)' => k = l /\ x = y
    <2>1. CASE Held(m, "inbox", u)
        <3>1. \A k \in Kind, x \in Slot : Held(m, k, x) => k = "inbox" /\ x = u
            BY <1>3, <2>1, OnlyThere DEF DeliveryInv
        <3>2. ~Held(m, "inbox", u)'
            BY <1>2, NothingInEmpty DEF Held
        <3>3. ASSUME NEW k \in Kind, NEW x \in Slot, Held(m, k, x)'
              PROVE  Held(m, k, x) \/ (k = "job" /\ x = "bleRx")
            BY <1>2, <1>3, <1>4, <3>3, NothingInEmpty DEF Held, outVars
        <3> QED BY <1>3, <3>1, <3>2, <3>3
    <2>2. CASE ~Held(m, "inbox", u)
        <3>1. ~Contains(job'["bleRx"].msgs, m)
            BY <1>5, <2>2 DEF Held
        <3>2. ASSUME NEW k \in Kind, NEW x \in Slot, Held(m, k, x)'
              PROVE  Held(m, k, x)
            BY <1>2, <1>3, <1>4, <3>1, <3>2, NothingInEmpty DEF Held, outVars
        <3> QED BY <3>2
    <2> QED BY <2>1, <2>2
<1>7. OnePlace'
    BY <1>6, OnePlaceKept DEF DeliveryInv
<1>8. NoRepeats'
    <2>1. IsInjective(job'["bleRx"].msgs)
        BY <1>4, NothingInEmpty DEF DeliveryInv, NoRepeats, Inbox, Known
    <2> QED BY <1>2, <1>3, <1>4, <2>1, NothingInEmpty DEF DeliveryInv, NoRepeats, outVars
<1> QED BY <1>7, <1>8 DEF DeliveryInv

-----------------------------------------------------------------------------
LEMMA StepMovesOnce == SessionInv /\ DeliveryInv /\ [Next]_vars => DeliveryInv'
<1> SUFFICES ASSUME SessionInv, DeliveryInv, [Next]_vars PROVE DeliveryInv'
    OBVIOUS
<1>1. CASE UNCHANGED vars
    BY <1>1, PhonesMoveNothing DEF vars, mapVars, taskVars
<1>2. ASSUME NEW u \in User, NEW h \in Handle, Connect(u, h) PROVE DeliveryInv'
    BY <1>2, PhonesMoveNothing DEF Connect, mapVars, taskVars
<1>3. ASSUME NEW h \in Handle, Disconnect(h) PROVE DeliveryInv'
    BY <1>3, PhonesMoveNothing DEF Disconnect, mapVars, taskVars
<1>4. ASSUME sendBroadcastInfo PROVE DeliveryInv'
    BY <1>4, PhonesMoveNothing DEF sendBroadcastInfo, taskVars
<1>5. ASSUME NEW m \in Message, handleUserMessage(m) \/ oneSync(m) PROVE DeliveryInv'
    BY <1>5, ArrivesMoves DEF handleUserMessage, oneSync
<1> QED BY <1>1, <1>2, <1>3, <1>4, <1>5, handleBleDisconnectMoves, bleTxWorkerMoves,
           isOnlineMoves, getBleHandleMoves, queueOfflineMoves, handleMoveUserReqMoves,
           removeMoves, processIncomingMessageMoves, popInboxMoves
        DEF Next

(* A message that is held in one place only is in one of Places only. *)
LEMMA OnePlaceIsEnough ==
    ASSUME TypeOK, DeliveryInv
    PROVE  AtMostOnce
<1>1. ASSUME NEW m \in Message PROVE Cardinality(Places(m)) <= 1
    <2>1. /\ None \in Slot /\ DOMAIN users \subseteq Slot /\ Task \subseteq Slot
          /\ {"inbox", "job", "queue", "phones", "forwarded"} \subseteq Kind
        BY DEF TypeOK, Slot, Kind
    <2>2. ASSUME NEW p \in Places(m), NEW q \in Places(m)
          PROVE  p = q
        <3>1. \A r \in Places(m) :
                  \/ \E u \in DOMAIN users : r = <<"inbox", u>> /\ Held(m, "inbox", u)
                  \/ \E t \in Task : r = <<"job", t>> /\ Held(m, "job", t)
                  \/ \E i \in DOMAIN bleTxQueue :
                         r = <<"queue", i>> /\ bleTxQueue[i][2] = m /\ Held(m, "queue", None)
                  \/ r = <<"phones">> /\ Held(m, "phones", None)
                  \/ r = <<"forwarded">> /\ Held(m, "forwarded", None)
            BY Zenon DEF Places, Held
        <3>2. \A k, l \in Kind, x, y \in Slot : Held(m, k, x) /\ Held(m, l, y) => k = l /\ x = y
            BY DEF DeliveryInv, OnePlace
        <3>3. \A i, j \in DOMAIN bleTxQueue : bleTxQueue[i][2] = m /\ bleTxQueue[j][2] = m => i = j
            BY DEF DeliveryInv, NoRepeats
        <3>4. CASE \E u \in DOMAIN users : p = <<"inbox", u>> /\ Held(m, "inbox", u)
            BY <2>1, <3>1, <3>2, <3>4
        <3>5. CASE \E t \in Task : p = <<"job", t>> /\ Held(m, "job", t)
            BY <2>1, <3>1, <3>2, <3>5
        <3>6. CASE \E i \in DOMAIN bleTxQueue :
                       p = <<"queue", i>> /\ bleTxQueue[i][2] = m /\ Held(m, "queue", None)
            BY <2>1, <3>1, <3>2, <3>3, <3>6
        <3>7. CASE p = <<"phones">> /\ Held(m, "phones", None)
            BY <2>1, <3>1, <3>2, <3>7
        <3>8. CASE p = <<"forwarded">> /\ Held(m, "forwarded", None)
            BY <2>1, <3>1, <3>2, <3>8
        <3> HIDE DEF Places
        <3> QED BY <3>1, <3>4, <3>5, <3>6, <3>7, <3>8
    <2>3. CASE Places(m) = {}
        BY <2>3, FS_EmptySet
    <2>4. CASE Places(m) # {}
        <3>1. PICK p \in Places(m) : TRUE
            BY <2>4
        <3>2. Places(m) = {p}
            BY <2>2
        <3> QED BY <3>2, FS_Singleton
    <2> QED BY <2>3, <2>4
<1>2. \A u \in User : IsInjective(shown[u])
    BY DEF DeliveryInv, NoRepeats
<1> QED BY <1>1, <1>2 DEF AtMostOnce

(* Whatever the tasks do between each other's calls, no message is delivered  *)
(* twice: it is in one inbox, one task, the queue, on phones or under way     *)
(* after its user, never in two of these.                                    *)
THEOREM DeliveredOnce == Spec => []AtMostOnce
<1>1. Spec => []DeliveryInv
    BY InitPlaces, StepMovesOnce, SessionInvariant, PTL DEF Spec
<1>2. SessionInv /\ DeliveryInv => AtMostOnce
    BY OnePlaceIsEnough DEF SessionInv
<1> QED BY <1>1, <1>2, SessionInvariant, PTL

=============================================================================
