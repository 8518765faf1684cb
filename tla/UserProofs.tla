----------------------------- MODULE UserProofs -----------------------------
(***************************************************************************)
(* Proofs about the user plane (UserRouting), for every set of nodes and   *)
(* users, every topology, workload and bound: its types, and the lemmas    *)
(* about its frames, its handlers and sequences the other proofs share.    *)
(* Only is a loop over a sequence: what it leaves is proved by the least  *)
(* counterexample, since the induction theorems are out of reach.          *)
(***************************************************************************)
EXTENDS UserProperties, AodvProofs, WellFoundedInduction

-----------------------------------------------------------------------------
(* Sequences. *)

(* A sequence that grows keeps its elements' type. *)
LEMMA AppendTyped ==
    ASSUME NEW S, NEW q \in Seq(S), NEW x \in S
    PROVE  Append(q, x) \in Seq(S)
OBVIOUS

(* So does one that is joined to another. *)
LEMMA ConcatTyped ==
    ASSUME NEW S, NEW p \in Seq(S), NEW q \in Seq(S)
    PROVE  p \o q \in Seq(S)
OBVIOUS

(* The elements of a sequence, by their index. *)
LEMMA InSequence ==
    ASSUME NEW S, NEW q \in Seq(S), NEW i \in DOMAIN q
    PROVE  q[i] \in S /\ i \in 1..Len(q) /\ Len(q) \in Nat
OBVIOUS

(* The empty sequence is one of any type. *)
LEMMA EmptySeq ==
    ASSUME NEW S
    PROVE  <<>> \in Seq(S)
OBVIOUS

(* A sequence over a set is one over every larger set. *)
LEMMA SeqMonotone ==
    ASSUME NEW S, NEW T, S \subseteq T, NEW q \in Seq(S)
    PROVE  q \in Seq(T)
OBVIOUS

(* A function on the domain of a sequence is a sequence as long. *)
LEMMA SameLength ==
    ASSUME NEW S, NEW T, NEW q \in Seq(S), NEW g \in [DOMAIN q -> T]
    PROVE  g \in Seq(T) /\ Len(g) = Len(q)
<1>1. Len(q) \in Nat /\ DOMAIN q = 1..Len(q)
  OBVIOUS
<1>2. g \in [1..Len(q) -> T]
  BY <1>1
<1> QED BY <1>1, <1>2

(* A set of numbers that is not empty has a least element: the induction by  *)
(* least counterexample that recursive functions need here.                  *)
LEMMA Least ==
    ASSUME NEW T \in SUBSET Nat, T # {}
    PROVE  \E x \in T : \A y \in T : x <= y
<1>1. PICK x \in T : \A y \in T : ~(<<y, x>> \in OpToRel(<, Nat))
  BY NatLessThanWellFounded, WFMin
<1>2. \A y \in T : ~(y < x)
  BY <1>1 DEF OpToRel
<1> QED BY <1>2

(* The recursive function that Only is made of, up to i. *)
OnlyStep(s, T, g, i) ==
    IF i = 0 THEN <<>>
    ELSE IF s[i] \in T THEN Append(g[i - 1], s[i])
    ELSE g[i - 1]

(* It exists ... *)
LEMMA OnlyExists ==
    ASSUME NEW s, NEW T, NEW l \in Nat
    PROVE  \E f : f = [i \in 0..l |-> OnlyStep(s, T, f, i)]
<1> DEFINE Upto(k) == \E f : f = [i \in 0..k |-> OnlyStep(s, T, f, i)]
           Bad == {k \in Nat : ~Upto(k)}
<1>1. Upto(0)
  <2>1. [i \in 0..0 |-> <<>>] = [i \in 0..0 |-> OnlyStep(s, T, [i_1 \in 0..0 |-> <<>>], i)]
    BY DEF OnlyStep
  <2> QED BY <2>1
<1>2. ASSUME NEW k \in Nat, Upto(k)
      PROVE  Upto(k + 1)
  <2>1. PICK f : f = [i \in 0..k |-> OnlyStep(s, T, f, i)]
    BY <1>2
  <2> DEFINE g == [i \in 0..(k + 1) |-> IF i = k + 1 THEN OnlyStep(s, T, f, k + 1) ELSE f[i]]
  <2>2. \A i \in 0..(k + 1) : i # 0 => i - 1 \in 0..k
    OBVIOUS
  <2>3. \A i \in 0..k : g[i] = f[i]
    OBVIOUS
  <2>4. \A i \in 0..(k + 1) : OnlyStep(s, T, g, i) = OnlyStep(s, T, f, i)
    <3> HIDE DEF g
    <3> QED BY <2>2, <2>3 DEF OnlyStep
  <2>5. \A i \in 0..k : f[i] = OnlyStep(s, T, f, i)
    <3> DEFINE h(i) == OnlyStep(s, T, f, i)
    <3> HIDE DEF h
    <3>1. f = [i \in 0..k |-> h(i)]
      BY <2>1 DEF h
    <3>2. \A i \in 0..k : f[i] = h(i)
      BY <3>1
    <3> QED BY <3>2 DEF h
  <2>6. \A i \in 0..(k + 1) : g[i] = OnlyStep(s, T, g, i)
    <3>1. ASSUME NEW i \in 0..(k + 1)
          PROVE  g[i] = OnlyStep(s, T, f, i)
      <4>1. CASE i = k + 1
        BY <4>1
      <4>2. CASE i # k + 1
        <5>1. i \in 0..k
          BY <4>2
        <5>2. g[i] = f[i]
          BY <2>3, <5>1
        <5> QED BY <2>5, <5>1, <5>2
      <4> QED BY <4>1, <4>2
    <3> HIDE DEF g
    <3> QED BY <2>4, <3>1
  <2>7. g = [i \in 0..(k + 1) |-> g[i]]
    OBVIOUS
  <2> HIDE DEF g
  <2>8. g = [i \in 0..(k + 1) |-> OnlyStep(s, T, g, i)]
    BY <2>6, <2>7
  <2> QED BY <2>8
<1>3. Bad = {}
  <2> SUFFICES ASSUME Bad # {}
               PROVE  FALSE
    OBVIOUS
  <2> HIDE DEF Upto
  <2>1. PICK k \in Bad : \A j \in Bad : k <= j
    BY Least
  <2>2. k \in Nat /\ ~Upto(k)
    BY <2>1
  <2>3. k # 0
    BY <1>1, <2>2
  <2>4. k - 1 \in Nat /\ k - 1 \notin Bad
    BY <2>1, <2>2, <2>3
  <2>5. Upto(k - 1)
    BY <2>4
  <2>6. Upto((k - 1) + 1)
    BY <1>2, <2>4, <2>5
  <2> QED BY <2>2, <2>6
<1> HIDE DEF Upto
<1>4. Upto(l)
  BY <1>3
<1> QED BY <1>4 DEF Upto

(* ... and takes elements of s, those in T, at increasing places. *)
TakenFrom(q, s, T, i) ==
    /\ q \in Seq(T)
    /\ \E at \in [DOMAIN q -> 1..i] :
           /\ \A k \in DOMAIN q : q[k] = s[at[k]]
           /\ \A j, k \in DOMAIN q : j < k => at[j] < at[k]

(* What has been taken, one element further. *)
LEMMA TakenStep ==
    ASSUME NEW s, NEW T, NEW i \in Nat, NEW q, TakenFrom(q, s, T, i)
    PROVE  /\ TakenFrom(q, s, T, i + 1)
           /\ s[i + 1] \in T => TakenFrom(Append(q, s[i + 1]), s, T, i + 1)
<1>1. PICK at \in [DOMAIN q -> 1..i] :
           /\ \A k \in DOMAIN q : q[k] = s[at[k]]
           /\ \A j, k \in DOMAIN q : j < k => at[j] < at[k]
  BY DEF TakenFrom
<1>2. q \in Seq(T) /\ Len(q) \in Nat /\ DOMAIN q = 1..Len(q)
  BY DEF TakenFrom
<1>3. at \in [DOMAIN q -> 1..(i + 1)]
  OBVIOUS
<1>4. TakenFrom(q, s, T, i + 1)
  BY <1>1, <1>2, <1>3 DEF TakenFrom
<1>5. ASSUME s[i + 1] \in T
      PROVE  TakenFrom(Append(q, s[i + 1]), s, T, i + 1)
  <2> DEFINE r == Append(q, s[i + 1])
             to == [k \in 1..(Len(q) + 1) |-> IF k = Len(q) + 1 THEN i + 1 ELSE at[k]]
  <2>1. /\ r \in Seq(T)
        /\ DOMAIN r = 1..(Len(q) + 1)
        /\ \A k \in 1..Len(q) : r[k] = q[k]
        /\ r[Len(q) + 1] = s[i + 1]
    BY <1>2, <1>5
  <2> HIDE DEF r
  <2>2. \A k \in 1..Len(q) : to[k] = at[k] /\ to[k] \in 1..i
    BY <1>2
  <2>3. to[Len(q) + 1] = i + 1
    BY <1>2
  <2>4. to \in [DOMAIN r -> 1..(i + 1)]
    BY <1>2, <2>1
  <2> HIDE DEF to
  <2>5. \A k \in DOMAIN r : k \in 1..Len(q) \/ k = Len(q) + 1
    BY <1>2, <2>1
  <2>6. \A k \in DOMAIN r : r[k] = s[to[k]]
    BY <1>1, <1>2, <2>1, <2>2, <2>3, <2>5
  <2>7. ASSUME NEW j \in DOMAIN r, NEW k \in DOMAIN r, j < k
        PROVE  to[j] < to[k]
    <3>1. j \in 1..Len(q)
      BY <1>2, <2>1, <2>7
    <3>2. CASE k \in 1..Len(q)
      BY <1>1, <1>2, <2>2, <2>7, <3>1, <3>2
    <3>3. CASE k = Len(q) + 1
      BY <2>2, <2>3, <3>1, <3>3
    <3> QED BY <2>5, <3>2, <3>3
  <2>8. TakenFrom(r, s, T, i + 1)
    BY <2>1, <2>4, <2>6, <2>7 DEF TakenFrom
  <2> QED BY <2>8 DEF r
<1> QED BY <1>4, <1>5

(* What Only takes: those of T, in their order. *)
LEMMA OnlyTaken ==
    ASSUME NEW S, NEW s \in Seq(S), NEW T
    PROVE  TakenFrom(Only(s, T), s, T, Len(s))
<1> DEFINE F == CHOOSE f : f = [i \in 0..Len(s) |-> OnlyStep(s, T, f, i)]
           Bad == {i \in 0..Len(s) : ~TakenFrom(F[i], s, T, i)}
<1>1. Len(s) \in Nat
  OBVIOUS
<1>2. F = [i \in 0..Len(s) |-> OnlyStep(s, T, F, i)]
  BY <1>1, OnlyExists
<1>3. Only(s, T) = F[Len(s)]
  BY DEF Only, OnlyStep
<1> HIDE DEF F
<1>4. \A i \in 0..Len(s) : F[i] = OnlyStep(s, T, F, i)
  <2> DEFINE h(i) == OnlyStep(s, T, F, i)
  <2> HIDE DEF h
  <2>1. F = [i \in 0..Len(s) |-> h(i)]
    BY <1>2 DEF h
  <2>2. \A i \in 0..Len(s) : F[i] = h(i)
    BY <2>1
  <2> QED BY <2>2 DEF h
<1>5. TakenFrom(F[0], s, T, 0)
  <2>1. F[0] = <<>>
    BY <1>1, <1>4 DEF OnlyStep
  <2>2. <<>> \in Seq(T) /\ DOMAIN <<>> = {} /\ [k \in {} |-> 0] \in [{} -> 1..0]
    OBVIOUS
  <2> QED BY <2>1, <2>2 DEF TakenFrom
<1>6. Bad = {}
  <2> SUFFICES ASSUME Bad # {}
               PROVE  FALSE
    OBVIOUS
  <2>1. Bad \subseteq Nat
    OBVIOUS
  <2>2. PICK k \in Bad : \A j \in Bad : k <= j
    BY <2>1, Least
  <2>3. k \in 0..Len(s) /\ ~TakenFrom(F[k], s, T, k)
    BY <2>2
  <2>4. k # 0
    BY <1>5, <2>3
  <2>5. k - 1 \in 0..Len(s) /\ k - 1 \in Nat /\ (k - 1) + 1 = k
    BY <1>1, <2>3, <2>4
  <2>6. TakenFrom(F[k - 1], s, T, k - 1)
    BY <2>2, <2>5
  <2>7. F[k] = IF s[k] \in T THEN Append(F[k - 1], s[k]) ELSE F[k - 1]
    BY <1>4, <2>3, <2>4 DEF OnlyStep
  <2>8. /\ TakenFrom(F[k - 1], s, T, k)
        /\ s[k] \in T => TakenFrom(Append(F[k - 1], s[k]), s, T, k)
    BY <2>5, <2>6, TakenStep
  <2> QED BY <2>3, <2>7, <2>8
<1> QED BY <1>1, <1>3, <1>6

(* It is a sequence of them. *)
LEMMA OnlyTyped ==
    ASSUME NEW S, NEW s \in Seq(S), NEW T
    PROVE  Only(s, T) \in Seq(T)
BY OnlyTaken DEF TakenFrom

-----------------------------------------------------------------------------
(* Types.  UserTypeOK is not inductive: it says nothing of the data packets   *)
(* that wait for a route and of the packets being reported, which are sent   *)
(* later.                                                                    *)

MeshFrame == Frame \cup UserFrame

(* The frames a node keeps for retransmission, or has in the hands of the     *)
(* application task.                                                         *)
KeptFrame == DATAFrame \cup UserMsgFrame

KeptEntry == [frame : KeptFrame, attempts : 0..MAX_RETRANS]

MeshSending ==
    [step : {"buffer"}, packetID : PacketID, dest : Node]
      \cup [step : {"anyGateway", "gateway", "home", "askHome"}, msg : Msg]
      \cup [step : {"route", "askRoute"}, msg : Msg, dest : Node]
      \cup [step : {"transmit", "store"}, frame : KeptFrame]
      \cup {Idle}

Note == Notification \cup Shown

RouterTyped ==
    /\ RoutesTyped
    /\ receivedPacketIDs \in [Node -> SUBSET PacketID]
    /\ dataBuffer \in [Node -> [Node -> SUBSET PacketID]]
    /\ ackBuffer \in [Node -> SUBSET KeptEntry]
    /\ expired \in [Node -> SUBSET KeptEntry]
    /\ sender \in [Node -> MeshSending]
    /\ air \in SUBSET (Node \X MeshFrame)
    /\ issued \in [Node -> 0..MaxPacketIDs]
    /\ client \in [Node -> Seq(Note)]
    /\ restarts \in Nat

HomesTyped ==
    /\ users \in [Node -> SUBSET User]
    /\ online \in [Node -> SUBSET User]
    /\ \A n \in Node : online[n] \subseteq users[n]
    /\ inbox \in [Node -> [User -> Seq(Msg)]]
    /\ \A n \in Node, u \in User : Len(inbox[n][u]) <= INBOX_MAX
    /\ diff \in [Node -> [added : SUBSET User, removed : SUBSET User]]

BuffersTyped ==
    /\ userMsgBuffer \in [Node -> [User -> Seq(Msg)]]
    /\ userRouteBuffer \in [Node -> [Node -> Seq(Msg)]]
    /\ moveReqBuffer \in [Node -> [Node -> Seq(User)]]

BeliefsTyped ==
    /\ discoveredNodes \in [Node -> SUBSET Node]
    /\ gut \in [Node -> [User -> Node \cup {NoRoute}]]
    /\ gateways \in [Node -> SUBSET Node]
    /\ closestGw \in [Node -> Node \cup {NoRoute}]
    /\ gatewayState \in [Node -> BOOLEAN]
    /\ userKeys \in [Node -> SUBSET User]

OutsideTyped ==
    /\ gwOnline \in SUBSET Node
    /\ todo \in Seq(Seq(Call))
    /\ messages \in SUBSET Msg
    /\ uplinked \in SUBSET PacketID

UserTyped == RouterTyped /\ HomesTyped /\ BuffersTyped /\ BeliefsTyped /\ OutsideTyped

(* What is left alone keeps its types: the router, ... *)
LEMMA RouterKept == ASSUME RouterTyped, UNCHANGED vars PROVE RouterTyped'
BY DEF RouterTyped, RoutesTyped, vars

(* ... the homes of the users, ... *)
LEMMA HomesKept == ASSUME HomesTyped, UNCHANGED homeVars PROVE HomesTyped'
BY DEF HomesTyped, homeVars

(* ... what waits, ... *)
LEMMA BuffersKept == ASSUME BuffersTyped, UNCHANGED bufferVars PROVE BuffersTyped'
BY DEF BuffersTyped, bufferVars

(* ... what is believed of others, ... *)
LEMMA BeliefsKept ==
    ASSUME BeliefsTyped, UNCHANGED <<discoveredNodes, gut, gatewayVars, userKeys>>
    PROVE  BeliefsTyped'
BY DEF BeliefsTyped, gatewayVars

(* ... and what comes from outside. *)
LEMMA OutsideKept == ASSUME OutsideTyped, UNCHANGED outsideVars PROVE OutsideTyped'
BY DEF OutsideTyped, outsideVars

(* The strengthening implies the type invariant the runs check. *)
LEMMA TypedImplies == UserTyped => UserTypeOK
<1> SUFFICES ASSUME UserTyped
             PROVE  UserTypeOK
  OBVIOUS
<1> USE DEF UserTyped
<1>1. routeTable \in [Node -> [Node -> Route \cup {NoRoute}]]
  BY DEF RouterTyped, RoutesTyped, Table
<1>2. \A n \in Node : \A e \in ackBuffer[n] :
          e.attempts \in 0..MAX_RETRANS /\ e.frame \in DATAFrame \cup UserMsgFrame
  BY DEF RouterTyped, KeptEntry, KeptFrame
<1>3. sender \in [Node -> Sending \cup UserSending \cup {Idle}]
  <2>1. MeshSending \subseteq Sending \cup UserSending \cup {Idle}
    <3>1. \A s \in [step : {"transmit", "store"}, frame : KeptFrame] :
              s \in Sending \cup UserSending
      BY DEF KeptFrame, Sending, UserSending
    <3> QED BY <3>1 DEF MeshSending, Sending, UserSending
  <2> QED BY <2>1 DEF RouterTyped
<1>4. /\ receivedPacketIDs \in [Node -> SUBSET PacketID]
      /\ air \in SUBSET (Node \X (Frame \cup UserFrame))
      /\ issued \in [Node -> 0..MaxPacketIDs]
      /\ client \in [Node -> Seq(Notification \cup Shown)]
  BY DEF RouterTyped, MeshFrame, Note
<1> QED
  BY <1>1, <1>2, <1>3, <1>4
  DEF UserTypeOK, HomesTyped, BuffersTyped, BeliefsTyped, OutsideTyped

(* They hold when a behaviour begins. *)
LEMMA TypedInit == UserInit => UserTyped
<1> SUFFICES ASSUME UserInit
             PROVE  UserTyped
  OBVIOUS
<1>1. PICK w \in Workloads : Settled(w)
  BY DEF UserInit
<1>2. /\ w.home \in [User -> Node]
      /\ w.gwOnline \in SUBSET Node
      /\ w.scripts \in Seq(Seq(Call))
  BY UserAssumption DEF Workload
<1>3. RouterTyped
  <2>1. RoutesTyped
    BY DEF UserInit, Init, RoutesTyped, Table
  <2>2. sender \in [Node -> MeshSending]
    BY DEF UserInit, Init, MeshSending
  <2>3. issued \in [Node -> 0..MaxPacketIDs]
    BY BoundsAssumption DEF UserInit, Init
  <2> QED BY <2>1, <2>2, <2>3 DEF UserInit, Init, RouterTyped
<1>4. HomesTyped
  BY <1>1, <1>2, UserAssumption DEF Settled, HomesTyped
<1>5. BuffersTyped
  BY DEF UserInit, EmptyUserPlane, BuffersTyped
<1>6. BeliefsTyped
  BY <1>1, <1>2 DEF UserInit, EmptyUserPlane, Settled, BeliefsTyped
<1>7. OutsideTyped
  BY <1>1, <1>2 DEF Settled, OutsideTyped
<1> QED BY <1>3, <1>4, <1>5, <1>6, <1>7 DEF UserTyped

-----------------------------------------------------------------------------
(* Frames of the user plane. *)

(* The packet type tells which header a frame carries. *)
LEMMA MeshKinds ==
    ASSUME NEW f \in MeshFrame
    PROVE  /\ f.packetType = "RREQ" => f \in RREQFrame
           /\ f.packetType = "RREP" => f \in RREPFrame
           /\ f.packetType = "RERR" => f \in RERRFrame
           /\ f.packetType = "ACK" => f \in ACKFrame
           /\ f.packetType = "DATA" => f \in DATAFrame
           /\ f.packetType = "UREQ" => f \in UREQFrame
           /\ f.packetType = "UREP" => f \in UREPFrame
           /\ f.packetType = "UERR" => f \in UERRFrame
           /\ f.packetType = "PUBKEY_REQ" => f \in PubKeyReqFrame
           /\ f.packetType = "PUBKEY_RESP" => f \in PubKeyRespFrame
           /\ f.packetType = "MOVE_USER_REQ" => f \in MoveUserReqFrame
           /\ f.packetType = "USER_MSG" => f \in UserMsgFrame
           /\ f.packetType = "BROADCAST_INFO" => f \in BroadcastInfoFrame
BY DEF MeshFrame, Frame, UserFrame, RREQFrame, RREPFrame, RERRFrame, ACKFrame, DATAFrame,
       UREQFrame, UREPFrame, UERRFrame, PubKeyReqFrame, PubKeyRespFrame, MoveUserReqFrame,
       UserMsgFrame, BroadcastInfoFrame, FrameOf, FlaggedFrame

(* What all frames have in common. *)
Header(T, F, E) ==
    [packetType : T, packetID : PacketID, originNodeID : Node, prevHopID : Node,
     destNodeID : Address, hopCount : HopCount, flags : F, ext : E]

(* Sending a frame on touches its base header only. *)
LEMMA HeaderForwarded ==
    ASSUME NEW T, NEW F, NEW E, NEW f \in Header(T, F, E), NEW n \in Node, NEW m
    PROVE  /\ Forwarded(n, f, m).packetType = f.packetType
           /\ Forwarded(n, f, m).packetID = f.packetID
           /\ Forwarded(n, f, m).originNodeID = f.originNodeID
           /\ Forwarded(n, f, m).prevHopID = n
           /\ Forwarded(n, f, m).destNodeID = m
           /\ Forwarded(n, f, m).hopCount = HopPlusOne(f.hopCount)
           /\ Forwarded(n, f, m).flags = f.flags
           /\ Forwarded(n, f, m).ext = f.ext
           /\ m \in Address => Forwarded(n, f, m) \in Header(T, F, E)
<1>1. f.hopCount \in HopCount
  BY DEF Header
<1>2. HopPlusOne(f.hopCount) \in HopCount
  BY <1>1, HopType
<1> QED BY <1>2 DEF Header, Forwarded

(* Every frame has the base header, and so has what it becomes on the way. *)
LEMMA MeshHeader ==
    ASSUME NEW f \in MeshFrame
    PROVE  \E T, F, E : /\ f \in Header(T, F, E)
                        /\ Header(T, F, E) \subseteq MeshFrame
<1>1. /\ RREQFrame = Header({"RREQ"}, Flags, [RREQDestNodeID : Node])
      /\ RREPFrame = Header({"RREP"}, Flags, [RREPDestNodeID : Node, numHops : HopCount])
      /\ RERRFrame = Header({"RERR"}, Flags,
             [reporterNodeID : Node, brokenNodeID : Node,
              originalDestNodeID : Node \cup {Undecipherable}, originalPacketID : PacketID])
      /\ ACKFrame = Header({"ACK"}, Flags, [originalPacketID : PacketID])
      /\ DATAFrame = Header({"DATA"}, Flags, [finalDestID : Address])
  BY DEF Header, FrameOf, RREQFrame, RREPFrame, RERRFrame, ACKFrame, DATAFrame
<1>2. /\ UREQFrame = Header({"UREQ"}, Flags, [userID : User])
      /\ UREPFrame = Header({"UREP"}, Flags, [destNodeID : Node, userID : User])
      /\ UERRFrame = Header({"UERR"}, Flags, [userID : User, nodeID : Node])
      /\ PubKeyReqFrame = Header({"PUBKEY_REQ"}, Flags,
                                 [senderUserID : User, targetUserID : User])
      /\ PubKeyRespFrame = Header({"PUBKEY_RESP"}, Flags, [userID : User])
      /\ MoveUserReqFrame = Header({"MOVE_USER_REQ"}, Flags, [userID : User, destNodeID : Node])
  BY DEF Header, FrameOf, UREQFrame, UREPFrame, UERRFrame, PubKeyReqFrame, PubKeyRespFrame,
         MoveUserReqFrame
<1>3. /\ UserMsgFrame = Header({"USER_MSG"}, UserFlags,
                               [fromUserID : User, toUserID : User, toNodeID : Node])
      /\ BroadcastInfoFrame = Header({"BROADCAST_INFO"}, {"NONE", "I_AM_GATEWAY"},
                                     [added : SUBSET User, removed : SUBSET User])
  BY DEF Header, FlaggedFrame, UserMsgFrame, BroadcastInfoFrame
<1> DEFINE Kinds == {RREQFrame, RREPFrame, RERRFrame, ACKFrame, DATAFrame, UREQFrame,
                     UREPFrame, UERRFrame, PubKeyReqFrame, PubKeyRespFrame,
                     MoveUserReqFrame, UserMsgFrame, BroadcastInfoFrame}
<1>4. \A K \in Kinds : \E T, F, E : K = Header(T, F, E)
  BY <1>1, <1>2, <1>3
<1>5. (\E K \in Kinds : f \in K) /\ \A K \in Kinds : K \subseteq MeshFrame
  BY DEF MeshFrame, Frame, UserFrame
<1> HIDE DEF Kinds
<1>6. PICK K \in Kinds : f \in K /\ K \subseteq MeshFrame
  BY <1>5
<1>7. PICK T, F, E : K = Header(T, F, E)
  BY <1>4
<1> QED BY <1>6, <1>7

(* What a handler reads from the base header, and sends on. *)
LEMMA MeshFields ==
    ASSUME NEW f \in MeshFrame
    PROVE  /\ f.packetID \in PacketID
           /\ f.originNodeID \in Node
           /\ f.prevHopID \in Node
           /\ f.destNodeID \in Address
           /\ f.hopCount \in HopCount
BY MeshHeader DEF Header

(* Any frame of the mesh, sent on. *)
LEMMA MeshForwarded ==
    ASSUME NEW f \in MeshFrame, NEW n \in Node, NEW m
    PROVE  /\ Forwarded(n, f, m).packetType = f.packetType
           /\ Forwarded(n, f, m).packetID = f.packetID
           /\ Forwarded(n, f, m).originNodeID = f.originNodeID
           /\ Forwarded(n, f, m).prevHopID = n
           /\ Forwarded(n, f, m).destNodeID = m
           /\ Forwarded(n, f, m).hopCount = HopPlusOne(f.hopCount)
           /\ Forwarded(n, f, m).flags = f.flags
           /\ Forwarded(n, f, m).ext = f.ext
           /\ m \in Address => Forwarded(n, f, m) \in MeshFrame
BY MeshHeader, HeaderForwarded

(* handleRREP sends a reply on with one hop more in its own header, too. *)
LEMMA ReplyForwarded ==
    ASSUME NEW f \in RREPFrame, NEW n \in Node, NEW m, NEW h
    PROVE  LET g == [Forwarded(n, f, m) EXCEPT !.ext.numHops = h]
           IN /\ g.packetType = "RREP"
              /\ g.packetID = f.packetID
              /\ g.originNodeID = f.originNodeID
              /\ g.prevHopID = n
              /\ g.destNodeID = m
              /\ g.ext.RREPDestNodeID = f.ext.RREPDestNodeID
              /\ g.ext.numHops = h
              /\ m \in Address /\ h \in HopCount => g \in RREPFrame
<1>1. f.hopCount \in HopCount
  BY DEF RREPFrame, FrameOf
<1>2. HopPlusOne(f.hopCount) \in HopCount
  BY <1>1, HopType
<1> QED BY <1>2 DEF Forwarded, RREPFrame, FrameOf

(* The frames of the user plane a node originates. *)
LEMMA UserSendType ==
    ASSUME NEW n \in Node, NEW pid \in PacketID
    PROVE  /\ \A u \in User : sendUREQ(n, pid, u) \in MeshFrame
           /\ \A o, d, m \in Node, u \in User : sendUREP(n, pid, o, d, u, m) \in MeshFrame
           /\ \A o, m \in Node, u \in User : sendUERR(n, pid, o, u, m) \in MeshFrame
           /\ \A o, m \in Node, u \in User : moveUserReqFrame(n, pid, m, u, o) \in MeshFrame
           /\ \A d \in Address, u, v \in User : pubKeyReqFrame(n, pid, d, u, v) \in MeshFrame
           /\ \A o, m \in Node, u \in User : sendPubKeyResp(n, pid, o, u, m) \in MeshFrame
           /\ \A x, y \in SUBSET User : broadcastInfoFrame(n, pid, x, y) \in MeshFrame
<1>1. /\ Node \subseteq Address
      /\ BROADCAST_ADDR \in Address
      /\ "NONE" \in Flags
      /\ UREQFrame \cup UREPFrame \cup UERRFrame \cup MoveUserReqFrame \cup PubKeyReqFrame
           \cup PubKeyRespFrame \cup BroadcastInfoFrame \subseteq MeshFrame
  BY DEF Address, Flags, MeshFrame, UserFrame
<1>2. \A u \in User : sendUREQ(n, pid, u) \in UREQFrame
  BY <1>1, OriginateType DEF sendUREQ, UREQFrame
<1>3. \A o, d, m \in Node, u \in User : sendUREP(n, pid, o, d, u, m) \in UREPFrame
  BY <1>1, OriginateType DEF sendUREP, UREPFrame
<1>4. \A o, m \in Node, u \in User : sendUERR(n, pid, o, u, m) \in UERRFrame
  BY <1>1, OriginateType DEF sendUERR, UERRFrame
<1>5. \A o, m \in Node, u \in User : moveUserReqFrame(n, pid, m, u, o) \in MoveUserReqFrame
  BY <1>1, OriginateType DEF moveUserReqFrame, MoveUserReqFrame
<1>6. \A d \in Address, u, v \in User : pubKeyReqFrame(n, pid, d, u, v) \in PubKeyReqFrame
  BY <1>1, OriginateType DEF pubKeyReqFrame, PubKeyReqFrame
<1>7. \A o, m \in Node, u \in User : sendPubKeyResp(n, pid, o, u, m) \in PubKeyRespFrame
  BY <1>1, OriginateType DEF sendPubKeyResp, PubKeyRespFrame
<1>8. \A x, y \in SUBSET User : broadcastInfoFrame(n, pid, x, y) \in BroadcastInfoFrame
  BY <1>1 DEF broadcastInfoFrame, BroadcastInfoFrame, FlaggedFrame, Originate, HopCount
<1> QED BY <1>1, <1>2, <1>3, <1>4, <1>5, <1>6, <1>7, <1>8

(* A user message that leaves its sender. *)
LEMMA UserMsgType ==
    ASSUME NEW n \in Node, NEW m \in Msg, NEW nextHop \in Node, NEW home \in Node
    PROVE  /\ userMsgFrame(n, m, nextHop, home) \in UserMsgFrame
           /\ userMsgFrame(n, m, nextHop, home) \in MeshFrame
           /\ userMsgFrame(n, m, nextHop, home).packetType = "USER_MSG"
           /\ userMsgFrame(n, m, nextHop, home).packetID = m.packetID
           /\ userMsgFrame(n, m, nextHop, home).prevHopID = n
           /\ userMsgFrame(n, m, nextHop, home).destNodeID = nextHop
           /\ userMsgFrame(n, m, nextHop, home).ext.toNodeID = home
           /\ userMsgFrame(n, m, nextHop, home).ext.toUserID = m.toUserID
BY DEF userMsgFrame, Originate, UserMsgFrame, FlaggedFrame, Msg, MeshFrame, UserFrame,
       Address, HopCount

-----------------------------------------------------------------------------
(* What the steps do to the state of the router, typed. *)

(* Sending keeps the medium well typed. *)
LEMMA MeshAir ==
    ASSUME RouterTyped, NEW n \in Node, NEW out \in SUBSET MeshFrame
    PROVE  /\ air \cup OnAir(n, out) \in SUBSET (Node \X MeshFrame)
           /\ \A f : (air \ {<<n, f>>}) \cup OnAir(n, out) \in SUBSET (Node \X MeshFrame)
BY DEF RouterTyped, OnAir, Neighbours

(* Drawing identifiers stays within the bound, and gives identifiers. *)
LEMMA MeshDraw ==
    ASSUME RouterTyped, NEW n \in Node, NEW k \in Nat, Draw(n, k)
    PROVE  /\ issued' \in [Node -> 0..MaxPacketIDs]
           /\ \A j \in 1..k : NewID(n, j) \in PacketID
BY BoundsAssumption DEF RouterTyped, Draw, NewID, PacketID

(* Telling the phones keeps the notifications well typed. *)
LEMMA MeshTell ==
    ASSUME RouterTyped, NEW n \in Node, NEW notes \in Seq(Note), Tell(n, notes)
    PROVE  client' \in [Node -> Seq(Note)]
<1>1. client[n] \o notes \in Seq(Note)
  BY ConcatTyped DEF RouterTyped
<1> QED BY <1>1 DEF RouterTyped, Tell

(* What the phones of a node are told of data packets. *)
LEMMA MeshNotify ==
    ASSUME RouterTyped, NEW n \in Node, NEW pid \in PacketID,
           NEW type \in {"BLE_Node", "BLE_Broadcast", "BLE_ACK", "BLE_ACK_FAILURE"},
           Notify(n, type, pid)
    PROVE  client' \in [Node -> Seq(Note)]
<1>1. [type |-> type, packetID |-> pid] \in Note
  BY DEF Note, Notification
<1>2. Append(client[n], [type |-> type, packetID |-> pid]) \in Seq(Note)
  BY <1>1, AppendTyped DEF RouterTyped
<1> QED BY <1>2 DEF RouterTyped, Notify

(* Storing a transmitted packet keeps the ACK buffer well typed. *)
LEMMA MeshStore ==
    ASSUME RouterTyped, NEW n \in Node, NEW f \in KeptFrame, StoreIfRouted(n, f)
    PROVE  ackBuffer' \in [Node -> SUBSET KeptEntry]
<1>1. [frame |-> f, attempts |-> 0] \in KeptEntry
  BY BoundsAssumption DEF KeptEntry
<1> QED BY <1>1 DEF RouterTyped, StoreIfRouted, storeAckPacket, Pending

(* A handler that stores the identifier of its frame and leaves the           *)
(* application task alone.                                                   *)
LEMMA ReceiveTyped ==
    ASSUME RouterTyped, NEW n \in Node, NEW f \in MeshFrame, storePacketID(n, f),
           NEW out \in SUBSET MeshFrame, Emit(n, f, out), RoutesTyped',
           dataBuffer' \in [Node -> [Node -> SUBSET PacketID]],
           ackBuffer' \in [Node -> SUBSET KeptEntry],
           issued' \in [Node -> 0..MaxPacketIDs],
           client' \in [Node -> Seq(Note)],
           UNCHANGED <<expired, sender, restarts>>
    PROVE  RouterTyped'
<1>1. receivedPacketIDs' \in [Node -> SUBSET PacketID]
  BY MeshFields DEF RouterTyped, storePacketID
<1>2. air' \in SUBSET (Node \X MeshFrame)
  BY MeshAir DEF Emit
<1> QED BY <1>1, <1>2 DEF RouterTyped

(* Learning a route keeps the route table well typed. *)
LEMMA LearnTyped ==
    ASSUME RoutesTyped, NEW n \in Node, NEW rt \in Table, Learn(n, rt)
    PROVE  RoutesTyped' /\ routeTable'[n] = rt
BY DEF RoutesTyped, Learn

(* What handlers learn from a frame are routes. *)
LEMMA LearnsTables ==
    ASSUME RoutesTyped, NEW n \in Node, NEW d \in Node, NEW m \in Node, NEW h \in HopCount
    PROVE  /\ LearnRoutes(routeTable[n], d, m, h) \in Table
           /\ updateRoute(routeTable[n], m, m, 1) \in Table
           /\ updateRoute(updateRoute(routeTable[n], m, m, 1), d, m, h) \in Table
<1>1. 1 \in HopCount /\ routeTable[n] \in Table
  BY DEF HopCount, RoutesTyped
<1> QED BY <1>1, UpdateRoute, LearnType

(* The far end of the frame then has a route. *)
LEMMA LearnsBoth ==
    ASSUME NEW rt \in Table, NEW dest \in Node, NEW prevHop \in Node, NEW hops \in HopCount
    PROVE  /\ LearnRoutes(rt, dest, prevHop, hops) \in Table
           /\ LearnRoutes(rt, dest, prevHop, hops)[dest] # NoRoute
<1> DEFINE mid == updateRoute(rt, dest, prevHop, hops)
           new == updateRoute(mid, prevHop, prevHop, 1)
<1>1. 1 \in HopCount
  BY DEF HopCount
<1>2. /\ mid \in Table
      /\ \A d \in Node : d # dest => mid[d] = rt[d]
      /\ mid[dest] # NoRoute
      /\ \/ mid[dest] = rt[dest] /\ rt[dest].hopcount <= hops
         \/ /\ mid[dest] = [nextHop |-> prevHop, hopcount |-> hops]
            /\ rt[dest] # NoRoute => hops < rt[dest].hopcount
  BY UpdatedRoute
<1> HIDE DEF mid
<1>3. /\ new \in Table
      /\ \A d \in Node : d # prevHop => new[d] = mid[d]
      /\ new[prevHop] # NoRoute
      /\ \/ new[prevHop] = mid[prevHop] /\ mid[prevHop].hopcount <= 1
         \/ /\ new[prevHop] = [nextHop |-> prevHop, hopcount |-> 1]
            /\ mid[prevHop] # NoRoute => 1 < mid[prevHop].hopcount
  BY <1>1, <1>2, UpdatedRoute
<1> HIDE DEF new
<1>4. new[dest] # NoRoute
  BY <1>2, <1>3
<1>5. new = LearnRoutes(rt, dest, prevHop, hops)
  BY DEF new, mid, LearnRoutes
<1> QED BY <1>3, <1>4, <1>5

(* What is sent on along a route is a frame. *)
LEMMA OnwardTyped ==
    ASSUME NEW n \in Node, NEW f \in MeshFrame, NEW rt \in Table, NEW d \in Node
    PROVE  Onward(n, f, rt, d) \in SUBSET MeshFrame
<1>1. rt[d] # NoRoute => rt[d].nextHop \in Address
  BY RouteType DEF Address
<1> QED BY <1>1, MeshForwarded DEF Onward

(* What is repeated until MAX_HOPS is a frame. *)
LEMMA RepeatedTyped ==
    ASSUME NEW n \in Node, NEW f \in MeshFrame
    PROVE  Repeated(n, f) \in SUBSET MeshFrame
BY MeshFields, MeshForwarded DEF Repeated

(* What sendUserMessage sends for some messages are frames. *)
LEMMA ResendTyped ==
    ASSUME NEW n \in Node, NEW rt \in Table, NEW g \in [User -> Node \cup {NoRoute}],
           NEW ms \in Seq(Msg), NEW k \in Nat,
           \A j \in 1..(k + Len(ms)) : NewID(n, j) \in PacketID
    PROVE  Resend(n, rt, g, ms, k) \in SUBSET MeshFrame
<1> DEFINE frameOf(i) ==
             IF ~HasHome(g, ms[i]) THEN sendUREQ(n, NewID(n, k + i), ms[i].toUserID)
             ELSE IF rt[g[ms[i].toUserID]] = NoRoute
             THEN sendRREQ(n, NewID(n, k + i), g[ms[i].toUserID])
             ELSE userMsgFrame(n, ms[i], rt[g[ms[i].toUserID]].nextHop, g[ms[i].toUserID])
<1>1. ASSUME NEW i \in DOMAIN ms
      PROVE  frameOf(i) \in MeshFrame
  <2>1. /\ ms[i] \in Msg
        /\ ms[i].toUserID \in User
        /\ k + i \in 1..(k + Len(ms))
    <3>1. ms[i] \in Msg /\ i \in 1..Len(ms) /\ Len(ms) \in Nat
      BY InSequence
    <3> QED BY <3>1 DEF Msg
  <2>2. NewID(n, k + i) \in PacketID
    BY <2>1
  <2>3. CASE ~HasHome(g, ms[i])
    BY <2>1, <2>2, <2>3, UserSendType
  <2>4. CASE HasHome(g, ms[i])
    <3>1. g[ms[i].toUserID] \in Node
      BY <2>1, <2>4 DEF HasHome
    <3>2. CASE rt[g[ms[i].toUserID]] = NoRoute
      BY <2>2, <2>4, <3>1, <3>2, SendType DEF MeshFrame, Frame
    <3>3. CASE rt[g[ms[i].toUserID]] # NoRoute
      <4>1. rt[g[ms[i].toUserID]].nextHop \in Node
        BY <3>1, <3>3, RouteType
      <4> QED BY <2>1, <2>4, <3>1, <3>3, <4>1, UserMsgType
    <3> QED BY <3>2, <3>3
  <2> QED BY <2>3, <2>4
<1>2. Resend(n, rt, g, ms, k) = {frameOf(i) : i \in DOMAIN ms}
  BY DEF Resend
<1> HIDE DEF frameOf
<1> QED BY <1>1, <1>2

(* What is parked are messages. *)
LEMMA ParkedTyped ==
    ASSUME NEW ms \in Seq(Msg)
    PROVE  ParkAll(ms) \in Seq(Msg)
<1>1. \A m \in Msg : Park(m) \in Msg
  BY DEF Park, Msg, UserFlags
<1>2. ParkAll(ms) \in [DOMAIN ms -> Msg]
  BY <1>1 DEF ParkAll
<1> QED BY <1>2, SameLength

(* Messages that are parked stay messages. *)
LEMMA WaitTyped ==
    ASSUME NEW g, NEW rt, NEW ms \in Seq(Msg)
    PROVE  /\ \A b \in [User -> Seq(Msg)] : WaitForHome(b, g, ms) \in [User -> Seq(Msg)]
           /\ \A b \in [Node -> Seq(Msg)] : WaitForRoute(b, rt, g, ms) \in [Node -> Seq(Msg)]
<1>1. ASSUME NEW T \in SUBSET Msg
      PROVE  ParkAll(Only(ms, T)) \in Seq(Msg)
  <2>1. Only(ms, T) \in Seq(T)
    BY OnlyTyped
  <2>2. Only(ms, T) \in Seq(Msg)
    BY <2>1, SeqMonotone
  <2> QED BY <2>2, ParkedTyped
<1>2. \A u : {m \in Msg : m.toUserID = u /\ ~HasHome(g, m)} \in SUBSET Msg
  OBVIOUS
<1>3. \A d : {m \in Msg : g[m.toUserID] = d /\ ~HasWay(rt, g, m)} \in SUBSET Msg
  OBVIOUS
<1>4. \A b \in [User -> Seq(Msg)] : WaitForHome(b, g, ms) \in [User -> Seq(Msg)]
  BY <1>1, <1>2, ConcatTyped DEF WaitForHome
<1>5. \A b \in [Node -> Seq(Msg)] : WaitForRoute(b, rt, g, ms) \in [Node -> Seq(Msg)]
  BY <1>1, <1>3, ConcatTyped DEF WaitForRoute
<1> QED BY <1>4, <1>5

-----------------------------------------------------------------------------
(* Every handler of the user plane keeps the types. *)

(* A step of the router that leaves the user plane alone. *)
LEMMA UserKept ==
    ASSUME UserTyped, RouterTyped', UNCHANGED userVars
    PROVE  UserTyped'
<1>1. UNCHANGED <<homeVars, discoveredNodes, gut, bufferVars, gatewayVars, userKeys, outsideVars>>
  BY DEF userVars
<1>2. HomesTyped' /\ BuffersTyped' /\ OutsideTyped'
  BY <1>1, HomesKept, BuffersKept, OutsideKept DEF UserTyped
<1>3. BeliefsTyped'
  BY <1>1, BeliefsKept DEF UserTyped
<1> QED BY <1>2, <1>3 DEF UserTyped

(* handleUREQ keeps the types. *)
LEMMA UREQTyped ==
    ASSUME UserTyped, NEW n \in Node, NEW f \in UREQFrame, storePacketID(n, f),
           HandleUREQ(n, f)
    PROVE  UserTyped'
<1> DEFINE uSrc == sendUREP(n, NewID(n, 1), f.originNodeID, n, f.ext.userID, f.prevHopID)
<1>1. /\ f \in MeshFrame
      /\ f.ext.userID \in User
      /\ f.originNodeID \in Node
      /\ f.prevHopID \in Node
      /\ f.hopCount \in HopCount
  BY DEF MeshFrame, UserFrame, UREQFrame, FrameOf
<1>2. RouterTyped /\ RoutesTyped
  BY DEF UserTyped, RouterTyped
<1>3. RoutesTyped'
  <2>1. LearnFromUREQ(n, f) \in Table
    BY <1>1, <1>2, HopType, LearnsTables DEF LearnFromUREQ
  <2>2. Learn(n, LearnFromUREQ(n, f))
    BY DEF HandleUREQ
  <2> QED BY <1>2, <2>1, <2>2, LearnTyped
<1>4. \E out \in SUBSET MeshFrame : Emit(n, f, out) /\ issued' \in [Node -> 0..MaxPacketIDs]
  <2>1. CASE Emit(n, f, {uSrc}) /\ Draw(n, 1)
    <3>1. issued' \in [Node -> 0..MaxPacketIDs] /\ NewID(n, 1) \in PacketID
      BY <1>2, <2>1, MeshDraw
    <3>2. uSrc \in MeshFrame
      BY <1>1, <3>1, UserSendType
    <3> QED BY <2>1, <3>1, <3>2
  <2>2. CASE Emit(n, f, {Forwarded(n, f, BROADCAST_ADDR)}) /\ UNCHANGED issued
    <3>1. Forwarded(n, f, BROADCAST_ADDR) \in MeshFrame
      BY <1>1, MeshForwarded DEF Address
    <3> QED BY <1>2, <2>2, <3>1 DEF RouterTyped
  <2> QED BY <2>1, <2>2 DEF HandleUREQ
<1>5. UNCHANGED <<ackBuffer, client, quietVars, userVars>>
  BY DEF HandleUREQ
<1>6. RouterTyped'
  BY <1>1, <1>2, <1>3, <1>4, <1>5, ReceiveTyped DEF RouterTyped, quietVars
<1> QED BY <1>5, <1>6, UserKept

(* handleUREP keeps the types. *)
LEMMA UREPTyped ==
    ASSUME UserTyped, NEW n \in Node, NEW f \in UREPFrame, storePacketID(n, f),
           HandleUREP(n, f)
    PROVE  UserTyped'
<1> DEFINE u == f.ext.userID
           rt == LearnFromUREP(n, f)
           g == [gut[n] EXCEPT ![u] = f.ext.destNodeID]
           pending == userMsgBuffer[n][u]
<1>1. /\ f \in MeshFrame
      /\ u \in User
      /\ f.ext.destNodeID \in Node
      /\ f.originNodeID \in Node
      /\ f.prevHopID \in Node
      /\ f.hopCount \in HopCount
  BY DEF MeshFrame, UserFrame, UREPFrame, FrameOf
<1>2. RouterTyped /\ RoutesTyped
  BY DEF UserTyped, RouterTyped
<1>3. rt \in Table
  BY <1>1, <1>2, HopType, LearnsTables DEF LearnFromUREP
<1>4. g \in [User -> Node \cup {NoRoute}] /\ pending \in Seq(Msg)
  BY <1>1 DEF UserTyped, BeliefsTyped, BuffersTyped
<1>5. /\ Learn(n, rt)
      /\ gut' = [gut EXCEPT ![n] = g]
      /\ \/ /\ Emit(n, f, Resend(n, rt, g, pending, 0))
            /\ Draw(n, Len(pending))
            /\ userMsgBuffer' = [userMsgBuffer EXCEPT ![n] = popBufferedUserMessages(@, u)]
            /\ userRouteBuffer' = [userRouteBuffer EXCEPT ![n] =
                                       WaitForRoute(@, rt, g, pending)]
         \/ /\ Emit(n, f, Onward(n, f, rt, f.originNodeID))
            /\ UNCHANGED <<issued, userMsgBuffer, userRouteBuffer>>
      /\ UNCHANGED <<ackBuffer, client, quietVars, homeVars, discoveredNodes, moveReqBuffer,
                     gatewayVars, userKeys, outsideVars>>
  BY DEF HandleUREP, Believe
<1> HIDE DEF rt, g, pending, u
<1>6. RoutesTyped'
  BY <1>2, <1>3, <1>5, LearnTyped
<1>7. \E out \in SUBSET MeshFrame : Emit(n, f, out) /\ issued' \in [Node -> 0..MaxPacketIDs]
  <2>1. CASE Emit(n, f, Resend(n, rt, g, pending, 0)) /\ Draw(n, Len(pending))
    <3>1. Len(pending) \in Nat /\ 0 + Len(pending) = Len(pending)
      BY <1>4
    <3>2. /\ issued' \in [Node -> 0..MaxPacketIDs]
          /\ \A j \in 1..(0 + Len(pending)) : NewID(n, j) \in PacketID
      BY <1>2, <2>1, <3>1, MeshDraw
    <3>3. Resend(n, rt, g, pending, 0) \in SUBSET MeshFrame
      BY <1>3, <1>4, <3>2, ResendTyped
    <3> QED BY <2>1, <3>2, <3>3
  <2>2. CASE Emit(n, f, Onward(n, f, rt, f.originNodeID)) /\ UNCHANGED issued
    <3>1. Onward(n, f, rt, f.originNodeID) \in SUBSET MeshFrame
      BY <1>1, <1>3, OnwardTyped
    <3> QED BY <1>2, <2>2, <3>1 DEF RouterTyped
  <2> QED BY <1>5, <2>1, <2>2
<1>8. RouterTyped'
  BY <1>1, <1>2, <1>5, <1>6, <1>7, ReceiveTyped DEF RouterTyped, quietVars
<1>9. BuffersTyped'
  <2>1. popBufferedUserMessages(userMsgBuffer[n], u) \in [User -> Seq(Msg)]
    <3>1. userMsgBuffer[n] \in [User -> Seq(Msg)] /\ <<>> \in Seq(Msg)
      BY EmptySeq DEF UserTyped, BuffersTyped
    <3> QED BY <3>1 DEF popBufferedUserMessages
  <2>2. WaitForRoute(userRouteBuffer[n], rt, g, pending) \in [Node -> Seq(Msg)]
    BY <1>4, WaitTyped DEF UserTyped, BuffersTyped
  <2> QED BY <1>5, <2>1, <2>2 DEF UserTyped, BuffersTyped
<1>10. BeliefsTyped'
  BY <1>4, <1>5 DEF UserTyped, BeliefsTyped, gatewayVars
<1>11. HomesTyped' /\ OutsideTyped'
  BY <1>5, HomesKept, OutsideKept DEF UserTyped
<1> QED BY <1>8, <1>9, <1>10, <1>11 DEF UserTyped

(* handleUERR keeps the types. *)
LEMMA UERRTyped ==
    ASSUME UserTyped, NEW n \in Node, NEW f \in UERRFrame, storePacketID(n, f),
           HandleUERR(n, f)
    PROVE  UserTyped'
<1> DEFINE rt == updateRoute(routeTable[n], f.prevHopID, f.prevHopID, 1)
           u == f.ext.userID
<1>1. /\ f \in MeshFrame
      /\ u \in User
      /\ f.originNodeID \in Node
      /\ f.prevHopID \in Node
      /\ f.hopCount \in HopCount
  BY DEF MeshFrame, UserFrame, UERRFrame, FrameOf
<1>2. RouterTyped /\ RoutesTyped
  BY DEF UserTyped, RouterTyped
<1>3. rt \in Table
  BY <1>1, <1>2, LearnsTables
<1>4. /\ Learn(n, rt)
      /\ gut' = [gut EXCEPT ![n] = IF gut[n][u] = f.ext.nodeID
                                   THEN [gut[n] EXCEPT ![u] = NoRoute] ELSE gut[n]]
      /\ Emit(n, f, {}) \/ Emit(n, f, Onward(n, f, rt, f.originNodeID))
      /\ UNCHANGED <<ackBuffer, client, issued, quietVars, homeVars, discoveredNodes,
                     bufferVars, gatewayVars, userKeys, outsideVars>>
  BY DEF HandleUERR, Believe
<1> HIDE DEF rt, u
<1>5. RoutesTyped'
  BY <1>2, <1>3, <1>4, LearnTyped
<1>6. \E out \in SUBSET MeshFrame : Emit(n, f, out)
  BY <1>1, <1>3, <1>4, OnwardTyped
<1>7. RouterTyped'
  BY <1>1, <1>2, <1>4, <1>5, <1>6, ReceiveTyped DEF RouterTyped, quietVars
<1>8. BeliefsTyped'
  BY <1>1, <1>4 DEF UserTyped, BeliefsTyped, gatewayVars
<1>9. HomesTyped' /\ BuffersTyped' /\ OutsideTyped'
  BY <1>4, HomesKept, BuffersKept, OutsideKept DEF UserTyped
<1> QED BY <1>7, <1>8, <1>9 DEF UserTyped

(* One identifier is drawn for the acknowledgement of a hop, if there is one. *)
LEMMA HopAcks ==
    ASSUME NEW f
    PROVE  HopAcksDrawn(f) = IF f.flags \in {"REQ_ACK", "ENC_ACK"} THEN 1 ELSE 0
<1>1. CASE f.flags \in {"REQ_ACK", "ENC_ACK"}
  <2>1. {"REQ_ACK", "ENC_ACK"} \cap {f.flags} = {f.flags}
    BY <1>1
  <2> QED BY <1>1, <2>1, FS_Singleton DEF HopAcksDrawn
<1>2. CASE f.flags \notin {"REQ_ACK", "ENC_ACK"}
  <2>1. {"REQ_ACK", "ENC_ACK"} \cap {f.flags} = {}
    BY <1>2
  <2> QED BY <1>2, <2>1, FS_EmptySet DEF HopAcksDrawn
<1> QED BY <1>1, <1>2

(* What a node draws for acknowledging a hop. *)
LEMMA HopAckTyped ==
    ASSUME RouterTyped, NEW n \in Node, NEW f \in UserMsgFrame, NEW j \in {0, 1},
           Draw(n, HopAcksDrawn(f) + j)
    PROVE  /\ issued' \in [Node -> 0..MaxPacketIDs]
           /\ HopAck(n, f) \in SUBSET MeshFrame
           /\ j = 1 => NewID(n, HopAcksDrawn(f) + 1) \in PacketID
<1>1. /\ f.packetID \in PacketID
      /\ f.prevHopID \in Node
  BY DEF UserMsgFrame, FlaggedFrame
<1>2. CASE f.flags \in {"REQ_ACK", "ENC_ACK"}
  <2>2. HopAcksDrawn(f) = 1
    BY <1>2, HopAcks
  <2>3. HopAcksDrawn(f) + j \in Nat /\ 1 \in 1..(HopAcksDrawn(f) + j)
    BY <2>2
  <2>4. /\ issued' \in [Node -> 0..MaxPacketIDs]
        /\ \A i \in 1..(HopAcksDrawn(f) + j) : NewID(n, i) \in PacketID
    BY <2>3, MeshDraw
  <2>5. NewID(n, 1) \in PacketID
    BY <2>3, <2>4
  <2>6. sendACK(n, NewID(n, 1), f.prevHopID, f.packetID) \in MeshFrame
    BY <1>1, <2>5, SendType DEF MeshFrame, Frame
  <2> QED BY <1>2, <2>2, <2>4, <2>6 DEF HopAck
<1>3. CASE f.flags \notin {"REQ_ACK", "ENC_ACK"}
  <2>2. HopAcksDrawn(f) = 0
    BY <1>3, HopAcks
  <2>3. HopAcksDrawn(f) + j \in Nat
    BY <2>2
  <2>4. /\ issued' \in [Node -> 0..MaxPacketIDs]
        /\ \A i \in 1..(HopAcksDrawn(f) + j) : NewID(n, i) \in PacketID
    BY <2>3, MeshDraw
  <2>5. HopAck(n, f) = {}
    BY <1>3 DEF HopAck
  <2> QED BY <2>2, <2>4, <2>5
<1> QED BY <1>2, <1>3

(* What is shown and kept of a user message. *)
LEMMA ShownTyped ==
    /\ \A m \in Msg : ShownAs(m) \in UserMessageShown /\ ShownAs(m).packetID = m.packetID
    /\ \A f \in UserMsgFrame : /\ MsgOf(f) \in Msg
                               /\ MsgOf(f).packetID = f.packetID
                               /\ MsgOf(f).toUserID = f.ext.toUserID
<1>1. \A m \in Msg : ShownAs(m) \in UserMessageShown /\ ShownAs(m).packetID = m.packetID
  BY DEF ShownAs, BleTypeOf, UserMessageShown, Msg
<1>2. \A f \in UserMsgFrame : /\ MsgOf(f) \in Msg
                              /\ MsgOf(f).packetID = f.packetID
                              /\ MsgOf(f).toUserID = f.ext.toUserID
  BY DEF MsgOf, UserMsgFrame, FlaggedFrame, Msg
<1> QED BY <1>1, <1>2

(* An inbox that takes one more message stays within its limit. *)
LEMMA QueueTyped ==
    ASSUME NEW box \in Seq(Msg), Len(box) <= INBOX_MAX, NEW m \in Msg
    PROVE  /\ queueOffline(box, m) \in Seq(Msg)
           /\ Len(queueOffline(box, m)) <= INBOX_MAX
<1>1. INBOX_MAX \in Nat \ {0}
  BY UserAssumption
<1>2. CASE Len(box) = INBOX_MAX
  <2>1. box # <<>>
    BY <1>1, <1>2
  <2>2. Tail(box) \in Seq(Msg) /\ Len(Tail(box)) = Len(box) - 1
    BY <2>1
  <2> QED BY <1>1, <1>2, <2>2 DEF queueOffline
<1>3. CASE Len(box) # INBOX_MAX
  BY <1>1, <1>3 DEF queueOffline
<1> QED BY <1>2, <1>3

(* handleUserMessage keeps the types. *)
LEMMA UserMessageTyped ==
    ASSUME UserTyped, NEW n \in Node, NEW f \in UserMsgFrame, storePacketID(n, f),
           HandleUserMessage(n, f)
    PROVE  UserTyped'
<1>1. /\ f \in MeshFrame
      /\ f.packetID \in PacketID
      /\ f.originNodeID \in Node
      /\ f.prevHopID \in Node
      /\ f.ext.toUserID \in User
      /\ f.ext.toNodeID \in Node
  BY DEF MeshFrame, UserFrame, UserMsgFrame, FlaggedFrame
<1>2. RouterTyped /\ RoutesTyped /\ HomesTyped
  BY DEF UserTyped, RouterTyped
<1>3. UNCHANGED <<routeTable, quietVars, users, online, diff, discoveredNodes, gut,
                  bufferVars, gatewayVars, userKeys, gwOnline, todo, messages>>
  BY DEF HandleUserMessage
<1>4. BuffersTyped' /\ BeliefsTyped'
  BY <1>3, BuffersKept, BeliefsKept DEF UserTyped
<1>5. RoutesTyped'
  BY <1>2, <1>3 DEF RoutesTyped
<1>6. ASSUME UNCHANGED <<inbox, uplinked>>, RouterTyped'
      PROVE  UserTyped'
  <2>1. HomesTyped' /\ OutsideTyped'
    BY <1>3, <1>6, HomesKept, OutsideKept DEF UserTyped, homeVars, outsideVars
  <2> QED BY <1>4, <1>6, <2>1 DEF UserTyped
<1>7. ASSUME NEW out \in SUBSET MeshFrame, Emit(n, f, out),
             ackBuffer' \in [Node -> SUBSET KeptEntry],
             issued' \in [Node -> 0..MaxPacketIDs],
             client' \in [Node -> Seq(Note)]
      PROVE  RouterTyped'
  BY <1>1, <1>2, <1>3, <1>5, <1>7, ReceiveTyped DEF RouterTyped, quietVars
<1>8. CASE TakeForUplink(n, f)
  <2>1. RouterTyped'
    BY <1>2, <1>7, <1>8 DEF TakeForUplink, RouterTyped
  <2>2. OutsideTyped'
    BY <1>1, <1>3, <1>8 DEF TakeForUplink, UserTyped, OutsideTyped
  <2>3. HomesTyped'
    BY <1>3, <1>8, HomesKept DEF TakeForUplink, UserTyped, homeVars
  <2> QED BY <1>4, <2>1, <2>2, <2>3 DEF UserTyped
<1>9. CASE DeliverUserMessage(n, f)
  <2> DEFINE u == f.ext.toUserID
  <2>1. /\ Emit(n, f, HopAck(n, f))
        /\ Draw(n, HopAcksDrawn(f))
        /\ UNCHANGED <<ackBuffer, uplinked>>
    BY <1>9 DEF DeliverUserMessage
  <2>2. HopAcksDrawn(f) + 0 = HopAcksDrawn(f)
    BY HopAcks
  <2>3. issued' \in [Node -> 0..MaxPacketIDs] /\ HopAck(n, f) \in SUBSET MeshFrame
    BY <1>2, <2>1, <2>2, HopAckTyped
  <2>4. \/ Tell(n, <<ShownAs(MsgOf(f))>>) /\ UNCHANGED inbox
        \/ /\ inbox' = [inbox EXCEPT ![n][u] = queueOffline(@, MsgOf(f))]
           /\ UNCHANGED client
    BY <1>9 DEF DeliverUserMessage
  <2>5. client' \in [Node -> Seq(Note)]
    <3>1. <<ShownAs(MsgOf(f))>> \in Seq(Note)
      <4>1. ShownAs(MsgOf(f)) \in Note
        BY ShownTyped DEF Note, Shown
      <4> QED BY <4>1
    <3> QED BY <1>2, <2>4, <3>1, MeshTell DEF RouterTyped
  <2>6. RouterTyped'
    BY <1>2, <1>7, <2>1, <2>3, <2>5 DEF RouterTyped
  <2>7. HomesTyped'
    <3>1. CASE UNCHANGED inbox
      BY <1>2, <1>3, <3>1, HomesKept DEF homeVars
    <3>2. CASE inbox' = [inbox EXCEPT ![n][u] = queueOffline(@, MsgOf(f))]
      <4>1. PICK box : box = queueOffline(inbox[n][u], MsgOf(f))
        OBVIOUS
      <4>2. box \in Seq(Msg) /\ Len(box) <= INBOX_MAX
        <5>1. inbox[n][u] \in Seq(Msg) /\ Len(inbox[n][u]) <= INBOX_MAX
          BY <1>1, <1>2 DEF HomesTyped
        <5> QED BY <4>1, <5>1, QueueTyped, ShownTyped
      <4>3. inbox' = [inbox EXCEPT ![n] = [inbox[n] EXCEPT ![u] = box]]
        BY <1>2, <3>2, <4>1 DEF HomesTyped
      <4> QED BY <1>1, <1>2, <1>3, <4>2, <4>3 DEF HomesTyped
    <3> QED BY <2>4, <3>1, <3>2
  <2>8. OutsideTyped'
    BY <1>3, <2>1, OutsideKept DEF UserTyped, outsideVars
  <2> QED BY <1>4, <2>6, <2>7, <2>8 DEF UserTyped
<1>10. CASE RefuseUserMessage(n, f)
  <2> DEFINE uerr == sendUERR(n, NewID(n, HopAcksDrawn(f) + 1), f.originNodeID,
                              f.ext.toUserID, f.prevHopID)
  <2>1. /\ Emit(n, f, HopAck(n, f) \cup {uerr})
        /\ Draw(n, HopAcksDrawn(f) + 1)
        /\ UNCHANGED <<ackBuffer, client, inbox, uplinked>>
    BY <1>10 DEF RefuseUserMessage
  <2>2. /\ issued' \in [Node -> 0..MaxPacketIDs]
        /\ HopAck(n, f) \in SUBSET MeshFrame
        /\ NewID(n, HopAcksDrawn(f) + 1) \in PacketID
    BY <1>2, <2>1, HopAckTyped
  <2>3. uerr \in MeshFrame
    BY <1>1, <2>2, UserSendType
  <2> HIDE DEF uerr
  <2>4. RouterTyped'
    BY <1>2, <1>7, <2>1, <2>2, <2>3 DEF RouterTyped
  <2> QED BY <1>6, <2>1, <2>4
<1>11. CASE ForwardUserMessage(n, f)
  <2> DEFINE dest == f.ext.toNodeID
             onward == Forwarded(n, f, routeTable[n][dest].nextHop)
  <2>1. /\ routeTable[n][dest] # NoRoute
        /\ Draw(n, HopAcksDrawn(f))
        /\ Emit(n, f, HopAck(n, f) \cup {onward}) \/ Emit(n, f, HopAck(n, f))
        /\ UNCHANGED ackBuffer \/ StoreIfRouted(n, onward)
        /\ UNCHANGED <<client, inbox, uplinked>>
    BY <1>11 DEF ForwardUserMessage
  <2>2. HopAcksDrawn(f) + 0 = HopAcksDrawn(f)
    BY HopAcks
  <2>3. issued' \in [Node -> 0..MaxPacketIDs] /\ HopAck(n, f) \in SUBSET MeshFrame
    BY <1>2, <2>1, <2>2, HopAckTyped
  <2>4. onward \in UserMsgFrame
    <3>1. routeTable[n] \in Table
      BY <1>2 DEF RoutesTyped
    <3>2. routeTable[n][dest].nextHop \in Address
      BY <1>1, <2>1, <3>1, RouteType DEF Address
    <3>3. UserMsgFrame = Header({"USER_MSG"}, UserFlags,
                                [fromUserID : User, toUserID : User, toNodeID : Node])
      BY DEF UserMsgFrame, FlaggedFrame, Header
    <3> QED BY <3>2, <3>3, HeaderForwarded
  <2>5. onward \in MeshFrame /\ onward \in KeptFrame
    BY <2>4 DEF MeshFrame, UserFrame, KeptFrame
  <2> HIDE DEF onward, dest
  <2>6. ackBuffer' \in [Node -> SUBSET KeptEntry]
    BY <1>2, <2>1, <2>5, MeshStore DEF RouterTyped
  <2>7. client' \in [Node -> Seq(Note)]
    BY <1>2, <2>1 DEF RouterTyped
  <2>8. \E out \in SUBSET MeshFrame : Emit(n, f, out)
    BY <2>1, <2>3, <2>5
  <2>9. RouterTyped'
    BY <1>7, <2>3, <2>6, <2>7, <2>8
  <2> QED BY <1>6, <2>1, <2>9
<1>12. CASE RejectUserMessage(n, f)
  <2> DEFINE dest == f.ext.toNodeID
             rerr == sendRERR(n, NewID(n, HopAcksDrawn(f) + 1), n, f.originNodeID, dest,
                              f.packetID)
  <2>1. /\ Emit(n, f, HopAck(n, f) \cup {rerr})
        /\ Draw(n, HopAcksDrawn(f) + 1)
        /\ UNCHANGED <<ackBuffer, client, inbox, uplinked>>
    BY <1>12 DEF RejectUserMessage
  <2>2. /\ issued' \in [Node -> 0..MaxPacketIDs]
        /\ HopAck(n, f) \in SUBSET MeshFrame
        /\ NewID(n, HopAcksDrawn(f) + 1) \in PacketID
    BY <1>2, <2>1, HopAckTyped
  <2>3. rerr \in MeshFrame
    BY <1>1, <2>2, SendType DEF MeshFrame, Frame
  <2> HIDE DEF rerr
  <2>4. RouterTyped'
    BY <1>2, <1>7, <2>1, <2>2, <2>3 DEF RouterTyped
  <2> QED BY <1>6, <2>1, <2>4
<1> QED BY <1>8, <1>9, <1>10, <1>11, <1>12 DEF HandleUserMessage

(* handlePubKeyReq keeps the types. *)
LEMMA PubKeyReqTyped ==
    ASSUME UserTyped, NEW n \in Node, NEW f \in PubKeyReqFrame, storePacketID(n, f),
           HandlePubKeyReq(n, f)
    PROVE  UserTyped'
<1> DEFINE e == f.ext
           reply == sendPubKeyResp(n, NewID(n, 1), f.originNodeID, e.targetUserID, f.prevHopID)
           note == <<[type |-> "BLE_PUBKEY_RESP", user |-> e.senderUserID]>>
<1>1. /\ f \in MeshFrame
      /\ e.targetUserID \in User
      /\ e.senderUserID \in User
      /\ f.originNodeID \in Node
      /\ f.prevHopID \in Node
  BY DEF MeshFrame, UserFrame, PubKeyReqFrame, FrameOf
<1>2. RouterTyped /\ RoutesTyped
  BY DEF UserTyped, RouterTyped
<1>3. /\ UNCHANGED <<routeTable, ackBuffer, quietVars, homeVars, discoveredNodes, gut,
                     bufferVars, gatewayVars, outsideVars>>
      /\ \/ /\ userKeys' = [userKeys EXCEPT ![n] = @ \cup {e.senderUserID}]
            /\ Tell(n, note)
            /\ Emit(n, f, {reply})
            /\ Draw(n, 1)
         \/ /\ Emit(n, f, Repeated(n, f))
            /\ UNCHANGED <<userKeys, client, issued>>
  BY DEF HandlePubKeyReq
<1>4. \E out \in SUBSET MeshFrame : /\ Emit(n, f, out)
                                    /\ issued' \in [Node -> 0..MaxPacketIDs]
                                    /\ client' \in [Node -> Seq(Note)]
  <2>1. CASE Tell(n, note) /\ Emit(n, f, {reply}) /\ Draw(n, 1)
    <3>1. issued' \in [Node -> 0..MaxPacketIDs] /\ NewID(n, 1) \in PacketID
      BY <1>2, <2>1, MeshDraw
    <3>2. reply \in MeshFrame
      BY <1>1, <3>1, UserSendType
    <3>3. note \in Seq(Note)
      <4>1. [type |-> "BLE_PUBKEY_RESP", user |-> e.senderUserID] \in Note
        BY <1>1 DEF Note, Shown
      <4> QED BY <4>1
    <3>4. client' \in [Node -> Seq(Note)]
      BY <1>2, <2>1, <3>3, MeshTell
    <3> QED BY <2>1, <3>1, <3>2, <3>4
  <2>2. CASE Emit(n, f, Repeated(n, f)) /\ UNCHANGED <<client, issued>>
    BY <1>1, <1>2, <2>2, RepeatedTyped DEF RouterTyped
  <2> QED BY <1>3, <2>1, <2>2
<1>5. RoutesTyped'
  BY <1>2, <1>3 DEF RoutesTyped
<1>6. RouterTyped'
  BY <1>1, <1>2, <1>3, <1>4, <1>5, ReceiveTyped DEF RouterTyped, quietVars
<1>7. BeliefsTyped'
  BY <1>1, <1>3 DEF UserTyped, BeliefsTyped, gatewayVars
<1>8. HomesTyped' /\ BuffersTyped' /\ OutsideTyped'
  BY <1>3, HomesKept, BuffersKept, OutsideKept DEF UserTyped
<1> QED BY <1>6, <1>7, <1>8 DEF UserTyped

(* handlePubKeyResp keeps the types. *)
LEMMA PubKeyRespTyped ==
    ASSUME UserTyped, NEW n \in Node, NEW f \in PubKeyRespFrame, storePacketID(n, f),
           HandlePubKeyResp(n, f)
    PROVE  UserTyped'
<1> DEFINE u == f.ext.userID
           note == <<[type |-> "BLE_PUBKEY_RESP", user |-> u]>>
<1>1. /\ f \in MeshFrame
      /\ u \in User
      /\ f.originNodeID \in Node
  BY DEF MeshFrame, UserFrame, PubKeyRespFrame, FrameOf
<1>2. RouterTyped /\ RoutesTyped
  BY DEF UserTyped, RouterTyped
<1>3. /\ userKeys' = [userKeys EXCEPT ![n] = @ \cup {u}]
      /\ \/ Tell(n, note) /\ Emit(n, f, {})
         \/ Emit(n, f, Onward(n, f, routeTable[n], f.originNodeID)) /\ UNCHANGED client
      /\ UNCHANGED <<routeTable, ackBuffer, issued, quietVars, homeVars, discoveredNodes,
                     gut, bufferVars, gatewayVars, outsideVars>>
  BY DEF HandlePubKeyResp
<1>4. client' \in [Node -> Seq(Note)]
  <2>1. note \in Seq(Note)
    <3>1. [type |-> "BLE_PUBKEY_RESP", user |-> u] \in Note
      BY <1>1 DEF Note, Shown
    <3> QED BY <3>1
  <2> QED BY <1>2, <1>3, <2>1, MeshTell DEF RouterTyped
<1>5. \E out \in SUBSET MeshFrame : Emit(n, f, out)
  <2>1. Onward(n, f, routeTable[n], f.originNodeID) \in SUBSET MeshFrame
    BY <1>1, <1>2, OnwardTyped DEF RoutesTyped
  <2> QED BY <1>3, <2>1
<1>6. RoutesTyped'
  BY <1>2, <1>3 DEF RoutesTyped
<1>7. RouterTyped'
  BY <1>1, <1>2, <1>3, <1>4, <1>5, <1>6, ReceiveTyped DEF RouterTyped, quietVars
<1>8. BeliefsTyped'
  BY <1>1, <1>3 DEF UserTyped, BeliefsTyped, gatewayVars
<1>9. HomesTyped' /\ BuffersTyped' /\ OutsideTyped'
  BY <1>3, HomesKept, BuffersKept, OutsideKept DEF UserTyped
<1> QED BY <1>7, <1>8, <1>9 DEF UserTyped

(* An inbox that is emptied is within its bound. *)
LEMMA EmptiedInbox ==
    ASSUME HomesTyped, NEW n \in Node, NEW u \in User,
           inbox' = [inbox EXCEPT ![n][u] = <<>>]
    PROVE  /\ inbox' \in [Node -> [User -> Seq(Msg)]]
           /\ \A m \in Node, v \in User : Len(inbox'[m][v]) <= INBOX_MAX
<1>1. INBOX_MAX \in Nat
  BY UserAssumption
<1>2. inbox' = [inbox EXCEPT ![n] = [inbox[n] EXCEPT ![u] = <<>>]]
  BY DEF HomesTyped
<1>3. <<>> \in Seq(Msg) /\ Len(<<>>) = 0
  BY EmptySeq
<1> QED BY <1>1, <1>2, <1>3 DEF HomesTyped

(* UserSessionManager::remove keeps the types of what the nodes know of their *)
(* users.                                                                    *)
LEMMA RemoveTyped ==
    ASSUME HomesTyped, NEW n \in Node, NEW u \in User, remove(n, u)
    PROVE  HomesTyped'
<1>2. /\ users' = [users EXCEPT ![n] = users[n] \ {u}]
      /\ online' = [online EXCEPT ![n] = online[n] \ {u}]
      /\ diff' = [diff EXCEPT ![n] = [diff[n] EXCEPT !.added = @ \ {u}, !.removed = @ \cup {u}]]
  BY DEF remove, HomesTyped
<1>3. /\ users' \in [Node -> SUBSET User]
      /\ online' \in [Node -> SUBSET User]
      /\ \A m \in Node : online'[m] \subseteq users'[m]
  BY <1>2 DEF HomesTyped
<1>4. diff' \in [Node -> [added : SUBSET User, removed : SUBSET User]]
  <2>1. [diff[n] EXCEPT !.added = @ \ {u}, !.removed = @ \cup {u}]
            \in [added : SUBSET User, removed : SUBSET User]
    BY DEF HomesTyped
  <2> QED BY <1>2, <2>1 DEF HomesTyped
<1>5. /\ inbox' \in [Node -> [User -> Seq(Msg)]]
      /\ \A m \in Node, v \in User : Len(inbox'[m][v]) <= INBOX_MAX
  BY EmptiedInbox DEF remove
<1> QED BY <1>3, <1>4, <1>5 DEF HomesTyped

(* handleMoveUserReq keeps the types. *)
LEMMA MoveTyped ==
    ASSUME UserTyped, NEW n \in Node, NEW f \in MoveUserReqFrame, storePacketID(n, f),
           HandleMoveUserReq(n, f)
    PROVE  UserTyped'
<1> DEFINE u == f.ext.userID
           rt == updateRoute(routeTable[n], f.prevHopID, f.prevHopID, 1)
           g == [gut[n] EXCEPT ![u] = f.originNodeID]
           parked == inbox[n][u]
           box == [i \in DOMAIN parked |-> [parked[i] EXCEPT !.flags = InboxFlags(parked[i])]]
<1>1. /\ f \in MeshFrame
      /\ u \in User
      /\ f.ext.destNodeID \in Node
      /\ f.originNodeID \in Node
      /\ f.prevHopID \in Node
      /\ f.hopCount \in HopCount
  BY DEF MeshFrame, UserFrame, MoveUserReqFrame, FrameOf
<1>2. RouterTyped /\ RoutesTyped
  BY DEF UserTyped, RouterTyped
<1>3. rt \in Table
  BY <1>1, <1>2, LearnsTables
<1>4. g \in [User -> Node \cup {NoRoute}] /\ parked \in Seq(Msg)
  BY <1>1 DEF UserTyped, BeliefsTyped, HomesTyped
<1>5. box \in Seq(Msg)
  <2>1. \A i \in DOMAIN parked : parked[i] \in Msg
    BY <1>4, InSequence
  <2>2. \A m \in Msg : [m EXCEPT !.flags = InboxFlags(m)] \in Msg
    BY DEF InboxFlags, Msg, UserFlags
  <2>3. box \in [DOMAIN parked -> Msg]
    BY <2>1, <2>2
  <2> QED BY <1>4, <2>3, SameLength
<1>6. /\ Learn(n, rt)
      /\ gut' = [gut EXCEPT ![n] = g]
      /\ \/ /\ Emit(n, f, Resend(n, rt, g, box, 0))
            /\ Draw(n, Len(box))
            /\ remove(n, u)
            /\ userRouteBuffer' = [userRouteBuffer EXCEPT ![n] = WaitForRoute(@, rt, g, box)]
         \/ /\ Emit(n, f, Onward(n, f, rt, f.ext.destNodeID))
            /\ UNCHANGED <<issued, homeVars, userRouteBuffer>>
      /\ UNCHANGED <<ackBuffer, client, quietVars, discoveredNodes, userMsgBuffer,
                     moveReqBuffer, gatewayVars, userKeys, outsideVars>>
  BY DEF HandleMoveUserReq, Believe
<1> HIDE DEF rt, g, parked, box, u
<1>7. RoutesTyped'
  BY <1>2, <1>3, <1>6, LearnTyped
<1>8. \E out \in SUBSET MeshFrame : Emit(n, f, out) /\ issued' \in [Node -> 0..MaxPacketIDs]
  <2>1. CASE Emit(n, f, Resend(n, rt, g, box, 0)) /\ Draw(n, Len(box))
    <3>1. Len(box) \in Nat /\ 0 + Len(box) = Len(box)
      BY <1>5
    <3>2. /\ issued' \in [Node -> 0..MaxPacketIDs]
          /\ \A j \in 1..(0 + Len(box)) : NewID(n, j) \in PacketID
      BY <1>2, <2>1, <3>1, MeshDraw
    <3>3. Resend(n, rt, g, box, 0) \in SUBSET MeshFrame
      BY <1>3, <1>4, <1>5, <3>2, ResendTyped
    <3> QED BY <2>1, <3>2, <3>3
  <2>2. CASE Emit(n, f, Onward(n, f, rt, f.ext.destNodeID)) /\ UNCHANGED issued
    <3>1. Onward(n, f, rt, f.ext.destNodeID) \in SUBSET MeshFrame
      BY <1>1, <1>3, OnwardTyped
    <3> QED BY <1>2, <2>2, <3>1 DEF RouterTyped
  <2> QED BY <1>6, <2>1, <2>2
<1>9. RouterTyped'
  BY <1>1, <1>2, <1>6, <1>7, <1>8, ReceiveTyped DEF RouterTyped, quietVars
<1>10. BuffersTyped'
  <2>1. WaitForRoute(userRouteBuffer[n], rt, g, box) \in [Node -> Seq(Msg)]
    BY <1>5, WaitTyped DEF UserTyped, BuffersTyped
  <2> QED BY <1>6, <2>1 DEF UserTyped, BuffersTyped
<1>11. BeliefsTyped'
  BY <1>4, <1>6 DEF UserTyped, BeliefsTyped, gatewayVars
<1>12. HomesTyped'
  BY <1>1, <1>6, HomesKept, RemoveTyped DEF UserTyped
<1>13. OutsideTyped'
  BY <1>6, OutsideKept DEF UserTyped
<1> QED BY <1>9, <1>10, <1>11, <1>12, <1>13 DEF UserTyped

(* handleBroadcastInfo keeps the types. *)
LEMMA BroadcastTyped ==
    ASSUME UserTyped, NEW n \in Node, NEW f \in BroadcastInfoFrame, storePacketID(n, f),
           HandleBroadcastInfo(n, f)
    PROVE  UserTyped'
<1> DEFINE home == f.originNodeID
           near == updateRoute(routeTable[n], f.prevHopID, f.prevHopID, 1)
           rt == IF home = n THEN near
                 ELSE updateRoute(near, home, f.prevHopID, HopPlusOne(f.hopCount))
           g == [u \in User |-> CASE u \in f.ext.removed -> NoRoute
                                  [] u \in f.ext.added \ f.ext.removed -> home
                                  [] OTHER -> gut[n][u]]
<1>1. /\ f \in MeshFrame
      /\ home \in Node
      /\ f.prevHopID \in Node
      /\ f.hopCount \in HopCount
  BY DEF MeshFrame, UserFrame, BroadcastInfoFrame, FlaggedFrame
<1>2. RouterTyped /\ RoutesTyped
  BY DEF UserTyped, RouterTyped
<1>3. rt \in Table
  BY <1>1, <1>2, HopType, LearnsTables
<1>4. g \in [User -> Node \cup {NoRoute}]
  BY <1>1 DEF UserTyped, BeliefsTyped
<1>5. /\ Learn(n, rt)
      /\ NoteGateway(n, home, f.flags = "I_AM_GATEWAY")
      /\ discoveredNodes' = [discoveredNodes EXCEPT ![n] = @ \cup {f.prevHopID, home}]
      /\ gut' = [gut EXCEPT ![n] = g]
      /\ Emit(n, f, Repeated(n, f))
      /\ UNCHANGED <<ackBuffer, client, issued, quietVars, homeVars, bufferVars, userKeys,
                     outsideVars>>
  BY DEF HandleBroadcastInfo, Believe
<1> HIDE DEF rt, g
<1>6. RoutesTyped'
  BY <1>2, <1>3, <1>5, LearnTyped
<1>7. Repeated(n, f) \in SUBSET MeshFrame
  BY <1>1, RepeatedTyped
<1>8. RouterTyped'
  BY <1>1, <1>2, <1>5, <1>6, <1>7, ReceiveTyped DEF RouterTyped, quietVars
<1>9. /\ gateways' \in [Node -> SUBSET Node]
      /\ closestGw' \in [Node -> Node \cup {NoRoute}]
      /\ gatewayState' \in [Node -> BOOLEAN]
  <2> DEFINE gws == IF f.flags = "I_AM_GATEWAY" THEN gateways[n] \cup {home}
                    ELSE gateways[n] \ {home}
  <2>1. /\ gateways' = [gateways EXCEPT ![n] = gws]
        /\ \/ \E best \in Closest(routeTable[n], gws) :
                  closestGw' = [closestGw EXCEPT ![n] = best]
           \/ UNCHANGED closestGw
        /\ gatewayState' = [gatewayState EXCEPT ![n] = gws # {}]
    BY <1>5 DEF NoteGateway
  <2>2. gws \in SUBSET Node
    BY <1>1 DEF UserTyped, BeliefsTyped
  <2> HIDE DEF gws
  <2>3. Closest(routeTable[n], gws) \subseteq Node \cup {NoRoute}
    BY <2>2 DEF Closest
  <2> QED BY <2>1, <2>2, <2>3 DEF UserTyped, BeliefsTyped
<1>10. BeliefsTyped'
  BY <1>1, <1>4, <1>5, <1>9 DEF UserTyped, BeliefsTyped
<1>11. HomesTyped' /\ BuffersTyped' /\ OutsideTyped'
  BY <1>5, HomesKept, BuffersKept, OutsideKept DEF UserTyped
<1> QED BY <1>8, <1>10, <1>11 DEF UserTyped

(* What a route found sets free are frames. *)
LEMMA FlushTyped ==
    ASSUME RouterTyped, NEW n \in Node, NEW d \in Node, NEW m \in Node
    PROVE  flushDataQueue(n, d, m) \in SUBSET MeshFrame
<1>1. \A pid \in dataBuffer[n][d] : dataFrame(n, pid, m, d, "NONE") \in DATAFrame
  BY SendType DEF RouterTyped, Address, Flags
<1> QED BY <1>1 DEF flushDataQueue, MeshFrame, Frame

(* The moved users that waited for a route leave as frames. *)
LEMMA FlushMovesTyped ==
    ASSUME NEW n \in Node, NEW moved \in Seq(User), NEW d \in Node, NEW m \in Node,
           \A j \in 1..Len(moved) : NewID(n, j) \in PacketID
    PROVE  flushMoveReqBuffer(n, moved, d, m) \in SUBSET MeshFrame
<1>1. \A i \in DOMAIN moved : moved[i] \in User /\ NewID(n, i) \in PacketID
  BY InSequence
<1>2. \A i \in DOMAIN moved : moveUserReqFrame(n, NewID(n, i), m, moved[i], d) \in MeshFrame
  BY <1>1, UserSendType
<1> QED BY <1>2 DEF flushMoveReqBuffer

(* handleRREP keeps the types. *)
LEMMA RREPTyped ==
    ASSUME UserTyped, NEW n \in Node, NEW f \in RREPFrame, storePacketID(n, f),
           FlushRREP(n, f)
    PROVE  UserTyped'
<1> DEFINE target == f.ext.RREPDestNodeID
           rt == LearnFromRREP(n, f)
           nextHop == rt[target].nextHop
           moved == moveReqBuffer[n][target]
           pending == userRouteBuffer[n][target]
           back == rt[f.originNodeID]
           onward == IF n = f.originNodeID \/ back = NoRoute THEN {}
                     ELSE {[Forwarded(n, f, back.nextHop) EXCEPT
                              !.ext.numHops = HopPlusOne(@)]}
           out == UNION {flushDataQueue(n, target, nextHop),
                         flushMoveReqBuffer(n, moved, target, nextHop),
                         Resend(n, rt, gut[n], pending, Len(moved)),
                         onward}
<1>1. /\ f \in MeshFrame
      /\ target \in Node
      /\ f.originNodeID \in Node
      /\ f.prevHopID \in Node
      /\ f.ext.numHops \in HopCount
  BY DEF MeshFrame, Frame, RREPFrame, FrameOf
<1>2. RouterTyped /\ RoutesTyped
  BY DEF UserTyped, RouterTyped
<1>3. rt \in Table /\ rt[target] # NoRoute
  <2>1. routeTable[n] \in Table
    BY <1>2 DEF RoutesTyped
  <2>2. HopPlusOne(f.ext.numHops) \in HopCount
    BY <1>1, HopType
  <2> QED BY <1>1, <2>1, <2>2, LearnsBoth DEF LearnFromRREP
<1>4. /\ Learn(n, rt)
      /\ dataBuffer' = [dataBuffer EXCEPT ![n][target] = {}]
      /\ moveReqBuffer' = [moveReqBuffer EXCEPT ![n][target] = <<>>]
      /\ userMsgBuffer' = [userMsgBuffer EXCEPT ![n] = WaitForHome(@, gut[n], pending)]
      /\ userRouteBuffer' = [userRouteBuffer EXCEPT ![n] =
             WaitForRoute([@ EXCEPT ![target] = <<>>], rt, gut[n], pending)]
      /\ Draw(n, Len(moved) + Len(pending))
      /\ Emit(n, f, out)
      /\ UNCHANGED <<ackBuffer, expired, sender, client, sent, restarts, homeVars,
                     discoveredNodes, gut, gatewayVars, userKeys, outsideVars>>
  BY DEF FlushRREP
<1>5. onward \in SUBSET MeshFrame
  <2> SUFFICES ASSUME back # NoRoute
               PROVE  [Forwarded(n, f, back.nextHop) EXCEPT !.ext.numHops = HopPlusOne(@)]
                          \in MeshFrame
    OBVIOUS
  <2>1. back.nextHop \in Address
    <3> HIDE DEF rt
    <3> QED BY <1>1, <1>3, RouteType DEF Address
  <2>2. Forwarded(n, f, back.nextHop).ext = f.ext
    BY <1>1, MeshForwarded
  <2>3. HopPlusOne(f.ext.numHops) \in HopCount
    BY <1>1, HopType
  <2>4. [Forwarded(n, f, back.nextHop) EXCEPT !.ext.numHops = HopPlusOne(f.ext.numHops)]
            \in RREPFrame
    BY <2>1, <2>3, ReplyForwarded
  <2>5. [Forwarded(n, f, back.nextHop) EXCEPT !.ext.numHops = HopPlusOne(@)]
          = [Forwarded(n, f, back.nextHop) EXCEPT !.ext.numHops = HopPlusOne(f.ext.numHops)]
    BY <2>2
  <2> QED BY <2>4, <2>5 DEF MeshFrame, Frame
<1>6. moved \in Seq(User) /\ pending \in Seq(Msg) /\ gut[n] \in [User -> Node \cup {NoRoute}]
  BY <1>1 DEF UserTyped, BuffersTyped, BeliefsTyped
<1> HIDE DEF moved, pending, onward
<1>7. /\ issued' \in [Node -> 0..MaxPacketIDs]
      /\ \A j \in 1..(Len(moved) + Len(pending)) : NewID(n, j) \in PacketID
  <2>1. Len(moved) + Len(pending) \in Nat
    BY <1>6
  <2> QED BY <1>2, <1>4, <2>1, MeshDraw
<1>8. out \in SUBSET MeshFrame
  <2> HIDE DEF rt, target
  <2>1. nextHop \in Node
    BY <1>1, <1>3, RouteType
  <2> HIDE DEF nextHop
  <2>2. flushDataQueue(n, target, nextHop) \in SUBSET MeshFrame
    BY <1>1, <1>2, <2>1, FlushTyped
  <2>3. flushMoveReqBuffer(n, moved, target, nextHop) \in SUBSET MeshFrame
    <3>1. \A j \in 1..Len(moved) : NewID(n, j) \in PacketID
      <4>1. Len(moved) \in Nat /\ Len(pending) \in Nat
        BY <1>6
      <4> QED BY <1>7, <4>1
    <3> QED BY <1>1, <1>6, <2>1, <3>1, FlushMovesTyped
  <2>4. Resend(n, rt, gut[n], pending, Len(moved)) \in SUBSET MeshFrame
    <3>1. Len(moved) \in Nat
      BY <1>6
    <3> QED BY <1>3, <1>6, <1>7, <3>1, ResendTyped
  <2> QED BY <1>5, <2>2, <2>3, <2>4
<1> HIDE DEF out, nextHop, rt, target
<1>9. RoutesTyped'
  BY <1>2, <1>3, <1>4, LearnTyped
<1>10. dataBuffer' \in [Node -> [Node -> SUBSET PacketID]]
  BY <1>1, <1>2, <1>4 DEF RouterTyped
<1>11. RouterTyped'
  BY <1>1, <1>2, <1>4, <1>7, <1>8, <1>9, <1>10, ReceiveTyped DEF RouterTyped
<1>12. BuffersTyped'
  <2>1. WaitForHome(userMsgBuffer[n], gut[n], pending) \in [User -> Seq(Msg)]
    BY <1>6, WaitTyped DEF UserTyped, BuffersTyped
  <2>2. <<>> \in Seq(Msg) /\ <<>> \in Seq(User)
    BY EmptySeq
  <2>3. [userRouteBuffer[n] EXCEPT ![target] = <<>>] \in [Node -> Seq(Msg)]
    BY <2>2 DEF UserTyped, BuffersTyped
  <2>4. WaitForRoute([userRouteBuffer[n] EXCEPT ![target] = <<>>], rt, gut[n], pending)
            \in [Node -> Seq(Msg)]
    BY <1>6, <2>3, WaitTyped
  <2>5. moveReqBuffer' \in [Node -> [Node -> Seq(User)]]
    BY <1>4, <2>2 DEF UserTyped, BuffersTyped
  <2> QED BY <1>4, <2>1, <2>4, <2>5 DEF UserTyped, BuffersTyped
<1>13. HomesTyped' /\ OutsideTyped'
  BY <1>4, HomesKept, OutsideKept DEF UserTyped
<1>14. BeliefsTyped'
  BY <1>4, BeliefsKept DEF UserTyped
<1> QED BY <1>11, <1>12, <1>13, <1>14 DEF UserTyped

-----------------------------------------------------------------------------
(* So do the tasks of the node plane, which now carry user messages, too. *)

(* handleRREQ keeps the types. *)
LEMMA RREQTyped ==
    ASSUME RouterTyped, NEW n \in Node, NEW f \in RREQFrame, storePacketID(n, f),
           HandleRREQ(n, f)
    PROVE  RouterTyped'
<1> DEFINE target == f.ext.RREQDestNodeID
           rt == LearnRoutes(routeTable[n], f.originNodeID, f.prevHopID,
                             HopPlusOne(f.hopCount))
           reply(hops) == sendRREP(n, NewID(n, 1), f.originNodeID, target, f.prevHopID, hops)
<1>1. /\ f \in MeshFrame
      /\ target \in Node
      /\ f.originNodeID \in Node
      /\ f.prevHopID \in Node
      /\ f.hopCount \in HopCount
      /\ RoutesTyped
  BY DEF MeshFrame, Frame, RREQFrame, FrameOf, RouterTyped
<1>2. rt \in Table
  BY <1>1, HopType, LearnsTables
<1>3. RoutesTyped'
  BY <1>1, <1>2, LearnTyped DEF HandleRREQ, Learn
<1>4. \E out \in SUBSET MeshFrame : Emit(n, f, out) /\ issued' \in [Node -> 0..MaxPacketIDs]
  <2>1. CASE Draw(n, 1) /\ \E h \in HopCount : Emit(n, f, {reply(h)})
    <3>1. PICK h \in HopCount : Emit(n, f, {reply(h)})
      BY <2>1
    <3>2. NewID(n, 1) \in PacketID /\ issued' \in [Node -> 0..MaxPacketIDs]
      BY <2>1, MeshDraw
    <3>3. reply(h) \in MeshFrame
      BY <1>1, <3>2, SendType DEF MeshFrame, Frame
    <3> QED BY <3>1, <3>2, <3>3
  <2>2. CASE UNCHANGED issued /\ Emit(n, f, {Forwarded(n, f, BROADCAST_ADDR)})
    <3>1. Forwarded(n, f, BROADCAST_ADDR) \in MeshFrame
      BY <1>1, MeshForwarded DEF Address
    <3> QED BY <2>2, <3>1 DEF RouterTyped
  <2>3. 0 \in HopCount /\ (rt[target] # NoRoute => rt[target].hopcount \in HopCount)
    <3>1. 0 \in HopCount
      BY DEF HopCount
    <3> HIDE DEF rt, target
    <3> QED BY <1>1, <1>2, <3>1, RouteType
  <2> QED BY <2>1, <2>2, <2>3 DEF HandleRREQ
<1> QED BY <1>1, <1>3, <1>4, ReceiveTyped DEF HandleRREQ, RouterTyped

(* handleRERR keeps the types. *)
LEMMA RERRTyped ==
    ASSUME RouterTyped, NEW n \in Node, NEW f \in RERRFrame, storePacketID(n, f),
           HandleRERR(n, f)
    PROVE  RouterTyped'
<1> DEFINE e == f.ext
           rt == IF e.brokenNodeID # e.reporterNodeID
                 THEN invalidateRoute(routeTable[n], e.brokenNodeID, e.originalDestNodeID)
                 ELSE removeItemRoutingTable(routeTable[n], e.originalDestNodeID)
           back == rt[f.originNodeID]
<1>1. f \in MeshFrame /\ f.originNodeID \in Node /\ RoutesTyped
  BY DEF MeshFrame, Frame, RERRFrame, FrameOf, RouterTyped
<1>2. rt \in Table
  <2>1. routeTable[n] \in Table
    BY <1>1 DEF RoutesTyped
  <2> QED BY <2>1 DEF invalidateRoute, removeItemRoutingTable, Table
<1>3. RoutesTyped'
  BY <1>1, <1>2, LearnTyped DEF HandleRERR, Learn
<1>4. \E out \in SUBSET MeshFrame : Emit(n, f, out)
  <2>1. Emit(n, f, {}) \/ (back # NoRoute /\ Emit(n, f, {Forwarded(n, f, back.nextHop)}))
    BY DEF HandleRERR
  <2>2. back # NoRoute => back.nextHop \in Address
    <3> HIDE DEF rt
    <3> QED BY <1>1, <1>2, RouteType DEF Address
  <2> QED BY <1>1, <2>1, <2>2, MeshForwarded
<1> QED BY <1>1, <1>3, <1>4, ReceiveTyped DEF HandleRERR, RouterTyped

(* What a node draws for acknowledging a data packet. *)
LEMMA AckTyped ==
    ASSUME RouterTyped, NEW n \in Node, NEW f \in DATAFrame, NEW j \in {0, 1},
           Draw(n, AcksDrawn(f) + j)
    PROVE  /\ issued' \in [Node -> 0..MaxPacketIDs]
           /\ AckOf(n, f) \in SUBSET MeshFrame
           /\ j = 1 => NewID(n, AcksDrawn(f) + 1) \in PacketID
<1>1. f.packetID \in PacketID /\ f.prevHopID \in Node
  BY DEF DATAFrame, FrameOf
<1>2. AcksDrawn(f) \in {0, 1} /\ (WantsAck(f) => AcksDrawn(f) = 1)
  BY DEF AcksDrawn
<1>3. AcksDrawn(f) + j \in Nat
  BY <1>2
<1>4. /\ issued' \in [Node -> 0..MaxPacketIDs]
      /\ \A i \in 1..(AcksDrawn(f) + j) : NewID(n, i) \in PacketID
  BY <1>3, MeshDraw
<1>5. AckOf(n, f) \in SUBSET MeshFrame
  <2>1. CASE WantsAck(f)
    <3>1. 1 \in 1..(AcksDrawn(f) + j)
      BY <1>2, <2>1
    <3>2. sendACK(n, NewID(n, 1), f.prevHopID, f.packetID) \in MeshFrame
      BY <1>1, <1>4, <3>1, SendType DEF MeshFrame, Frame
    <3> QED BY <2>1, <3>2 DEF AckOf
  <2>2. CASE ~WantsAck(f)
    BY <2>2 DEF AckOf
  <2> QED BY <2>1, <2>2
<1>6. j = 1 => AcksDrawn(f) + 1 \in 1..(AcksDrawn(f) + j)
  BY <1>2
<1> QED BY <1>4, <1>5, <1>6

(* handleData keeps the types. *)
LEMMA DATATyped ==
    ASSUME RouterTyped, NEW n \in Node, NEW f \in DATAFrame, storePacketID(n, f),
           HandleData(n, f)
    PROVE  RouterTyped'
<1> DEFINE dest == f.ext.finalDestID
<1>1. /\ f \in MeshFrame
      /\ f.packetID \in PacketID
      /\ f.originNodeID \in Node
      /\ dest \in Address
      /\ RoutesTyped
  BY DEF MeshFrame, Frame, DATAFrame, FrameOf, RouterTyped
<1>2. UNCHANGED <<routeTable, dataBuffer, expired, sender, restarts>>
  BY DEF HandleData, DeliverData, RelayBroadcast, ForwardData, RejectData
<1>3. RoutesTyped' /\ AcksDrawn(f) + 0 = AcksDrawn(f)
  BY <1>1, <1>2 DEF RoutesTyped, AcksDrawn
<1>4. ASSUME NEW out \in SUBSET MeshFrame, Emit(n, f, out),
             ackBuffer' \in [Node -> SUBSET KeptEntry],
             issued' \in [Node -> 0..MaxPacketIDs],
             client' \in [Node -> Seq(Note)]
      PROVE  RouterTyped'
  BY <1>1, <1>2, <1>3, <1>4, ReceiveTyped DEF RouterTyped
<1>5. ackBuffer \in [Node -> SUBSET KeptEntry] /\ client \in [Node -> Seq(Note)]
  BY DEF RouterTyped
<1>6. CASE DeliverData(n, f)
  <2>1. AckOf(n, f) \in SUBSET MeshFrame /\ issued' \in [Node -> 0..MaxPacketIDs]
    BY <1>3, <1>6, AckTyped DEF DeliverData
  <2>2. client' \in [Node -> Seq(Note)]
    BY <1>1, <1>6, MeshNotify DEF DeliverData
  <2> QED BY <1>4, <1>5, <1>6, <2>1, <2>2 DEF DeliverData
<1>7. CASE RelayBroadcast(n, f)
  <2>1. AckOf(n, f) \in SUBSET MeshFrame /\ issued' \in [Node -> 0..MaxPacketIDs]
    BY <1>3, <1>7, AckTyped DEF RelayBroadcast
  <2>2. Forwarded(n, f, BROADCAST_ADDR) \in MeshFrame
    BY <1>1, MeshForwarded DEF Address
  <2>3. client' \in [Node -> Seq(Note)]
    BY <1>1, <1>7, MeshNotify DEF RelayBroadcast
  <2> QED BY <1>4, <1>5, <1>7, <2>1, <2>2, <2>3 DEF RelayBroadcast
<1>8. CASE ForwardData(n, f)
  <2> DEFINE onward == Forwarded(n, f, routeTable[n][dest].nextHop)
  <2>1. /\ dest # BROADCAST_ADDR
        /\ routeTable[n][dest] # NoRoute
        /\ Draw(n, AcksDrawn(f))
        /\ Emit(n, f, AckOf(n, f) \cup {onward}) \/ Emit(n, f, AckOf(n, f))
        /\ UNCHANGED ackBuffer \/ StoreIfRouted(n, onward)
        /\ UNCHANGED client
    BY <1>8 DEF ForwardData
  <2>2. AckOf(n, f) \in SUBSET MeshFrame /\ issued' \in [Node -> 0..MaxPacketIDs]
    BY <1>3, <2>1, AckTyped
  <2>3. onward \in DATAFrame
    <3>1. routeTable[n] \in Table /\ dest \in Node
      BY <1>1, <2>1 DEF RoutesTyped, Address
    <3>2. routeTable[n][dest].nextHop \in Address
      BY <2>1, <3>1, RouteType DEF Address
    <3> QED BY <3>2, ForwardedType DEF DATAFrame
  <2>4. onward \in MeshFrame /\ onward \in KeptFrame
    BY <2>3 DEF MeshFrame, Frame, KeptFrame
  <2> HIDE DEF onward
  <2>5. ackBuffer' \in [Node -> SUBSET KeptEntry]
    BY <1>5, <2>1, <2>4, MeshStore
  <2>6. \E out \in SUBSET MeshFrame : Emit(n, f, out)
    BY <2>1, <2>2, <2>4
  <2> QED BY <1>4, <1>5, <2>1, <2>2, <2>5, <2>6
<1>9. CASE RejectData(n, f)
  <2> DEFINE rerr == sendRERR(n, NewID(n, AcksDrawn(f) + 1), n, f.originNodeID, dest,
                              f.packetID)
  <2>1. /\ dest # BROADCAST_ADDR
        /\ Draw(n, AcksDrawn(f) + 1)
        /\ Emit(n, f, AckOf(n, f) \cup {rerr})
        /\ UNCHANGED <<ackBuffer, client>>
    BY <1>9 DEF RejectData
  <2>2. /\ AckOf(n, f) \in SUBSET MeshFrame
        /\ issued' \in [Node -> 0..MaxPacketIDs]
        /\ NewID(n, AcksDrawn(f) + 1) \in PacketID
    BY <2>1, AckTyped
  <2>3. rerr \in MeshFrame
    <3>1. dest \in Node
      BY <1>1, <2>1 DEF Address
    <3> QED BY <1>1, <2>2, <3>1, SendType DEF MeshFrame, Frame
  <2> HIDE DEF rerr
  <2> QED BY <1>4, <1>5, <2>1, <2>2, <2>3
<1> QED BY <1>6, <1>7, <1>8, <1>9 DEF HandleData

(* handleACK keeps the types. *)
LEMMA ACKTyped ==
    ASSUME RouterTyped, NEW n \in Node, NEW f \in ACKFrame, storePacketID(n, f),
           HandleACK(n, f)
    PROVE  RouterTyped'
<1>1. f.ext.originalPacketID \in PacketID /\ f \in MeshFrame /\ RoutesTyped
  BY DEF MeshFrame, Frame, ACKFrame, FrameOf, RouterTyped
<1>2. RoutesTyped'
  BY <1>1 DEF HandleACK, RoutesTyped
<1>3. client' \in [Node -> Seq(Note)]
  BY <1>1, MeshNotify DEF HandleACK, RouterTyped
<1>4. ackBuffer' \in [Node -> SUBSET KeptEntry]
  BY DEF HandleACK, RouterTyped
<1>5. {} \in SUBSET MeshFrame
  OBVIOUS
<1> QED BY <1>1, <1>2, <1>3, <1>4, <1>5, ReceiveTyped DEF HandleACK, RouterTyped

(* A node that reboots leaves nothing untyped. *)
LEMMA RebootTyped ==
    ASSUME UserTyped, NEW n \in Node, LoseState(n), LoseUserState(n), air' \subseteq air,
           UNCHANGED issued, restarts' \in Nat, UNCHANGED todo \/ todo' \in Seq(Seq(Call))
    PROVE  UserTyped'
<1>1. <<>> \in Seq(Msg) /\ <<>> \in Seq(User) /\ <<>> \in Seq(Note) /\ Len(<<>>) = 0
  BY EmptySeq
<1>2. [d \in Node |-> NoRoute] \in Table /\ Idle \in MeshSending
  BY DEF Table, MeshSending
<1>3. RouterTyped'
  BY <1>1, <1>2 DEF UserTyped, RouterTyped, RoutesTyped, LoseState
<1>4. HomesTyped'
  <2>1. /\ users' \in [Node -> SUBSET User]
        /\ online' \in [Node -> SUBSET User]
        /\ \A m \in Node : online'[m] \subseteq users'[m]
        /\ diff' \in [Node -> [added : SUBSET User, removed : SUBSET User]]
    BY DEF UserTyped, HomesTyped, LoseUserState
  <2>2. INBOX_MAX \in Nat
    BY UserAssumption
  <2>3. inbox' = [inbox EXCEPT ![n] = [u \in User |-> <<>>]]
    BY DEF LoseUserState
  <2>4. /\ inbox' \in [Node -> [User -> Seq(Msg)]]
        /\ \A m \in Node, u \in User : Len(inbox'[m][u]) <= INBOX_MAX
    BY <1>1, <2>2, <2>3 DEF UserTyped, HomesTyped
  <2> QED BY <2>1, <2>4 DEF HomesTyped
<1>5. BuffersTyped'
  BY <1>1 DEF UserTyped, BuffersTyped, LoseUserState
<1>6. BeliefsTyped'
  BY DEF UserTyped, BeliefsTyped, LoseUserState
<1>7. OutsideTyped'
  BY DEF UserTyped, OutsideTyped, LoseUserState
<1> QED BY <1>3, <1>4, <1>5, <1>6, <1>7 DEF UserTyped

(* handlePacket keeps the types. *)
LEMMA PacketTyped ==
    ASSUME UserTyped, NEW n \in Node, NEW f \in MeshFrame, UserHandlePacket(n, f)
    PROVE  UserTyped'
<1>1. RouterTyped /\ RoutesTyped
  BY DEF UserTyped, RouterTyped
<1>2. ASSUME \/ tryImplicitAck(n, f)
             \/ DropDuplicate(n, f)
             \/ Overhear(n, f)
      PROVE  RouterTyped'
  <2>1. CASE tryImplicitAck(n, f)
    BY <1>1, <2>1 DEF tryImplicitAck, RouterTyped, RoutesTyped
  <2>2. CASE DropDuplicate(n, f)
    BY <1>1, <2>2 DEF DropDuplicate, RouterTyped, RoutesTyped
  <2>3. CASE Overhear(n, f)
    <3>1. receivedPacketIDs' \in [Node -> SUBSET PacketID]
      BY <1>1, <2>3, MeshFields DEF RouterTyped, Overhear, FirstSight, storePacketID
    <3> QED BY <1>1, <2>3, <3>1 DEF Overhear, RouterTyped, RoutesTyped
  <2> QED BY <1>2, <2>1, <2>2, <2>3
<1>3. ASSUME f.packetType # "RREP", HandleFrame(n, f)
      PROVE  RouterTyped'
  <2>1. storePacketID(n, f)
    BY <1>3 DEF HandleFrame, FirstSight
  <2> QED
    BY <1>1, <1>3, <2>1, MeshKinds, RREQTyped, RERRTyped, DATATyped, ACKTyped DEF HandleFrame
<1>4. ASSUME FirstSight(n, f), UserHandler(n, f)
      PROVE  UserTyped'
  <2>1. storePacketID(n, f)
    BY <1>4 DEF FirstSight
  <2> QED
    BY <1>4, <2>1, MeshKinds, UREQTyped, UREPTyped, UERRTyped, UserMessageTyped,
       PubKeyReqTyped, PubKeyRespTyped, MoveTyped, BroadcastTyped, RREPTyped
    DEF UserHandler
<1>5. ASSUME CrashOnRERR(n, f), LoseUserState(n), UNCHANGED todo
      PROVE  UserTyped'
  <2>1. LoseState(n) /\ air' \subseteq air /\ UNCHANGED <<issued, restarts>>
    BY <1>5 DEF CrashOnRERR
  <2>2. restarts' \in Nat
    BY <1>1, <2>1 DEF RouterTyped
  <2> QED BY <1>5, <2>1, <2>2, RebootTyped
<1> QED BY <1>2, <1>3, <1>4, <1>5, UserKept DEF UserHandlePacket

(* The application task inside sendData keeps the types. *)
LEMMA ApplicationTyped ==
    ASSUME RouterTyped, NEW n \in Node, ApplicationTask(n)
    PROVE  RouterTyped'
<1>0. /\ Node \subseteq Address
      /\ BROADCAST_ADDR \in Address
      /\ Idle \in MeshSending
      /\ sender[n] \in MeshSending
      /\ Idle.step = "idle"
  BY DEF Address, MeshSending, RouterTyped, Idle
<1>1. ASSUME NEW r \in Requests, sendData(n, r)
      PROVE  RouterTyped'
  <2> DEFINE pid == NewID(n, 1)
             route == routeTable[n][r.to]
  <2>1. r.to \in Address /\ r.flags \in Flags
    BY RequestsAssumption
  <2>2. pid \in PacketID /\ issued' \in [Node -> 0..MaxPacketIDs]
    BY <1>1, MeshDraw DEF sendData
  <2>3. CASE r.to = BROADCAST_ADDR
    <3>1. dataFrame(n, pid, BROADCAST_ADDR, r.to, r.flags) \in MeshFrame
      BY <1>0, <2>1, <2>2, SendType DEF MeshFrame, Frame
    <3>2. air' \in SUBSET (Node \X MeshFrame) /\ sender' = sender
      BY <1>1, <2>3, <3>1, MeshAir DEF sendData
    <3> QED BY <1>1, <2>2, <3>2 DEF RouterTyped, RoutesTyped, sendData
  <2>4. CASE r.to # BROADCAST_ADDR
    <3> DEFINE s == IF route = NoRoute
                    THEN [step |-> "buffer", packetID |-> pid, dest |-> r.to]
                    ELSE [step |-> "transmit",
                          frame |-> dataFrame(n, pid, route.nextHop, r.to, r.flags)]
    <3>1. r.to \in Node /\ routeTable[n] \in Table
      BY <2>1, <2>4 DEF Address, RouterTyped, RoutesTyped
    <3>2. ASSUME route # NoRoute
          PROVE  [step |-> "transmit",
                  frame |-> dataFrame(n, pid, route.nextHop, r.to, r.flags)] \in MeshSending
      <4>1. route.nextHop \in Address
        BY <1>0, <3>1, <3>2, RouteType
      <4>2. dataFrame(n, pid, route.nextHop, r.to, r.flags) \in KeptFrame
        BY <2>1, <2>2, <4>1, SendType DEF KeptFrame
      <4> QED BY <4>2 DEF MeshSending
    <3>3. s \in MeshSending
      BY <2>2, <3>1, <3>2 DEF MeshSending
    <3>4. sender' = [sender EXCEPT ![n] = s] /\ air' = air
      BY <1>1, <2>4 DEF sendData
    <3> HIDE DEF s
    <3>5. sender' \in [Node -> MeshSending]
      BY <3>3, <3>4 DEF RouterTyped
    <3> QED BY <1>1, <2>2, <3>4, <3>5 DEF RouterTyped, RoutesTyped, sendData
  <2> QED BY <2>3, <2>4
<1>2. CASE SendDataBuffer(n)
  <2>1. sender[n].packetID \in PacketID /\ sender[n].dest \in Node
    BY <1>0, <1>2 DEF SendDataBuffer, MeshSending
  <2>2. NewID(n, 1) \in PacketID /\ issued' \in [Node -> 0..MaxPacketIDs]
    BY <1>2, MeshDraw DEF SendDataBuffer
  <2>3. sendRREQ(n, NewID(n, 1), sender[n].dest) \in MeshFrame
    BY <2>1, <2>2, SendType DEF MeshFrame, Frame
  <2>4. air' \in SUBSET (Node \X MeshFrame)
    BY <1>2, <2>3, MeshAir DEF SendDataBuffer
  <2>5. dataBuffer' \in [Node -> [Node -> SUBSET PacketID]]
    BY <1>2, <2>1 DEF SendDataBuffer, RouterTyped
  <2> QED BY <1>0, <1>2, <2>2, <2>4, <2>5 DEF RouterTyped, RoutesTyped, SendDataBuffer
<1>3. ASSUME sender[n].step \in {"transmit", "store"}
      PROVE  /\ sender[n].frame \in KeptFrame
             /\ [sender[n] EXCEPT !.step = "store"] \in MeshSending
  BY <1>0, <1>3 DEF MeshSending
<1>4. CASE SendDataTransmit(n)
  <2>1. sender[n].frame \in MeshFrame
    BY <1>3, <1>4 DEF SendDataTransmit, KeptFrame, MeshFrame, Frame, UserFrame
  <2>2. air' \in SUBSET (Node \X MeshFrame)
    BY <1>4, <2>1, MeshAir DEF SendDataTransmit
  <2>3. sender' \in [Node -> MeshSending]
    BY <1>0, <1>3, <1>4 DEF SendDataTransmit, RouterTyped
  <2> QED BY <1>4, <2>2, <2>3 DEF RouterTyped, RoutesTyped, SendDataTransmit
<1>5. CASE SendDataDrop(n)
  BY <1>0, <1>5 DEF RouterTyped, RoutesTyped, SendDataDrop
<1>6. CASE SendDataStore(n)
  <2>1. ackBuffer' \in [Node -> SUBSET KeptEntry]
    BY <1>3, <1>6, MeshStore DEF SendDataStore
  <2> QED BY <1>0, <1>6, <2>1 DEF RouterTyped, RoutesTyped, SendDataStore
<1> QED BY <1>1, <1>2, <1>4, <1>5, <1>6 DEF ApplicationTask

(* cleanupAckBuffer keeps the types. *)
LEMMA TimerTyped ==
    ASSUME RouterTyped, NEW n \in Node, TimerWorker(n)
    PROVE  RouterTyped'
<1>1. \A e \in KeptEntry : /\ e.frame \in MeshFrame
                           /\ e.frame.originNodeID \in Node
                           /\ e.frame.packetID \in PacketID
                           /\ e.attempts \in 0..MAX_RETRANS
  <2>1. \A g \in KeptFrame : g \in MeshFrame
    BY DEF KeptFrame, MeshFrame, Frame, UserFrame
  <2> QED BY <2>1, MeshFields DEF KeptEntry
<1>2. CASE CleanupAckBuffer(n)
  <2>1. PICK due \in SUBSET ackBuffer[n] :
            LET retry == {e \in due : MayRetry(e)}
            IN /\ ackBuffer' = [ackBuffer EXCEPT ![n] =
                      (@ \ due) \cup {Retried(e) : e \in retry}]
               /\ expired' = [expired EXCEPT ![n] = due \ retry]
               /\ air' = air \cup OnAir(n, {e.frame : e \in retry})
    BY <1>2 DEF CleanupAckBuffer
  <2>2. due \subseteq KeptEntry
    BY DEF RouterTyped
  <2>3. \A e \in KeptEntry : MayRetry(e) => Retried(e) \in KeptEntry
    <3> SUFFICES ASSUME NEW e \in KeptEntry, MayRetry(e)
                 PROVE  Retried(e) \in KeptEntry
      OBVIOUS
    <3>1. e.attempts \in 0..MAX_RETRANS /\ e.attempts < MAX_RETRANS
      BY <1>1 DEF MayRetry
    <3>2. e.attempts + 1 \in 0..MAX_RETRANS
      BY <3>1, BoundsAssumption
    <3> QED BY <3>2 DEF KeptEntry, Retried
  <2>4. /\ ackBuffer' \in [Node -> SUBSET KeptEntry]
        /\ expired' \in [Node -> SUBSET KeptEntry]
    BY <2>1, <2>2, <2>3 DEF RouterTyped
  <2>5. {e.frame : e \in {d \in due : MayRetry(d)}} \in SUBSET MeshFrame
    BY <1>1, <2>2
  <2>6. air' \in SUBSET (Node \X MeshFrame)
    BY <2>1, <2>5, MeshAir
  <2> QED BY <1>2, <2>4, <2>6 DEF RouterTyped, RoutesTyped, CleanupAckBuffer
<1>3. CASE ReportExpired(n)
  <2>1. PICK e \in expired[n] :
            /\ expired' = [expired EXCEPT ![n] = @ \ {e}]
            /\ air' = air \cup OnAir(n, {sendRERR(n, NewID(n, 1), n, e.frame.originNodeID,
                                                 Undecipherable, e.frame.packetID)})
            /\ Draw(n, 1)
            /\ Notify(n, "BLE_ACK_FAILURE", e.frame.packetID)
    BY <1>3 DEF ReportExpired
  <2>2. e.frame.originNodeID \in Node /\ e.frame.packetID \in PacketID
    BY <1>1 DEF RouterTyped
  <2>3. NewID(n, 1) \in PacketID /\ issued' \in [Node -> 0..MaxPacketIDs]
    BY <2>1, MeshDraw
  <2>4. sendRERR(n, NewID(n, 1), n, e.frame.originNodeID, Undecipherable,
                 e.frame.packetID) \in MeshFrame
    BY <2>2, <2>3, SendType DEF MeshFrame, Frame
  <2>5. air' \in SUBSET (Node \X MeshFrame)
    BY <2>1, <2>4, MeshAir
  <2>6. client' \in [Node -> Seq(Note)]
    BY <2>1, <2>2, MeshNotify
  <2>7. expired' \in [Node -> SUBSET KeptEntry]
    BY <2>1 DEF RouterTyped
  <2> QED BY <1>3, <2>3, <2>5, <2>6, <2>7 DEF RouterTyped, RoutesTyped, ReportExpired
<1> QED BY <1>2, <1>3 DEF TimerWorker

-----------------------------------------------------------------------------
(* What comes from outside, and sendUserMessage, keep the types. *)

(* All but what is left of the scripts. *)
CallTyped ==
    /\ RouterTyped
    /\ HomesTyped
    /\ BuffersTyped
    /\ BeliefsTyped
    /\ gwOnline \in SUBSET Node
    /\ messages \in SUBSET Msg
    /\ uplinked \in SUBSET PacketID

(* The application task takes a message. *)
LEMMA MessageTyped ==
    ASSUME UserTyped, NEW n \in Node, NEW c \in Call, MessageCall(n, c)
    PROVE  CallTyped'
<1> DEFINE m == Accepted(n, c)
<1>1. RouterTyped /\ c.call = "message"
  BY DEF UserTyped, MessageCall
<1>2. issued' \in [Node -> 0..MaxPacketIDs] /\ NewID(n, 1) \in PacketID
  BY <1>1, MeshDraw DEF MessageCall
<1>3. m \in Msg /\ m.packetID \in PacketID
  BY <1>1, <1>2 DEF Call, Accepted, Msg
<1>4. /\ messages' = messages \cup {m}
      /\ uplinked' = uplinked \cup {m.packetID} \/ UNCHANGED uplinked
      /\ \/ UNCHANGED sender
         \/ Start(n, [step |-> "home", msg |-> m])
         \/ Start(n, [step |-> "anyGateway", msg |-> m])
      /\ UNCHANGED <<routeTable, receivedPacketIDs, dataBuffer, ackBuffer, expired, air,
                     client, sent, restarts, homeVars, discoveredNodes, gut, bufferVars,
                     gatewayVars, userKeys, gwOnline>>
  BY DEF MessageCall
<1> HIDE DEF m
<1>5. sender' \in [Node -> MeshSending]
  <2>1. \A s \in {"home", "anyGateway"} : [step |-> s, msg |-> m] \in MeshSending
    BY <1>3 DEF MeshSending
  <2> QED BY <1>1, <1>4, <2>1 DEF Start, RouterTyped
<1>6. RouterTyped'
  BY <1>1, <1>2, <1>4, <1>5 DEF RouterTyped, RoutesTyped
<1>7. HomesTyped' /\ BuffersTyped' /\ BeliefsTyped'
  BY <1>4, HomesKept, BuffersKept, BeliefsKept DEF UserTyped
<1> QED BY <1>3, <1>4, <1>6, <1>7 DEF UserTyped, OutsideTyped, CallTyped

(* It asks for a user's inbox. *)
LEMMA MoveCallTyped ==
    ASSUME UserTyped, NEW n \in Node, NEW c \in Call, MoveCall(n, c)
    PROVE  CallTyped'
<1> DEFINE route == routeTable[n][c.oldNodeID]
           asking == IF route = NoRoute THEN sendRREQ(n, NewID(n, 1), c.oldNodeID)
                     ELSE moveUserReqFrame(n, NewID(n, 1), route.nextHop, c.user, c.oldNodeID)
<1>1. RouterTyped /\ c.call = "move"
  BY DEF UserTyped, MoveCall
<1>2. c.oldNodeID \in Node /\ c.user \in User
  BY <1>1 DEF Call
<1>3. issued' \in [Node -> 0..MaxPacketIDs] /\ NewID(n, 1) \in PacketID
  BY <1>1, MeshDraw DEF MoveCall
<1>4. asking \in MeshFrame
  <2>1. CASE route = NoRoute
    BY <1>2, <1>3, <2>1, SendType DEF MeshFrame, Frame
  <2>2. CASE route # NoRoute
    <3>1. routeTable[n] \in Table
      BY <1>1 DEF RouterTyped, RoutesTyped
    <3>2. route.nextHop \in Node
      BY <1>2, <2>2, <3>1, RouteType
    <3> QED BY <1>2, <1>3, <2>2, <3>2, UserSendType
  <2> QED BY <2>1, <2>2
<1>5. /\ air' = air \cup OnAir(n, {asking})
      /\ \/ UNCHANGED moveReqBuffer
         \/ moveReqBuffer' = [moveReqBuffer EXCEPT ![n][c.oldNodeID] = Append(@, c.user)]
      /\ UNCHANGED <<routeTable, receivedPacketIDs, dataBuffer, ackBuffer, expired, sender,
                     client, sent, restarts, homeVars, discoveredNodes, gut,
                     userMsgBuffer, userRouteBuffer, gatewayVars, userKeys, gwOnline,
                     messages, uplinked>>
  BY DEF MoveCall
<1> HIDE DEF asking
<1>6. RouterTyped'
  <2>1. air' \in SUBSET (Node \X MeshFrame)
    BY <1>1, <1>4, <1>5, MeshAir
  <2> QED BY <1>1, <1>3, <1>5, <2>1 DEF RouterTyped, RoutesTyped
<1>7. BuffersTyped'
  <2>1. /\ moveReqBuffer[n] \in [Node -> Seq(User)]
        /\ Append(moveReqBuffer[n][c.oldNodeID], c.user) \in Seq(User)
    BY <1>2, AppendTyped DEF UserTyped, BuffersTyped
  <2> DEFINE waiting == [moveReqBuffer[n] EXCEPT
                            ![c.oldNodeID] = Append(moveReqBuffer[n][c.oldNodeID], c.user)]
  <2>2. waiting \in [Node -> Seq(User)]
    BY <1>2, <2>1
  <2>3. UNCHANGED moveReqBuffer \/ moveReqBuffer' = [moveReqBuffer EXCEPT ![n] = waiting]
    BY <1>5, <2>1 DEF UserTyped, BuffersTyped
  <2> HIDE DEF waiting
  <2>4. moveReqBuffer' \in [Node -> [Node -> Seq(User)]]
    BY <2>2, <2>3 DEF UserTyped, BuffersTyped
  <2> QED BY <1>5, <2>4 DEF UserTyped, BuffersTyped
<1>8. HomesTyped' /\ BeliefsTyped'
  BY <1>5, HomesKept, BeliefsKept DEF UserTyped
<1> QED BY <1>5, <1>6, <1>7, <1>8 DEF UserTyped, OutsideTyped, CallTyped

(* It asks for a user's key. *)
LEMMA KeyCallTyped ==
    ASSUME UserTyped, NEW n \in Node, NEW c \in Call, KeyCall(n, c)
    PROVE  CallTyped'
<1> DEFINE home == gut[n][c.toUserID]
           dest == IF home = NoRoute THEN BROADCAST_ADDR ELSE home
           note == <<[type |-> "BLE_PUBKEY_RESP", user |-> c.toUserID]>>
           asking == pubKeyReqFrame(n, NewID(n, 1), dest, c.fromUserID, c.toUserID)
<1>1. RouterTyped /\ c.call = "key"
  BY DEF UserTyped, KeyCall
<1>2. c.fromUserID \in User /\ c.toUserID \in User
  BY <1>1 DEF Call
<1>3. dest \in Address
  BY <1>2 DEF UserTyped, BeliefsTyped, Address
<1>4. /\ \/ Tell(n, note) /\ UNCHANGED <<air, issued>>
         \/ air' = air \cup OnAir(n, {asking}) /\ Draw(n, 1) /\ UNCHANGED client
         \/ UNCHANGED <<air, issued, client>>
      /\ UNCHANGED <<routeTable, receivedPacketIDs, dataBuffer, ackBuffer, expired, sender,
                     sent, restarts, homeVars, discoveredNodes, gut, bufferVars,
                     gatewayVars, userKeys, gwOnline, messages, uplinked>>
  BY DEF KeyCall
<1> HIDE DEF dest
<1>5. client' \in [Node -> Seq(Note)]
  <2>1. note \in Seq(Note)
    <3>1. [type |-> "BLE_PUBKEY_RESP", user |-> c.toUserID] \in Note
      BY <1>2 DEF Note, Shown
    <3> QED BY <3>1
  <2> QED BY <1>1, <1>4, <2>1, MeshTell DEF RouterTyped
<1>6. issued' \in [Node -> 0..MaxPacketIDs] /\ air' \in SUBSET (Node \X MeshFrame)
  <2>1. CASE air' = air \cup OnAir(n, {asking}) /\ Draw(n, 1)
    <3>1. issued' \in [Node -> 0..MaxPacketIDs] /\ NewID(n, 1) \in PacketID
      BY <1>1, <2>1, MeshDraw
    <3>2. asking \in MeshFrame
      BY <1>2, <1>3, <3>1, UserSendType
    <3> QED BY <1>1, <2>1, <3>1, <3>2, MeshAir
  <2> QED BY <1>1, <1>4, <2>1 DEF RouterTyped
<1>7. RouterTyped'
  BY <1>1, <1>4, <1>5, <1>6 DEF RouterTyped, RoutesTyped
<1>8. HomesTyped' /\ BuffersTyped' /\ BeliefsTyped'
  BY <1>4, HomesKept, BuffersKept, BeliefsKept DEF UserTyped
<1> QED BY <1>4, <1>7, <1>8 DEF UserTyped, OutsideTyped, CallTyped

(* A phone connects and is handed its inbox. *)
LEMMA AnnounceTyped ==
    ASSUME UserTyped, NEW n \in Node, NEW c \in Call, AnnounceCall(n, c)
    PROVE  CallTyped'
<1> DEFINE u == c.user
           box == inbox[n][u]
           notes == [i \in DOMAIN box |-> ShownAs(box[i])]
<1>1. RouterTyped /\ HomesTyped /\ c.call = "announce"
  BY DEF UserTyped, AnnounceCall
<1>2. u \in User
  BY <1>1 DEF Call
<1>3. /\ users' = [users EXCEPT ![n] = @ \cup {u}]
      /\ online' = [online EXCEPT ![n] = @ \cup {u}]
      /\ \/ UNCHANGED diff
         \/ diff' = [diff EXCEPT ![n].added = @ \cup {u}, ![n].removed = @ \ {u}]
      /\ userKeys' = [userKeys EXCEPT ![n] = @ \cup {u}]
      /\ inbox' = [inbox EXCEPT ![n][u] = <<>>]
      /\ Tell(n, notes)
      /\ UNCHANGED <<routeTable, receivedPacketIDs, dataBuffer, ackBuffer, expired, sender,
                     air, issued, sent, restarts, discoveredNodes, gut, bufferVars,
                     gatewayVars, gwOnline, messages, uplinked>>
  BY DEF AnnounceCall
<1>4. notes \in Seq(Note)
  <2>1. box \in Seq(Msg)
    BY <1>1, <1>2 DEF HomesTyped
  <2>2. \A i \in DOMAIN box : ShownAs(box[i]) \in Note
    BY <2>1, InSequence, ShownTyped DEF Note, Shown
  <2>3. notes \in [DOMAIN box -> Note]
    BY <2>2
  <2> QED BY <2>1, <2>3, SameLength
<1> HIDE DEF u, notes
<1>5. client' \in [Node -> Seq(Note)]
  BY <1>1, <1>3, <1>4, MeshTell
<1>6. RouterTyped'
  BY <1>1, <1>3, <1>5 DEF RouterTyped, RoutesTyped
<1>7. HomesTyped'
  <2>1. /\ users' \in [Node -> SUBSET User]
        /\ online' \in [Node -> SUBSET User]
        /\ \A m \in Node : online'[m] \subseteq users'[m]
    BY <1>1, <1>2, <1>3 DEF HomesTyped
  <2>2. diff' \in [Node -> [added : SUBSET User, removed : SUBSET User]]
    <3>1. CASE UNCHANGED diff
      BY <1>1, <3>1 DEF HomesTyped
    <3>2. CASE diff' = [diff EXCEPT ![n].added = @ \cup {u}, ![n].removed = @ \ {u}]
      <4>1. [diff[n] EXCEPT !.added = @ \cup {u}, !.removed = @ \ {u}]
                \in [added : SUBSET User, removed : SUBSET User]
        BY <1>1, <1>2 DEF HomesTyped
      <4>2. diff' = [diff EXCEPT ![n] = [diff[n] EXCEPT !.added = @ \cup {u},
                                                        !.removed = @ \ {u}]]
        BY <1>1, <3>2 DEF HomesTyped
      <4> QED BY <1>1, <4>1, <4>2 DEF HomesTyped
    <3> QED BY <1>3, <3>1, <3>2
  <2>3. /\ inbox' \in [Node -> [User -> Seq(Msg)]]
        /\ \A m \in Node, v \in User : Len(inbox'[m][v]) <= INBOX_MAX
    BY <1>1, <1>2, <1>3, EmptiedInbox
  <2> QED BY <2>1, <2>2, <2>3 DEF HomesTyped
<1>8. BuffersTyped'
  BY <1>3, BuffersKept DEF UserTyped
<1>9. BeliefsTyped'
  BY <1>2, <1>3 DEF UserTyped, BeliefsTyped, gatewayVars
<1> QED BY <1>3, <1>6, <1>7, <1>8, <1>9 DEF UserTyped, OutsideTyped, CallTyped

(* A phone disconnects. *)
LEMMA LeaveTyped ==
    ASSUME UserTyped, NEW n \in Node, NEW c \in Call, LeaveCall(n, c)
    PROVE  CallTyped'
<1>1. /\ online' = [online EXCEPT ![n] = @ \ {c.user}]
      /\ UNCHANGED <<vars, users, inbox, diff, discoveredNodes, gut, bufferVars, gatewayVars,
                     userKeys, gwOnline, messages, uplinked>>
  BY DEF LeaveCall
<1>2. RouterTyped' /\ BuffersTyped' /\ BeliefsTyped'
  BY <1>1, RouterKept, BuffersKept, BeliefsKept DEF UserTyped
<1>3. HomesTyped'
  BY <1>1 DEF UserTyped, HomesTyped
<1> QED BY <1>1, <1>2, <1>3 DEF UserTyped, OutsideTyped, CallTyped

(* The packets a list of changes is cut into are frames. *)
LEMMA DiffTyped ==
    ASSUME NEW n \in Node, NEW pid \in PacketID, NEW added \in Seq(User),
           NEW removed \in Seq(User)
    PROVE  DiffPackets(n, pid, added, removed) \in SUBSET MeshFrame
<1> DEFINE ids == added \o removed
<1>1. ids \in Seq(User)
  BY ConcatTyped
<1> HIDE DEF ids
<1>2. \A i \in DOMAIN ids : ids[i] \in User
  BY <1>1, InSequence
<1>3. \A x, y \in SUBSET DOMAIN ids :
          broadcastInfoFrame(n, pid, {ids[i] : i \in x}, {ids[i] : i \in y}) \in MeshFrame
  <2> TAKE x, y \in SUBSET DOMAIN ids
  <2>1. {ids[i] : i \in x} \in SUBSET User /\ {ids[i] : i \in y} \in SUBSET User
    BY <1>2
  <2> QED BY <2>1, UserSendType
<1>4. broadcastInfoFrame(n, pid, {}, {}) \in MeshFrame
  BY UserSendType
<1> DEFINE part(k) == {i \in DOMAIN ids : (i - 1) \div IdsPerPacket = k}
           early(k) == {j \in part(k) : j <= Len(added)}
           late(k) == {j \in part(k) : j > Len(added)}
           packet(k) == broadcastInfoFrame(n, pid, {ids[i] : i \in early(k)},
                                                   {ids[i] : i \in late(k)})
<1>5. \A k : packet(k) \in MeshFrame
  BY <1>3
<1> HIDE DEF packet
<1>6. \A q : q \in DiffPackets(n, pid, added, removed) =>
              q = broadcastInfoFrame(n, pid, {}, {}) \/ \E k : q = packet(k)
  BY Zenon DEF DiffPackets, ids, packet
<1> QED BY <1>4, <1>5, <1>6

(* Whatever order the changes are in. *)
LEMMA OrderTyped ==
    ASSUME NEW S \in SUBSET User, NEW q \in SetToSeqs(S)
    PROVE  q \in Seq(User)
<1>1. Cardinality(S) \in Nat
  BY UserAssumption, FS_Subset, FS_CardinalityType
<1>2. q \in [1..Cardinality(S) -> S]
  BY DEF SetToSeqs
<1> QED BY <1>1, <1>2

(* sendBroadcastInfo. *)
LEMMA BroadcastCallTyped ==
    ASSUME UserTyped, NEW n \in Node, NEW c \in Call, BroadcastCall(n, c)
    PROVE  CallTyped'
<1>1. RouterTyped /\ HomesTyped
  BY DEF UserTyped
<1>2. issued' \in [Node -> 0..MaxPacketIDs] /\ NewID(n, 1) \in PacketID
  BY <1>1, MeshDraw DEF BroadcastCall
<1>3. PICK added \in SetToSeqs(diff[n].added), removed \in SetToSeqs(diff[n].removed) :
          air' = air \cup OnAir(n, DiffPackets(n, NewID(n, 1), added, removed))
  BY DEF BroadcastCall
<1>4. /\ diff' = [diff EXCEPT ![n] = [added |-> {}, removed |-> {}]]
      /\ UNCHANGED <<routeTable, receivedPacketIDs, dataBuffer, ackBuffer, expired, sender,
                     client, sent, restarts, users, online, inbox, discoveredNodes, gut,
                     bufferVars, gatewayVars, userKeys, gwOnline, messages, uplinked>>
  BY DEF BroadcastCall
<1>5. air' \in SUBSET (Node \X MeshFrame)
  <2>1. diff[n].added \in SUBSET User /\ diff[n].removed \in SUBSET User
    BY <1>1 DEF HomesTyped
  <2>2. added \in Seq(User) /\ removed \in Seq(User)
    BY <2>1, OrderTyped
  <2>3. DiffPackets(n, NewID(n, 1), added, removed) \in SUBSET MeshFrame
    BY <1>2, <2>2, DiffTyped
  <2> QED BY <1>1, <1>3, <2>3, MeshAir
<1>6. RouterTyped'
  BY <1>1, <1>2, <1>4, <1>5 DEF RouterTyped, RoutesTyped
<1>7. HomesTyped'
  BY <1>1, <1>4 DEF HomesTyped
<1>8. BuffersTyped' /\ BeliefsTyped'
  BY <1>4, BuffersKept, BeliefsKept DEF UserTyped
<1> QED BY <1>4, <1>6, <1>7, <1>8 DEF UserTyped, OutsideTyped, CallTyped

(* The gateway manager goes online or offline. *)
LEMMA UplinkCallTyped ==
    ASSUME UserTyped, NEW n \in Node, NEW c \in Call, UplinkCall(n, c)
    PROVE  CallTyped'
<1>1. /\ gwOnline' \in SUBSET Node
      /\ UNCHANGED <<vars, homeVars, discoveredNodes, gut, bufferVars, gatewayVars, userKeys,
                     messages, uplinked>>
  BY DEF UplinkCall, UserTyped, OutsideTyped
<1>2. RouterTyped' /\ HomesTyped' /\ BuffersTyped' /\ BeliefsTyped'
  BY <1>1, RouterKept, HomesKept, BuffersKept, BeliefsKept DEF UserTyped
<1> QED BY <1>1, <1>2 DEF UserTyped, OutsideTyped, CallTyped

(* A node is rebooted. *)
LEMMA RebootCallTyped ==
    ASSUME UserTyped, NEW n \in Node, NEW c \in Call, RebootCall(n, c),
           todo' \in Seq(Seq(Call))
    PROVE  UserTyped'
<1>1. restarts' \in Nat
  BY DEF RebootCall, UserTyped, RouterTyped
<1>2. LoseState(n) /\ LoseUserState(n) /\ UNCHANGED <<air, issued>>
  BY DEF RebootCall, Reboot
<1> QED BY <1>1, <1>2, RebootTyped

(* What comes from outside keeps the types. *)
LEMMA OutsideStepTyped ==
    ASSUME UserTyped, NEW n \in Node, Outside(n)
    PROVE  UserTyped'
<1> DEFINE Taken(i, c) ==
               /\ todo[i] # <<>>
               /\ c = Head(todo[i])
               /\ \/ MessageCall(n, c)
                  \/ MoveCall(n, c)
                  \/ KeyCall(n, c)
                  \/ AnnounceCall(n, c)
                  \/ LeaveCall(n, c)
                  \/ BroadcastCall(n, c)
                  \/ UplinkCall(n, c)
                  \/ RebootCall(n, c)
               /\ todo' = [todo EXCEPT ![i] = Tail(@)]
<1>1. \E i \in DOMAIN todo : \E c : Taken(i, c)
  BY DEF Outside
<1>2. PICK i \in DOMAIN todo : \E c : Taken(i, c)
  BY <1>1
<1>3. PICK c : Taken(i, c)
  BY <1>2
<1>4. todo \in Seq(Seq(Call)) /\ todo[i] \in Seq(Call)
  BY InSequence DEF UserTyped, OutsideTyped
<1>5. c \in Call /\ todo' \in Seq(Seq(Call))
  <2>1. Head(todo[i]) \in Call /\ Tail(todo[i]) \in Seq(Call)
    BY <1>3, <1>4
  <2> QED BY <1>3, <1>4, <2>1
<1>6. CASE RebootCall(n, c)
  BY <1>5, <1>6, RebootCallTyped
<1>7. CASE ~RebootCall(n, c)
  <2>1. CallTyped'
    BY <1>3, <1>5, <1>7, MessageTyped, MoveCallTyped, KeyCallTyped, AnnounceTyped,
       LeaveTyped, BroadcastCallTyped, UplinkCallTyped
  <2> QED BY <1>5, <2>1 DEF CallTyped, UserTyped, OutsideTyped
<1> QED BY <1>6, <1>7

(* The steps of sendUserMessage that park nothing. *)
LEMMA SendingTyped ==
    ASSUME UserTyped, NEW n \in Node, NEW s \in MeshSending, Start(n, s),
           UNCHANGED <<SendingLeaves, air, issued, restarts, userMsgBuffer, userRouteBuffer>>
    PROVE  UserTyped'
<1>1. RouterTyped'
  BY DEF UserTyped, RouterTyped, RoutesTyped, Start, SendingLeaves
<1>2. HomesTyped' /\ BuffersTyped' /\ BeliefsTyped' /\ OutsideTyped'
  BY HomesKept, BuffersKept, BeliefsKept, OutsideKept
  DEF UserTyped, SendingLeaves, bufferVars
<1> QED BY <1>1, <1>2 DEF UserTyped

(* The steps that park a message and ask. *)
LEMMA AskingTyped ==
    ASSUME UserTyped, NEW n \in Node, NEW g \in MeshFrame, Start(n, Idle),
           air' = air \cup OnAir(n, {g}), Draw(n, 1), BuffersTyped',
           UNCHANGED <<SendingLeaves, restarts>>
    PROVE  UserTyped'
<1>1. /\ air' \in SUBSET (Node \X MeshFrame)
      /\ issued' \in [Node -> 0..MaxPacketIDs]
      /\ Idle \in MeshSending
  BY MeshAir, MeshDraw DEF UserTyped, MeshSending
<1>2. RouterTyped'
  BY <1>1 DEF UserTyped, RouterTyped, RoutesTyped, Start, SendingLeaves
<1>3. HomesTyped' /\ BeliefsTyped' /\ OutsideTyped'
  BY HomesKept, BeliefsKept, OutsideKept DEF UserTyped, SendingLeaves
<1> QED BY <1>2, <1>3 DEF UserTyped

(* sendUserMessage keeps the types. *)
LEMMA SendUserTyped ==
    ASSUME UserTyped, NEW n \in Node, sendUserMessage(n)
    PROVE  UserTyped'
<1>0. /\ Idle \in MeshSending
      /\ sender[n] \in MeshSending
      /\ Idle.step = "idle"
  BY DEF UserTyped, RouterTyped, MeshSending, Idle
<1>1. /\ sender[n].step \in {"anyGateway", "gateway", "home", "askHome", "route", "askRoute"} =>
             sender[n].msg \in Msg /\ sender[n].msg.toUserID \in User
      /\ sender[n].step \in {"route", "askRoute"} => sender[n].dest \in Node
  BY <1>0 DEF MeshSending, Msg
<1>2. \A m \in Msg : Park(m) \in Msg
  BY DEF Park, Msg, UserFlags
<1>3. CASE AnyGateway(n)
  <2>1. [sender[n] EXCEPT !.step = "gateway"] \in MeshSending
    BY <1>0, <1>3 DEF AnyGateway, MeshSending
  <2>2. PICK s \in MeshSending : Start(n, s)
    BY <1>0, <1>3, <2>1 DEF AnyGateway
  <2> QED BY <1>3, <2>2, SendingTyped DEF AnyGateway
<1>4. CASE PickGateway(n)
  <2>1. PICK dest \in IF closestGw[n] # NoRoute THEN {closestGw[n]} ELSE gateways[n] :
            Start(n, [step |-> "route", msg |-> sender[n].msg, dest |-> dest])
    BY <1>4 DEF PickGateway
  <2>2. dest \in Node
    BY <2>1 DEF UserTyped, BeliefsTyped
  <2>3. [step |-> "route", msg |-> sender[n].msg, dest |-> dest] \in MeshSending
    BY <1>1, <1>4, <2>2 DEF PickGateway, MeshSending
  <2> QED BY <1>4, <2>1, <2>3, SendingTyped DEF PickGateway
<1>5. CASE PickNoGateway(n)
  <2>1. restarts' \in Nat
    BY <1>5 DEF PickNoGateway, UserTyped, RouterTyped
  <2>2. LoseState(n) /\ LoseUserState(n) /\ UNCHANGED <<air, issued, todo>>
    BY <1>5 DEF PickNoGateway, Reboot
  <2> QED BY <2>1, <2>2, RebootTyped
<1>6. CASE ReadHome(n)
  <2> DEFINE m == sender[n].msg
  <2>1. m \in Msg /\ m.toUserID \in User
    BY <1>1, <1>6 DEF ReadHome
  <2>2. HasHome(gut[n], m) => gut[n][m.toUserID] \in Node
    BY <2>1 DEF HasHome, UserTyped, BeliefsTyped
  <2>3. /\ HasHome(gut[n], m) =>
               [step |-> "route", msg |-> m, dest |-> gut[n][m.toUserID]] \in MeshSending
        /\ [step |-> "askHome", msg |-> m] \in MeshSending
    <3> HIDE DEF m
    <3> QED BY <2>1, <2>2 DEF MeshSending
  <2>4. PICK s \in MeshSending : Start(n, s)
    BY <1>6, <2>3 DEF ReadHome
  <2> QED BY <1>6, <2>4, SendingTyped DEF ReadHome
<1>7. CASE ReadRoute(n)
  <2> DEFINE s == sender[n]
             route == routeTable[n][s.dest]
             g == userMsgFrame(n, s.msg, route.nextHop, s.dest)
  <2>1. s.msg \in Msg /\ s.dest \in Node /\ s \in MeshSending /\ s.step = "route"
    BY <1>0, <1>1, <1>7 DEF ReadRoute
  <2>2. [s EXCEPT !.step = "askRoute"] \in MeshSending
    <3>1. s \in [step : {"route", "askRoute"}, msg : Msg, dest : Node]
      <4> HIDE DEF s
      <4> QED BY <2>1 DEF MeshSending, Idle
    <3> HIDE DEF s
    <3> QED BY <3>1 DEF MeshSending
  <2>3. route # NoRoute => g \in UserMsgFrame
    <3>1. routeTable[n] \in Table
      BY DEF UserTyped, RouterTyped, RoutesTyped
    <3>2. route # NoRoute => route.nextHop \in Node
      <4> HIDE DEF s
      <4> QED BY <2>1, <3>1, RouteType
    <3> HIDE DEF s, route
    <3> QED BY <2>1, <3>2, UserMsgType
  <2>4. route # NoRoute => [step |-> "transmit", frame |-> g] \in MeshSending
    <3> HIDE DEF g, route
    <3> QED BY <2>3 DEF MeshSending, KeptFrame
  <2>5. \/ Start(n, [s EXCEPT !.step = "askRoute"])
        \/ route # NoRoute /\ Start(n, [step |-> "transmit", frame |-> g])
    BY <1>7 DEF ReadRoute
  <2> HIDE DEF s, g, route
  <2>6. PICK next \in MeshSending : Start(n, next)
    BY <2>2, <2>4, <2>5
  <2> QED BY <1>7, <2>6, SendingTyped DEF ReadRoute
<1>8. CASE AskHome(n)
  <2> DEFINE m == sender[n].msg
             u == m.toUserID
             waiting == Append(userMsgBuffer[n][u], Park(m))
  <2>1. m \in Msg /\ u \in User
    BY <1>1, <1>8 DEF AskHome
  <2>2. /\ waiting \in Seq(Msg)
        /\ userMsgBuffer[n] \in [User -> Seq(Msg)]
    BY <1>2, <2>1, AppendTyped DEF UserTyped, BuffersTyped
  <2>3. /\ userMsgBuffer' = [userMsgBuffer EXCEPT ![n] =
                                [userMsgBuffer[n] EXCEPT ![u] = waiting]]
        /\ UNCHANGED <<userRouteBuffer, moveReqBuffer>>
    BY <1>8, <2>2 DEF AskHome, SendingLeaves, UserTyped, BuffersTyped
  <2> HIDE DEF waiting
  <2>4. BuffersTyped'
    BY <2>1, <2>2, <2>3 DEF UserTyped, BuffersTyped
  <2>5. NewID(n, 1) \in PacketID
    BY <1>8, MeshDraw DEF AskHome, UserTyped
  <2>6. sendUREQ(n, NewID(n, 1), u) \in MeshFrame
    BY <2>1, <2>5, UserSendType
  <2> QED BY <1>8, <2>4, <2>6, AskingTyped DEF AskHome
<1>9. CASE AskRoute(n)
  <2> DEFINE s == sender[n]
             waiting == Append(userRouteBuffer[n][s.dest], Park(s.msg))
  <2>1. s.msg \in Msg /\ s.dest \in Node
    BY <1>1, <1>9 DEF AskRoute
  <2>2. /\ waiting \in Seq(Msg)
        /\ userRouteBuffer[n] \in [Node -> Seq(Msg)]
    BY <1>2, <2>1, AppendTyped DEF UserTyped, BuffersTyped
  <2>3. /\ userRouteBuffer' = [userRouteBuffer EXCEPT ![n] =
                                  [userRouteBuffer[n] EXCEPT ![s.dest] = waiting]]
        /\ UNCHANGED <<userMsgBuffer, moveReqBuffer>>
    BY <1>9, <2>2 DEF AskRoute, SendingLeaves, UserTyped, BuffersTyped
  <2> HIDE DEF waiting
  <2>4. BuffersTyped'
    BY <2>1, <2>2, <2>3 DEF UserTyped, BuffersTyped
  <2>5. NewID(n, 1) \in PacketID
    BY <1>9, MeshDraw DEF AskRoute, UserTyped
  <2>6. sendRREQ(n, NewID(n, 1), s.dest) \in MeshFrame
    BY <2>1, <2>5, SendType DEF MeshFrame, Frame
  <2> QED BY <1>9, <2>4, <2>6, AskingTyped DEF AskRoute
<1> QED BY <1>3, <1>4, <1>5, <1>6, <1>7, <1>8, <1>9 DEF sendUserMessage

(* The router task takes one of the frames that are on the air for it. *)
LEMMA MeshFrames ==
    ASSUME RouterTyped, NEW n \in Node, UserRouterTask(n)
    PROVE  \E f \in MeshFrame : <<n, f>> \in air /\ UserHandlePacket(n, f)
<1>1. PICK copy \in air : copy[1] = n /\ UserHandlePacket(n, copy[2])
  BY DEF UserRouterTask
<1>2. copy \in Node \X MeshFrame
  BY DEF RouterTyped
<1>3. copy = <<n, copy[2]>> /\ copy[2] \in MeshFrame
  BY <1>1, <1>2
<1> QED BY <1>1, <1>3

(* Every step of the mesh keeps the types. *)
LEMMA StepTyped ==
    ASSUME UserTyped, [UserNext]_allVars
    PROVE  UserTyped'
<1>1. CASE UNCHANGED allVars
  BY <1>1, RouterKept, UserKept DEF UserTyped, allVars
<1>2. ASSUME NEW n \in Node, UserRouterTask(n)
      PROVE  UserTyped'
  BY <1>2, MeshFrames, PacketTyped DEF UserTyped
<1>3. ASSUME NEW n \in Node, ApplicationTask(n) \/ TimerWorker(n), UNCHANGED userVars
      PROVE  UserTyped'
  BY <1>3, ApplicationTyped, TimerTyped, UserKept DEF UserTyped
<1> QED BY <1>1, <1>2, <1>3, SendUserTyped, OutsideStepTyped DEF UserNext

(* The strengthening holds throughout. *)
LEMMA UserInvariance == UserSpec => []UserTyped
<1>1. UserTyped /\ [UserNext]_allVars => UserTyped'
  BY StepTyped
<1> QED BY <1>1, TypedInit, PTL DEF UserSpec

(* On any number of nodes and users, whatever the phones and the gateways do:  *)
(* every variable of the user plane keeps its type, an inbox holds at most    *)
(* INBOX_MAX messages, and a connected phone is one of a user the node knows. *)
THEOREM UserTypeCorrect == UserSpec => []UserTypeOK
BY UserInvariance, TypedImplies, PTL

=============================================================================
