--------------------------- MODULE AodvPhoneProofs --------------------------
(***************************************************************************)
(* AodvRouter implements PhoneService: what the phones are told is what    *)
(* PhoneService allows, whatever the mesh loses, repeats or reorders and   *)
(* whichever nodes reboot.  Two hypotheses: no application writes to its   *)
(* own node, and no data packet comes back to the node it started from     *)
(* (NeverComesBack), which would take it for a packet to forward.          *)
(***************************************************************************)
EXTENDS AodvProofs

-----------------------------------------------------------------------------
(* The invariant. *)

Sent(pid, o, d) == [packetID |-> pid, origin |-> o, finalDestID |-> d] \in sent

Carries(f) == Sent(f.packetID, f.originNodeID, f.ext.finalDestID)

Awaited(n) == ackBuffer[n] \cup expired[n]

InTransmit(n) == sender[n].step \in {"transmit", "store"}

Shown(n, pid) == Told(n, "BLE_Node", pid) \/ Told(n, "BLE_Broadcast", pid)

Decided(n, pid) == Told(n, "BLE_ACK", pid) \/ Told(n, "BLE_ACK_FAILURE", pid)

(* Data packets, wherever they are, are what an application has sent. *)
DataIsSent ==
    /\ \A copy \in air : copy[2].packetType = "DATA" => Carries(copy[2])
    /\ \A n \in Node : \A e \in Awaited(n) :
           Carries(e.frame) /\ e.frame.ext.finalDestID \in Node \ {n}
    /\ \A n \in Node : InTransmit(n) =>
           /\ Carries(sender[n].frame)
           /\ sender[n].frame.originNodeID = n
           /\ sender[n].frame.ext.finalDestID \in Node \ {n}
    /\ \A n \in Node : sender[n].step = "buffer" => Sent(sender[n].packetID, n, sender[n].dest)
    /\ \A n, d \in Node : \A pid \in dataBuffer[n][d] : Sent(pid, n, d)

(* An identifier is drawn once, by the origin of the packet. *)
SentIsIssued ==
    \A p \in sent : p.packetID[1] = p.origin /\ p.packetID[2] <= issued[p.origin]

(* What a node has shown to its phones it drops the next time. *)
ShownIsSeen ==
    \A n \in Node, pid \in PacketID : Shown(n, pid) => pid \in receivedPacketIDs[n]

(* Nothing about the packet is decided or pending at the node. *)
Fresh(n, pid) ==
    /\ ~Decided(n, pid)
    /\ \A e \in Awaited(n) : e.frame.packetID # pid

(* A node awaits one verdict on a packet, once: an entry is in one place, it   *)
(* is not decided yet, and only the origin may store what it has not seen.   *)
OneVerdict ==
    \A n \in Node :
        /\ \A e, g \in Awaited(n) : e.frame.packetID = g.frame.packetID => e = g
        /\ ackBuffer[n] \cap expired[n] = {}
        /\ \A e \in Awaited(n) : ~Decided(n, e.frame.packetID)
        /\ InTransmit(n) => Fresh(n, sender[n].frame.packetID)
        /\ \A pid \in PacketID : ~Fresh(n, pid) =>
               /\ pid[1] = n \/ pid \in receivedPacketIDs[n]
               /\ \E p \in sent : p.packetID = pid

Promises == DataIsSent /\ SentIsIssued /\ ShownIsSeen /\ OneVerdict

PhoneInv == TypeOK /\ Promises

-----------------------------------------------------------------------------
(* What a step leaves alone. *)

Remembers == \A n \in Node : receivedPacketIDs[n] \subseteq receivedPacketIDs'[n]

SentStays == sent \subseteq sent'

LEMMA CarriesStays ==
    ASSUME SentStays
    PROVE  /\ \A f : Carries(f) => Carries(f)'
           /\ \A pid, o, d : Sent(pid, o, d) => Sent(pid, o, d)'
BY DEF Carries, Sent, SentStays

(* The medium after a step that sends frames: its data packets are sent ones. *)
LEMMA AirCarries ==
    ASSUME DataIsSent, SentStays, NEW n, NEW out, air' \subseteq air \cup OnAir(n, out),
           \A g \in out : g.packetType = "DATA" => Carries(g)'
    PROVE  \A copy \in air' : copy[2].packetType = "DATA" => Carries(copy[2])'
<1> SUFFICES ASSUME NEW copy \in air', copy[2].packetType = "DATA" PROVE Carries(copy[2])'
    OBVIOUS
<1>1. CASE copy \in air
    BY <1>1, CarriesStays DEF DataIsSent
<1>2. CASE copy \in OnAir(n, out)
    <2>1. copy[2] \in out
        BY <1>2 DEF OnAir
    <2> QED BY <2>1
<1> QED BY <1>1, <1>2

(* A node tells its phones one thing more. *)
LEMMA NotifyTold ==
    ASSUME TypeOK, NEW n \in Node, NEW type, NEW pid, Notify(n, type, pid)
    PROVE  \A m \in Node : \A ty, p :
               Told(m, ty, p)' <=> Told(m, ty, p) \/ (m = n /\ ty = type /\ p = pid)
<1> DEFINE r == [type |-> type, packetID |-> pid]
<1>1. /\ client'[n] = Append(client[n], r)
      /\ \A m \in Node : m # n => client'[m] = client[m]
    BY DEF TypeOK, Notify
<1>2. client[n] \in Seq(Notification)
    BY DEF TypeOK
<1>3. /\ DOMAIN client'[n] = 1..(Len(client[n]) + 1)
      /\ DOMAIN client[n] = 1..Len(client[n])
      /\ Len(client[n]) \in Nat
      /\ \A i \in DOMAIN client[n] : client'[n][i] = client[n][i]
      /\ client'[n][Len(client[n]) + 1] = r
    <2> HIDE DEF r
    <2> QED BY <1>1, <1>2
<1>4. \A i \in DOMAIN client'[n] : i \in DOMAIN client[n] \/ i = Len(client[n]) + 1
    BY <1>3
<1>5. \A i \in DOMAIN client[n] : i \in DOMAIN client'[n]
    BY <1>3
<1>6. Len(client[n]) + 1 \in DOMAIN client'[n]
    BY <1>3
<1>7. \A ty, p : r = [type |-> ty, packetID |-> p] <=> ty = type /\ p = pid
    OBVIOUS
<1>8. ASSUME NEW m \in Node, NEW ty, NEW p
      PROVE  Told(m, ty, p)' <=> Told(m, ty, p) \/ (m = n /\ ty = type /\ p = pid)
    <2>1. CASE m = n
        <3> DEFINE q == [type |-> ty, packetID |-> p]
        <3>1. /\ Told(n, ty, p) <=> \E i \in DOMAIN client[n] : client[n][i] = q
              /\ Told(n, ty, p)' <=> \E i \in DOMAIN client'[n] : client'[n][i] = q
            BY DEF Told
        <3>2. r = q <=> ty = type /\ p = pid
            BY <1>7
        <3> HIDE DEF r, q
        <3>3. Told(n, ty, p)' <=> Told(n, ty, p) \/ r = q
            BY <1>3, <1>4, <1>5, <1>6, <3>1
        <3> QED BY <2>1, <3>2, <3>3
    <2>2. CASE m # n
        BY <1>1, <2>2 DEF Told
    <2> QED BY <2>1, <2>2
<1> QED BY <1>8

LEMMA SameTold ==
    ASSUME UNCHANGED client
    PROVE  \A m, ty, p : Told(m, ty, p)' <=> Told(m, ty, p)
BY DEF Told

(* Entries that go leave the verdicts of the others as they were. *)
LEMMA VerdictsStay ==
    ASSUME OneVerdict, Remembers, SentStays,
           \A n \in Node : ackBuffer'[n] \subseteq ackBuffer[n],
           UNCHANGED <<expired, sender>>,
           \A n \in Node : \A pid : Decided(n, pid)' <=> Decided(n, pid)
    PROVE  OneVerdict'
<1>1. \A n \in Node : /\ Awaited(n)' \subseteq Awaited(n)
                      /\ ackBuffer'[n] \cap expired'[n] \subseteq ackBuffer[n] \cap expired[n]
    BY DEF Awaited
<1>2. \A n \in Node : \A pid : Fresh(n, pid) => Fresh(n, pid)'
    BY <1>1 DEF Fresh
<1>3. \A n \in Node : InTransmit(n)' => InTransmit(n) /\ sender'[n] = sender[n]
    BY DEF InTransmit
<1> QED BY <1>1, <1>2, <1>3 DEF OneVerdict, Remembers, SentStays

LEMMA IssuedGrows ==
    ASSUME TypeOK, TypeOK', SentIsIssued, UNCHANGED sent, \A m \in Node : issued[m] <= issued'[m]
    PROVE  SentIsIssued'
<1> SUFFICES ASSUME NEW p \in sent
             PROVE  p.packetID[1] = p.origin /\ p.packetID[2] <= issued'[p.origin]
    BY DEF SentIsIssued
<1>1. p.origin \in Node /\ p.packetID \in PacketID
    BY DEF TypeOK
<1>2. p.packetID[2] \in Nat
    BY <1>1 DEF PacketID
<1>3. issued[p.origin] \in Nat /\ issued'[p.origin] \in Nat
    BY <1>1 DEF TypeOK
<1>4. issued[p.origin] <= issued'[p.origin] /\ p.packetID[2] <= issued[p.origin]
      /\ p.packetID[1] = p.origin
    BY <1>1 DEF SentIsIssued
<1> QED BY <1>2, <1>3, <1>4

LEMMA DrawGrows ==
    ASSUME TypeOK, NEW n \in Node, NEW k \in Nat, UNCHANGED issued \/ Draw(n, k)
    PROVE  \A m \in Node : issued[m] <= issued'[m]
<1> SUFFICES ASSUME NEW m \in Node PROVE issued[m] <= issued'[m]
    OBVIOUS
<1>1. issued[m] \in Nat
    BY DEF TypeOK
<1>2. issued'[m] = issued[m] \/ issued'[m] = issued[m] + k
    BY DEF TypeOK, Draw
<1> QED BY <1>1, <1>2

(* A step that tells the phones nothing and stores nothing. *)
LEMMA QuietStep ==
    ASSUME PhoneInv, TypeOK', Remembers,
           UNCHANGED <<expired, sender, client, sent>>,
           \A m \in Node : ackBuffer'[m] \subseteq ackBuffer[m],
           \A m, d \in Node : dataBuffer'[m][d] \subseteq dataBuffer[m][d],
           \A m \in Node : issued[m] <= issued'[m],
           NEW n, NEW out, air' \subseteq air \cup OnAir(n, out),
           \A g \in out : g.packetType = "DATA" => Carries(g)
    PROVE  Promises'
<1>1. SentStays
    BY DEF SentStays
<1>2. DataIsSent'
    <2>1. \A g \in out : g.packetType = "DATA" => Carries(g)'
        BY <1>1, CarriesStays
    <2>2. \A copy \in air' : copy[2].packetType = "DATA" => Carries(copy[2])'
        BY <1>1, <2>1, AirCarries DEF PhoneInv, Promises
    <2>3. \A m \in Node : Awaited(m)' \subseteq Awaited(m)
        BY DEF Awaited
    <2> QED BY <1>1, <2>2, <2>3, CarriesStays DEF PhoneInv, Promises, DataIsSent, InTransmit
<1>3. SentIsIssued'
    BY IssuedGrows DEF PhoneInv, Promises
<1>4. ShownIsSeen'
    BY SameTold DEF PhoneInv, Promises, ShownIsSeen, Shown, Remembers
<1>5. OneVerdict'
    BY <1>1, SameTold, VerdictsStay DEF PhoneInv, Promises, Decided
<1> QED BY <1>2, <1>3, <1>4, <1>5 DEF Promises

(* A node that reboots forgets what it awaited together with what it has told. *)
LEMMA LoseStateKeeps ==
    ASSUME PhoneInv, TypeOK', NEW n \in Node, LoseState(n), UNCHANGED <<issued, sent>>,
           air' \subseteq air
    PROVE  Promises'
<1>1. SentStays /\ \A m \in Node : issued[m] <= issued'[m]
    BY DEF SentStays, PhoneInv, TypeOK
<1>2. \A m \in Node :
          \/ /\ m = n
             /\ Awaited(m)' = {} /\ ackBuffer'[m] = {} /\ ~InTransmit(m)' /\ sender'[m].step # "buffer"
             /\ \A d \in Node : dataBuffer'[m][d] = {}
             /\ \A ty, p : ~Told(m, ty, p)'
          \/ /\ m # n /\ Awaited(m)' = Awaited(m) /\ ackBuffer'[m] = ackBuffer[m] /\ expired'[m] = expired[m]
             /\ sender'[m] = sender[m] /\ dataBuffer'[m] = dataBuffer[m]
             /\ receivedPacketIDs'[m] = receivedPacketIDs[m]
             /\ \A ty, p : Told(m, ty, p)' <=> Told(m, ty, p)
    <2> SUFFICES ASSUME NEW m \in Node
                 PROVE  \/ /\ m = n
                           /\ Awaited(m)' = {} /\ ackBuffer'[m] = {} /\ ~InTransmit(m)'
                           /\ sender'[m].step # "buffer"
                           /\ \A d \in Node : dataBuffer'[m][d] = {}
                           /\ \A ty, p : ~Told(m, ty, p)'
                        \/ /\ m # n /\ Awaited(m)' = Awaited(m) /\ ackBuffer'[m] = ackBuffer[m]
                           /\ expired'[m] = expired[m]
                           /\ sender'[m] = sender[m] /\ dataBuffer'[m] = dataBuffer[m]
                           /\ receivedPacketIDs'[m] = receivedPacketIDs[m]
                           /\ \A ty, p : Told(m, ty, p)' <=> Told(m, ty, p)
        OBVIOUS
    <2>1. CASE m = n
        BY <2>1 DEF LoseState, PhoneInv, TypeOK, Awaited, InTransmit, Idle, Told
    <2>2. CASE m # n
        BY <2>2 DEF LoseState, PhoneInv, TypeOK, Awaited, Told
    <2> QED BY <2>1, <2>2
<1>3. DataIsSent'
    <2>1. \A copy \in air' : copy[2].packetType = "DATA" => Carries(copy[2])'
        BY <1>1, CarriesStays DEF PhoneInv, Promises, DataIsSent
    <2> QED BY <1>1, <1>2, <2>1, CarriesStays DEF PhoneInv, Promises, DataIsSent, InTransmit
<1>4. SentIsIssued'
    BY <1>1, IssuedGrows DEF PhoneInv, Promises
<1>5. ShownIsSeen'
    BY <1>2 DEF PhoneInv, Promises, ShownIsSeen, Shown
<1>6. OneVerdict'
    <2>1. \A m \in Node : \A p : Fresh(m, p)' <=> Fresh(m, p) \/ m = n
        BY <1>2 DEF Fresh, Decided
    <2> QED BY <1>2, <2>1 DEF PhoneInv, Promises, OneVerdict, InTransmit, Decided
<1> QED BY <1>3, <1>4, <1>5, <1>6 DEF Promises

-----------------------------------------------------------------------------
(* Frames without a handler, and the frames about routes. *)

LEMMA FirstSightRemembers ==
    ASSUME TypeOK, NEW n \in Node, NEW f, FirstSight(n, f)
    PROVE  /\ Remembers
           /\ f.packetID \notin receivedPacketIDs[n]
           /\ f.packetID \in receivedPacketIDs'[n]
BY DEF TypeOK, FirstSight, storePacketID, isDuplicatePacketID, Remembers

LEMMA UnhandledKeeps ==
    ASSUME PhoneInv, TypeOK', NEW n \in Node, NEW f \in Frame,
           tryImplicitAck(n, f) \/ DropDuplicate(n, f) \/ Overhear(n, f)
    PROVE  Promises' /\ UNCHANGED <<sent, client>>
<1>1. Remembers
    <2>1. ASSUME UNCHANGED receivedPacketIDs PROVE Remembers
        BY <2>1 DEF Remembers
    <2> QED BY <2>1, FirstSightRemembers
            DEF tryImplicitAck, DropDuplicate, Overhear, PhoneInv
<1>2. /\ UNCHANGED <<expired, sender, client, sent, dataBuffer, issued>>
      /\ air' \subseteq air \cup OnAir(n, {})
    BY DEF tryImplicitAck, DropDuplicate, Overhear
<1>3. \A m \in Node : ackBuffer'[m] \subseteq ackBuffer[m]
    BY DEF tryImplicitAck, DropDuplicate, Overhear, PhoneInv, TypeOK
<1>4. \A m \in Node : issued[m] <= issued'[m]
    BY <1>2 DEF PhoneInv, TypeOK
<1> QED BY <1>1, <1>2, <1>3, <1>4, QuietStep

LEMMA RREQKeeps ==
    ASSUME PhoneInv, TypeOK', NEW n \in Node, NEW f \in RREQFrame, FirstSight(n, f),
           HandleRREQ(n, f)
    PROVE  Promises' /\ UNCHANGED <<sent, client>>
<1>1. UNCHANGED <<dataBuffer, ackBuffer, expired, sender, client, sent>>
    BY DEF HandleRREQ
<1>2. \A m \in Node : issued[m] <= issued'[m]
    BY DrawGrows DEF HandleRREQ, PhoneInv
<1>3. PICK g : Emit(n, f, {g}) /\ g.packetType # "DATA"
    <2>1. \A pid, o, d, m, h : sendRREP(n, pid, o, d, m, h).packetType = "RREP"
        BY DEF sendRREP, Originate
    <2>2. Forwarded(n, f, BROADCAST_ADDR).packetType = "RREQ"
        BY DEF Forwarded, RREQFrame, FrameOf
    <2> QED BY <2>1, <2>2 DEF HandleRREQ
<1>4. Remembers
    BY FirstSightRemembers DEF PhoneInv
<1> QED BY <1>1, <1>2, <1>3, <1>4, QuietStep DEF Emit

(* The packets a route has been found for are those the buffer holds. *)
LEMMA RREPKeeps ==
    ASSUME PhoneInv, TypeOK', NEW n \in Node, NEW f \in RREPFrame, FirstSight(n, f),
           HandleRREP(n, f)
    PROVE  Promises' /\ UNCHANGED <<sent, client>>
<1> DEFINE target == f.ext.RREPDestNodeID
           hops == HopPlusOne(f.ext.numHops)
           rt == LearnFromRREP(n, f)
           flushed == IF rt[target] = NoRoute THEN {}
                      ELSE flushDataQueue(n, target, rt[target].nextHop)
           back == rt[f.originNodeID]
           onward == IF n = f.originNodeID \/ back = NoRoute THEN {}
                     ELSE {[Forwarded(n, f, back.nextHop) EXCEPT !.ext.numHops = hops]}
<1>1. UNCHANGED <<issued, ackBuffer, expired, sender, client, sent>>
    BY DEF HandleRREP
<1>2. \A m \in Node : issued[m] <= issued'[m]
    BY <1>1, DrawGrows DEF PhoneInv
<1>3. target \in Node
    BY DEF RREPFrame, FrameOf
<1>4. \A m, d \in Node : dataBuffer'[m][d] \subseteq dataBuffer[m][d]
    BY <1>3 DEF HandleRREP, PhoneInv, TypeOK
<1>5. \A g \in flushed : g.packetType = "DATA" => Carries(g)
    <2> SUFFICES ASSUME NEW m, NEW pid \in dataBuffer[n][target]
                 PROVE  Carries(dataFrame(n, pid, m, target, "NONE"))
        BY DEF flushDataQueue
    <2>1. Sent(pid, n, target)
        BY <1>3 DEF PhoneInv, Promises, DataIsSent
    <2> HIDE DEF target
    <2> QED BY <2>1 DEF Carries, dataFrame, Originate
<1>6. \A g \in onward : g.packetType # "DATA"
    <2> SUFFICES ASSUME NEW m
                 PROVE  [Forwarded(n, f, m) EXCEPT !.ext.numHops = hops].packetType # "DATA"
        OBVIOUS
    <2> HIDE DEF hops
    <2> QED BY DEF Forwarded, RREPFrame, FrameOf
<1>7. Emit(n, f, flushed \cup onward)
    BY DEF HandleRREP
<1>8. Remembers
    BY FirstSightRemembers DEF PhoneInv
<1> DEFINE out == flushed \cup onward
<1>9. \A g \in out : g.packetType = "DATA" => Carries(g)
    <2> HIDE DEF flushed, onward
    <2> QED BY <1>5, <1>6
<1> HIDE DEF flushed, onward
<1>10. air' \subseteq air \cup OnAir(n, out)
    BY <1>7 DEF Emit
<1> HIDE DEF out
<1> QED BY <1>1, <1>2, <1>4, <1>8, <1>9, <1>10, QuietStep

LEMMA RERRKeeps ==
    ASSUME PhoneInv, TypeOK', NEW n \in Node, NEW f \in RERRFrame, FirstSight(n, f),
           HandleRERR(n, f)
    PROVE  Promises' /\ UNCHANGED <<sent, client>>
<1>1. UNCHANGED <<dataBuffer, issued, ackBuffer, expired, sender, client, sent>>
    BY DEF HandleRERR
<1>2. \A m \in Node : issued[m] <= issued'[m]
    BY <1>1, DrawGrows DEF PhoneInv
<1>3. \E m : Emit(n, f, {}) \/ Emit(n, f, {Forwarded(n, f, m)})
    BY DEF HandleRERR
<1>4. \A m : Forwarded(n, f, m).packetType = "RERR"
    BY DEF Forwarded, RERRFrame, FrameOf
<1>5. PICK out : Emit(n, f, out) /\ \A g \in out : g.packetType # "DATA"
    BY <1>3, <1>4
<1>6. Remembers
    BY FirstSightRemembers DEF PhoneInv
<1> QED BY <1>1, <1>2, <1>5, <1>6, QuietStep DEF Emit

-----------------------------------------------------------------------------
(* handleData. *)

(* What handleData answers is not data, and what it forwards is the packet. *)
LEMMA DataFrames ==
    ASSUME NEW n, NEW f \in DATAFrame, Carries(f)
    PROVE  /\ \A g \in AckOf(n, f) : g.packetType # "DATA"
           /\ \A m : Carries(Forwarded(n, f, m))
           /\ \A m : /\ Forwarded(n, f, m).packetID = f.packetID
                     /\ Forwarded(n, f, m).originNodeID = f.originNodeID
                     /\ Forwarded(n, f, m).ext = f.ext
           /\ AcksDrawn(f) \in Nat
<1>1. \A g \in AckOf(n, f) : g.packetType # "DATA"
    BY DEF AckOf, sendACK, Originate
<1>2. \A m : /\ Forwarded(n, f, m).packetID = f.packetID
             /\ Forwarded(n, f, m).originNodeID = f.originNodeID
             /\ Forwarded(n, f, m).ext = f.ext
    BY DEF Forwarded, DATAFrame, FrameOf
<1>3. AcksDrawn(f) \in Nat
    BY DEF AcksDrawn
<1> QED BY <1>1, <1>2, <1>3 DEF Carries

(* A message is shown at the first sight of its identifier. *)
LEMMA ShowStep ==
    ASSUME PhoneInv, TypeOK', NEW n \in Node, NEW f \in DATAFrame, FirstSight(n, f),
           NEW type \in {"BLE_Node", "BLE_Broadcast"}, Notify(n, type, f.packetID),
           UNCHANGED <<dataBuffer, ackBuffer, expired, sender, sent>>,
           \A m \in Node : issued[m] <= issued'[m],
           NEW out, Emit(n, f, out),
           \A g \in out : g.packetType = "DATA" => Carries(g)
    PROVE  Promises'
<1>1. SentStays
    BY DEF SentStays
<1>2. Remembers /\ f.packetID \in receivedPacketIDs'[n]
    BY FirstSightRemembers DEF PhoneInv
<1>3. \A m \in Node : \A ty, p :
          Told(m, ty, p)' <=> Told(m, ty, p) \/ (m = n /\ ty = type /\ p = f.packetID)
    BY NotifyTold DEF PhoneInv
<1>4. DataIsSent'
    <2>1. \A g \in out : g.packetType = "DATA" => Carries(g)'
        BY <1>1, CarriesStays
    <2>2. \A copy \in air' : copy[2].packetType = "DATA" => Carries(copy[2])'
        BY <1>1, <2>1, AirCarries DEF PhoneInv, Promises, Emit
    <2> QED BY <1>1, <2>2, CarriesStays DEF PhoneInv, Promises, DataIsSent, InTransmit, Awaited
<1>5. SentIsIssued'
    BY IssuedGrows DEF PhoneInv, Promises
<1>6. ShownIsSeen'
    BY <1>2, <1>3 DEF PhoneInv, Promises, ShownIsSeen, Shown, Remembers
<1>7. OneVerdict'
    <2>1. \A m \in Node : \A p : Decided(m, p)' <=> Decided(m, p)
        BY <1>3 DEF Decided
    <2> QED BY <1>1, <1>2, <2>1, VerdictsStay DEF PhoneInv, Promises
<1> QED BY <1>4, <1>5, <1>6, <1>7 DEF Promises

LEMMA DeliverKeeps ==
    ASSUME PhoneInv, TypeOK', NEW n \in Node, NEW f \in DATAFrame, <<n, f>> \in air,
           FirstSight(n, f), DeliverData(n, f) \/ RelayBroadcast(n, f)
    PROVE  Promises' /\ Phones!Next
<1>1. Carries(f)
    BY DEF PhoneInv, Promises, DataIsSent, DATAFrame, FrameOf
<1>2. \A m \in Node : issued[m] <= issued'[m]
    BY <1>1, DataFrames, DrawGrows DEF DeliverData, RelayBroadcast, PhoneInv
<1>3. PICK p \in sent : p.packetID = f.packetID /\ p.finalDestID = f.ext.finalDestID
    BY <1>1 DEF Carries, Sent
<1>4. ~Told(n, "BLE_Node", f.packetID) /\ ~Told(n, "BLE_Broadcast", f.packetID)
    <2>1. f.packetID \in PacketID
        BY DEF DATAFrame, FrameOf
    <2> QED BY <2>1, FirstSightRemembers DEF PhoneInv, Promises, ShownIsSeen, Shown
<1>5. CASE DeliverData(n, f)
    <2>1. Promises'
        BY <1>1, <1>2, <1>5, DataFrames, ShowStep DEF DeliverData
    <2>2. Phones!Deliver(n, p)
        BY <1>3, <1>4, <1>5 DEF DeliverData, Notify, Told, Phones!Deliver, Phones!Tell, Phones!Heard
    <2> QED BY <2>1, <2>2 DEF Phones!Next
<1>6. CASE RelayBroadcast(n, f)
    <2> DEFINE out == AckOf(n, f) \cup {Forwarded(n, f, BROADCAST_ADDR)}
    <2>1. \A g \in out : g.packetType = "DATA" => Carries(g)
        BY <1>1, DataFrames
    <2>2. Emit(n, f, out)
        BY <1>6 DEF RelayBroadcast
    <2>3. Promises'
        <3> HIDE DEF out
        <3> QED BY <1>1, <1>2, <1>6, <2>1, <2>2, ShowStep DEF RelayBroadcast
    <2>4. Phones!Broadcast(n, p)
        BY <1>3, <1>4, <1>6
           DEF RelayBroadcast, Notify, Told, Phones!Broadcast, Phones!Tell, Phones!Heard
    <2> QED BY <2>3, <2>4 DEF Phones!Next
<1> QED BY <1>5, <1>6

(* Storing an entry for a packet about which nothing is decided or pending. *)
LEMMA StoredVerdict ==
    ASSUME PhoneInv, Remembers, NEW n \in Node, NEW pid \in PacketID, NEW x,
           x.frame.packetID = pid, Fresh(n, pid),
           ackBuffer'[n] \subseteq ackBuffer[n] \cup {x},
           \A m \in Node : m # n => ackBuffer'[m] = ackBuffer[m],
           UNCHANGED <<expired, client, sent>>,
           \A m \in Node : InTransmit(m)' => InTransmit(m) /\ sender'[m] = sender[m],
           InTransmit(n)' => sender[n].frame.packetID # pid,
           pid[1] = n \/ pid \in receivedPacketIDs'[n],
           \E p \in sent : p.packetID = pid
    PROVE  OneVerdict'
<1>1. \A m \in Node : \A p : Decided(m, p)' <=> Decided(m, p)
    BY SameTold DEF Decided
<1>2. /\ Awaited(n)' \subseteq Awaited(n) \cup {x}
      /\ \A m \in Node : m # n => Awaited(m)' = Awaited(m)
    BY DEF Awaited
<1>3. \A m \in Node : \A p : Fresh(m, p) /\ (m # n \/ p # pid) => Fresh(m, p)'
    BY <1>1, <1>2 DEF Fresh
<1> SUFFICES ASSUME NEW m \in Node
             PROVE  /\ \A e, g \in Awaited(m)' : e.frame.packetID = g.frame.packetID => e = g
                    /\ ackBuffer'[m] \cap expired'[m] = {}
                    /\ \A e \in Awaited(m)' : ~Decided(m, e.frame.packetID)'
                    /\ InTransmit(m)' => Fresh(m, sender[m].frame.packetID)'
                    /\ \A p \in PacketID : ~Fresh(m, p)' =>
                           /\ p[1] = m \/ p \in receivedPacketIDs'[m]
                           /\ \E q \in sent' : q.packetID = p
    BY DEF OneVerdict
<1>4. /\ \A e, g \in Awaited(m) : e.frame.packetID = g.frame.packetID => e = g
      /\ ackBuffer[m] \cap expired[m] = {}
      /\ \A e \in Awaited(m) : ~Decided(m, e.frame.packetID)
      /\ InTransmit(m) => Fresh(m, sender[m].frame.packetID)
      /\ \A p \in PacketID : ~Fresh(m, p) =>
             /\ p[1] = m \/ p \in receivedPacketIDs[m]
             /\ \E q \in sent : q.packetID = p
    BY DEF PhoneInv, Promises, OneVerdict
<1>5. \A e, g \in Awaited(m)' : e.frame.packetID = g.frame.packetID => e = g
    BY <1>2, <1>4 DEF Fresh
<1>6. ackBuffer'[m] \cap expired'[m] = {}
    BY <1>4 DEF Fresh, Awaited
<1>7. \A e \in Awaited(m)' : ~Decided(m, e.frame.packetID)'
    BY <1>1, <1>2, <1>4 DEF Fresh
<1>8. InTransmit(m)' => Fresh(m, sender[m].frame.packetID)'
    <2> SUFFICES ASSUME InTransmit(m)' PROVE Fresh(m, sender[m].frame.packetID)'
        OBVIOUS
    <2>1. PICK p : p = sender[m].frame.packetID
        OBVIOUS
    <2>2. Fresh(m, p) /\ sender'[m].frame.packetID = p
        BY <1>4, <2>1
    <2>3. Fresh(m, p)'
        BY <1>3, <2>1, <2>2
    <2> QED BY <2>2, <2>3 DEF Fresh, Decided, Told
<1>9. \A p \in PacketID : ~Fresh(m, p)' =>
          /\ p[1] = m \/ p \in receivedPacketIDs'[m]
          /\ \E q \in sent' : q.packetID = p
    BY <1>3, <1>4 DEF Remembers
<1> QED BY <1>5, <1>6, <1>7, <1>8, <1>9

LEMMA ForwardKeeps ==
    ASSUME PhoneInv, TypeOK', NeverComesBack, NEW n \in Node, NEW f \in DATAFrame,
           <<n, f>> \in air, AddressedTo(n, f), FirstSight(n, f), ForwardData(n, f)
    PROVE  Promises' /\ UNCHANGED <<sent, client>>
<1> DEFINE dest == f.ext.finalDestID
<1>0. PICK onward : onward = Forwarded(n, f, routeTable[n][dest].nextHop)
    OBVIOUS
<1> DEFINE out == AckOf(n, f) \cup {onward}
           x == [frame |-> onward, attempts |-> 0]
           pid == f.packetID
<1>1. Carries(f) /\ f.packetType = "DATA" /\ pid \in PacketID
      /\ dest \in Node \ {n} /\ f.originNodeID \in Node
    BY DEF PhoneInv, Promises, DataIsSent, DATAFrame, FrameOf, ForwardData, Address
<1>2. /\ \A g \in out : g.packetType = "DATA" => Carries(g)
      /\ Carries(onward) /\ onward.packetID = pid /\ onward.ext = f.ext
      /\ \A m \in Node : issued[m] <= issued'[m]
    BY <1>0, <1>1, DataFrames, DrawGrows DEF ForwardData, PhoneInv
<1>3. f.originNodeID # n
    BY <1>1, ModelValues DEF NeverComesBack
<1>4. PICK p \in sent : p.packetID = pid /\ p.origin = f.originNodeID
    BY <1>1 DEF Carries, Sent
<1>5. pid[1] # n
    BY <1>3, <1>4 DEF PhoneInv, Promises, SentIsIssued
<1>6. /\ Remembers
      /\ pid \notin receivedPacketIDs[n]
      /\ pid \in receivedPacketIDs'[n]
    BY FirstSightRemembers DEF PhoneInv
<1>7. Fresh(n, pid)
    BY <1>1, <1>5, <1>6 DEF PhoneInv, Promises, OneVerdict
<1>8. /\ UNCHANGED <<dataBuffer, expired, sender, client, sent>>
      /\ air' \subseteq air \cup OnAir(n, out)
    BY <1>0 DEF ForwardData, Emit, OnAir
<1>9. /\ ackBuffer'[n] \subseteq ackBuffer[n] \cup {x}
      /\ \A m \in Node : m # n => ackBuffer'[m] = ackBuffer[m]
    <2>1. UNCHANGED ackBuffer \/ StoreIfRouted(n, onward)
        BY <1>0 DEF ForwardData
    <2> QED BY <2>1 DEF StoreIfRouted, storeAckPacket, PhoneInv, TypeOK
<1>10. InTransmit(n) => sender[n].frame.packetID # pid
    <2> SUFFICES ASSUME InTransmit(n) PROVE sender[n].frame.packetID[1] = n
        BY <1>5
    <2>1. Carries(sender[n].frame) /\ sender[n].frame.originNodeID = n
        BY DEF PhoneInv, Promises, DataIsSent
    <2>2. PICK q \in sent : q.packetID = sender[n].frame.packetID /\ q.origin = n
        BY <2>1 DEF Carries, Sent
    <2> QED BY <2>2 DEF PhoneInv, Promises, SentIsIssued
<1>11. x.frame = onward
    OBVIOUS
<1> HIDE DEF out, x
<1>12. OneVerdict'
    <2>1. x.frame.packetID = pid
        BY <1>2, <1>11
    <2>2. \A m \in Node : InTransmit(m)' => InTransmit(m) /\ sender'[m] = sender[m]
        BY <1>8 DEF InTransmit
    <2> HIDE DEF pid
    <2> QED BY <1>1, <1>4, <1>6, <1>7, <1>8, <1>9, <1>10, <2>1, <2>2, StoredVerdict
<1>13. SentStays
    BY <1>8 DEF SentStays
<1>14. DataIsSent'
    <2>1. \A g \in out : g.packetType = "DATA" => Carries(g)'
        BY <1>2, <1>13, CarriesStays
    <2>2. \A copy \in air' : copy[2].packetType = "DATA" => Carries(copy[2])'
        BY <1>8, <1>13, <2>1, AirCarries DEF PhoneInv, Promises
    <2>3. \A m \in Node : \A e \in Awaited(m)' :
              Carries(e.frame)' /\ e.frame.ext.finalDestID \in Node \ {m}
        <3>1. Carries(x.frame)' /\ x.frame.ext.finalDestID \in Node \ {n}
            BY <1>1, <1>2, <1>11, <1>13, CarriesStays
        <3>2. \A m \in Node : \A e \in Awaited(m)' : e \in Awaited(m) \/ (m = n /\ e = x)
            BY <1>8, <1>9 DEF Awaited
        <3>3. \A m \in Node : \A e \in Awaited(m) :
                  Carries(e.frame)' /\ e.frame.ext.finalDestID \in Node \ {m}
            BY <1>13, CarriesStays DEF PhoneInv, Promises, DataIsSent
        <3> QED BY <3>1, <3>2, <3>3
    <2> QED BY <1>8, <1>13, <2>2, <2>3, CarriesStays
            DEF PhoneInv, Promises, DataIsSent, InTransmit
<1>15. SentIsIssued'
    BY <1>2, <1>8, IssuedGrows DEF PhoneInv, Promises
<1>16. ShownIsSeen'
    BY <1>6, <1>8, SameTold DEF PhoneInv, Promises, ShownIsSeen, Shown, Remembers
<1> QED BY <1>8, <1>12, <1>14, <1>15, <1>16 DEF Promises

LEMMA RejectKeeps ==
    ASSUME PhoneInv, TypeOK', NEW n \in Node, NEW f \in DATAFrame, <<n, f>> \in air,
           FirstSight(n, f), RejectData(n, f)
    PROVE  Promises' /\ UNCHANGED <<sent, client>>
<1>1. Carries(f)
    BY DEF PhoneInv, Promises, DataIsSent, DATAFrame, FrameOf
<1>2. UNCHANGED <<dataBuffer, ackBuffer, expired, sender, client, sent>>
    BY DEF RejectData
<1>3. \A m \in Node : issued[m] <= issued'[m]
    <2>1. AcksDrawn(f) + 1 \in Nat
        BY DEF AcksDrawn
    <2> QED BY <2>1, DrawGrows DEF RejectData, PhoneInv
<1>4. PICK out : Emit(n, f, out) /\ \A g \in out : g.packetType # "DATA"
    <2>1. \A pid, b, o, d, p : sendRERR(n, pid, b, o, d, p).packetType = "RERR"
        BY DEF sendRERR, Originate
    <2> DEFINE rerr == sendRERR(n, NewID(n, AcksDrawn(f) + 1), n, f.originNodeID,
                                f.ext.finalDestID, f.packetID)
    <2>2. PICK r : Emit(n, f, AckOf(n, f) \cup {r}) /\ r.packetType = "RERR"
        <3>1. Emit(n, f, AckOf(n, f) \cup {rerr})
            BY DEF RejectData
        <3>2. rerr.packetType = "RERR"
            BY <2>1
        <3> HIDE DEF rerr
        <3> QED BY <3>1, <3>2
    <2>3. \A g \in AckOf(n, f) \cup {r} : g.packetType # "DATA"
        BY <1>1, <2>2, DataFrames
    <2> QED BY <2>2, <2>3
<1>5. Remembers
    BY FirstSightRemembers DEF PhoneInv
<1> QED BY <1>2, <1>3, <1>4, <1>5, QuietStep DEF Emit

-----------------------------------------------------------------------------
(* handleACK and the end of cleanupAckBuffer give verdicts. *)

LEMMA VerdictGiven ==
    ASSUME PhoneInv, Remembers, NEW n \in Node, NEW e \in Awaited(n),
           NEW type \in {"BLE_ACK", "BLE_ACK_FAILURE"}, Notify(n, type, e.frame.packetID),
           \A m \in Node : /\ ackBuffer'[m] \subseteq ackBuffer[m]
                           /\ expired'[m] \subseteq expired[m],
           \A g \in ackBuffer'[n] \cup expired'[n] : g.frame.packetID # e.frame.packetID,
           UNCHANGED <<sender, sent>>
    PROVE  OneVerdict'
<1> DEFINE pid == e.frame.packetID
<1>1. \A m \in Node : \A p : Decided(m, p)' <=> Decided(m, p) \/ (m = n /\ p = pid)
    <2>1. \A m \in Node : \A ty, p :
              Told(m, ty, p)' <=> Told(m, ty, p) \/ (m = n /\ ty = type /\ p = pid)
        BY NotifyTold DEF PhoneInv
    <2> HIDE DEF pid
    <2> QED BY <2>1 DEF Decided
<1>2. \A m \in Node : Awaited(m)' \subseteq Awaited(m)
    BY DEF Awaited
<1>3. \A m \in Node : \A p : Fresh(m, p) => Fresh(m, p)' \/ (m = n /\ p = pid)
    <2> HIDE DEF pid
    <2> QED BY <1>1, <1>2 DEF Fresh
<1>4. ~Fresh(n, pid)
    BY DEF Fresh
<1>5. pid \in PacketID
    BY DEF PhoneInv, TypeOK, Awaited, AckEntry, DATAFrame, FrameOf
<1>6. \A g \in Awaited(n)' : g.frame.packetID # pid
    BY DEF Awaited
<1> HIDE DEF pid
<1>7. ASSUME NEW m \in Node
      PROVE  /\ \A a, b \in Awaited(m)' : a.frame.packetID = b.frame.packetID => a = b
             /\ ackBuffer'[m] \cap expired'[m] = {}
             /\ \A a \in Awaited(m)' : ~Decided(m, a.frame.packetID)'
             /\ InTransmit(m)' => Fresh(m, sender[m].frame.packetID)'
             /\ \A p \in PacketID : ~Fresh(m, p)' =>
                    /\ p[1] = m \/ p \in receivedPacketIDs'[m]
                    /\ \E q \in sent' : q.packetID = p
    <2>1. /\ \A a, b \in Awaited(m) : a.frame.packetID = b.frame.packetID => a = b
          /\ ackBuffer[m] \cap expired[m] = {}
          /\ \A a \in Awaited(m) : ~Decided(m, a.frame.packetID)
          /\ InTransmit(m) => Fresh(m, sender[m].frame.packetID)
          /\ \A p \in PacketID : ~Fresh(m, p) =>
                 /\ p[1] = m \/ p \in receivedPacketIDs[m]
                 /\ \E q \in sent : q.packetID = p
        BY DEF PhoneInv, Promises, OneVerdict
    <2>2. \A a \in Awaited(m)' : ~Decided(m, a.frame.packetID)'
        BY <1>1, <1>2, <1>6, <2>1
    <2>3. InTransmit(m)' => Fresh(m, sender[m].frame.packetID)'
        <3> SUFFICES ASSUME InTransmit(m)' PROVE Fresh(m, sender[m].frame.packetID)'
            OBVIOUS
        <3>1. PICK p : p = sender[m].frame.packetID
            OBVIOUS
        <3>2. Fresh(m, p) /\ sender'[m].frame.packetID = p
            BY <2>1, <3>1 DEF InTransmit
        <3>3. Fresh(m, p)'
            BY <1>3, <1>4, <3>2
        <3> QED BY <3>2, <3>3 DEF Fresh, Decided, Told
    <2>4. \A p \in PacketID : ~Fresh(m, p)' =>
              /\ p[1] = m \/ p \in receivedPacketIDs'[m]
              /\ \E q \in sent' : q.packetID = p
        BY <1>3, <1>4, <1>5, <2>1 DEF Remembers
    <2> QED BY <1>2, <2>1, <2>2, <2>3, <2>4
<1> QED BY <1>7 DEF OneVerdict

LEMMA ACKKeeps ==
    ASSUME PhoneInv, TypeOK', NEW n \in Node, NEW f \in ACKFrame, FirstSight(n, f),
           HandleACK(n, f)
    PROVE  Promises' /\ [Phones!Next]_<<sent, client>>
<1> DEFINE pid == f.ext.originalPacketID
<1>1. /\ UNCHANGED <<routeTable, dataBuffer, expired, sender, issued, sent>>
      /\ air' \subseteq air \cup OnAir(n, {})
      /\ ackBuffer'[n] = ackBuffer[n] \ Pending(n, pid)
      /\ \A m \in Node : ackBuffer'[m] \subseteq ackBuffer[m]
    BY DEF HandleACK, Emit, PhoneInv, TypeOK
<1>2. Remembers
    BY FirstSightRemembers DEF PhoneInv
<1>3. \A m \in Node : issued[m] <= issued'[m]
    BY <1>1, DrawGrows DEF PhoneInv
<1>4. CASE UNCHANGED client
    BY <1>1, <1>2, <1>3, <1>4, QuietStep
<1>5. CASE (\E e \in Pending(n, pid) : OriginatedByMe(n, e)) /\ Notify(n, "BLE_ACK", pid)
    <2>1. PICK e \in ackBuffer[n] : e.frame.packetID = pid /\ e.frame.originNodeID = n
        BY <1>5 DEF Pending, OriginatedByMe
    <2>2. e \in Awaited(n) /\ Notify(n, "BLE_ACK", e.frame.packetID)
        BY <1>5, <2>1 DEF Awaited
    <2>3. \A g \in ackBuffer'[n] \cup expired'[n] : g.frame.packetID # e.frame.packetID
        <3>1. \A g \in Awaited(n) : g.frame.packetID = pid => g = e
            BY <2>1, <2>2 DEF PhoneInv, Promises, OneVerdict
        <3>2. e \notin expired[n]
            BY <2>1 DEF PhoneInv, Promises, OneVerdict
        <3> QED BY <1>1, <2>1, <3>1, <3>2 DEF Pending, Awaited
    <2>4. OneVerdict'
        BY <1>1, <1>2, <2>2, <2>3, VerdictGiven
    <2>5. SentStays
        BY <1>1 DEF SentStays
    <2>6. DataIsSent'
        <3>1. \A copy \in air' : copy[2].packetType = "DATA" => Carries(copy[2])'
            BY <1>1, <2>5, AirCarries DEF PhoneInv, Promises
        <3>2. \A m \in Node : Awaited(m)' \subseteq Awaited(m)
            BY <1>1 DEF Awaited
        <3> QED BY <1>1, <2>5, <3>1, <3>2, CarriesStays DEF PhoneInv, Promises, DataIsSent, InTransmit
    <2>7. SentIsIssued'
        BY <1>1, <1>3, IssuedGrows DEF PhoneInv, Promises
    <2>8. ShownIsSeen'
        <3>1. \A m \in Node : \A p : Shown(m, p)' <=> Shown(m, p)
            BY <1>5, NotifyTold DEF Shown, PhoneInv
        <3> QED BY <1>2, <3>1 DEF PhoneInv, Promises, ShownIsSeen, Remembers
    <2>9. PICK p \in sent : p.packetID = pid /\ p.origin = n
        <3>1. Carries(e.frame)
            BY <2>2 DEF PhoneInv, Promises, DataIsSent
        <3> QED BY <2>1, <3>1 DEF Carries, Sent
    <2>10. ~Told(n, "BLE_ACK", pid) /\ ~Told(n, "BLE_ACK_FAILURE", pid)
        BY <2>1, <2>2 DEF PhoneInv, Promises, OneVerdict, Decided
    <2>11. Phones!Acknowledge(n, p)
        BY <1>1, <1>5, <2>9, <2>10
           DEF Notify, Told, Phones!Acknowledge, Phones!Undecided, Phones!Tell, Phones!Heard
    <2> QED BY <2>4, <2>6, <2>7, <2>8, <2>11 DEF Promises, Phones!Next
<1> QED BY <1>4, <1>5 DEF HandleACK

LEMMA ReportKeeps ==
    ASSUME PhoneInv, TypeOK', NEW n \in Node, ReportExpired(n)
    PROVE  Promises' /\ Phones!Next
<1>1. PICK e \in expired[n] :
          /\ expired' = [expired EXCEPT ![n] = @ \ {e}]
          /\ air' = air \cup OnAir(n, {sendRERR(n, NewID(n, 1), n, e.frame.originNodeID,
                                               Undecipherable, e.frame.packetID)})
          /\ Draw(n, 1)
          /\ Notify(n, "BLE_ACK_FAILURE", e.frame.packetID)
    BY DEF ReportExpired
<1>2. UNCHANGED <<routeTable, receivedPacketIDs, dataBuffer, ackBuffer, sender, sent>>
    BY DEF ReportExpired
<1>3. /\ Remembers /\ SentStays /\ e \in Awaited(n)
      /\ expired'[n] = expired[n] \ {e}
      /\ \A m \in Node : expired'[m] \subseteq expired[m]
    BY <1>1, <1>2 DEF Remembers, SentStays, Awaited, PhoneInv, TypeOK
<1>4. \A g \in ackBuffer'[n] \cup expired'[n] : g.frame.packetID # e.frame.packetID
    BY <1>2, <1>3 DEF PhoneInv, Promises, OneVerdict, Awaited
<1>5. OneVerdict'
    BY <1>1, <1>2, <1>3, <1>4, VerdictGiven
<1>6. DataIsSent'
    <2>1. PICK g : air' = air \cup OnAir(n, {g}) /\ g.packetType = "RERR"
        <3> DEFINE rerr == sendRERR(n, NewID(n, 1), n, e.frame.originNodeID,
                                    Undecipherable, e.frame.packetID)
        <3>1. rerr.packetType = "RERR"
            BY DEF sendRERR, Originate
        <3>2. air' = air \cup OnAir(n, {rerr})
            BY <1>1
        <3> HIDE DEF rerr
        <3> QED BY <3>1, <3>2
    <2>2. \A copy \in air' : copy[2].packetType = "DATA" => Carries(copy[2])'
        BY <1>3, <2>1, AirCarries DEF PhoneInv, Promises
    <2>3. \A m \in Node : Awaited(m)' \subseteq Awaited(m)
        BY <1>2, <1>3 DEF Awaited
    <2> QED BY <1>2, <1>3, <2>2, <2>3, CarriesStays DEF PhoneInv, Promises, DataIsSent, InTransmit
<1>7. SentIsIssued'
    BY <1>1, <1>2, DrawGrows, IssuedGrows DEF PhoneInv, Promises
<1>8. ShownIsSeen'
    <2>1. \A m \in Node : \A p : Shown(m, p)' <=> Shown(m, p)
        BY <1>1, NotifyTold DEF Shown, PhoneInv
    <2> QED BY <1>2, <2>1 DEF PhoneInv, Promises, ShownIsSeen
<1>9. PICK p \in sent : p.packetID = e.frame.packetID /\ p.finalDestID \in Node \ {n}
    <2>1. Carries(e.frame) /\ e.frame.ext.finalDestID \in Node \ {n}
        BY <1>3 DEF PhoneInv, Promises, DataIsSent
    <2> QED BY <2>1 DEF Carries, Sent
<1>10. ~Told(n, "BLE_ACK", p.packetID) /\ ~Told(n, "BLE_ACK_FAILURE", p.packetID)
    BY <1>3, <1>9 DEF PhoneInv, Promises, OneVerdict, Decided
<1>11. Phones!Fail(n, p)
    BY <1>1, <1>2, <1>9, <1>10
       DEF Notify, Told, Phones!Fail, Phones!Undecided, Phones!Tell, Phones!Heard
<1> QED BY <1>5, <1>6, <1>7, <1>8, <1>11 DEF Promises, Phones!Next

(* cleanupAckBuffer counts an attempt or moves the entry out: the packet       *)
(* stays the one it was, in one place.                                       *)
LEMMA CleanupKeeps ==
    ASSUME PhoneInv, TypeOK', NEW n \in Node, CleanupAckBuffer(n)
    PROVE  Promises' /\ UNCHANGED <<sent, client>>
<1>1. PICK due \in SUBSET ackBuffer[n] :
          LET retry == {e \in due : MayRetry(e)}
          IN /\ ackBuffer' = [ackBuffer EXCEPT ![n] =
                    (@ \ due) \cup {Retried(e) : e \in retry}]
             /\ expired' = [expired EXCEPT ![n] = due \ retry]
             /\ air' = air \cup OnAir(n, {e.frame : e \in retry})
    BY DEF CleanupAckBuffer
<1> DEFINE retry == {e \in due : MayRetry(e)}
           out == {e.frame : e \in retry}
<1>2. /\ ackBuffer'[n] = (ackBuffer[n] \ due) \cup {Retried(e) : e \in retry}
      /\ expired'[n] = due \ retry
      /\ expired[n] = {}
      /\ \A m \in Node : m # n => ackBuffer'[m] = ackBuffer[m] /\ expired'[m] = expired[m]
      /\ air' = air \cup OnAir(n, out)
    BY <1>1 DEF CleanupAckBuffer, PhoneInv, TypeOK
<1>3. UNCHANGED <<receivedPacketIDs, dataBuffer, sender, issued, client, sent>>
    BY DEF CleanupAckBuffer
<1>4. SentStays
    BY <1>3 DEF SentStays
<1>5. \A e \in ackBuffer[n] : Retried(e).frame = e.frame
    BY DEF Retried, PhoneInv, TypeOK, AckEntry
<1>6. retry \subseteq due /\ due \subseteq ackBuffer[n]
    OBVIOUS
<1>7. \A g \in out : \E e \in ackBuffer[n] : g = e.frame
    OBVIOUS
<1> HIDE DEF retry, out
<1>8. ASSUME NEW e \in Awaited(n)'
      PROVE  \E z \in ackBuffer[n] : e.frame = z.frame /\ e = IF z \in retry THEN Retried(z) ELSE z
    BY <1>2, <1>5, <1>6 DEF Awaited
<1>9. \A m \in Node : m # n => Awaited(m)' = Awaited(m)
    BY <1>2 DEF Awaited
<1>10. ackBuffer[n] \subseteq Awaited(n)
    BY DEF Awaited
<1>11. \A m \in Node : \A p : Decided(m, p)' <=> Decided(m, p)
    BY <1>3, SameTold DEF Decided
<1>12. \A m \in Node : \A p : Fresh(m, p) => Fresh(m, p)'
    BY <1>8, <1>9, <1>10, <1>11 DEF Fresh
<1>13. OneVerdict'
    <2> SUFFICES ASSUME NEW m \in Node
                 PROVE  /\ \A e, g \in Awaited(m)' : e.frame.packetID = g.frame.packetID => e = g
                        /\ ackBuffer'[m] \cap expired'[m] = {}
                        /\ \A e \in Awaited(m)' : ~Decided(m, e.frame.packetID)'
                        /\ InTransmit(m)' => Fresh(m, sender[m].frame.packetID)'
                        /\ \A p \in PacketID : ~Fresh(m, p)' =>
                               /\ p[1] = m \/ p \in receivedPacketIDs'[m]
                               /\ \E q \in sent' : q.packetID = p
        BY DEF OneVerdict
    <2>1. /\ \A e, g \in Awaited(m) : e.frame.packetID = g.frame.packetID => e = g
          /\ ackBuffer[m] \cap expired[m] = {}
          /\ \A e \in Awaited(m) : ~Decided(m, e.frame.packetID)
          /\ InTransmit(m) => Fresh(m, sender[m].frame.packetID)
          /\ \A p \in PacketID : ~Fresh(m, p) =>
                 /\ p[1] = m \/ p \in receivedPacketIDs[m]
                 /\ \E q \in sent : q.packetID = p
        BY DEF PhoneInv, Promises, OneVerdict
    <2>2. \A e, g \in Awaited(m)' : e.frame.packetID = g.frame.packetID => e = g
        <3>1. CASE m = n
            BY <1>8, <1>10, <2>1, <3>1
        <3>2. CASE m # n
            BY <1>9, <2>1, <3>2
        <3> QED BY <3>1, <3>2
    <2>3. ackBuffer'[m] \cap expired'[m] = {}
        <3>1. CASE m # n
            BY <1>2, <2>1, <3>1
        <3>2. CASE m = n
            <4> SUFFICES ASSUME NEW e \in due \ retry, NEW z \in retry, e = Retried(z)
                         PROVE  FALSE
                BY <1>2, <3>2
            <4>1. e \in Awaited(n) /\ z \in Awaited(n) /\ e.frame = z.frame
                BY <1>5, <1>6, <1>10
            <4> QED BY <2>1, <3>2, <4>1
        <3> QED BY <3>1, <3>2
    <2>4. \A e \in Awaited(m)' : ~Decided(m, e.frame.packetID)'
        <3>1. \A e \in Awaited(m)' : \E z \in Awaited(m) : e.frame = z.frame
            BY <1>8, <1>9, <1>10
        <3> QED BY <1>11, <2>1, <3>1
    <2>5. InTransmit(m)' => Fresh(m, sender[m].frame.packetID)'
        <3> SUFFICES ASSUME InTransmit(m)' PROVE Fresh(m, sender[m].frame.packetID)'
            OBVIOUS
        <3>1. PICK p : p = sender[m].frame.packetID
            OBVIOUS
        <3>2. Fresh(m, p)' /\ sender'[m].frame.packetID = p
            BY <1>3, <1>12, <2>1, <3>1 DEF InTransmit
        <3> QED BY <3>2 DEF Fresh, Decided, Told
    <2>6. \A p \in PacketID : ~Fresh(m, p)' =>
              /\ p[1] = m \/ p \in receivedPacketIDs'[m]
              /\ \E q \in sent' : q.packetID = p
        BY <1>3, <1>12, <2>1
    <2> QED BY <2>2, <2>3, <2>4, <2>5, <2>6
<1>14. DataIsSent'
    <2>1. \A m \in Node : \A e \in Awaited(m) :
              Carries(e.frame) /\ e.frame.ext.finalDestID \in Node \ {m}
        BY DEF PhoneInv, Promises, DataIsSent
    <2>2. \A g \in out : g.packetType = "DATA" => Carries(g)'
        BY <1>4, <1>7, <1>10, <2>1, CarriesStays
    <2>3. \A copy \in air' : copy[2].packetType = "DATA" => Carries(copy[2])'
        BY <1>2, <1>4, <2>2, AirCarries DEF PhoneInv, Promises
    <2>4. \A m \in Node : \A e \in Awaited(m)' : \E z \in Awaited(m) : e.frame = z.frame
        BY <1>8, <1>9, <1>10
    <2>5. \A m \in Node : \A e \in Awaited(m)' :
              Carries(e.frame)' /\ e.frame.ext.finalDestID \in Node \ {m}
        BY <1>4, <2>1, <2>4, CarriesStays
    <2> QED BY <1>3, <1>4, <2>3, <2>5, CarriesStays
            DEF PhoneInv, Promises, DataIsSent, InTransmit
<1>15. SentIsIssued'
    BY <1>3, DrawGrows, IssuedGrows DEF PhoneInv, Promises
<1>16. ShownIsSeen'
    BY <1>3, SameTold DEF PhoneInv, Promises, ShownIsSeen, Shown
<1> QED BY <1>3, <1>13, <1>14, <1>15, <1>16 DEF Promises

-----------------------------------------------------------------------------
(* sendData. *)

(* A new packet: nobody has heard of its identifier. *)
LEMMA SendKeeps ==
    ASSUME PhoneInv, TypeOK', NEW n \in Node, NEW r \in Requests, r.from # r.to,
           sendData(n, r)
    PROVE  Promises' /\ Phones!Next
<1>0. PICK pid, bcast, held :
          /\ pid = NewID(n, 1)
          /\ bcast = dataFrame(n, pid, BROADCAST_ADDR, r.to, r.flags)
          /\ held = dataFrame(n, pid, routeTable[n][r.to].nextHop, r.to, r.flags)
    OBVIOUS
<1> DEFINE p == [packetID |-> pid, origin |-> n, finalDestID |-> r.to]
<1>1. /\ r.from = n /\ sender[n] = Idle /\ Draw(n, 1) /\ sent' = sent \cup {p}
      /\ UNCHANGED <<routeTable, receivedPacketIDs, dataBuffer, ackBuffer, expired, client>>
    BY <1>0 DEF sendData, Accept
<1>2. pid = <<n, issued[n] + 1>> /\ pid \in PacketID /\ issued'[n] = issued[n] + 1
      /\ issued[n] \in Nat
    BY <1>0, <1>1 DEF NewID, Draw, PacketID, PhoneInv, TypeOK
<1>3. \A q \in sent : q.packetID # pid
    <2> SUFFICES ASSUME NEW q \in sent, q.packetID = <<n, issued[n] + 1>> PROVE FALSE
        BY <1>2
    <2>1. q.packetID[1] = q.origin /\ q.packetID[2] <= issued[q.origin]
        BY DEF PhoneInv, Promises, SentIsIssued
    <2> QED BY <1>2, <2>1
<1>4. /\ \A f : /\ dataFrame(n, pid, f, r.to, r.flags).packetID = pid
                /\ dataFrame(n, pid, f, r.to, r.flags).originNodeID = n
                /\ dataFrame(n, pid, f, r.to, r.flags).ext.finalDestID = r.to
    BY DEF dataFrame, Originate
<1>5. r.to \in Address /\ (r.to # BROADCAST_ADDR => r.to \in Node \ {n})
    BY <1>1, RequestsAssumption DEF Address
<1>6. Phones!Accept(p)
    <2>1. p \in Phones!Packet
        BY <1>2, <1>5 DEF Phones!Packet, Address
    <2> QED BY <1>1, <1>3, <2>1 DEF Phones!Accept
<1>7. p \in sent' /\ Phones!Next
    BY <1>1, <1>6 DEF Phones!Next
<1>8. SentStays
    BY <1>1 DEF SentStays
<1>9. \/ /\ UNCHANGED sender /\ air' = air \cup OnAir(n, {bcast})
      \/ /\ UNCHANGED air /\ r.to # BROADCAST_ADDR
         /\ \/ sender' = [sender EXCEPT ![n] = [step |-> "buffer", packetID |-> pid, dest |-> r.to]]
            \/ sender' = [sender EXCEPT ![n] = [step |-> "transmit", frame |-> held]]
    BY <1>0 DEF sendData
<1>10. Fresh(n, pid)
    BY <1>2, <1>3 DEF PhoneInv, Promises, OneVerdict
<1>11. \A m \in Node : \A q : Fresh(m, q) <=> Fresh(m, q)'
    BY <1>1, SameTold DEF Fresh, Decided, Awaited
<1>12. bcast.packetID = pid /\ bcast.originNodeID = n /\ bcast.ext.finalDestID = r.to
       /\ held.packetID = pid /\ held.originNodeID = n /\ held.ext.finalDestID = r.to
    BY <1>0, <1>4
<1>13. p.packetID = pid /\ p.origin = n /\ p.finalDestID = r.to
    OBVIOUS
<1>14. Sent(pid, n, r.to)' /\ Carries(bcast)' /\ Carries(held)'
    BY <1>7, <1>12 DEF Sent, Carries
<1> HIDE DEF p
<1>15. \A m \in Node :
           \/ sender'[m] = sender[m]
           \/ /\ m = n /\ r.to # BROADCAST_ADDR
              /\ sender'[n] = [step |-> "buffer", packetID |-> pid, dest |-> r.to]
           \/ /\ m = n /\ r.to # BROADCAST_ADDR
              /\ sender'[n] = [step |-> "transmit", frame |-> held]
    BY <1>9 DEF PhoneInv, TypeOK
<1>16. \A m \in Node : InTransmit(m)' =>
           \/ InTransmit(m) /\ sender'[m] = sender[m]
           \/ m = n /\ r.to # BROADCAST_ADDR /\ sender'[m].frame = held
    BY <1>15 DEF InTransmit
<1>17. DataIsSent'
    <2>1. \A copy \in air' : copy[2].packetType = "DATA" => Carries(copy[2])'
        <3>1. PICK f : Carries(f)' /\ air' \subseteq air \cup OnAir(n, {f})
            BY <1>9, <1>14
        <3> QED BY <1>8, <3>1, AirCarries DEF PhoneInv, Promises
    <2>2. \A m \in Node : InTransmit(m)' =>
              /\ Carries(sender[m].frame)'
              /\ sender'[m].frame.originNodeID = m
              /\ sender'[m].frame.ext.finalDestID \in Node \ {m}
        <3> SUFFICES ASSUME NEW m \in Node, InTransmit(m)'
                     PROVE  /\ Carries(sender[m].frame)'
                            /\ sender'[m].frame.originNodeID = m
                            /\ sender'[m].frame.ext.finalDestID \in Node \ {m}
            OBVIOUS
        <3>1. CASE InTransmit(m) /\ sender'[m] = sender[m]
            BY <1>8, <3>1, CarriesStays DEF PhoneInv, Promises, DataIsSent, Carries, Sent, SentStays
        <3>2. CASE m = n /\ r.to # BROADCAST_ADDR /\ sender'[m].frame = held
            BY <1>5, <1>12, <1>14, <3>2 DEF Carries, Sent
        <3> QED BY <1>16, <3>1, <3>2
    <2>3. \A m \in Node : (sender'[m].step = "buffer") => Sent(sender[m].packetID, m, sender[m].dest)'
        <3> SUFFICES ASSUME NEW m \in Node, sender'[m].step = "buffer"
                     PROVE  Sent(sender[m].packetID, m, sender[m].dest)'
            OBVIOUS
        <3>1. CASE sender'[m] = sender[m]
            BY <1>8, <3>1 DEF PhoneInv, Promises, DataIsSent, Sent, SentStays
        <3>2. CASE m = n /\ sender'[n] = [step |-> "buffer", packetID |-> pid, dest |-> r.to]
            BY <1>14, <3>2 DEF Sent
        <3> QED BY <1>15, <3>1, <3>2
    <2> QED BY <1>1, <1>8, <2>1, <2>2, <2>3, CarriesStays
            DEF PhoneInv, Promises, DataIsSent, Awaited
<1>18. SentIsIssued'
    <2> SUFFICES ASSUME NEW q \in sent'
                 PROVE  q.packetID[1] = q.origin /\ q.packetID[2] <= issued'[q.origin]
        BY DEF SentIsIssued
    <2>1. CASE q = p
        BY <1>2, <1>13, <2>1
    <2>2. CASE q \in sent
        <3>1. q.packetID[1] = q.origin /\ q.packetID[2] <= issued[q.origin]
            BY <2>2 DEF PhoneInv, Promises, SentIsIssued
        <3>2. q.origin \in Node /\ q.packetID \in PacketID
            BY <2>2 DEF PhoneInv, TypeOK
        <3>3. issued[q.origin] <= issued'[q.origin]
            BY <1>1, <3>2, DrawGrows DEF PhoneInv
        <3>4. issued[q.origin] \in Nat /\ issued'[q.origin] \in Nat /\ q.packetID[2] \in Nat
            BY <3>2 DEF PhoneInv, TypeOK, PacketID
        <3> QED BY <3>1, <3>3, <3>4
    <2> QED BY <1>1, <2>1, <2>2
<1>19. ShownIsSeen'
    BY <1>1, SameTold DEF PhoneInv, Promises, ShownIsSeen, Shown
<1>20. OneVerdict'
    <2> SUFFICES ASSUME NEW m \in Node PROVE InTransmit(m)' => Fresh(m, sender[m].frame.packetID)'
        BY <1>1, <1>11, SameTold
           DEF PhoneInv, Promises, OneVerdict, Awaited, Decided
    <2> SUFFICES ASSUME InTransmit(m)' PROVE Fresh(m, sender[m].frame.packetID)'
        OBVIOUS
    <2>1. PICK q : q = sender'[m].frame.packetID
        OBVIOUS
    <2>2. Fresh(m, q)
        <3>1. CASE InTransmit(m) /\ sender'[m] = sender[m]
            BY <2>1, <3>1 DEF PhoneInv, Promises, OneVerdict
        <3>2. CASE m = n /\ sender'[m].frame = held
            BY <1>10, <1>12, <2>1, <3>2
        <3> QED BY <1>16, <3>1, <3>2
    <2>3. Fresh(m, q)'
        BY <1>11, <2>2
    <2> QED BY <2>1, <2>3 DEF Fresh, Decided, Told
<1> QED BY <1>7, <1>17, <1>18, <1>19, <1>20 DEF Promises

(* The task goes on with the packet it has, or has done with it. *)
LEMMA TaskGoesOn ==
    ASSUME PhoneInv, TypeOK', Remembers,
           UNCHANGED <<expired, client, sent, ackBuffer>>,
           \A m \in Node :
               /\ sender'[m].step = "buffer" => sender'[m] = sender[m]
               /\ InTransmit(m)' => InTransmit(m) /\ sender'[m].frame = sender[m].frame,
           \A m, d \in Node : \A pid \in dataBuffer'[m][d] : Sent(pid, m, d),
           \A m \in Node : issued[m] <= issued'[m],
           NEW n, NEW out, air' \subseteq air \cup OnAir(n, out),
           \A g \in out : g.packetType = "DATA" => Carries(g)
    PROVE  Promises'
<1>1. SentStays
    BY DEF SentStays
<1>2. DataIsSent'
    <2>1. \A g \in out : g.packetType = "DATA" => Carries(g)'
        BY <1>1, CarriesStays
    <2>2. \A copy \in air' : copy[2].packetType = "DATA" => Carries(copy[2])'
        BY <1>1, <2>1, AirCarries DEF PhoneInv, Promises
    <2>3. \A m \in Node : InTransmit(m)' =>
              /\ Carries(sender[m].frame)'
              /\ sender'[m].frame.originNodeID = m
              /\ sender'[m].frame.ext.finalDestID \in Node \ {m}
        BY DEF PhoneInv, Promises, DataIsSent, Carries, Sent
    <2>4. \A m \in Node : (sender'[m].step = "buffer") => Sent(sender[m].packetID, m, sender[m].dest)'
        BY DEF PhoneInv, Promises, DataIsSent, Sent
    <2>5. \A m, d \in Node : \A pid \in dataBuffer'[m][d] : Sent(pid, m, d)'
        BY DEF Sent
    <2> QED BY <1>1, <2>2, <2>3, <2>4, <2>5, CarriesStays
            DEF PhoneInv, Promises, DataIsSent, Awaited
<1>3. SentIsIssued'
    BY IssuedGrows DEF PhoneInv, Promises
<1>4. ShownIsSeen'
    BY SameTold DEF PhoneInv, Promises, ShownIsSeen, Shown, Remembers
<1>5. OneVerdict'
    <2>1. \A m \in Node : \A q : Fresh(m, q) <=> Fresh(m, q)'
        BY SameTold DEF Fresh, Decided, Awaited
    <2> SUFFICES ASSUME NEW m \in Node PROVE InTransmit(m)' => Fresh(m, sender[m].frame.packetID)'
        BY <2>1, SameTold
           DEF PhoneInv, Promises, OneVerdict, Awaited, Decided, Remembers
    <2> SUFFICES ASSUME InTransmit(m)' PROVE Fresh(m, sender[m].frame.packetID)'
        OBVIOUS
    <2>2. PICK q : q = sender'[m].frame.packetID
        OBVIOUS
    <2>3. Fresh(m, q)'
        BY <2>1, <2>2 DEF PhoneInv, Promises, OneVerdict
    <2> QED BY <2>2, <2>3 DEF Fresh, Decided, Told
<1> QED BY <1>2, <1>3, <1>4, <1>5 DEF Promises

(* The packet waits for a route and the request goes out. *)
LEMMA BufferKeeps ==
    ASSUME PhoneInv, TypeOK', NEW n \in Node, SendDataBuffer(n)
    PROVE  Promises' /\ UNCHANGED <<sent, client>>
<1> DEFINE rreq == sendRREQ(n, NewID(n, 1), sender[n].dest)
<1>1. UNCHANGED <<receivedPacketIDs, ackBuffer, expired, client, sent>>
    BY DEF SendDataBuffer
<1>2. sender'[n] = Idle /\ \A m \in Node : m # n => sender'[m] = sender[m]
    BY DEF SendDataBuffer, PhoneInv, TypeOK
<1>3. sender[n].step = "buffer" /\ sender[n].dest \in Node
    BY DEF SendDataBuffer, PhoneInv, TypeOK, Sending, Idle
<1>4. Sent(sender[n].packetID, n, sender[n].dest)
    BY <1>3 DEF PhoneInv, Promises, DataIsSent
<1>5. \A m, d \in Node : \A pid \in dataBuffer'[m][d] : Sent(pid, m, d)
    <2> SUFFICES ASSUME NEW m \in Node, NEW d \in Node, NEW pid \in dataBuffer'[m][d],
                        pid \notin dataBuffer[m][d]
                 PROVE  m = n /\ d = sender[n].dest /\ pid = sender[n].packetID
        BY <1>4 DEF PhoneInv, Promises, DataIsSent
    <2> QED BY <1>3 DEF SendDataBuffer, PhoneInv, TypeOK
<1>6. \A m \in Node : issued[m] <= issued'[m]
    BY DrawGrows DEF SendDataBuffer, PhoneInv
<1>7. air' = air \cup OnAir(n, {rreq}) /\ rreq.packetType # "DATA"
    BY DEF SendDataBuffer, sendRREQ, Originate
<1>8. Remembers
    BY <1>1 DEF Remembers
<1>9. \A m \in Node : /\ sender'[m].step = "buffer" => sender'[m] = sender[m]
                      /\ InTransmit(m)' => InTransmit(m) /\ sender'[m].frame = sender[m].frame
    BY <1>2 DEF InTransmit, Idle
<1> HIDE DEF rreq
<1> QED BY <1>1, <1>5, <1>6, <1>7, <1>8, <1>9, TaskGoesOn

(* What the task holds while it transmits is a data packet. *)
LEMMA HeldFrame ==
    ASSUME TypeOK, NEW n \in Node, InTransmit(n)
    PROVE  sender[n] \in [step : {"transmit", "store"}, frame : DATAFrame]
<1>1. sender[n] \in Sending \cup {Idle}
    BY DEF TypeOK
<1>2. sender[n].step \in {"transmit", "store"}
    BY DEF InTransmit
<1> QED BY <1>1, <1>2 DEF Sending, Idle

(* The packet goes out, or finds the transmit queue full. *)
LEMMA TransmitKeeps ==
    ASSUME PhoneInv, TypeOK', NEW n \in Node, SendDataTransmit(n) \/ SendDataDrop(n)
    PROVE  Promises' /\ UNCHANGED <<sent, client>>
<1>1. UNCHANGED <<receivedPacketIDs, dataBuffer, issued, ackBuffer, expired, client, sent>>
    BY DEF SendDataTransmit, SendDataDrop
<1>2. InTransmit(n)
    BY DEF InTransmit, SendDataTransmit, SendDataDrop
<1>3. /\ \/ sender'[n] = Idle
         \/ sender'[n].step = "store" /\ sender'[n].frame = sender[n].frame
      /\ \A m \in Node : m # n => sender'[m] = sender[m]
    <2>1. sender[n] \in [step : {"transmit", "store"}, frame : DATAFrame]
        BY <1>2, HeldFrame DEF PhoneInv
    <2> QED BY <2>1 DEF SendDataTransmit, SendDataDrop, PhoneInv, TypeOK
<1>4. air' \subseteq air \cup OnAir(n, {sender[n].frame})
    BY DEF SendDataTransmit, SendDataDrop
<1>5. Carries(sender[n].frame)
    BY <1>2 DEF PhoneInv, Promises, DataIsSent
<1>6. \A m, d \in Node : \A pid \in dataBuffer'[m][d] : Sent(pid, m, d)
    BY <1>1 DEF PhoneInv, Promises, DataIsSent
<1>7. \A m \in Node : issued[m] <= issued'[m]
    BY <1>1, DrawGrows DEF PhoneInv
<1>8. Remembers
    BY <1>1 DEF Remembers
<1>9. \A m \in Node : /\ sender'[m].step = "buffer" => sender'[m] = sender[m]
                      /\ InTransmit(m)' => InTransmit(m) /\ sender'[m].frame = sender[m].frame
    BY <1>2, <1>3 DEF InTransmit, Idle
<1>10. PICK out : out = {sender[n].frame}
    OBVIOUS
<1> QED BY <1>1, <1>4, <1>5, <1>6, <1>7, <1>8, <1>9, <1>10, TaskGoesOn

(* The answer may have come before the entry: then it waits for nothing, and   *)
(* is given up later; still no verdict was given before.                     *)
LEMMA StoreKeeps ==
    ASSUME PhoneInv, TypeOK', NEW n \in Node, SendDataStore(n)
    PROVE  Promises' /\ UNCHANGED <<sent, client>>
<1>1. PICK f : f = sender[n].frame
    OBVIOUS
<1> DEFINE x == [frame |-> f, attempts |-> 0]
<1>2. UNCHANGED <<receivedPacketIDs, dataBuffer, issued, expired, air, client, sent>>
    BY DEF SendDataStore
<1>3. InTransmit(n) /\ f \in DATAFrame
    <2>1. InTransmit(n)
        BY DEF SendDataStore, InTransmit
    <2> QED BY <1>1, <2>1, HeldFrame DEF PhoneInv
<1>4. sender'[n] = Idle /\ \A m \in Node : m # n => sender'[m] = sender[m]
    BY DEF SendDataStore, PhoneInv, TypeOK
<1>5. /\ ackBuffer'[n] \subseteq ackBuffer[n] \cup {x}
      /\ \A m \in Node : m # n => ackBuffer'[m] = ackBuffer[m]
    BY <1>1 DEF SendDataStore, StoreIfRouted, storeAckPacket, PhoneInv, TypeOK
<1>6. Carries(f) /\ f.originNodeID = n /\ f.ext.finalDestID \in Node \ {n}
    BY <1>1, <1>3 DEF PhoneInv, Promises, DataIsSent
<1>7. PICK q \in sent : q.packetID = f.packetID /\ q.origin = n
    BY <1>6 DEF Carries, Sent
<1>8. PICK pid \in PacketID : pid = f.packetID
    BY <1>3 DEF DATAFrame, FrameOf
<1>9. pid[1] = n
    BY <1>7, <1>8 DEF PhoneInv, Promises, SentIsIssued
<1>10. Fresh(n, pid)
    BY <1>1, <1>3, <1>8 DEF PhoneInv, Promises, OneVerdict
<1>11. \A m \in Node : InTransmit(m)' => InTransmit(m) /\ sender'[m] = sender[m] /\ m # n
    BY <1>4 DEF InTransmit, Idle
<1>12. x.frame = f
    OBVIOUS
<1> HIDE DEF x
<1>13. Remembers /\ SentStays
    BY <1>2 DEF Remembers, SentStays
<1>14. OneVerdict'
    BY <1>2, <1>5, <1>7, <1>8, <1>9, <1>10, <1>11, <1>12, <1>13, StoredVerdict
<1>15. DataIsSent'
    <2>1. \A m \in Node : \A e \in Awaited(m)' : e \in Awaited(m) \/ (m = n /\ e = x)
        BY <1>2, <1>5 DEF Awaited
    <2>2. \A m \in Node : \A e \in Awaited(m)' :
              Carries(e.frame)' /\ e.frame.ext.finalDestID \in Node \ {m}
        BY <1>6, <1>12, <1>13, <2>1, CarriesStays DEF PhoneInv, Promises, DataIsSent
    <2>3. \A copy \in air' : copy[2].packetType = "DATA" => Carries(copy[2])'
        BY <1>2, <1>13, CarriesStays DEF PhoneInv, Promises, DataIsSent
    <2>4. \A m \in Node : sender'[m].step = "buffer" => sender'[m] = sender[m]
        BY <1>4 DEF Idle
    <2> QED BY <1>2, <1>11, <1>13, <2>2, <2>3, <2>4, CarriesStays
            DEF PhoneInv, Promises, DataIsSent, InTransmit, Carries, Sent
<1>16. SentIsIssued'
    BY <1>2, DrawGrows, IssuedGrows DEF PhoneInv, Promises
<1>17. ShownIsSeen'
    BY <1>2, SameTold DEF PhoneInv, Promises, ShownIsSeen, Shown
<1> QED BY <1>2, <1>14, <1>15, <1>16, <1>17 DEF Promises

-----------------------------------------------------------------------------
(* Every step. *)

LEMMA DataKeeps ==
    ASSUME PhoneInv, TypeOK', NeverComesBack, NEW n \in Node, NEW f \in DATAFrame,
           <<n, f>> \in air, AddressedTo(n, f), FirstSight(n, f), HandleData(n, f)
    PROVE  Promises' /\ [Phones!Next]_<<sent, client>>
BY DeliverKeeps, ForwardKeeps, RejectKeeps DEF HandleData

LEMMA RouterKeeps ==
    ASSUME PhoneInv, TypeOK', NeverComesBack, NEW n \in Node, RouterTask(n)
    PROVE  Promises' /\ [Phones!Next]_<<sent, client>>
<1>1. PICK f \in Frame : <<n, f>> \in air /\ handlePacket(n, f)
    BY RouterFrame DEF PhoneInv
<1>2. CASE tryImplicitAck(n, f) \/ DropDuplicate(n, f) \/ Overhear(n, f)
    BY <1>2, UnhandledKeeps
<1>3. CASE CrashOnRERR(n, f)
    <2>1. LoseState(n) /\ air' \subseteq air /\ UNCHANGED <<issued, sent>>
        BY <1>3 DEF CrashOnRERR
    <2>2. Promises'
        BY <2>1, LoseStateKeeps
    <2>3. Phones!Reboot(n)
        BY <2>1 DEF LoseState, Phones!Reboot
    <2> QED BY <2>2, <2>3 DEF Phones!Next
<1>4. CASE HandleFrame(n, f)
    <2>1. FirstSight(n, f) /\ AddressedTo(n, f)
        BY <1>4 DEF HandleFrame
    <2>2. CASE f.packetType = "RREQ" /\ HandleRREQ(n, f)
        BY <2>1, <2>2, FrameKinds, RREQKeeps
    <2>3. CASE f.packetType = "RREP" /\ HandleRREP(n, f)
        BY <2>1, <2>3, FrameKinds, RREPKeeps
    <2>4. CASE f.packetType = "RERR" /\ HandleRERR(n, f)
        BY <2>1, <2>4, FrameKinds, RERRKeeps
    <2>5. CASE f.packetType = "DATA" /\ HandleData(n, f)
        BY <1>1, <2>1, <2>5, FrameKinds, DataKeeps
    <2>6. CASE f.packetType = "ACK" /\ HandleACK(n, f)
        BY <2>1, <2>6, FrameKinds, ACKKeeps
    <2> QED BY <1>4, <2>2, <2>3, <2>4, <2>5, <2>6 DEF HandleFrame
<1> QED BY <1>1, <1>2, <1>3, <1>4 DEF handlePacket

LEMMA StepKeeps ==
    ASSUME \A r \in Requests : r.from # r.to, PhoneInv, NeverComesBack, [Next]_vars
    PROVE  PhoneInv' /\ [Phones!Next]_<<sent, client>>
<1>1. CASE UNCHANGED vars
    <2>1. TypeOK'
        BY <1>1 DEF vars, PhoneInv, TypeOK
    <2>2. UNCHANGED <<receivedPacketIDs, ackBuffer, expired, sender, dataBuffer, air, issued,
                      client, sent>>
        BY <1>1 DEF vars
    <2>3. \A m \in Node : issued[m] <= issued'[m]
        BY <2>2, DrawGrows DEF PhoneInv
    <2>4. /\ \A m, d \in Node : dataBuffer'[m][d] \subseteq dataBuffer[m][d]
          /\ \A m \in Node : ackBuffer'[m] \subseteq ackBuffer[m]
          /\ \A n : air' \subseteq air \cup OnAir(n, {})
          /\ Remembers
        BY <2>2 DEF Remembers
    <2>5. Promises'
        BY <2>1, <2>2, <2>3, <2>4, QuietStep
    <2> QED BY <2>1, <2>2, <2>5 DEF PhoneInv
<1>2. ASSUME NEW n \in Node, RouterTask(n)
      PROVE  PhoneInv' /\ [Phones!Next]_<<sent, client>>
    <2>1. TypeOK'
        BY <1>2, RouterFrame, PacketType DEF PhoneInv
    <2> QED BY <1>2, <2>1, RouterKeeps DEF PhoneInv
<1>3. ASSUME NEW n \in Node, ApplicationTask(n)
      PROVE  PhoneInv' /\ [Phones!Next]_<<sent, client>>
    <2>1. TypeOK'
        BY <1>3, ApplicationType DEF PhoneInv
    <2> QED BY <1>3, <2>1, SendKeeps, BufferKeeps, TransmitKeeps, StoreKeeps
            DEF PhoneInv, ApplicationTask
<1>4. ASSUME NEW n \in Node, TimerWorker(n)
      PROVE  PhoneInv' /\ [Phones!Next]_<<sent, client>>
    <2>1. TypeOK'
        BY <1>4, TimerType DEF PhoneInv
    <2> QED BY <1>4, <2>1, CleanupKeeps, ReportKeeps DEF PhoneInv, TimerWorker
<1>5. ASSUME NEW n \in Node, Restart(n)
      PROVE  PhoneInv' /\ [Phones!Next]_<<sent, client>>
    <2>1. TypeOK'
        BY <1>5, RestartType DEF PhoneInv
    <2>2. LoseState(n) /\ air' \subseteq air /\ UNCHANGED <<issued, sent>>
        BY <1>5 DEF Restart
    <2>3. Promises'
        BY <2>1, <2>2, LoseStateKeeps
    <2>4. Phones!Reboot(n)
        BY <2>2 DEF LoseState, Phones!Reboot
    <2> QED BY <2>1, <2>3, <2>4 DEF PhoneInv, Phones!Next
<1> QED BY <1>1, <1>2, <1>3, <1>4, <1>5 DEF Next

(* A phone is shown a message once, only where it was sent, and its sender is  *)
(* given one verdict on it: handlePacket, sendData, cleanupAckBuffer and     *)
(* reboots, in any interleaving on a medium that loses, delays and reorders, *)
(* implement PhoneService, unless a packet comes back to its origin.         *)
THEOREM PhonesServed ==
    ASSUME \A r \in Requests : r.from # r.to
    PROVE  Spec /\ []NeverComesBack => PhoneServiceHolds
<1>1. Init => PhoneInv
    <2>1. Init => TypeOK
        BY BoundsAssumption DEF Init, TypeOK
    <2>2. Init => Promises
        BY DEF Init, Promises, DataIsSent, SentIsIssued, ShownIsSeen, OneVerdict, Awaited,
               InTransmit, Shown, Decided, Told, Fresh, Idle
    <2> QED BY <2>1, <2>2 DEF PhoneInv
<1>2. Init => Phones!Init
    BY DEF Init, Phones!Init
<1>3. PhoneInv /\ NeverComesBack /\ [Next]_vars => PhoneInv' /\ [Phones!Next]_<<sent, client>>
    BY StepKeeps
<1> QED BY <1>1, <1>2, <1>3, PTL DEF Spec, PhoneServiceHolds, Phones!Spec

=============================================================================
