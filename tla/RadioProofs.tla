----------------------------- MODULE RadioProofs -----------------------------
(***************************************************************************)
(* RadioManager for queues of any length: the two tasks and the interrupt  *)
(* routine never disturb a transmission through the radio task, never lose *)
(* a wake-up, and leave the radio listening.                               *)
(***************************************************************************)
EXTENDS RadioManager, TLAPS

(* Where DIO1 is detached: from the channel check to the end of the start. *)
Detached ==
    txPc \in {"scan", "scanning", "guard", "start", "attach", "fallback"} => ~dio1Attached

(* When the guard time is over, the radio task has nothing left to do, and    *)
(* gets nothing to do until DIO1 is attached again.                          *)
Drained ==
    txPc \in {"start", "attach", "fallback"} => radioPc = "wait" /\ ~irqSemaphore

(* The transmission being started is flagged, and in flight until DIO1 is     *)
(* attached.                                                                 *)
Starting ==
    /\ txPc = "start" => isTransmitting
    /\ txPc = "attach" => mode = "tx"

(* While a transmission is in flight the radio task sleeps. *)
Asleep == irqSemaphore \/ radioPc # "wait" => mode # "tx"

(* A transmission in flight is flagged, and its end will be noticed. *)
InFlight ==
    mode = "tx" =>
        /\ isTransmitting
        /\ txPc \in {"attach", "receive", "test", "await", "standby"}
        /\ txPc = "attach" \/ dio1Attached

(* The flag means a transmission in flight, one whose end is being handled,   *)
(* or one being prepared.                                                    *)
Flagged ==
    isTransmitting =>
        \/ mode = "tx"
        \/ irqSemaphore
        \/ radioPc \in {"test", "complete"}
        \/ txPc \in {"standby", "detach", "scan", "scanning", "guard", "start"}

(* Between two packets the radio listens or sends, or will be told to listen, *)
(* and dio1Isr is attached unless the last start failed.                     *)
Between ==
    /\ txPc \in {"receive", "test", "await"} =>
           /\ \/ mode \in {"rx", "tx"}
              \/ irqSemaphore
              \/ radioPc \in {"test", "complete", "resume", "read", "restart"}
           /\ dio1Attached \/ ~startOK
    /\ txPc = "fallback" => ~startOK

RadioInv ==
    /\ Detached
    /\ Drained
    /\ Starting
    /\ Asleep
    /\ InFlight
    /\ Flagged
    /\ WaiterIsWoken
    /\ Between

(* The types are kept by every step. *)
LEMMA RadioTypes ==
    ASSUME TypeOK, [Next]_vars
    PROVE  TypeOK'
<1>0. CASE UNCHANGED vars
  BY <1>0 DEF TypeOK, vars
<1>1. CASE enqueueTxPacket
  BY <1>1, QueueAssumption DEF TypeOK, enqueueTxPacket, HasRoom
<1>2. CASE enqueueRxPacket
  BY <1>2, QueueAssumption DEF TypeOK, enqueueRxPacket, HasRoom
<1>3. CASE dequeueRxPacket
  BY <1>3, QueueAssumption DEF TypeOK, dequeueRxPacket
<1>4. CASE FrameReceived
  BY <1>4, QueueAssumption DEF TypeOK, FrameReceived, Dio1Rises
<1>5. CASE TransmitDone
  BY <1>5, QueueAssumption DEF TypeOK, Mode, TransmitDone, Dio1Rises, OutlastsAttach
<1>6. CASE RadioTask
  <2>1. CASE RadioWoken
    BY <2>1 DEF TypeOK, RadioPc, Mode, RadioWoken, RadioStep
  <2>2. CASE RadioTest
    BY <2>2 DEF TypeOK, RadioPc, Mode, RadioTest, RadioStep
  <2>3. CASE CompleteTransmission
    BY <2>3 DEF TypeOK, RadioPc, Mode, CompleteTransmission, RadioStep, FlagCleared
  <2>4. CASE ResumeReceive
    BY <2>4 DEF TypeOK, RadioPc, Mode, ResumeReceive, RadioStep, ListenAgain
  <2>5. CASE GiveTxDone
    BY <2>5 DEF TypeOK, RadioPc, Mode, GiveTxDone, RadioStep
  <2>6. CASE ReadFrame
    <3>1. rxQueue' \in 0..QueueLength
      BY <2>6, QueueAssumption DEF TypeOK, ReadFrame, HasRoom
    <3>2. radioPc' \in RadioPc
      BY <2>6 DEF RadioPc, ReadFrame, RadioStep
    <3>3. frame' \in BOOLEAN
      BY <2>6, Zenon DEF ReadFrame
    <3>4. mode' \in Mode
      BY <2>6 DEF TypeOK, Mode, ReadFrame
    <3> QED BY <2>6, <3>1, <3>2, <3>3, <3>4, Zenon DEF TypeOK, ReadFrame
  <2>7. CASE RestartReceive
    BY <2>7 DEF TypeOK, RadioPc, Mode, RestartReceive, RadioStep
  <2> QED BY <1>6, <2>1, <2>2, <2>3, <2>4, <2>5, <2>6, <2>7 DEF RadioTask
<1>7. CASE TxTask
  <2>1. CASE TakePacket
    BY <2>1, QueueAssumption DEF TypeOK, TxPc, Mode, TakePacket, TxStep
  <2>2. CASE TestTransmitting
    BY <2>2 DEF TypeOK, TxPc, Mode, TestTransmitting, TxStep
  <2>3. CASE AwaitTxDone
    BY <2>3 DEF TypeOK, TxPc, Mode, AwaitTxDone, TxStep
  <2>4. CASE Standby
    BY <2>4 DEF TypeOK, TxPc, Mode, Standby, TxStep
  <2>5. CASE ClearDio1Action
    BY <2>5 DEF TypeOK, TxPc, Mode, ClearDio1Action, TxStep
  <2>6. CASE ScanChannel
    BY <2>6 DEF TypeOK, TxPc, Mode, ScanChannel, TxStep
  <2>7. CASE ChannelFree
    BY <2>7 DEF TypeOK, TxPc, Mode, ChannelFree, TxStep
  <2>8. CASE ChannelBusy
    BY <2>8 DEF TypeOK, TxPc, Mode, ChannelBusy, TxStep
  <2>9. CASE SetTransmitting
    BY <2>9 DEF TypeOK, TxPc, Mode, SetTransmitting, TxStep, GuardElapsed
  <2>10. CASE StartTransmit
    BY <2>10 DEF TypeOK, TxPc, Mode, StartTransmit, TxStep
  <2>11. CASE AttachDio1
    BY <2>11 DEF TypeOK, TxPc, Mode, AttachDio1, TxStep, setDio1Callback
  <2>12. CASE StartFails
    BY <2>12 DEF TypeOK, TxPc, Mode, StartFails, TxStep
  <2>13. CASE FallBack
    BY <2>13 DEF TypeOK, TxPc, Mode, FallBack, TxStep
  <2> QED BY <1>7, <2>1, <2>2, <2>3, <2>4, <2>5, <2>6, <2>7, <2>8, <2>9, <2>10, <2>11, <2>12, <2>13 DEF TxTask
<1> QED BY <1>0, <1>1, <1>2, <1>3, <1>4, <1>5, <1>6, <1>7 DEF Next

(* So is the invariant. *)
LEMMA RadioStepInv ==
    ASSUME TypeOK, RadioInv, [Next]_vars
    PROVE  RadioInv'
<1> USE DEF RadioInv, Detached, Drained, Starting, Asleep, InFlight, Flagged, WaiterIsWoken, Between
<1>0. CASE UNCHANGED vars
  BY <1>0 DEF vars
<1>1. CASE enqueueTxPacket
  BY <1>1 DEF TypeOK, enqueueTxPacket, HasRoom
<1>2. CASE enqueueRxPacket
  BY <1>2 DEF TypeOK, enqueueRxPacket, HasRoom
<1>3. CASE dequeueRxPacket
  BY <1>3 DEF TypeOK, dequeueRxPacket
<1>4. CASE FrameReceived
  BY <1>4 DEF TypeOK, FrameReceived, Dio1Rises
<1>5. CASE TransmitDone
  BY <1>5 DEF TypeOK, TransmitDone, Dio1Rises, OutlastsAttach
<1>6. CASE RadioTask
  <2>1. CASE RadioWoken
    BY <2>1 DEF TypeOK, RadioWoken, RadioStep
  <2>2. CASE RadioTest
    BY <2>2 DEF TypeOK, RadioTest, RadioStep
  <2>3. CASE CompleteTransmission
    BY <2>3 DEF TypeOK, CompleteTransmission, RadioStep, FlagCleared
  <2>4. CASE ResumeReceive
    BY <2>4 DEF TypeOK, ResumeReceive, RadioStep, ListenAgain
  <2>5. CASE GiveTxDone
    BY <2>5 DEF TypeOK, GiveTxDone, RadioStep
  <2>6. CASE ReadFrame
    BY <2>6 DEF TypeOK, ReadFrame, RadioStep, HasRoom
  <2>7. CASE RestartReceive
    BY <2>7 DEF TypeOK, RestartReceive, RadioStep
  <2> QED BY <1>6, <2>1, <2>2, <2>3, <2>4, <2>5, <2>6, <2>7 DEF RadioTask
<1>7. CASE TxTask
  <2>1. CASE TakePacket
    BY <2>1 DEF TypeOK, TakePacket, TxStep
  <2>2. CASE TestTransmitting
    BY <2>2 DEF TypeOK, TestTransmitting, TxStep
  <2>3. CASE AwaitTxDone
    BY <2>3 DEF TypeOK, AwaitTxDone, TxStep
  <2>4. CASE Standby
    BY <2>4 DEF TypeOK, Standby, TxStep
  <2>5. CASE ClearDio1Action
    BY <2>5 DEF TypeOK, ClearDio1Action, TxStep
  <2>6. CASE ScanChannel
    BY <2>6 DEF TypeOK, ScanChannel, TxStep
  <2>7. CASE ChannelFree
    BY <2>7 DEF TypeOK, ChannelFree, TxStep
  <2>8. CASE ChannelBusy
    BY <2>8 DEF TypeOK, ChannelBusy, TxStep
  <2>9. CASE SetTransmitting
    BY <2>9 DEF TypeOK, SetTransmitting, TxStep, GuardElapsed
  <2>10. CASE StartTransmit
    BY <2>10 DEF TypeOK, StartTransmit, TxStep
  <2>11. CASE AttachDio1
    BY <2>11 DEF TypeOK, AttachDio1, TxStep, setDio1Callback
  <2>12. CASE StartFails
    BY <2>12 DEF TypeOK, StartFails, TxStep
  <2>13. CASE FallBack
    BY <2>13 DEF TypeOK, FallBack, TxStep
  <2> QED BY <1>7, <2>1, <2>2, <2>3, <2>4, <2>5, <2>6, <2>7, <2>8, <2>9, <2>10, <2>11, <2>12, <2>13 DEF TxTask
<1> QED BY <1>0, <1>1, <1>2, <1>3, <1>4, <1>5, <1>6, <1>7 DEF Next

(* Every variable keeps its type; no queue exceeds its length. *)
THEOREM RadioTypeCorrect == Spec => []TypeOK
<1>1. Init => TypeOK
  <2>1. 0 \in 0..QueueLength /\ 0 \in 0..MaxPackets
    BY QueueAssumption
  <2>2. "receive" \in TxPc /\ "wait" \in RadioPc /\ "rx" \in Mode
    BY DEF TxPc, RadioPc, Mode
  <2> QED BY <2>1, <2>2, Zenon DEF Init, TypeOK
<1> QED BY <1>1, RadioTypes, PTL DEF Spec

(* The strengthened invariant holds throughout. *)
LEMMA RadioInvariance == Spec => []RadioInv
<1>1. Init => RadioInv
  BY DEF Init, RadioInv, Detached, Drained, Starting, Asleep, InFlight, Flagged, WaiterIsWoken, Between
<1> QED BY <1>1, RadioStepInv, RadioTypeCorrect, PTL DEF Spec

(* The radio task never cuts off a transmission. *)
THEOREM TransmissionsUndisturbed == Spec => []RadioTaskNeverAborts
<1>1. RadioInv => RadioTaskNeverAborts
  BY DEF RadioInv, Asleep, RadioTaskNeverAborts
<1> QED BY <1>1, RadioInvariance, PTL

(* No wake-up of txTask is lost. *)
THEOREM NoLostWakeup == Spec => []WaiterIsWoken
<1>1. RadioInv => WaiterIsWoken
  BY DEF RadioInv
<1> QED BY <1>1, RadioInvariance, PTL

(* A node with nothing to do listens. *)
THEOREM QuietListens == Spec => []QuietNodeListens
<1>1. RadioInv => QuietNodeListens
  BY DEF RadioInv, InFlight, Between, Quiet, QuietNodeListens
<1> QED BY <1>1, RadioInvariance, PTL
=============================================================================
