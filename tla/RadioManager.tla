---------------------------- MODULE RadioManager ----------------------------
(***************************************************************************)
(* RadioManager of src/src/radioManager.cpp: the two tasks that share one  *)
(* half-duplex SX1262, the interrupt routine and the two binary semaphores *)
(* between them.                                                           *)
(*   - txTask takes a packet, waits for the transmission before it, checks *)
(*     the channel and starts the transmission;                            *)
(*   - radioTask sleeps until dio1Isr wakes it, and asks _isTransmitting   *)
(*     what the interrupt was about.                                       *)
(*                                                                         *)
(* One call of the radio driver, or one access to the flag, a queue or a   *)
(* semaphore, is one step.  Which packet is which does not matter here.    *)
(*                                                                         *)
(* Two facts about time are built in, each in an operator of its own: a    *)
(* transmission outlasts the two statements after startTransmit            *)
(* (OutlastsAttach), and the radio task, which has the higher priority, is *)
(* done with older interrupts when the 2 ms of guard time are over         *)
(* (GuardElapsed).                                                         *)
(***************************************************************************)
EXTENDS Naturals

CONSTANTS
    QueueLength,  \* capacity of _txQueue and _rxQueue (10)
    StartMayFail, \* may startTransmit fail?
    MaxPackets    \* bound: packets enqueued for transmission

ASSUME QueueAssumption == /\ QueueLength \in Nat
                          /\ StartMayFail \in BOOLEAN
                          /\ MaxPackets \in Nat

VARIABLES
    txQueue,          \* packets in _txQueue
    rxQueue,          \* packets in _rxQueue
    isTransmitting,   \* _isTransmitting
    irqSemaphore,     \* _irqSemaphore: is there a token?
    txDoneSemaphore,  \* _txDoneSemaphore: is there a token?
    txPc,             \* where txTask is
    radioPc,          \* where radioTask is
    mode,             \* what the SX1262 is doing
    dio1Attached,     \* is dio1Isr attached to the DIO1 pin?
    frame,            \* is there a received frame in the chip's buffer?
    startOK,          \* history: the last startTransmit succeeded
    accepted          \* packets enqueued for transmission so far

vars == <<txQueue, rxQueue, isTransmitting, irqSemaphore, txDoneSemaphore, txPc,
          radioPc, mode, dio1Attached, frame, startOK, accepted>>

TxPc == {"receive", "test", "await", "standby", "detach", "scan", "scanning", "guard",
         "start", "attach", "fallback"}
RadioPc == {"wait", "test", "complete", "resume", "give", "read", "restart"}
Mode == {"rx", "tx", "standby", "cad"}

TypeOK ==
    /\ txQueue \in 0..QueueLength
    /\ rxQueue \in 0..QueueLength
    /\ isTransmitting \in BOOLEAN
    /\ irqSemaphore \in BOOLEAN
    /\ txDoneSemaphore \in BOOLEAN
    /\ txPc \in TxPc
    /\ radioPc \in RadioPc
    /\ mode \in Mode
    /\ dio1Attached \in BOOLEAN
    /\ frame \in BOOLEAN
    /\ startOK \in BOOLEAN
    /\ accepted \in 0..MaxPackets

(* The constructor and begin. *)
Init ==
    /\ txQueue = 0
    /\ rxQueue = 0
    /\ isTransmitting = FALSE
    /\ irqSemaphore = FALSE
    /\ txDoneSemaphore = FALSE
    /\ txPc = "receive"
    /\ radioPc = "wait"
    /\ mode = "rx"
    /\ dio1Attached = TRUE
    /\ frame = FALSE
    /\ startOK = TRUE
    /\ accepted = 0

-----------------------------------------------------------------------------
(* The queues, as the router and the test bench use them.  A packet that does *)
(* not fit is refused, and nothing changes.                                  *)

(* Mutant: one packet too many. *)
HasRoomAtLimit(q) == q <= QueueLength

HasRoom(q) == q < QueueLength

enqueueTxPacket ==
    /\ accepted < MaxPackets
    /\ HasRoom(txQueue)
    /\ txQueue' = txQueue + 1
    /\ accepted' = accepted + 1
    /\ UNCHANGED <<rxQueue, isTransmitting, irqSemaphore, txDoneSemaphore, txPc,
                   radioPc, mode, dio1Attached, frame, startOK>>

enqueueRxPacket ==
    /\ HasRoom(rxQueue)
    /\ rxQueue' = rxQueue + 1
    /\ UNCHANGED <<txQueue, isTransmitting, irqSemaphore, txDoneSemaphore, txPc,
                   radioPc, mode, dio1Attached, frame, startOK, accepted>>

dequeueRxPacket ==
    /\ rxQueue > 0
    /\ rxQueue' = rxQueue - 1
    /\ UNCHANGED <<txQueue, isTransmitting, irqSemaphore, txDoneSemaphore, txPc,
                   radioPc, mode, dio1Attached, frame, startOK, accepted>>

-----------------------------------------------------------------------------
(* The chip, and dio1Isr, which an attached DIO1 runs at once. *)

Dio1Rises == irqSemaphore' = (irqSemaphore \/ dio1Attached)

FrameReceived ==
    /\ mode = "rx"
    /\ frame' = TRUE
    /\ Dio1Rises
    /\ UNCHANGED <<txQueue, rxQueue, isTransmitting, txDoneSemaphore, txPc, radioPc,
                   mode, dio1Attached, startOK, accepted>>

(* At the data rate of begin the shortest packet takes a tenth of a second. *)
OutlastsAttach == txPc # "attach"

TransmitDone ==
    /\ mode = "tx"
    /\ OutlastsAttach
    /\ mode' = "standby"
    /\ Dio1Rises
    /\ UNCHANGED <<txQueue, rxQueue, isTransmitting, txDoneSemaphore, txPc, radioPc,
                   dio1Attached, frame, startOK, accepted>>

-----------------------------------------------------------------------------
(* radioTask. *)

RadioStep(from, to) == radioPc = from /\ radioPc' = to

RadioWoken ==
    /\ RadioStep("wait", "test")
    /\ irqSemaphore
    /\ irqSemaphore' = FALSE
    /\ UNCHANGED <<txQueue, rxQueue, isTransmitting, txDoneSemaphore, txPc, mode,
                   dio1Attached, frame, startOK, accepted>>

RadioTest ==
    /\ RadioStep("test", IF isTransmitting THEN "complete" ELSE "read")
    /\ UNCHANGED <<txQueue, rxQueue, isTransmitting, irqSemaphore, txDoneSemaphore,
                   txPc, mode, dio1Attached, frame, startOK, accepted>>

(* handleTransmissionComplete: the flag, the radio, the semaphore. *)
(* Mutant: the flag stays set. *)
FlagKept == UNCHANGED isTransmitting

FlagCleared == isTransmitting' = FALSE

CompleteTransmission ==
    /\ RadioStep("complete", "resume")
    /\ FlagCleared
    /\ UNCHANGED <<txQueue, rxQueue, irqSemaphore, txDoneSemaphore, txPc, mode,
                   dio1Attached, frame, startOK, accepted>>

(* Mutant: the radio stays in standby. *)
ListenNever == UNCHANGED mode

ListenAgain == mode' = "rx"

ResumeReceive ==
    /\ RadioStep("resume", "give")
    /\ ListenAgain
    /\ UNCHANGED <<txQueue, rxQueue, isTransmitting, irqSemaphore, txDoneSemaphore,
                   txPc, dio1Attached, frame, startOK, accepted>>

GiveTxDone ==
    /\ RadioStep("give", "wait")
    /\ txDoneSemaphore' = TRUE
    /\ UNCHANGED <<txQueue, rxQueue, isTransmitting, irqSemaphore, txPc, mode,
                   dio1Attached, frame, startOK, accepted>>

(* handleReceiveInterrupt: the frame is queued, or lost to an error or a full *)
(* queue.  readData may put the radio in standby.                            *)
ReadFrame ==
    /\ RadioStep("read", "restart")
    /\ frame' = FALSE
    /\ \/ frame /\ HasRoom(rxQueue) /\ rxQueue' = rxQueue + 1
       \/ UNCHANGED rxQueue
    /\ mode' \in {mode, "standby"}
    /\ UNCHANGED <<txQueue, isTransmitting, irqSemaphore, txDoneSemaphore, txPc,
                   dio1Attached, startOK, accepted>>

RestartReceive ==
    /\ RadioStep("restart", "wait")
    /\ mode' = "rx"
    /\ UNCHANGED <<txQueue, rxQueue, isTransmitting, irqSemaphore, txDoneSemaphore,
                   txPc, dio1Attached, frame, startOK, accepted>>

RadioTask ==
    \/ RadioWoken
    \/ RadioTest
    \/ CompleteTransmission
    \/ ResumeReceive
    \/ GiveTxDone
    \/ ReadFrame
    \/ RestartReceive

-----------------------------------------------------------------------------
(* txTask. *)

TxStep(from, to) == txPc = from /\ txPc' = to

TakePacket ==
    /\ TxStep("receive", "test")
    /\ txQueue > 0
    /\ txQueue' = txQueue - 1
    /\ UNCHANGED <<rxQueue, isTransmitting, irqSemaphore, txDoneSemaphore, radioPc,
                   mode, dio1Attached, frame, startOK, accepted>>

TestTransmitting ==
    /\ TxStep("test", IF isTransmitting THEN "await" ELSE "standby")
    /\ UNCHANGED <<txQueue, rxQueue, isTransmitting, irqSemaphore, txDoneSemaphore,
                   radioPc, mode, dio1Attached, frame, startOK, accepted>>

AwaitTxDone ==
    /\ TxStep("await", "standby")
    /\ txDoneSemaphore
    /\ txDoneSemaphore' = FALSE
    /\ UNCHANGED <<txQueue, rxQueue, isTransmitting, irqSemaphore, radioPc, mode,
                   dio1Attached, frame, startOK, accepted>>

(* isChannelFree: standby, clearDio1Action, scanChannel.  The scan ends         *)
(* without a verdict if the radio task restarts reception meanwhile.         *)
Standby ==
    /\ TxStep("standby", "detach")
    /\ mode' = "standby"
    /\ UNCHANGED <<txQueue, rxQueue, isTransmitting, irqSemaphore, txDoneSemaphore,
                   radioPc, dio1Attached, frame, startOK, accepted>>

ClearDio1Action ==
    /\ TxStep("detach", "scan")
    /\ dio1Attached' = FALSE
    /\ UNCHANGED <<txQueue, rxQueue, isTransmitting, irqSemaphore, txDoneSemaphore,
                   radioPc, mode, frame, startOK, accepted>>

ScanChannel ==
    /\ TxStep("scan", "scanning")
    /\ mode' = "cad"
    /\ UNCHANGED <<txQueue, rxQueue, isTransmitting, irqSemaphore, txDoneSemaphore,
                   radioPc, dio1Attached, frame, startOK, accepted>>

ChannelFree ==
    /\ TxStep("scanning", "guard")
    /\ mode = "cad"
    /\ mode' = "standby"
    /\ UNCHANGED <<txQueue, rxQueue, isTransmitting, irqSemaphore, txDoneSemaphore,
                   radioPc, dio1Attached, frame, startOK, accepted>>

(* Back-off, and the next check. *)
ChannelBusy ==
    /\ TxStep("scanning", "standby")
    /\ mode' = IF mode = "cad" THEN "standby" ELSE mode
    /\ UNCHANGED <<txQueue, rxQueue, isTransmitting, irqSemaphore, txDoneSemaphore,
                   radioPc, dio1Attached, frame, startOK, accepted>>

(* Mutant: no guard time. *)
NoGuard == TRUE

GuardElapsed == radioPc = "wait" /\ ~irqSemaphore

SetTransmitting ==
    /\ TxStep("guard", "start")
    /\ GuardElapsed
    /\ isTransmitting' = TRUE
    /\ UNCHANGED <<txQueue, rxQueue, irqSemaphore, txDoneSemaphore, radioPc, mode,
                   dio1Attached, frame, startOK, accepted>>

StartTransmit ==
    /\ TxStep("start", "attach")
    /\ mode' = "tx"
    /\ startOK' = TRUE
    /\ UNCHANGED <<txQueue, rxQueue, isTransmitting, irqSemaphore, txDoneSemaphore,
                   radioPc, dio1Attached, frame, accepted>>

(* Mutant: the routine is not attached again. *)
Dio1LeftDetached == UNCHANGED dio1Attached

setDio1Callback == dio1Attached' = TRUE

AttachDio1 ==
    /\ TxStep("attach", "receive")
    /\ setDio1Callback
    /\ UNCHANGED <<txQueue, rxQueue, isTransmitting, irqSemaphore, txDoneSemaphore,
                   radioPc, mode, frame, startOK, accepted>>

StartFails ==
    /\ StartMayFail
    /\ TxStep("start", "fallback")
    /\ mode' = "standby"
    /\ startOK' = FALSE
    /\ isTransmitting' = FALSE
    /\ UNCHANGED <<txQueue, rxQueue, irqSemaphore, txDoneSemaphore, radioPc,
                   dio1Attached, frame, accepted>>

(* startReceive and the semaphore; DIO1 stays detached. *)
FallBack ==
    /\ TxStep("fallback", "receive")
    /\ mode' = "rx"
    /\ txDoneSemaphore' = TRUE
    /\ UNCHANGED <<txQueue, rxQueue, isTransmitting, irqSemaphore, radioPc,
                   dio1Attached, frame, startOK, accepted>>

TxTask ==
    \/ TakePacket
    \/ TestTransmitting
    \/ AwaitTxDone
    \/ Standby
    \/ ClearDio1Action
    \/ ScanChannel
    \/ ChannelFree
    \/ ChannelBusy
    \/ SetTransmitting
    \/ StartTransmit
    \/ AttachDio1
    \/ StartFails
    \/ FallBack

-----------------------------------------------------------------------------
Next ==
    \/ enqueueTxPacket
    \/ enqueueRxPacket
    \/ dequeueRxPacket
    \/ FrameReceived
    \/ TransmitDone
    \/ RadioTask
    \/ TxTask

Spec == Init /\ [][Next]_vars

(* The two tasks run, a transmission ends, and a channel that is checked for   *)
(* ever is found free for ever again.                                        *)
FairSpec ==
    /\ Spec
    /\ WF_vars(RadioTask)
    /\ WF_vars(TxTask)
    /\ WF_vars(TransmitDone)
    /\ SF_vars(ChannelFree)

-----------------------------------------------------------------------------
(* Properties. *)

(* The radio task never touches the radio under a transmission in flight: no  *)
(* interrupt of a reception is taken for the end of a transmission, and no   *)
(* startReceive cuts one off, although txTask sets the flag, starts and      *)
(* attaches in separate steps on the other core.                             *)
RadioTaskNeverAborts == radioPc # "wait" => mode # "tx"

(* No lost wake-up: when txTask waits for the transmission before, the token   *)
(* is there, or the interrupt that leads to it is still to come or being     *)
(* handled.                                                                  *)
WaiterIsWoken ==
    txPc = "await" =>
        \/ txDoneSemaphore
        \/ mode = "tx" /\ dio1Attached
        \/ isTransmitting /\ (irqSemaphore \/ radioPc = "test")
        \/ radioPc \in {"complete", "resume", "give"}

Quiet ==
    /\ txPc = "receive"
    /\ radioPc = "wait"
    /\ ~isTransmitting
    /\ ~irqSemaphore

(* When nobody is busy, the radio listens, and it can be heard to: unless the  *)
(* last start of a transmission failed, in which case dio1Isr is still       *)
(* detached.                                                                 *)
QuietNodeListens == Quiet => mode = "rx" /\ (dio1Attached \/ ~startOK)

(* Whatever transmissions fail, and however the two tasks and the chip        *)
(* interleave, the queue drains and the flag comes down: nobody waits for    *)
(* ever.                                                                     *)
Drains == []<>(txQueue = 0 /\ txPc = "receive" /\ ~isTransmitting)

(* "Wait until any prior TX is fully done": the channel is not checked, which   *)
(* puts the radio in standby, while a transmission is in flight.             *)
PriorTransmissionDone == txPc = "standby" => mode # "tx"

=============================================================================
