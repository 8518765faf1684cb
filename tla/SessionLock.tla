----------------------------- MODULE SessionLock -----------------------------
(***************************************************************************)
(* The reader-writer lock of UserSessionManager (userSessionManager.h),    *)
(* built from two FreeRTOS mutexes and a count: readLock, readUnlock,      *)
(* writeLock and writeUnlock, for any set of tasks.                        *)
(*                                                                         *)
(* Every call of FreeRTOS is one step; the count is only touched by the    *)
(* task that has _readCountMutex, in the step that takes it.               *)
(*                                                                         *)
(* A FreeRTOS mutex belongs to the task that took it.  When another task   *)
(* gives it, which the last reader does whenever the first has left before *)
(* it, FreeRTOS fails an assertion and the node reboots, or, built without *)
(* assertions, frees the mutex.                                            *)
(***************************************************************************)
EXTENDS Integers, FiniteSets

CONSTANTS
    Task,   \* the tasks that use the lock
    Nobody  \* holds a free mutex

ASSUME LockAssumption == IsFiniteSet(Task) /\ Nobody \notin Task

VARIABLES
    readCountMutex, \* holder of _readCountMutex
    writeMutex,     \* holder of _writeMutex
    readCount,      \* _readCount
    stage,          \* how far each task is in locking or unlocking
    aborted         \* did FreeRTOS fail an assertion?

vars == <<readCountMutex, writeMutex, readCount, stage, aborted>>

Stage == {"out", "first", "entering", "reading", "last", "leaving", "writing"}

TypeOK ==
    /\ readCountMutex \in Task \cup {Nobody}
    /\ writeMutex \in Task \cup {Nobody}
    /\ readCount \in Nat
    /\ stage \in [Task -> Stage]
    /\ aborted \in BOOLEAN

(* The constructor. *)
Init ==
    /\ readCountMutex = Nobody
    /\ writeMutex = Nobody
    /\ readCount = 0
    /\ stage = [t \in Task |-> "out"]
    /\ aborted = FALSE

-----------------------------------------------------------------------------
To(t, s) == stage' = [stage EXCEPT ![t] = s]

(* Mutant: a reader is not counted. *)
NotCounted(n) == n

CountIn(n) == n + 1

(* Mutant: the first reader does not lock writers out. *)
FirstNeverWaits(n) == "entering"

FirstLocks(n) == IF n = 1 THEN "first" ELSE "entering"

readLock(t) ==
    /\ stage[t] = "out"
    /\ readCountMutex = Nobody
    /\ readCountMutex' = t
    /\ readCount' = CountIn(readCount)
    /\ To(t, FirstLocks(CountIn(readCount)))
    /\ UNCHANGED <<writeMutex, aborted>>

LockWritersOut(t) ==
    /\ stage[t] = "first"
    /\ writeMutex = Nobody
    /\ writeMutex' = t
    /\ To(t, "entering")
    /\ UNCHANGED <<readCountMutex, readCount, aborted>>

ReadLocked(t) ==
    /\ stage[t] = "entering"
    /\ readCountMutex' = Nobody
    /\ To(t, "reading")
    /\ UNCHANGED <<writeMutex, readCount, aborted>>

(* Mutant: the last reader does not let writers in. *)
LastKeepsLocked(n) == "leaving"

LastUnlocks(n) == IF n = 0 THEN "last" ELSE "leaving"

readUnlock(t) ==
    /\ stage[t] = "reading"
    /\ readCountMutex = Nobody
    /\ readCountMutex' = t
    /\ readCount' = readCount - 1
    /\ To(t, LastUnlocks(readCount - 1))
    /\ UNCHANGED <<writeMutex, aborted>>

LetWritersIn(t) ==
    /\ stage[t] = "last"
    /\ \/ /\ writeMutex' = Nobody
          /\ To(t, "leaving")
          /\ UNCHANGED aborted
       \/ /\ writeMutex # t
          /\ aborted' = TRUE
          /\ UNCHANGED <<writeMutex, stage>>
    /\ UNCHANGED <<readCountMutex, readCount>>

ReadUnlocked(t) ==
    /\ stage[t] = "leaving"
    /\ readCountMutex' = Nobody
    /\ To(t, "out")
    /\ UNCHANGED <<writeMutex, readCount, aborted>>

writeLock(t) ==
    /\ stage[t] = "out"
    /\ writeMutex = Nobody
    /\ writeMutex' = t
    /\ To(t, "writing")
    /\ UNCHANGED <<readCountMutex, readCount, aborted>>

writeUnlock(t) ==
    /\ stage[t] = "writing"
    /\ writeMutex' = Nobody
    /\ To(t, "out")
    /\ UNCHANGED <<readCountMutex, readCount, aborted>>

(* What a task does once it has begun, without deciding to. *)
Finish(t) ==
    \/ readUnlock(t)
    \/ writeUnlock(t)
    \/ LockWritersOut(t)
    \/ ReadLocked(t)
    \/ LetWritersIn(t)
    \/ ReadUnlocked(t)

Next == ~aborted /\ \E t \in Task : readLock(t) \/ writeLock(t) \/ Finish(t)

Spec == Init /\ [][Next]_vars

(* Every task blocks between two sections (on a queue, a delay, a request), so *)
(* none takes a mutex so often that another one waits for it for ever.       *)
FairSpec == Spec /\ \A t \in Task : SF_vars(~aborted /\ Finish(t))

-----------------------------------------------------------------------------
(* No task reads the tables while another writes them, and only one writes,  *)
(* whichever reader comes first and whichever leaves last.                   *)
ReadersExcludeWriters ==
    \A t, u \in Task :
        stage[t] = "writing" /\ t # u => stage[u] \notin {"reading", "writing"}

(* Whoever has begun to lock finishes: nobody waits for ever for a mutex,    *)
(* though the first reader waits for one while it keeps the other, and the   *)
(* last reader gives one that it may never have taken.                       *)
SectionsEnd == \A t \in Task : stage[t] # "out" ~> aborted \/ stage[t] = "out"

=============================================================================
