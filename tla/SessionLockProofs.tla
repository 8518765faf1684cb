-------------------------- MODULE SessionLockProofs --------------------------
(***************************************************************************)
(* The reader-writer lock of UserSessionManager excludes, for any tasks.   *)
(***************************************************************************)
EXTENDS SessionLock, FiniteSetTheorems, TLAPS

(* The tasks that _readCount counts. *)
Counted == {t \in Task : stage[t] \in {"first", "entering", "reading"}}

(* The counting mutex is held by the task between readLock and ReadLocked, or *)
(* between readUnlock and ReadUnlocked; while it counts down to 0 nobody else *)
(* counts up.                                                                *)
Counting ==
    /\ \A t \in Task :
           stage[t] \in {"first", "entering", "last", "leaving"} <=> readCountMutex = t
    /\ \A t \in Task : stage[t] = "last" => readCount = 0

(* A writer has the write mutex; readers, from the first to the last, keep it, *)
(* whichever of them took it.                                                *)
Excluding ==
    /\ \A t \in Task : stage[t] = "writing" => writeMutex = t
    /\ \A t \in Task :
           stage[t] \in {"entering", "reading", "last"} =>
               /\ writeMutex # Nobody
               /\ \A u \in Task : stage[u] # "writing"

LockInv ==
    /\ TypeOK
    /\ readCount = Cardinality(Counted)
    /\ Counting
    /\ Excluding

(* The sets of counted tasks are finite: their sizes are what readCount says. *)
LEMMA CountedFinite ==
    ASSUME NEW S \in SUBSET Task
    PROVE  /\ IsFiniteSet(S)
           /\ Cardinality(S) \in Nat
           /\ Cardinality(S) = 0 <=> S = {}
BY LockAssumption, FS_Subset, FS_EmptySet, FS_CardinalityType

LEMMA InitEstablishes == Init => LockInv
<1> SUFFICES ASSUME Init PROVE LockInv
    OBVIOUS
<1>1. Counted = {}
    BY DEF Init, Counted
<1>2. Cardinality({}) = 0
    BY FS_EmptySet
<1> QED BY <1>1, <1>2, LockAssumption DEF Init, LockInv, TypeOK, Stage, Counting, Excluding

(* A step that leaves the counted tasks as they are keeps the count right. *)
LEMMA CountUnchanged ==
    ASSUME readCount = Cardinality(Counted), UNCHANGED readCount, Counted' = Counted
    PROVE  (readCount = Cardinality(Counted))'
<1>1. Cardinality(Counted)' = Cardinality(Counted)
    BY DEF Counted
<1> QED BY <1>1

LEMMA readLockPreserves ==
    ASSUME LockInv, NEW t \in Task, readLock(t)
    PROVE  LockInv'
<1> USE DEF LockInv
<1>1. readCount \in Nat /\ stage[t] = "out"
    BY DEF TypeOK, readLock
<1>2. stage' = [stage EXCEPT ![t] = FirstLocks(readCount + 1)]
    BY DEF readLock, To, CountIn
<1>3. FirstLocks(readCount + 1) \in {"first", "entering"}
    BY DEF FirstLocks
<1>4. TypeOK'
    BY <1>1, <1>2, <1>3 DEF TypeOK, Stage, readLock, CountIn
<1>5. Counted' = Counted \cup {t} /\ t \notin Counted
    BY <1>1, <1>2, <1>3 DEF TypeOK, Counted
<1>6. (readCount = Cardinality(Counted))'
    <2>1. IsFiniteSet(Counted)
        BY CountedFinite DEF Counted
    <2>2. Cardinality(Counted \cup {t}) = Cardinality(Counted) + 1
        BY <2>1, <1>5, FS_AddElement
    <2>3. Cardinality(Counted)' = Cardinality(Counted \cup {t})
        BY <1>5
    <2> QED BY <2>2, <2>3 DEF readLock, CountIn
<1>7. Counting'
    BY <1>1, <1>2, <1>3, LockAssumption DEF TypeOK, Counting, readLock
<1>8. Excluding'
    <2>1. ASSUME FirstLocks(readCount + 1) = "entering"
          PROVE  \E u \in Task : stage[u] \in {"entering", "reading"}
        <3>1. readCount # 0
            BY <2>1, <1>1 DEF FirstLocks
        <3>2. PICK u \in Task : stage[u] \in {"first", "entering", "reading"}
            <4>1. Counted # {}
                BY <3>1, FS_EmptySet
            <4> QED BY <4>1 DEF Counted
        <3>3. stage[u] # "first"
            BY LockAssumption DEF Counting, readLock
        <3> QED BY <3>2, <3>3
    <2> QED BY <2>1, <1>1, <1>2, <1>3 DEF TypeOK, Excluding, readLock
<1> QED BY <1>4, <1>6, <1>7, <1>8

LEMMA readUnlockPreserves ==
    ASSUME LockInv, NEW t \in Task, readUnlock(t)
    PROVE  LockInv'
<1> USE DEF LockInv
<1>1. readCount \in Nat /\ stage[t] = "reading"
    BY DEF TypeOK, readUnlock
<1>2. stage' = [stage EXCEPT ![t] = LastUnlocks(readCount - 1)]
    BY DEF readUnlock, To
<1>3. LastUnlocks(readCount - 1) \in {"last", "leaving"}
    BY DEF LastUnlocks
<1>4. Counted' = Counted \ {t} /\ t \in Counted
    BY <1>1, <1>2, <1>3 DEF TypeOK, Counted
<1>5. (readCount = Cardinality(Counted))' /\ readCount' \in Nat
    <2>1. IsFiniteSet(Counted)
        BY CountedFinite DEF Counted
    <2>2. Cardinality(Counted \ {t}) = Cardinality(Counted) - 1
        BY <2>1, <1>4, FS_RemoveElement
    <2>3. Cardinality(Counted \ {t}) \in Nat
        BY CountedFinite DEF Counted
    <2>4. Cardinality(Counted)' = Cardinality(Counted \ {t})
        BY <1>4
    <2> QED BY <2>2, <2>3, <2>4 DEF readUnlock
<1>6. TypeOK'
    BY <1>2, <1>3, <1>5 DEF TypeOK, Stage, readUnlock
<1>7. Counting'
    <2>1. LastUnlocks(readCount - 1) = "last" => readCount' = 0
        BY DEF LastUnlocks, readUnlock
    <2> QED BY <1>1, <1>2, <1>3, <2>1, LockAssumption DEF TypeOK, Counting, readUnlock
<1>8. Excluding'
    BY <1>1, <1>2, <1>3 DEF TypeOK, Excluding, readUnlock
<1> QED BY <1>5, <1>6, <1>7, <1>8

(* The last reader frees the write mutex, perhaps another task's, when no    *)
(* reader is inside.                                                         *)
LEMMA LetWritersInPreserves ==
    ASSUME LockInv, NEW t \in Task, LetWritersIn(t)
    PROVE  LockInv'
<1> USE DEF LockInv
<1>1. CASE aborted' = TRUE /\ UNCHANGED <<writeMutex, stage>>
    <2>1. Counted' = Counted
        BY <1>1 DEF Counted
    <2> QED BY <1>1, <2>1, CountUnchanged DEF LetWritersIn, TypeOK, Counting, Excluding
<1>2. CASE writeMutex' = Nobody /\ To(t, "leaving") /\ UNCHANGED aborted
    <2>1. stage[t] = "last" /\ stage' = [stage EXCEPT ![t] = "leaving"]
        BY <1>2 DEF LetWritersIn, To
    <2>2. Counted = {}
        <3>1. readCount = 0
            BY <2>1 DEF Counting
        <3> QED BY <3>1, CountedFinite DEF Counted
    <2>3. \A u \in Task : u # t => stage[u] \notin {"entering", "reading", "last"}
        BY <2>1, <2>2, LockAssumption DEF Counting, Counted
    <2>4. TypeOK'
        BY <1>2, <2>1 DEF LetWritersIn, TypeOK, Stage
    <2>5. Counted' = Counted
        BY <2>1 DEF TypeOK, Counted
    <2>6. Counting'
        BY <2>1 DEF LetWritersIn, TypeOK, Counting
    <2>7. Excluding'
        BY <1>2, <2>1, <2>3 DEF TypeOK, Excluding
    <2> QED BY <2>4, <2>5, <2>6, <2>7, CountUnchanged DEF LetWritersIn
<1> QED BY <1>1, <1>2 DEF LetWritersIn

LEMMA StepPreserves == LockInv /\ [Next]_vars => LockInv'
<1> SUFFICES ASSUME LockInv, [Next]_vars PROVE LockInv'
    OBVIOUS
<1>1. CASE UNCHANGED vars
    BY <1>1 DEF vars, LockInv, TypeOK, Counted, Counting, Excluding
<1>2. ASSUME NEW t \in Task, LockWritersOut(t) PROVE LockInv'
    <2>1. stage[t] = "first" /\ stage' = [stage EXCEPT ![t] = "entering"]
        BY <1>2 DEF LockWritersOut, To
    <2>2. Counted' = Counted
        BY <2>1 DEF LockInv, TypeOK, Counted
    <2> QED BY <1>2, <2>1, <2>2, CountUnchanged, LockAssumption
            DEF LockWritersOut, LockInv, TypeOK, Stage, Counting, Excluding
<1>3. ASSUME NEW t \in Task, ReadLocked(t) PROVE LockInv'
    <2>1. stage[t] = "entering" /\ stage' = [stage EXCEPT ![t] = "reading"]
        BY <1>3 DEF ReadLocked, To
    <2>2. Counted' = Counted
        BY <2>1 DEF LockInv, TypeOK, Counted
    <2> QED BY <1>3, <2>1, <2>2, CountUnchanged, LockAssumption
            DEF ReadLocked, LockInv, TypeOK, Stage, Counting, Excluding
<1>4. ASSUME NEW t \in Task, ReadUnlocked(t) PROVE LockInv'
    <2>1. stage[t] = "leaving" /\ stage' = [stage EXCEPT ![t] = "out"]
        BY <1>4 DEF ReadUnlocked, To
    <2>2. Counted' = Counted
        BY <2>1 DEF LockInv, TypeOK, Counted
    <2> QED BY <1>4, <2>1, <2>2, CountUnchanged, LockAssumption
            DEF ReadUnlocked, LockInv, TypeOK, Stage, Counting, Excluding
<1>5. ASSUME NEW t \in Task, writeLock(t) PROVE LockInv'
    <2>1. stage[t] = "out" /\ stage' = [stage EXCEPT ![t] = "writing"]
        BY <1>5 DEF writeLock, To
    <2>2. Counted' = Counted
        BY <2>1 DEF LockInv, TypeOK, Counted
    <2> QED BY <1>5, <2>1, <2>2, CountUnchanged, LockAssumption
            DEF writeLock, LockInv, TypeOK, Stage, Counting, Excluding
<1>6. ASSUME NEW t \in Task, writeUnlock(t) PROVE LockInv'
    <2>1. stage[t] = "writing" /\ stage' = [stage EXCEPT ![t] = "out"]
        BY <1>6 DEF writeUnlock, To
    <2>2. Counted' = Counted
        BY <2>1 DEF LockInv, TypeOK, Counted
    <2>3. \A u \in Task : u # t => stage[u] # "writing"
        BY <2>1 DEF LockInv, Excluding
    <2> QED BY <1>6, <2>1, <2>2, <2>3, CountUnchanged, LockAssumption
            DEF writeUnlock, LockInv, TypeOK, Stage, Counting, Excluding
<1> QED BY <1>1, <1>2, <1>3, <1>4, <1>5, <1>6, readLockPreserves, readUnlockPreserves,
           LetWritersInPreserves DEF Next, Finish

(* The invariant the two theorems follow from. *)
THEOREM LockInvariant == Spec => []LockInv
<1> QED BY InitEstablishes, StepPreserves, PTL DEF Spec

(* The lock is well typed for any tasks: in particular _readCount, which     *)
(* readUnlock only counts down after a readLock, is never negative.          *)
THEOREM LockTypeCorrect == Spec => []TypeOK
<1>1. LockInv => TypeOK
    BY DEF LockInv
<1> QED BY <1>1, LockInvariant, PTL

(* The lock of UserSessionManager excludes writers from readers and from each *)
(* other, for any number of tasks.                                           *)
THEOREM LockExcludes == Spec => []ReadersExcludeWriters
<1>1. LockInv => ReadersExcludeWriters
    BY DEF LockInv, Excluding, ReadersExcludeWriters
<1> QED BY <1>1, LockInvariant, PTL

=============================================================================
