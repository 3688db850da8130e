------------------------- MODULE ReadWriteLock_proofs -------------------------
(***************************************************************************)
(* Proofs about ReadWriteLock, for any finite set of readers and any set   *)
(* of writers.                                                             *)
(***************************************************************************)
EXTENDS ReadWriteLock, FiniteSetTheorems, TLAPS

USE LockAssumption DEF Procs, Step, locks

(* The redis values and program counters stay in their types, whoever      *)
(* crashes and whatever expires.                                           *)
THEOREM TypeCorrect == Spec => []TypeOK
<1>1. Init => TypeOK
  BY DEF Init, TypeOK, ReaderPc, WriterPc
<1>2. TypeOK /\ [Next]_vars => TypeOK'
  <2> SUFFICES ASSUME TypeOK, [Next]_vars
               PROVE  TypeOK'
    OBVIOUS
  <2> USE DEF TypeOK, ReaderPc, WriterPc
  <2>1. ASSUME NEW p \in Procs, Lock(p) \/ Crash(p) \/ Restart(p)
        PROVE  TypeOK'
    BY <2>1 DEF Lock, Crash, Restart
  <2>2. ASSUME NEW r \in Readers, Enter(r)
        PROVE  TypeOK'
    BY <2>2 DEF Enter, ReaderAcquireGate, ReaderResetGate
  <2>3. ASSUME NEW r \in Readers, CountReaders(r)
        PROVE  TypeOK'
    <3>1. CASE AcquireCounterLock(r) \/ GetCounter(r)
      BY <3>1 DEF AcquireCounterLock, GetCounter
    <3>2. CASE IncrementCounter(r)
      BY <3>2 DEF IncrementCounter
    <3>3. CASE DecrementCounter(r)
      BY <3>3 DEF DecrementCounter
    <3>4. CASE ReleaseCounterLock(r)
      BY <3>4 DEF ReleaseCounterLock
    <3>5. QED  BY <2>3, <3>1, <3>2, <3>3, <3>4 DEF CountReaders
  <2>4. ASSUME NEW r \in Readers,
               StopReading(r) \/ ReaderAcquireGlobal(r) \/ ReaderResetGlobal(r)
        PROVE  TypeOK'
    BY <2>4 DEF StopReading, ReaderAcquireGlobal, ReaderResetGlobal
  <2>5. ASSUME NEW w \in Writers, WriterStep(w)
        PROVE  TypeOK'
    BY <2>5 DEF WriterStep, WriterAcquireGate, WriterAcquireGlobal, StopWriting,
                WriterResetGate, WriterResetGlobal
  <2>6. CASE Expire
    BY <2>6 DEF Expire, ExpireGate, ExpireCounterLock, ExpireGlobal
  <2>7. CASE UNCHANGED vars
    BY <2>7 DEF vars
  <2>8. QED  BY <2>1, <2>2, <2>3, <2>4, <2>5, <2>6, <2>7 DEF Next, ReaderStep
<1>3. QED  BY <1>1, <1>2, PTL DEF Spec
-----------------------------------------------------------------------------

LEMMA CountedFinite ==
  /\ IsFiniteSet(Counted)
  /\ Cardinality(Counted) \in Nat
  /\ Cardinality(Counted) = 0 <=> Counted = {}
<1>1. IsFiniteSet(Counted)
  BY FS_Subset DEF Counted
<1>2. QED  BY <1>1, FS_CardinalityType, FS_EmptySet

(* Who owns which lock, without the number of readers.                     *)
Ownership ==
  /\ \A r \in Readers : pc[r] # "dead"
  /\ \A r \in Readers : HoldsCounterLock(r) <=> counter_lock = r
  /\ \A r \in Readers : pc[r] = "open_gate" => write_waiting_lock = r
  /\ \A w \in Writers : OwnsGate(w) => write_waiting_lock = w
  /\ \A w \in Writers : OwnsGlobal(w) => global_lock = w
  /\ global_lock \in Readers <=> GroupOwnsGlobal

LEMMA LockInvSplit ==
  LockInv <=> /\ Ownership
              /\ read_counter = Cardinality(Counted)
              /\ \A r \in Readers :
                   /\ pc[r] \in {"incr", "decr"} => counter[r] = read_counter
                   /\ pc[r] = "global" => read_counter = 1
                   /\ pc[r] = "open_global" => read_counter = 0
BY DEF LockInv, Ownership

(* A step that moves no reader across the count keeps the number right.    *)
LEMMA SameCount ==
  ASSUME TypeOK, LockInv, Ownership', Counted' = Counted,
         read_counter' = read_counter,
         \A r \in Readers :
           \/ pc'[r] = pc[r] /\ counter'[r] = counter[r]
           \/ pc'[r] \in {"incr", "decr"} /\ counter'[r] = read_counter
           \/ pc'[r] \notin {"incr", "decr", "global", "open_global"}
  PROVE  LockInv'
BY DEF LockInv, Ownership

(* Every step keeps LockInv: one step of the proof per redis command, the  *)
(* three that change the number of readers in the lock last.               *)
LEMMA LockInvStep ==
  ASSUME OnlyWritersCrash, TypeOK, LockInv, [Next]_vars
  PROVE  LockInv'
<1> USE DEF TypeOK, ReaderPc, WriterPc, HoldsCounterLock, OwnsGate, OwnsGlobal
<1>1. ASSUME NEW p \in Procs, Lock(p) \/ Crash(p) \/ Restart(p)
      PROVE  LockInv'
  <2>1. Counted' = Counted
    BY <1>1 DEF Lock, Crash, Restart, Counted, LockInv, OnlyWritersCrash
  <2>2. Ownership'
    BY <1>1 DEF Lock, Crash, Restart, Counted, LockInv, Ownership,
                OnlyWritersCrash, GroupOwnsGlobal
  <2>3. QED
    BY <1>1, <2>1, <2>2, SameCount DEF Lock, Crash, Restart, OnlyWritersCrash,
                                       LockInv
<1>2. ASSUME NEW r \in Readers, Enter(r) \/ StopReading(r)
      PROVE  LockInv'
  <2>1. Counted' = Counted
    BY <1>2 DEF Enter, ReaderAcquireGate, ReaderResetGate, StopReading, Counted
  <2>2. Ownership'
    BY <1>2 DEF Enter, ReaderAcquireGate, ReaderResetGate, StopReading, Counted,
                LockInv, Ownership, GroupOwnsGlobal
  <2>3. QED
    BY <1>2, <2>1, <2>2, SameCount
    DEF Enter, ReaderAcquireGate, ReaderResetGate, StopReading
<1>3. ASSUME NEW r \in Readers, AcquireCounterLock(r) \/ GetCounter(r)
      PROVE  LockInv'
  <2>1. Counted' = Counted
    BY <1>3 DEF AcquireCounterLock, GetCounter, Counted
  <2>2. Ownership'
    BY <1>3 DEF AcquireCounterLock, GetCounter, Counted, LockInv, Ownership,
                GroupOwnsGlobal
  <2>3. QED
    BY <1>3, <2>1, <2>2, SameCount DEF AcquireCounterLock, GetCounter
<1>4. ASSUME NEW r \in Readers, ReaderAcquireGlobal(r) \/ ReleaseCounterLock(r)
      PROVE  LockInv'
  <2>1. Counted' = Counted
    BY <1>4 DEF ReaderAcquireGlobal, ReleaseCounterLock, Counted, LockInv
  <2>2. Ownership'
    BY <1>4 DEF ReaderAcquireGlobal, ReleaseCounterLock, Counted, LockInv,
                Ownership, GroupOwnsGlobal
  <2>3. QED
    BY <1>4, <2>1, <2>2, SameCount DEF ReaderAcquireGlobal, ReleaseCounterLock
<1>5. ASSUME NEW w \in Writers, WriterStep(w)
      PROVE  LockInv'
  <2>1. Counted' = Counted
    BY <1>5 DEF WriterStep, WriterAcquireGate, WriterAcquireGlobal, StopWriting,
                WriterResetGate, WriterResetGlobal, Counted
  <2>2. Ownership'
    BY <1>5 DEF WriterStep, WriterAcquireGate, WriterAcquireGlobal, StopWriting,
                WriterResetGate, WriterResetGlobal, Counted, LockInv, Ownership,
                GroupOwnsGlobal
  <2>3. QED
    BY <1>5, <2>1, <2>2, SameCount
    DEF WriterStep, WriterAcquireGate, WriterAcquireGlobal, StopWriting,
        WriterResetGate, WriterResetGlobal
<1>6. CASE Expire
  <2>1. Counted' = Counted /\ pc' = pc /\ counter' = counter
        /\ read_counter' = read_counter
    BY <1>6 DEF Expire, ExpireGate, ExpireCounterLock, ExpireGlobal, Counted
  <2>2. Ownership'
    BY <1>6 DEF Expire, ExpireGate, ExpireCounterLock, ExpireGlobal, Unrenewed,
                Counted, LockInv, Ownership, GroupOwnsGlobal, OnlyWritersCrash
  <2>3. QED  BY <2>1, <2>2, SameCount
<1>7. ASSUME NEW r \in Readers, ReaderResetGlobal(r)
      PROVE  LockInv'
  <2>1. Counted' = Counted
    BY <1>7 DEF ReaderResetGlobal, Counted
  <2>2. Counted = {}
    BY <1>7, CountedFinite DEF ReaderResetGlobal, LockInv
  <2>3. Ownership'
    BY <1>7, <2>1, <2>2
    DEF ReaderResetGlobal, LockInv, Ownership, GroupOwnsGlobal
  <2>4. QED  BY <1>7, <2>1, <2>3, SameCount DEF ReaderResetGlobal
<1>8. ASSUME NEW r \in Readers, IncrementCounter(r)
      PROVE  LockInv'
  <2>1. r \notin Counted /\ Counted' = Counted \cup {r}
    BY <1>8 DEF IncrementCounter, Counted
  <2>2. Cardinality(Counted') = Cardinality(Counted) + 1
    BY <2>1, CountedFinite, FS_AddElement
  <2>3. read_counter = Cardinality(Counted) /\ counter[r] = read_counter
    BY <1>8 DEF IncrementCounter, LockInv
  <2>4. \A s \in Counted : pc[s] # "global"
    BY <1>8 DEF IncrementCounter, Counted, LockInv
  <2>5. Ownership'
    <3>1. CASE counter[r] = 0
      <4>1. Counted = {}
        BY <3>1, <2>3, CountedFinite
      <4>2. QED
        BY <1>8, <3>1, <4>1, <2>1
        DEF IncrementCounter, LockInv, Ownership, GroupOwnsGlobal
    <3>2. CASE counter[r] # 0
      <4>1. Counted # {}
        BY <3>2, <2>3, CountedFinite
      <4>2. GroupOwnsGlobal
        BY <4>1, <2>4 DEF GroupOwnsGlobal
      <4>3. r \in Counted' /\ pc'[r] # "global"
        BY <1>8, <3>2, <2>1 DEF IncrementCounter
      <4>4. QED
        BY <1>8, <3>2, <4>2, <4>3
        DEF IncrementCounter, LockInv, Ownership, GroupOwnsGlobal
    <3>3. QED  BY <3>1, <3>2
  <2>6. QED
    BY <1>8, <2>2, <2>3, <2>5 DEF IncrementCounter, LockInv, Ownership
<1>9. ASSUME NEW r \in Readers, DecrementCounter(r)
      PROVE  LockInv'
  <2>1. r \in Counted /\ Counted' = Counted \ {r}
    BY <1>9 DEF DecrementCounter, Counted
  <2>2. Cardinality(Counted') = Cardinality(Counted) - 1
    BY <2>1, CountedFinite, FS_RemoveElement
  <2>3. read_counter = Cardinality(Counted) /\ counter[r] = read_counter
    BY <1>9 DEF DecrementCounter, LockInv
  <2>4. counter[r] > 0
    BY <2>1, <2>3, CountedFinite
  <2>5. \A s \in Counted : pc[s] # "global"
    BY <1>9 DEF DecrementCounter, Counted, LockInv
  <2>6. GroupOwnsGlobal
    BY <2>1, <2>5 DEF GroupOwnsGlobal
  <2>7. GroupOwnsGlobal'
    <3>1. CASE counter[r] = 1
      BY <1>9, <3>1 DEF DecrementCounter, GroupOwnsGlobal
    <3>2. CASE counter[r] # 1
      <4>1. Counted \ {r} # {}
        <5>1. Cardinality(Counted') # 0
          BY <3>2, <2>2, <2>3, <2>4
        <5>2. Cardinality({}) = 0
          BY FS_EmptySet
        <5>3. QED  BY <5>1, <5>2, <2>1
      <4>2. PICK s \in Counted : s # r
        BY <4>1
      <4>3. s \in Counted' /\ pc'[s] # "global"
        BY <1>9, <4>2, <2>1, <2>5 DEF DecrementCounter, Counted
      <4>4. QED  BY <4>3 DEF GroupOwnsGlobal
    <3>3. QED  BY <3>1, <3>2
  <2>8. Ownership'
    BY <1>9, <2>6, <2>7 DEF DecrementCounter, LockInv, Ownership
  <2>9. QED
    BY <1>9, <2>2, <2>3, <2>4, <2>8 DEF DecrementCounter, LockInv, Ownership
<1>10. CASE UNCHANGED vars
  BY <1>10 DEF vars, LockInv, Counted, GroupOwnsGlobal
<1>11. QED
  BY <1>1, <1>2, <1>3, <1>4, <1>5, <1>6, <1>7, <1>8, <1>9, <1>10
  DEF Next, ReaderStep, CountReaders

THEOREM LockInvariant ==
  ASSUME OnlyWritersCrash
  PROVE  Spec => []LockInv
<1>1. Init => LockInv
  <2>1. ASSUME Init
        PROVE  Counted = {}
    BY <2>1 DEF Init, Counted
  <2>2. QED
    BY <2>1, FS_EmptySet DEF Init, LockInv, HoldsCounterLock, OwnsGate,
                             OwnsGlobal, GroupOwnsGlobal
<1>2. TypeOK /\ LockInv /\ [Next]_vars => LockInv'
  BY LockInvStep
<1>3. QED  BY <1>1, <1>2, TypeCorrect, PTL DEF Spec

(* Readers and a writer are never inside together, nor two writers: the    *)
(* writer owns the main lock, and so does the group of readers.            *)
THEOREM MutualExclusionHolds ==
  ASSUME OnlyWritersCrash
  PROVE  Spec => []MutualExclusion
<1>1. LockInv => MutualExclusion
  BY DEF LockInv, MutualExclusion, Reading, Writing, OwnsGlobal,
         GroupOwnsGlobal, Counted
<1>2. QED  BY <1>1, LockInvariant, PTL
-----------------------------------------------------------------------------
(* One step of the lock is a step of RWLockPromise or leaves its abstract  *)
(* state alone.                                                            *)
LEMMA PromiseStep ==
  ASSUME OnlyWritersCrash, TypeOK, LockInv, [Next]_vars
  PROVE  [Promise!Next]_(Promise!vars)
<1> DEFINE Inside == {r \in Readers : Reading(r)}
           Writes == {w \in Writers : Writing(w)}
           Same == /\ Admitted' = Admitted
                   /\ Inside' = Inside
                   /\ ClaimedBy' = ClaimedBy
                   /\ Writes' = Writes
<1> USE DEF TypeOK, ReaderPc, WriterPc, Reading, Writing
<1>0. Same => [Promise!Next]_(Promise!vars)
  BY DEF Promise!vars
<1>1. ASSUME NEW p \in Procs, Lock(p) \/ Restart(p)
      PROVE  Same
  BY <1>1 DEF Lock, Restart, Admitted, ClaimedBy
<1>2. ASSUME NEW w \in Writers, Crash(w) \/ StopWriting(w)
      PROVE  [Promise!Next]_(Promise!vars)
  <2>1. Admitted' = Admitted /\ Inside' = Inside /\ ClaimedBy' = ClaimedBy
        /\ Writes' = Writes \ {w}
    BY <1>2 DEF Crash, StopWriting, Admitted, ClaimedBy
  <2>2. CASE w \in Writes
    <3>1. Promise!StopWriting(w)
      BY <2>1, <2>2 DEF Promise!StopWriting
    <3>2. QED  BY <3>1 DEF Promise!Next
  <2>3. CASE w \notin Writes
    BY <2>1, <2>3, <1>0
  <2>4. QED  BY <2>2, <2>3
<1>3. ASSUME NEW r \in Readers, ReaderAcquireGate(r)
      PROVE  [Promise!Next]_(Promise!vars)
  <2>1. /\ r \notin Admitted \cup Inside
        /\ Admitted' = Admitted \cup {r}
        /\ Inside' = Inside /\ Writes' = Writes
        /\ ClaimedBy = Free /\ ClaimedBy' = Free
    BY <1>3 DEF ReaderAcquireGate, Admitted, ClaimedBy
  <2>2. Promise!Admit(r)
    BY <2>1 DEF Promise!Admit
  <2>3. QED  BY <2>2 DEF Promise!Next
<1>4. ASSUME NEW r \in Readers, StopReading(r)
      PROVE  [Promise!Next]_(Promise!vars)
  <2>1. /\ r \in Inside /\ Inside' = Inside \ {r}
        /\ Admitted' = Admitted /\ Writes' = Writes /\ ClaimedBy' = ClaimedBy
    BY <1>4 DEF StopReading, Admitted, ClaimedBy
  <2>2. Promise!StopReading(r)
    BY <2>1 DEF Promise!StopReading
  <2>3. QED  BY <2>2 DEF Promise!Next
<1>5. ASSUME NEW r \in Readers, ReleaseCounterLock(r)
      PROVE  [Promise!Next]_(Promise!vars)
  <2>1. counter_lock = r
    BY <1>5 DEF ReleaseCounterLock, LockInv, HoldsCounterLock
  <2>2. CASE pc[r] = "unlock"
    <3>1. /\ r \in Admitted /\ Admitted' = Admitted \ {r}
          /\ Inside' = Inside \cup {r}
          /\ ClaimedBy' = ClaimedBy /\ Writes' = Writes
      BY <1>5, <2>1, <2>2 DEF ReleaseCounterLock, Admitted, ClaimedBy
    <3>2. Writes = {}
      BY <2>2 DEF LockInv, OwnsGlobal, GroupOwnsGlobal, Counted
    <3>3. Promise!StartReading(r)
      BY <3>1, <3>2 DEF Promise!StartReading
    <3>4. QED  BY <3>3 DEF Promise!Next
  <2>3. CASE pc[r] # "unlock"
    <3>1. Same
      BY <1>5, <2>1, <2>3 DEF ReleaseCounterLock, Admitted, ClaimedBy
    <3>2. QED  BY <3>1, <1>0
  <2>4. QED  BY <2>2, <2>3
<1>6. ASSUME NEW r \in Readers,
             \/ ReaderResetGate(r) \/ AcquireCounterLock(r) \/ GetCounter(r)
             \/ ReaderAcquireGlobal(r) \/ ReaderResetGlobal(r)
      PROVE  Same
  <2>1. pc[r] = "open_gate" => write_waiting_lock = r
    BY DEF LockInv
  <2>2. QED
    BY <1>6, <2>1 DEF ReaderResetGate, AcquireCounterLock, GetCounter,
                      ReaderAcquireGlobal, ReaderResetGlobal, Admitted, ClaimedBy
<1>7. ASSUME NEW r \in Readers, IncrementCounter(r) \/ DecrementCounter(r)
      PROVE  Same
  BY <1>7 DEF IncrementCounter, DecrementCounter, Admitted, ClaimedBy
<1>8. ASSUME NEW w \in Writers, WriterAcquireGate(w)
      PROVE  [Promise!Next]_(Promise!vars)
  <2>1. /\ ClaimedBy = Free /\ ClaimedBy' = w
        /\ Admitted' = Admitted /\ Inside' = Inside /\ Writes' = Writes
    BY <1>8 DEF WriterAcquireGate, Admitted, ClaimedBy
  <2>2. Promise!Claim(w)
    BY <2>1 DEF Promise!Claim
  <2>3. QED  BY <2>2 DEF Promise!Next
<1>9. ASSUME NEW w \in Writers, WriterAcquireGlobal(w)
      PROVE  [Promise!Next]_(Promise!vars)
  <2>1. /\ Writes' = Writes \cup {w} /\ ClaimedBy = w
        /\ Admitted' = Admitted /\ Inside' = Inside /\ ClaimedBy' = ClaimedBy
    BY <1>9 DEF WriterAcquireGlobal, Admitted, ClaimedBy, LockInv, OwnsGate
  <2>2. Inside = {}
    BY <1>9 DEF WriterAcquireGlobal, LockInv, GroupOwnsGlobal, Counted
  <2>3. Writes = {}
    BY <1>9 DEF WriterAcquireGlobal, LockInv, OwnsGlobal
  <2>4. Promise!StartWriting(w)
    BY <2>1, <2>2, <2>3 DEF Promise!StartWriting
  <2>5. QED  BY <2>4 DEF Promise!Next
<1>10. ASSUME NEW w \in Writers, WriterResetGate(w)
       PROVE  [Promise!Next]_(Promise!vars)
  <2>1. /\ ClaimedBy = w /\ ClaimedBy' = Free /\ w \notin Writes
        /\ Admitted' = Admitted /\ Inside' = Inside /\ Writes' = Writes
    BY <1>10 DEF WriterResetGate, Admitted, ClaimedBy, LockInv, OwnsGate
  <2>2. Promise!Unclaim(w)
    BY <2>1 DEF Promise!Unclaim
  <2>3. QED  BY <2>2 DEF Promise!Next
<1>11. ASSUME NEW w \in Writers, WriterResetGlobal(w)
       PROVE  Same
  BY <1>11 DEF WriterResetGlobal, Admitted, ClaimedBy
<1>12. CASE ExpireGate
  <2>1. Admitted' = Admitted /\ Inside' = Inside /\ Writes' = Writes
    BY <1>12 DEF ExpireGate, Admitted
  <2>2. /\ write_waiting_lock \in Writers
        /\ pc[write_waiting_lock] = "dead"
    BY <1>12 DEF ExpireGate, Unrenewed, OnlyWritersCrash, LockInv
  <2>3. Promise!Unclaim(write_waiting_lock)
    BY <1>12, <2>1, <2>2 DEF ExpireGate, Promise!Unclaim, ClaimedBy
  <2>4. QED  BY <2>2, <2>3 DEF Promise!Next
<1>13. CASE ExpireCounterLock \/ ExpireGlobal \/ UNCHANGED vars
  <2>1. Same
    BY <1>13 DEF ExpireCounterLock, ExpireGlobal, vars, Admitted, ClaimedBy
  <2>2. QED  BY <2>1, <1>0
<1>14. ASSUME NEW r \in Readers
       PROVE  ~Crash(r)
  BY DEF Crash, OnlyWritersCrash
<1>15. QED
  BY <1>0, <1>1, <1>2, <1>3, <1>4, <1>5, <1>6, <1>7, <1>8, <1>9, <1>10, <1>11,
     <1>12, <1>13, <1>14
  DEF Next, ReaderStep, Enter, CountReaders, WriterStep, Expire

(* The lock implements what RWLockPromise states, exclusion and the bias   *)
(* to writers, for any finite set of readers and any set of writers.       *)
THEOREM LockKeepsPromise ==
  ASSUME OnlyWritersCrash
  PROVE  Spec => KeepsPromise
<1>1. Init => Promise!Init
  BY DEF Init, Promise!Init, Admitted, ClaimedBy, Reading, Writing
<1>2. TypeOK /\ LockInv /\ [Next]_vars => [Promise!Next]_(Promise!vars)
  BY PromiseStep
<1>3. QED
  BY <1>1, <1>2, TypeCorrect, LockInvariant, PTL
  DEF Spec, KeepsPromise, Promise!Spec
=============================================================================
