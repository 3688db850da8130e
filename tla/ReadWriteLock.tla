---------------------------- MODULE ReadWriteLock ----------------------------
(***************************************************************************)
(* The readers-writer lock of operator_api/models/locks.py, which guards   *)
(* the ledger of an eon: the transfer and swap handlers take it as         *)
(* readers, the checkpoint task takes it as a writer.  It is built from    *)
(* three redis locks and a redis counter shared by every process:          *)
(*                                                                         *)
(*   write_waiting_lock   the gate a reader passes and a writer holds      *)
(*   counter_lock         guards read_counter                              *)
(*   global_lock          held by the writer, or by the group of readers   *)
(*                                                                         *)
(* Each action is one redis command, so that everything another process    *)
(* can do between two commands is explored.  A redis lock (external code)  *)
(* is its owner or Free: acquire waits for Free, reset() deletes the key   *)
(* whoever owns it, release() fails when the caller is no longer the owner *)
(* and a key disappears when its time to live runs out unrenewed.          *)
(*                                                                         *)
(* LeaveGateClosed, SecondReaderFirst, OpenGlobalEarly, WriteAtOnce and    *)
(* KeepGlobal are faulty variants of the actions they precede: put in      *)
(* their place, they break the properties that guard against them.         *)
(***************************************************************************)
EXTENDS Integers, FiniteSets

CONSTANTS
  Readers,      \* processes that enter with is_write=False
  Writers,      \* processes that enter with is_write=True
  Free,         \* the value of a redis lock nobody owns
  Mortal,       \* the processes that may crash inside lock() .. release()
  MayExpire,    \* the locks whose time to live a living reader may outrun
  MaxReadCount  \* bound: no reader asks for the lock once read_counter, which
                \* leaks when readers crash, has reached it

Procs == Readers \cup Writers

ASSUME LockAssumption ==
  /\ IsFiniteSet(Readers)
  /\ Readers \cap Writers = {}
  /\ Free \notin Procs
  /\ Mortal \subseteq Procs
  /\ MayExpire \subseteq {"write_waiting_lock", "counter_lock", "global_lock"}
  /\ MaxReadCount \in Nat

VARIABLES
  write_waiting_lock,  \* owner of the gate, or Free
  counter_lock,        \* owner of the lock on the counter, or Free
  global_lock,         \* owner of the main lock, or Free
  read_counter,        \* the shared counter; it has no time to live
  counter,             \* per reader, the value it read from the counter, 0
                       \* once used
  pc                   \* per process, the redis command it runs next

vars == << write_waiting_lock, counter_lock, global_lock, read_counter,
           counter, pc >>

locks == << write_waiting_lock, counter_lock, global_lock >>

ReaderPc == {"idle", "gate", "open_gate", "enter", "get", "incr", "global",
             "unlock", "reading", "leave", "get_out", "decr", "open_global",
             "unlock_out", "dead"}
WriterPc == {"idle", "gate", "global", "writing", "open_gate", "open_global",
             "dead"}

TypeOK ==
  /\ write_waiting_lock \in Procs \cup {Free}
  /\ counter_lock \in Readers \cup {Free}
  /\ global_lock \in Procs \cup {Free}
  /\ read_counter \in Nat
  /\ counter \in [Readers -> Nat]
  /\ pc \in [Procs -> ReaderPc \cup WriterPc]
  /\ \A r \in Readers : pc[r] \in ReaderPc
  /\ \A w \in Writers : pc[w] \in WriterPc

Init ==
  /\ write_waiting_lock = Free
  /\ counter_lock = Free
  /\ global_lock = Free
  /\ read_counter = 0
  /\ counter = [r \in Readers |-> 0]
  /\ pc = [p \in Procs |-> "idle"]

Step(p, from, to) == pc[p] = from /\ pc' = [pc EXCEPT ![p] = to]

-----------------------------------------------------------------------------
(* A process calls lock(), reader or writer, and waits at the gate.        *)

Lock(p) ==
  /\ Step(p, "idle", "gate")
  /\ p \in Readers => read_counter < MaxReadCount
  /\ UNCHANGED << locks, read_counter, counter >>

(* Reader: acquire the gate and reset it at once, so that a writer who     *)
(* holds it keeps new readers out.                                         *)
ReaderAcquireGate(r) ==
  /\ Step(r, "gate", "open_gate")
  /\ write_waiting_lock = Free
  /\ write_waiting_lock' = r
  /\ UNCHANGED << counter_lock, global_lock, read_counter, counter >>

LeaveGateClosed(r) ==
  /\ Step(r, "open_gate", "enter")
  /\ UNCHANGED << locks, read_counter, counter >>

ReaderResetGate(r) ==
  /\ Step(r, "open_gate", "enter")
  /\ write_waiting_lock' = Free
  /\ UNCHANGED << counter_lock, global_lock, read_counter, counter >>

(* Reader: `with counter_lock`, in lock() ("enter") and release()          *)
(* ("leave").                                                              *)
AcquireCounterLock(r) ==
  /\ \/ Step(r, "enter", "get")
     \/ Step(r, "leave", "get_out")
  /\ counter_lock = Free
  /\ counter_lock' = r
  /\ UNCHANGED << write_waiting_lock, global_lock, read_counter, counter >>

GetCounter(r) ==
  /\ \/ Step(r, "get", "incr")
     \/ Step(r, "get_out", "decr")
  /\ counter' = [counter EXCEPT ![r] = read_counter]
  /\ UNCHANGED << locks, read_counter >>

(* The first reader goes on to the main lock, the others already own it as *)
(* a group.                                                                *)
SecondReaderFirst(r) ==
  /\ Step(r, "incr", IF counter[r] <= 1 THEN "global" ELSE "unlock")
  /\ read_counter' = counter[r] + 1
  /\ counter' = [counter EXCEPT ![r] = 0]
  /\ UNCHANGED locks

IncrementCounter(r) ==
  /\ Step(r, "incr", IF counter[r] = 0 THEN "global" ELSE "unlock")
  /\ read_counter' = counter[r] + 1
  /\ counter' = [counter EXCEPT ![r] = 0]
  /\ UNCHANGED locks

(* The first reader waits here for a writer, holding counter_lock.         *)
ReaderAcquireGlobal(r) ==
  /\ Step(r, "global", "unlock")
  /\ global_lock = Free
  /\ global_lock' = r
  /\ UNCHANGED << write_waiting_lock, counter_lock, read_counter, counter >>

(* Leaving `with counter_lock` releases it.  When the lock is no longer    *)
(* owned release() raises: lock() fails and the body of the `with` never   *)
(* runs, nor does its release().                                           *)
ReleaseCounterLock(r) ==
  /\ IF counter_lock = r
       THEN /\ \/ Step(r, "unlock", "reading")
               \/ Step(r, "unlock_out", "idle")
            /\ counter_lock' = Free
       ELSE /\ \/ Step(r, "unlock", "idle")
               \/ Step(r, "unlock_out", "idle")
            /\ counter_lock' = counter_lock
  /\ UNCHANGED << write_waiting_lock, global_lock, read_counter, counter >>

StopReading(r) ==
  /\ Step(r, "reading", "leave")
  /\ UNCHANGED << locks, read_counter, counter >>

OpenGlobalEarly(r) ==
  /\ Step(r, "decr", IF counter[r] <= 2 THEN "open_global" ELSE "unlock_out")
  /\ read_counter' = IF counter[r] > 0 THEN counter[r] - 1 ELSE read_counter
  /\ counter' = [counter EXCEPT ![r] = 0]
  /\ UNCHANGED locks

DecrementCounter(r) ==
  /\ Step(r, "decr", IF counter[r] = 1 THEN "open_global" ELSE "unlock_out")
  /\ read_counter' = IF counter[r] > 0 THEN counter[r] - 1 ELSE read_counter
  /\ counter' = [counter EXCEPT ![r] = 0]
  /\ UNCHANGED locks

(* The last reader resets the main lock, whoever acquired it.              *)
ReaderResetGlobal(r) ==
  /\ Step(r, "open_global", "unlock_out")
  /\ global_lock' = Free
  /\ UNCHANGED << write_waiting_lock, counter_lock, read_counter, counter >>

-----------------------------------------------------------------------------
(* Writer.                                                                 *)

WriterAcquireGate(w) ==
  /\ Step(w, "gate", "global")
  /\ write_waiting_lock = Free
  /\ write_waiting_lock' = w
  /\ UNCHANGED << counter_lock, global_lock, read_counter, counter >>

WriteAtOnce(w) ==
  /\ Step(w, "global", "writing")
  /\ global_lock' = w
  /\ UNCHANGED << write_waiting_lock, counter_lock, read_counter, counter >>

WriterAcquireGlobal(w) ==
  /\ Step(w, "global", "writing")
  /\ global_lock = Free
  /\ global_lock' = w
  /\ UNCHANGED << write_waiting_lock, counter_lock, read_counter, counter >>

StopWriting(w) ==
  /\ Step(w, "writing", "open_gate")
  /\ UNCHANGED << locks, read_counter, counter >>

WriterResetGate(w) ==
  /\ Step(w, "open_gate", "open_global")
  /\ write_waiting_lock' = Free
  /\ UNCHANGED << counter_lock, global_lock, read_counter, counter >>

KeepGlobal(w) ==
  /\ Step(w, "open_global", "idle")
  /\ UNCHANGED << locks, read_counter, counter >>

WriterResetGlobal(w) ==
  /\ Step(w, "open_global", "idle")
  /\ global_lock' = Free
  /\ UNCHANGED << write_waiting_lock, counter_lock, read_counter, counter >>

-----------------------------------------------------------------------------
(* Crashes and expiry.  Nothing renews the locks of a dead process.  The   *)
(* handlers build the readers' locks with auto_renewal=False, so those in  *)
(* MayExpire also run out while their owner lives.                         *)

Crash(p) ==
  /\ p \in Mortal
  /\ pc[p] \notin {"idle", "dead"}
  /\ pc' = [pc EXCEPT ![p] = "dead"]
  /\ counter' = [r \in Readers |-> IF r = p THEN 0 ELSE counter[r]]
  /\ UNCHANGED << locks, read_counter >>

(* A new process takes over once the locks of the dead one are gone.       *)
Restart(p) ==
  /\ Step(p, "dead", "idle")
  /\ p \notin {write_waiting_lock, counter_lock, global_lock}
  /\ UNCHANGED << locks, read_counter, counter >>

Unrenewed(lock, owner) ==
  \/ owner \in Procs /\ pc[owner] = "dead"
  \/ owner \in Readers /\ lock \in MayExpire

ExpireGate ==
  /\ Unrenewed("write_waiting_lock", write_waiting_lock)
  /\ write_waiting_lock' = Free
  /\ UNCHANGED << counter_lock, global_lock, read_counter, counter, pc >>

ExpireCounterLock ==
  /\ Unrenewed("counter_lock", counter_lock)
  /\ counter_lock' = Free
  /\ UNCHANGED << write_waiting_lock, global_lock, read_counter, counter, pc >>

ExpireGlobal ==
  /\ Unrenewed("global_lock", global_lock)
  /\ global_lock' = Free
  /\ UNCHANGED << write_waiting_lock, counter_lock, read_counter, counter, pc >>

-----------------------------------------------------------------------------

Enter(r) == ReaderAcquireGate(r) \/ ReaderResetGate(r)

CountReaders(r) ==
  \/ AcquireCounterLock(r) \/ GetCounter(r) \/ IncrementCounter(r)
  \/ DecrementCounter(r) \/ ReleaseCounterLock(r)

ReaderStep(r) ==
  \/ Enter(r) \/ CountReaders(r) \/ StopReading(r)
  \/ ReaderAcquireGlobal(r) \/ ReaderResetGlobal(r)

WriterStep(w) ==
  \/ WriterAcquireGate(w) \/ WriterAcquireGlobal(w) \/ StopWriting(w)
  \/ WriterResetGate(w) \/ WriterResetGlobal(w)

Expire == ExpireGate \/ ExpireCounterLock \/ ExpireGlobal

Next ==
  \/ \E p \in Procs : Lock(p) \/ Crash(p) \/ Restart(p)
  \/ \E r \in Readers : ReaderStep(r)
  \/ \E w \in Writers : WriterStep(w)
  \/ Expire

Spec == Init /\ [][Next]_vars

(* Nobody has to ask for the lock or crash, but a process that is in the   *)
(* lock goes on, and a lock that nothing renews runs out.  Weak fairness   *)
(* of each process is all redis gives: a waiter it wakes may find the lock *)
(* taken again.                                                            *)
Fairness ==
  /\ \A r \in Readers : WF_vars(ReaderStep(r))
  /\ \A w \in Writers : WF_vars(WriterStep(w))
  /\ WF_vars(ExpireGate) /\ WF_vars(ExpireCounterLock) /\ WF_vars(ExpireGlobal)

FairSpec == Spec /\ Fairness

-----------------------------------------------------------------------------
(* Properties.                                                             *)

Reading(r) == pc[r] = "reading"
Writing(w) == pc[w] = "writing"

(* Nobody reads while a writer writes, and writers write one at a time:    *)
(* "parallel read, single write lock" (locks.py:7).                        *)
MutualExclusion ==
  \A w \in Writers : Writing(w) =>
    /\ \A r \in Readers : ~Reading(r)
    /\ \A v \in Writers : Writing(v) => v = w

(* A writer that holds the gate is served, whatever the readers do: those  *)
(* past the gate drain, and the last of them frees the main lock, or it    *)
(* expires.                                                                *)
WaitingWriterIsServed ==
  \A w \in Writers : pc[w] = "global" ~> pc[w] \in {"writing", "dead"}

(* Readers and writers never block each other for good: while requests     *)
(* wait, one of them enters (or dies, or fails because its lock expired).  *)
Waiting(p) == pc[p] \in {"gate", "enter", "get", "incr", "global", "unlock"}

SomebodyEnters ==
  (\E p \in Procs : Waiting(p))
    ~> \/ \E p \in Procs : pc[p] \in {"reading", "writing", "dead"}
       \/ \A p \in Procs : ~Waiting(p)

(* The circumstances in which the lock keeps its promise: no reader dies   *)
(* inside it and no reader holds on to a lock past its time to live.       *)
OnlyWritersCrash == Mortal \subseteq Writers /\ MayExpire = {}

(* The counter counts the readers between their increment and decrement.   *)
Counted == {r \in Readers : pc[r] \in {"global", "unlock", "reading", "leave",
                                       "get_out", "decr"}}

HoldsCounterLock(r) == pc[r] \in {"get", "incr", "global", "unlock", "get_out",
                                  "decr", "open_global", "unlock_out"}

(* The readers as a group own the main lock when one of them acquired it   *)
(* and the last of them has not reset it yet.                              *)
GroupOwnsGlobal ==
  \/ \E r \in Counted : pc[r] # "global"
  \/ \E r \in Readers : pc[r] = "open_global"

OwnsGate(w) == pc[w] \in {"global", "writing", "open_gate"}
OwnsGlobal(w) == pc[w] \in {"writing", "open_gate", "open_global"}

(* The inductive invariant behind MutualExclusion, for runs in which only  *)
(* writers crash and no lock outlives its time: the owner of each lock is  *)
(* read off the program counters and the counter is the number of readers  *)
(* in the lock.                                                            *)
LockInv ==
  /\ \A r \in Readers : pc[r] # "dead"
  /\ \A r \in Readers : HoldsCounterLock(r) <=> counter_lock = r
  /\ \A r \in Readers : pc[r] = "open_gate" => write_waiting_lock = r
  /\ \A w \in Writers : OwnsGate(w) => write_waiting_lock = w
  /\ \A w \in Writers : OwnsGlobal(w) => global_lock = w
  /\ global_lock \in Readers <=> GroupOwnsGlobal
  /\ read_counter = Cardinality(Counted)
  /\ \A r \in Readers :
       /\ pc[r] \in {"incr", "decr"} => counter[r] = read_counter
       /\ pc[r] = "global" => read_counter = 1
       /\ pc[r] = "open_global" => read_counter = 0
-----------------------------------------------------------------------------
(* The lock implements RWLockPromise: a reader is admitted when it         *)
(* acquires the gate and until it reads, a writer claims the lock by       *)
(* holding the gate.                                                       *)
Admitted == {r \in Readers : pc[r] \in {"open_gate", "enter", "get", "incr",
                                        "global", "unlock"}}
ClaimedBy == IF write_waiting_lock \in Writers THEN write_waiting_lock ELSE Free

Promise == INSTANCE RWLockPromise WITH
  NoWriter <- Free,
  admitted <- Admitted,
  reading <- {r \in Readers : Reading(r)},
  claim <- ClaimedBy,
  writing <- {w \in Writers : Writing(w)}

(* Every behaviour of the lock is one RWLockPromise allows: exclusion and  *)
(* the bias to writers of locks.py:7-8 at once, as a user of the lock      *)
(* sees them.                                                              *)
KeepsPromise == Promise!Spec
=============================================================================
