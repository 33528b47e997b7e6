--------------------------- MODULE WorkerPoolProof ---------------------------
(***************************************************************************)
(* Proofs about WorkerPool.  First, for any number of callers, workers,    *)
(* tiles and parts: the order in which the two kinds of lock are taken.    *)
(*                                                                         *)
(* Then, for frames of one tile and any number of callers, workers and     *)
(* parts: what the tasks and the calls that wait for them hold of each     *)
(* other.  TaskInv relates the three places a task is in: the wp_task_data *)
(* of its caller (handle), the slot of a worker, and the worker that runs  *)
(* it.  A task that is given or running has a handle with its worker that  *)
(* says it is not over; a handle belongs to a call that goes on, and is    *)
(* one of those the call made and has not yet waited for.                  *)
(***************************************************************************)
EXTENDS WorkerPool, SequenceTheorems, TLAPS

Places == {"idle", "unborn", "take", "start", "push", "wait", "convert",
           "encode", "finish", "notify", "unlock", "ended"}

Vacant == {Nothing, Poison}

\* A worker with no task, running or given.
Idle(w) == pc[w] \in {"take", "unlock", "ended"} /\ slot[w] \in Vacant

Shape ==
  /\ pc \in [Threads -> Places]
  /\ lock \in [Workers -> Workers \cup {None}]
  /\ slot = [w \in Workers |-> slot[w]]
  /\ target \in [Threads -> Workers \cup {None}]
  /\ empty \subseteq Workers
  /\ poolLock \in Threads \cup {None}

\* The pool's lock is held just by a call that pushes a task.
PoolLockHeld == \A t \in Threads : pc[t] = "push" <=> poolLock = t

\* A worker's lock is held just by the worker, on its way through notify.
WorkerLockHeld ==
  \A w \in Workers : lock[w] # None <=> pc[w] \in {"notify", "unlock"}

\* Only a worker that looks for a task, or has ended, may have one to take.
SlotVacant ==
  \A w \in Workers : pc[w] \notin {"take", "ended"} => slot[w] \in Vacant

\* The workers in m_empty_workers are idle, and so is the one just taken out.
EmptyIdle == \A w \in empty : Idle(w)

TargetIdle ==
  \A t \in Threads : pc[t] = "push" =>
    target[t] \in Workers /\ target[t] \notin empty /\ Idle(target[t])

LockInv ==
  /\ Shape /\ PoolLockHeld /\ WorkerLockHeld
  /\ SlotVacant /\ EmptyIdle /\ TargetIdle

-----------------------------------------------------------------------------
\* The locks are free at first.
LEMMA LockInvInit == Init => LockInv
BY PoolAssumption
DEF Init, LockInv, Shape, PoolLockHeld, WorkerLockHeld, SlotVacant, EmptyIdle,
    TargetIdle, Threads, Places, Vacant, Nothing, Poison

\* A step that changes no lock, no set and no slot, and moves one thread
\* between places that are neither push nor past a finished task.
Quiet == {"idle", "start", "wait", "convert", "encode", "finish"}

\* A step of a thread that holds no lock, and takes none.
LEMMA QuietStep ==
  ASSUME LockInv, NEW t \in Threads, NEW place \in Quiet,
         pc[t] \in Quiet, pc' = [pc EXCEPT ![t] = place],
         UNCHANGED <<locks, sets, slot, target>>
  PROVE  LockInv'
<1>1. /\ lock' = lock /\ poolLock' = poolLock /\ empty' = empty /\ slot' = slot
      /\ target' = target
  BY DEF locks, sets
<1>2. /\ pc \in [Threads -> Places] /\ place \in Places
      /\ pc' \in [Threads -> Places] /\ pc'[t] = place
      /\ \A x \in Threads : x # t => pc'[x] = pc[x]
  BY DEF LockInv, Shape, Places, Quiet
<1>3. /\ place # "push" /\ pc[t] # "push"
      /\ {place, pc[t]} \intersect {"take", "notify", "unlock", "ended"} = {}
  BY DEF Quiet
<1>4. Shape'
  BY <1>1, <1>2 DEF LockInv, Shape
<1>5. PoolLockHeld'
  BY <1>1, <1>2, <1>3 DEF LockInv, PoolLockHeld
<1>6. WorkerLockHeld'
  BY <1>1, <1>2, <1>3 DEF LockInv, WorkerLockHeld, Threads
<1>7. SlotVacant'
  <2>. SUFFICES ASSUME NEW w \in Workers, pc'[w] \notin {"take", "ended"}
                PROVE  slot'[w] \in Vacant
    BY DEF SlotVacant, Vacant, Nothing, Poison
  <2>1. pc[w] \notin {"take", "ended"}
    BY <1>2, <1>3 DEF Threads
  <2>. QED BY <1>1, <2>1 DEF LockInv, SlotVacant
<1>8. \A w \in Workers : Idle(w) => Idle(w)'
  BY <1>1, <1>2, <1>3 DEF Idle, Threads
<1>9. EmptyIdle'
  BY <1>1, <1>8 DEF LockInv, EmptyIdle, Shape
<1>10. TargetIdle'
  BY <1>1, <1>2, <1>3, <1>8 DEF LockInv, TargetIdle
<1>. QED BY <1>4, <1>5, <1>6, <1>7, <1>9, <1>10 DEF LockInv

\* A step that changes none of the variables LockInv is about.
LEMMA SilentStep ==
  ASSUME LockInv, UNCHANGED <<locks, sets, slot, pc, target>>
  PROVE  LockInv'
BY DEF LockInv, Shape, PoolLockHeld, WorkerLockHeld, SlotVacant, EmptyIdle,
       TargetIdle, Idle, locks, sets

\* The pool is locked and a worker picked...
LEMMA PickWorkerLocks ==
  ASSUME LockInv, NEW t \in Threads, PickWorker(t)
  PROVE  LockInv'
<1>1. PICK w \in Free :
        /\ empty' = empty \ {w}
        /\ target' = [target EXCEPT ![t] = w]
        /\ pc' = [pc EXCEPT ![t] = "push",
                            ![w] = IF @ = "unborn" THEN "take" ELSE @]
  BY DEF PickWorker
<1>2. /\ pc[t] = "start" /\ poolLock = None /\ poolLock' = t
      /\ UNCHANGED <<lock, slot>>
  BY DEF PickWorker
<1>3. w \in Workers /\ (Idle(w) \/ pc[w] = "unborn")
  <2>1. CASE empty # {}
    BY <1>1, <2>1 DEF Free, LockInv, Shape, EmptyIdle
  <2>2. CASE empty = {}
    BY <1>1, <2>2 DEF Free, Newborn
  <2>. QED BY <2>1, <2>2
<1>4. w # t /\ w \in Threads /\ slot[w] \in Vacant
  BY <1>2, <1>3 DEF Idle, Threads, LockInv, SlotVacant
<1>5. /\ pc'[t] = "push"
      /\ pc'[w] = IF pc[w] = "unborn" THEN "take" ELSE pc[w]
      /\ \A x \in Threads : x # t /\ x # w => pc'[x] = pc[x]
      /\ pc' \in [Threads -> Places]
  BY <1>1, <1>4 DEF LockInv, Shape, Places
<1>6. Idle(w)'
  BY <1>2, <1>3, <1>4, <1>5 DEF Idle
<1>7. \A x \in Threads : pc[x] # "push"
  BY <1>2, PoolAssumption DEF LockInv, PoolLockHeld, Threads
<1>8. Shape'
  BY <1>1, <1>2, <1>3, <1>5 DEF LockInv, Shape
<1>9. PoolLockHeld'
  BY <1>2, <1>3, <1>4, <1>5, <1>7 DEF PoolLockHeld, Idle
<1>10. WorkerLockHeld'
  BY <1>2, <1>3, <1>4, <1>5 DEF LockInv, WorkerLockHeld, Idle, Threads
<1>11. SlotVacant'
  BY <1>2, <1>4, <1>5 DEF LockInv, SlotVacant, Threads
<1>12. EmptyIdle'
  BY <1>1, <1>2, <1>5 DEF LockInv, EmptyIdle, Idle, Shape, Threads
<1>13. TargetIdle'
  BY <1>1, <1>3, <1>4, <1>5, <1>6, <1>7 DEF LockInv, Shape, TargetIdle, Idle
<1>. QED BY <1>8, <1>9, <1>10, <1>11, <1>12, <1>13 DEF LockInv

\* ... which is given a task under its lock and the pool's.
LEMMA PushLocks ==
  ASSUME LockInv, NEW t \in Threads, Push(t)
  PROVE  LockInv'
<1>. DEFINE w == target[t]
<1>1. /\ pc[t] = "push" /\ lock[w] = None /\ poolLock' = None
      /\ slot' = [slot EXCEPT ![w] = <<Task(t)>>]
      /\ UNCHANGED <<lock, empty, target>>
  BY DEF Push, sets
<1>2. \E place \in {"start", "wait"} : pc' = [pc EXCEPT ![t] = place]
  BY DEF Push, Goto
<1>3. w \in Workers /\ w \notin empty /\ Idle(w) /\ poolLock = t
  BY <1>1 DEF LockInv, TargetIdle, PoolLockHeld
<1>4. pc[w] \in {"take", "ended"} /\ w # t
  BY <1>1, <1>3 DEF LockInv, WorkerLockHeld, Idle
<1>5. /\ pc'[t] \in {"start", "wait"}
      /\ \A x \in Threads : x # t => pc'[x] = pc[x]
      /\ \A v \in Workers : v # w => slot'[v] = slot[v]
      /\ pc' \in [Threads -> Places] /\ slot' = [v \in Workers |-> slot'[v]]
  BY <1>1, <1>2, <1>3 DEF LockInv, Shape, Places
<1>6. \A x \in Threads : x # t => pc[x] # "push"
  BY <1>3 DEF LockInv, PoolLockHeld
<1>7. Shape'
  BY <1>1, <1>5 DEF LockInv, Shape
<1>8. PoolLockHeld'
  BY <1>1, <1>5, <1>6, PoolAssumption DEF PoolLockHeld, Threads
<1>9. WorkerLockHeld'
  BY <1>1, <1>5 DEF LockInv, WorkerLockHeld, Threads
<1>10. SlotVacant'
  BY <1>4, <1>5, <1>1 DEF LockInv, SlotVacant, Threads
<1>11. EmptyIdle'
  BY <1>1, <1>3, <1>5 DEF LockInv, EmptyIdle, Idle, Shape, Threads
<1>12. TargetIdle'
  BY <1>5, <1>6 DEF TargetIdle
<1>. QED BY <1>7, <1>8, <1>9, <1>10, <1>11, <1>12 DEF LockInv

\* The thread that waits finds its task completed.
LEMMA WaitOverLocks ==
  ASSUME LockInv, NEW t \in Threads, WaitOver(t)
  PROVE  LockInv'
<1>1. pc[t] = "wait" /\ UNCHANGED <<locks, sets, slot, target>>
  BY DEF WaitOver
<1>2. CASE UNCHANGED pc
  BY <1>1, <1>2, SilentStep
<1>3. CASE pc' = [pc EXCEPT ![t] = Continue(t)]
  BY <1>1, <1>3, QuietStep DEF Continue, Quiet
<1>. QED BY <1>2, <1>3 DEF WaitOver, Goto

\* A worker that takes a task, or the poison: only its own place and slot
\* change, and it was not idle, or ends.
LEMMA TakeLocks ==
  ASSUME LockInv, NEW w \in Workers, Take(w)
  PROVE  LockInv'
<1>1. /\ pc[w] = "take" /\ slot[w] \notin Vacant
      /\ slot' = [slot EXCEPT ![w] = Nothing]
      /\ UNCHANGED <<locks, sets, target>>
  BY DEF Take, Vacant
<1>2. \E place \in {"start", "convert", "finish"} : pc' = [pc EXCEPT ![w] = place]
  BY DEF Take, Goto
<1>3. Shape'
  <2>1. pc' \in [Threads -> Places]
    BY <1>2 DEF LockInv, Shape, Places
  <2>2. slot' = [v \in Workers |-> slot'[v]]
    BY <1>1 DEF LockInv, Shape
  <2>. QED BY <1>1, <2>1, <2>2 DEF LockInv, Shape, locks, sets
<1>4. PoolLockHeld' /\ WorkerLockHeld'
  BY <1>1, <1>2, PoolAssumption
  DEF LockInv, Shape, PoolLockHeld, WorkerLockHeld, Threads, locks, sets
<1>5. SlotVacant'
  BY <1>1, <1>2, PoolAssumption
  DEF LockInv, Shape, SlotVacant, Vacant, Threads, locks, sets
<1>6. EmptyIdle'
  BY <1>1, <1>2, PoolAssumption
  DEF LockInv, Shape, WorkerLockHeld, SlotVacant, EmptyIdle, Idle, Vacant,
      Threads, locks, sets
<1>7. TargetIdle'
  BY <1>1, <1>2, PoolAssumption
  DEF LockInv, Shape, PoolLockHeld, SlotVacant, TargetIdle, Idle, Vacant,
      Threads, locks, sets
<1>. QED BY <1>3, <1>4, <1>5, <1>6, <1>7 DEF LockInv

\* A worker finds the poison in its slot and ends.
LEMMA EndLocks ==
  ASSUME LockInv, NEW w \in Workers, End(w)
  PROVE  LockInv'
<1>1. /\ pc[w] = "take"
      /\ slot' = [slot EXCEPT ![w] = Nothing]
      /\ pc' = [pc EXCEPT ![w] = "ended"]
      /\ UNCHANGED <<locks, sets, target>>
  BY DEF End, Goto
<1>3. Shape'
  BY <1>1, PoolAssumption DEF LockInv, Shape, Threads, Places, locks, sets
<1>4. PoolLockHeld' /\ WorkerLockHeld'
  BY <1>1, PoolAssumption
  DEF LockInv, Shape, PoolLockHeld, WorkerLockHeld, Threads, locks, sets
<1>5. SlotVacant'
  BY <1>1, PoolAssumption
  DEF LockInv, Shape, SlotVacant, Vacant, Threads, locks, sets
<1>6. EmptyIdle'
  BY <1>1, PoolAssumption
  DEF LockInv, Shape, WorkerLockHeld, SlotVacant, EmptyIdle, Idle, Vacant,
      Threads, locks, sets
<1>7. TargetIdle'
  BY <1>1, PoolAssumption
  DEF LockInv, Shape, PoolLockHeld, SlotVacant, TargetIdle, Idle, Vacant,
      Threads, locks, sets
<1>. QED BY <1>3, <1>4, <1>5, <1>6, <1>7 DEF LockInv

\* A worker has its result, and takes its lock...
LEMMA FinishLocks ==
  ASSUME LockInv, NEW w \in Workers, Finish(w)
  PROVE  LockInv'
<1>1. /\ pc[w] = "finish" /\ lock[w] = None
      /\ lock' = [lock EXCEPT ![w] = w]
      /\ pc' = [pc EXCEPT ![w] = "notify"]
      /\ UNCHANGED <<poolLock, sets, slot, target>>
  BY DEF Finish, Goto
<1>3. Shape'
  BY <1>1, PoolAssumption DEF LockInv, Shape, Threads, Places, sets
<1>4. PoolLockHeld' /\ WorkerLockHeld'
  BY <1>1, PoolAssumption
  DEF LockInv, Shape, PoolLockHeld, WorkerLockHeld, Threads, sets
<1>5. SlotVacant'
  BY <1>1, PoolAssumption DEF LockInv, Shape, SlotVacant, Vacant, Threads, sets
<1>6. EmptyIdle'
  BY <1>1, PoolAssumption
  DEF LockInv, Shape, WorkerLockHeld, SlotVacant, EmptyIdle, Idle, Vacant,
      Threads, sets
<1>7. TargetIdle'
  BY <1>1, PoolAssumption
  DEF LockInv, Shape, PoolLockHeld, SlotVacant, TargetIdle, Idle, Vacant,
      Threads, sets
<1>. QED BY <1>3, <1>4, <1>5, <1>6, <1>7 DEF LockInv

\* ... is put back among the free ones under the lock of the pool...
LEMMA NotifyLocks ==
  ASSUME LockInv, NEW w \in Workers, Notify(w)
  PROVE  LockInv'
<1>1. /\ pc[w] = "notify" /\ poolLock = None
      /\ empty' = empty \cup {w}
      /\ pc' = [pc EXCEPT ![w] = "unlock"]
      /\ UNCHANGED <<locks, slot, target>>
  BY DEF Notify, Goto
<1>2. \A t \in Threads : pc[t] # "push"
  BY <1>1, PoolAssumption DEF LockInv, PoolLockHeld, Threads
<1>3. Shape'
  BY <1>1, <1>2, PoolAssumption DEF LockInv, Shape, Threads, Places, locks
<1>4. PoolLockHeld' /\ WorkerLockHeld'
  BY <1>1, <1>2, PoolAssumption
  DEF LockInv, Shape, PoolLockHeld, WorkerLockHeld, Threads, locks
<1>5. SlotVacant'
  BY <1>1, <1>2, PoolAssumption
  DEF LockInv, Shape, SlotVacant, Vacant, Threads, locks
<1>6. EmptyIdle'
  BY <1>1, <1>2, PoolAssumption
  DEF LockInv, Shape, WorkerLockHeld, SlotVacant, EmptyIdle, Idle, Vacant,
      Threads, locks
<1>7. TargetIdle'
  BY <1>1, <1>2, PoolAssumption
  DEF LockInv, Shape, PoolLockHeld, SlotVacant, TargetIdle, Idle, Vacant,
      Threads, locks
<1>. QED BY <1>3, <1>4, <1>5, <1>6, <1>7 DEF LockInv

\* ... and lets go of its lock.
LEMMA UnlockLocks ==
  ASSUME LockInv, NEW w \in Workers, Unlock(w)
  PROVE  LockInv'
<1>1. /\ pc[w] = "unlock"
      /\ lock' = [lock EXCEPT ![w] = None]
      /\ pc' = [pc EXCEPT ![w] = "take"]
      /\ UNCHANGED <<poolLock, sets, slot, target>>
  BY DEF Unlock, Goto
<1>3. Shape'
  BY <1>1, PoolAssumption DEF LockInv, Shape, Threads, Places, sets
<1>4. PoolLockHeld' /\ WorkerLockHeld'
  BY <1>1, PoolAssumption
  DEF LockInv, Shape, PoolLockHeld, WorkerLockHeld, Threads, sets
<1>5. SlotVacant'
  BY <1>1, PoolAssumption DEF LockInv, Shape, SlotVacant, Vacant, Threads, sets
<1>6. EmptyIdle'
  BY <1>1, PoolAssumption
  DEF LockInv, Shape, WorkerLockHeld, SlotVacant, EmptyIdle, Idle, Vacant,
      Threads, sets
<1>7. TargetIdle'
  BY <1>1, PoolAssumption
  DEF LockInv, Shape, PoolLockHeld, SlotVacant, TargetIdle, Idle, Vacant,
      Threads, sets
<1>. QED BY <1>3, <1>4, <1>5, <1>6, <1>7 DEF LockInv

\* The destructor of the pool pushes the poison.
LEMMA KillLocks ==
  ASSUME LockInv, NEW w \in Workers, Kill(w)
  PROVE  LockInv'
<1>1. /\ slot' = [slot EXCEPT ![w] = Poison]
      /\ UNCHANGED <<locks, sets, pc, target>>
  BY DEF Kill
<1>. QED BY <1>1
         DEF LockInv, Shape, PoolLockHeld, WorkerLockHeld, SlotVacant,
             EmptyIdle, TargetIdle, Threads, Idle, Vacant, locks, sets

\* Every step keeps the locks in order.
LEMMA LockInvNext == LockInv /\ [Next]_vars => LockInv'
<1>. SUFFICES ASSUME LockInv, [Next]_vars PROVE LockInv'
  OBVIOUS
<1>1. ASSUME NEW t \in Threads, CallStep(t) PROVE LockInv'
  <2>1. CASE WaitAsleep(t)
    BY <2>1, SilentStep DEF WaitAsleep
  <2>. QED BY <1>1, <2>1, PickWorkerLocks, PushLocks, WaitOverLocks DEF CallStep
<1>2. ASSUME NEW c \in Callers, CallerStep(c) PROVE LockInv'
  <2>1. CASE Compress(c)
    BY <2>1, QuietStep DEF Compress, Goto, Quiet, Threads
  <2>. QED BY <1>1, <1>2, <2>1 DEF CallerStep, Threads
<1>3. ASSUME NEW w \in Workers, WorkerStep(w) PROVE LockInv'
  <2>1. CASE Run(w)
    BY <2>1, QuietStep DEF Run, Goto, Quiet, Threads
  <2>. QED BY <1>1, <1>3, <2>1, TakeLocks, FinishLocks, NotifyLocks, UnlockLocks,
              EndLocks DEF WorkerStep, Threads
<1>4. ASSUME NEW t \in Threads, WakeUp(t) PROVE LockInv'
  BY <1>4, SilentStep DEF WakeUp
<1>5. CASE UNCHANGED vars
  BY <1>5, SilentStep DEF vars, locks, sets
<1>. QED BY <1>2, <1>3, <1>4, <1>5, KillLocks DEF Next

\* The order of the locks is part of the invariant.
LEMMA LockInvOrder == LockInv => LockOrder
BY DEF LockInv, LockOrder, PoolLockHeld, WorkerLockHeld, TargetIdle, Idle

\* No two threads of the pool wait for each other's lock, with any number of
\* encoders, tiles and parts: who holds the pool's lock and wants a worker's
\* finds it free, or held by a worker that wants no other lock.
THEOREM LocksOrdered == Spec => []LockOrder
<1>. QED BY LockInvInit, LockInvNext, LockInvOrder, PTL DEF Spec

-----------------------------------------------------------------------------
(***************************************************************************)
(* Tasks and those who wait for them.                                      *)
(***************************************************************************)
Paths == Seq(Callers \cup Nat)

Busy(w) == pc[w] \in {"start", "push", "wait", "convert", "encode", "finish"}

\* Task d was given to w and is not over.
Has(w, d) == (Busy(w) /\ call[w] = d) \/ slot[w] = <<d>>

TaskShape ==
  /\ call \in [Threads -> Paths]
  /\ next \in [Threads -> Nat]
  /\ slot \in [Workers -> {Nothing, Poison} \cup {<<d>> : d \in Paths}]
  /\ DOMAIN handle \subseteq Paths
  /\ handle \in [DOMAIN handle -> [w: Workers, returned: BOOLEAN]]
  /\ \A d \in failed : Len(d) = 3

CallsOfCallers ==
  \A c \in Callers :
    /\ pc[c] \in {"idle", "start", "push", "wait"}
    /\ call[c][1] = c /\ call[c][2] \in Nat /\ Len(call[c]) = 2

CallsOfWorkers ==
  \A w \in Workers : InCall(w) \/ pc[w] = "encode" =>
    call[w][1] \in Callers /\ Len(call[w]) = 3

\* A call is at one of its tasks, and starts with the first.
NextInCall ==
  \A t \in Threads : IF InCall(t) THEN next[t] \in 1 .. Width(t) ELSE next[t] = 1

TasksHaveHandles ==
  \A w \in Workers : \A d \in Paths : Has(w, d) =>
    d \in DOMAIN handle /\ handle[d].w = w /\ ~handle[d].returned

\* Handle d is that of task k of the call of t.
HandleOf(d, t, k) ==
  /\ InCall(t) /\ d = Append(call[t], k) /\ k \in 1 .. Width(t)
  /\ IF pc[t] = "wait" THEN k >= next[t] ELSE k < next[t]

HandlesHaveCalls ==
  \A d \in DOMAIN handle : \E t \in Threads, k \in Nat : HandleOf(d, t, k)

PoisonLast == (\E w \in Workers : slot[w] = Poison) => CallersDone

\* Why a worker is occupied: its task is not over, or it is just given one, or
\* it is on its way back with its lock held, so that nobody can have the result.
OccupiedBy(w) ==
  \/ \E d \in DOMAIN handle : handle[d].w = w /\ ~handle[d].returned
  \/ \E t \in Threads : pc[t] = "push" /\ target[t] = w
  \/ pc[w] = "notify" /\ call[w] \in DOMAIN handle /\ handle[call[w]].w = w

OccupiedReason == \A w \in occupied : w \in Workers /\ OccupiedBy(w)

TaskInv ==
  /\ TaskShape /\ CallsOfCallers /\ CallsOfWorkers /\ NextInCall
  /\ TasksHaveHandles /\ HandlesHaveCalls /\ PoisonLast /\ OccupiedReason

-----------------------------------------------------------------------------
(* Paths.                                                                  *)

\* A path made longer by one step.
LEMMA AppendPath ==
  ASSUME NEW s \in Paths, NEW k \in Nat
  PROVE  /\ Append(s, k) \in Paths
         /\ Len(Append(s, k)) = Len(s) + 1
         /\ \A i \in 1 .. Len(s) : Append(s, k)[i] = s[i]
<1>. DEFINE S == Callers \cup Nat
<1>1. k \in S /\ s \in Seq(S)
  BY DEF Paths
<1>2. Paths = Seq(S)
  BY DEF Paths
<1>. HIDE DEF S
<1>. QED BY <1>1, <1>2, AppendProperties

\* Two paths made longer are the same if they were and the step is.
LEMMA AppendSame ==
  ASSUME NEW s \in Paths, NEW k \in Nat, NEW r \in Paths, NEW j \in Nat,
         Append(s, k) = Append(r, j)
  PROVE  s = r /\ k = j
<1>. DEFINE S == Callers \cup Nat
<1>1. k \in S /\ s \in Seq(S) /\ j \in S /\ r \in Seq(S)
  BY DEF Paths
<1>. HIDE DEF S
<1>. QED BY <1>1, AppendInjective

\* The path without its last part is that of the call the task is part of.
LEMMA FrontOfAppend ==
  ASSUME NEW s \in Paths, NEW k \in Nat
  PROVE  LET d == Append(s, k) IN SubSeq(d, 1, Len(d) - 1) = s
<1>. DEFINE d == Append(s, k)
<1>1. /\ s \in Seq(Callers \cup Nat) /\ d \in Seq(Callers \cup Nat)
      /\ Len(s) \in Nat /\ Len(d) - 1 = Len(s)
      /\ \A i \in 1 .. Len(s) : d[i] = s[i]
  <2>1. s \in Seq(Callers \cup Nat) /\ Len(s) \in Nat
    BY LenProperties DEF Paths
  <2>. QED BY <2>1, AppendPath DEF Paths
<1>2. \A i \in 1 .. Len(s) : d[i] \in Callers \cup Nat
  BY <1>1, ElementOfSeq
<1>. HIDE DEF d
<1>3. /\ SubSeq(d, 1, Len(s)) \in Seq(Callers \cup Nat)
      /\ Len(SubSeq(d, 1, Len(s))) = IF 1 <= Len(s) THEN Len(s) - 1 + 1 ELSE 0
      /\ \A i \in 1 .. Len(s) - 1 + 1 : SubSeq(d, 1, Len(s))[i] = d[1 + i - 1]
  <2>. DEFINE S == Callers \cup Nat
           n == Len(s)
  <2>1. 1 \in Int /\ n \in Int /\ \A i \in 1 .. n : d[i] \in S
    BY <1>1, <1>2
  <2>. HIDE DEF S, n
  <2>2. /\ SubSeq(d, 1, n) \in Seq(S)
        /\ Len(SubSeq(d, 1, n)) = IF 1 <= n THEN n - 1 + 1 ELSE 0
        /\ \A i \in 1 .. n - 1 + 1 : SubSeq(d, 1, n)[i] = d[1 + i - 1]
    BY <2>1, SubSeqProperties
  <2>. QED BY <2>2 DEF S, n
<1>4. Len(SubSeq(d, 1, Len(s))) = Len(s)
  BY <1>1, <1>3
<1>5. \A i \in 1 .. Len(s) : SubSeq(d, 1, Len(s))[i] = s[i]
  BY <1>1, <1>3
<1>6. SubSeq(d, 1, Len(s)) = s
  BY <1>1, <1>3, <1>4, <1>5, SeqEqual
<1>. QED BY <1>1, <1>6 DEF d

-----------------------------------------------------------------------------
(* Tasks and handles.                                                      *)

\* No two calls have the same path.
LEMMA CallsDiffer ==
  ASSUME TaskInv, NEW t \in Threads, NEW u \in Threads,
         InCall(t), InCall(u), call[t] = call[u]
  PROVE  t = u
<1>1. \A w \in Workers : InCall(w) => Len(call[w]) = 3 /\ Has(w, call[w])
  BY DEF TaskInv, CallsOfWorkers, InCall, Has, Busy
<1>2. \A w \in Workers : InCall(w) => handle[call[w]].w = w
  BY <1>1 DEF TaskInv, TasksHaveHandles, TaskShape, Threads
<1>3. \A c \in Callers : Len(call[c]) = 2 /\ call[c][1] = c
  BY DEF TaskInv, CallsOfCallers
<1>. QED BY <1>1, <1>2, <1>3 DEF Threads

\* A task is of one thread, and has one number in its call.
LEMMA HandleOfOne ==
  ASSUME TaskInv, NEW t \in Threads, NEW u \in Threads,
         NEW k \in Nat, NEW j \in Nat, NEW d,
         HandleOf(d, t, k), HandleOf(d, u, j)
  PROVE  t = u /\ k = j
<1>1. call[t] \in Paths /\ call[u] \in Paths
  BY DEF TaskInv, TaskShape
<1>2. Append(call[t], k) = Append(call[u], j)
  BY DEF HandleOf
<1>3. call[t] = call[u] /\ k = j
  BY <1>1, <1>2, AppendSame
<1>. QED BY <1>3, CallsDiffer DEF HandleOf

\* The task a call is to start is new.
LEMMA TaskIsNew ==
  ASSUME TaskInv, NEW t \in Threads, pc[t] \in {"start", "push"}
  PROVE  Task(t) \notin DOMAIN handle
<1>1. SUFFICES ASSUME Task(t) \in DOMAIN handle PROVE FALSE
  OBVIOUS
<1>2. PICK u \in Threads, k \in Nat : HandleOf(Task(t), u, k)
  BY <1>1 DEF TaskInv, HandlesHaveCalls
<1>3. InCall(t) /\ InCall(u) /\ next[t] \in Nat
  BY <1>2 DEF InCall, HandleOf, TaskInv, TaskShape
<1>4. call[u] = call[t] /\ k = next[t]
  BY <1>2, <1>3, AppendSame DEF HandleOf, Task, TaskInv, TaskShape
<1>5. u = t
  BY <1>3, <1>4, CallsDiffer
<1>. QED BY <1>2, <1>4, <1>5 DEF HandleOf

\* Slots of the three kinds differ.
LEMMA SlotKinds ==
  ASSUME NEW d \in Paths
  PROVE  <<d>> \notin Vacant
<1>1. d # None
  BY PoolAssumption DEF Paths
<1>2. <<d>>[1] = d /\ <<None>>[1] = None
  OBVIOUS
<1>3. Len(<<d>>) = 1 /\ Len(<<>>) = 0
  OBVIOUS
<1>. QED BY <1>1, <1>2, <1>3 DEF Vacant, Nothing, Poison

\* A worker has one task at most.
LEMMA HasOne ==
  ASSUME LockInv, TaskInv, NEW w \in Workers, Busy(w)
  PROVE  /\ slot[w] \in Vacant
         /\ \A d \in Paths : Has(w, d) => d = call[w]
<1>1. slot[w] \in Vacant
  BY DEF LockInv, SlotVacant, Busy
<1>. QED BY <1>1, SlotKinds DEF Has

\* A call starts at a caller, and has a task to start.
LEMMA CallsHaveTasks ==
  ASSUME TaskInv, NEW t \in Threads, InCall(t)
  PROVE  /\ call[t] \in Paths /\ next[t] \in Nat /\ Task(t) \in Paths
         /\ call[t][1] \in Callers /\ Len(call[t]) \in {2, 3}
         /\ Task(t)[1] \in Callers /\ Len(Task(t)) = Len(call[t]) + 1
         /\ Width(t) \in Nat
<1>1. /\ call[t] \in Paths /\ next[t] \in Nat /\ call[t][1] \in Callers
      /\ Len(call[t]) \in {2, 3}
  BY DEF TaskInv, TaskShape, CallsOfCallers, CallsOfWorkers, Threads
<1>2. /\ Task(t) \in Paths /\ Len(Task(t)) = Len(call[t]) + 1
      /\ Task(t)[1] = call[t][1]
  BY <1>1, AppendPath DEF Task
<1>3. Width(t) \in Nat
  BY <1>1, PoolAssumption DEF Width
<1>. QED BY <1>1, <1>2, <1>3

\* What is handed to a worker comes from a call.
LEMMA HandlesArePaths ==
  ASSUME TaskInv, NEW d \in DOMAIN handle
  PROVE  d[1] \in Callers /\ Len(d) \in {3, 4}
<1>1. PICK u \in Threads, k \in Nat : HandleOf(d, u, k)
  BY DEF TaskInv, HandlesHaveCalls
<1>2. /\ d = Append(call[u], k) /\ call[u] \in Paths /\ call[u][1] \in Callers
      /\ Len(call[u]) \in {2, 3}
  BY <1>1, CallsHaveTasks DEF HandleOf
<1>3. Len(d) = Len(call[u]) + 1 /\ \A i \in 1 .. Len(call[u]) : d[i] = call[u][i]
  BY <1>2, AppendPath
<1>4. 1 \in 1 .. Len(call[u])
  BY <1>2
<1>5. d[1] = call[u][1]
  BY <1>3, <1>4
<1>6. call[u][1] \in Callers /\ Len(call[u]) \in {2, 3}
  BY <1>2
<1>7. Len(d) \in {3, 4}
  <2>. DEFINE m == Len(d)
              n == Len(call[u])
  <2>1. m = n + 1 /\ n \in {2, 3}
    BY <1>3, <1>6
  <2>. HIDE DEF m, n
  <2>2. m \in {3, 4}
    BY <2>1
  <2>. QED BY <2>2 DEF m
<1>. QED BY <1>5, <1>6, <1>7

-----------------------------------------------------------------------------
(* The steps.                                                              *)

\* No task is under way at first.
LEMMA TaskInvInit == ASSUME Tiles = 1 PROVE Init => TaskInv
<1>. SUFFICES ASSUME Init PROVE TaskInv
  OBVIOUS
<1>1. \A c \in Callers : <<c, 0>> \in Paths /\ Len(<<c, 0>>) = 2
                         /\ <<c, 0>>[1] = c /\ <<c, 0>>[2] = 0
  BY DEF Paths
<1>2. <<>> \in Paths
  BY DEF Paths
<1>3. /\ pc = [t \in Threads |-> IF t \in Callers THEN "idle" ELSE "unborn"]
      /\ call = [t \in Threads |-> IF t \in Callers THEN <<t, 0>> ELSE <<>>]
      /\ next = [t \in Threads |-> 1]
      /\ slot = [w \in Workers |-> Nothing]
      /\ handle = [d \in {} |-> 0] /\ failed = {} /\ occupied = {}
  BY DEF Init
<1>4. TaskShape
  BY <1>1, <1>2, <1>3 DEF TaskShape
<1>5. CallsOfCallers
  BY <1>1, <1>3 DEF CallsOfCallers, Threads
<1>6. CallsOfWorkers /\ NextInCall
  BY <1>3, PoolAssumption DEF CallsOfWorkers, NextInCall, InCall, Threads
<1>7. TasksHaveHandles
  BY <1>3, SlotKinds, PoolAssumption DEF TasksHaveHandles, Has, Busy, Threads, Vacant
<1>8. HandlesHaveCalls
  BY <1>3 DEF HandlesHaveCalls
<1>9. PoisonLast
  BY <1>3 DEF PoisonLast, Nothing, Poison
<1>10. OccupiedReason
  BY <1>3 DEF OccupiedReason
<1>. QED BY <1>4, <1>5, <1>6, <1>7, <1>8, <1>9, <1>10 DEF TaskInv

\* A step that touches no task.
LEMMA TaskSilentStep ==
  ASSUME TaskInv, UNCHANGED <<lock, occupied, slot, handle, failed, pc, call, next, target>>
  PROVE  TaskInv'
BY DEF TaskInv, TaskShape, CallsOfCallers, CallsOfWorkers, NextInCall,
       TasksHaveHandles, HandlesHaveCalls, PoisonLast, OccupiedReason,
       OccupiedBy, HandleOf, Has, Busy, InCall, Width, CallersDone

\* A thread picks a worker for a task...
LEMMA PickWorkerTasks ==
  ASSUME LockInv, TaskInv, NEW t \in Threads, PickWorker(t)
  PROVE  TaskInv'
<1>1. PICK w \in Free :
        /\ occupied' = occupied \cup {w}
        /\ target' = [target EXCEPT ![t] = w]
        /\ pc' = [pc EXCEPT ![t] = "push",
                            ![w] = IF @ = "unborn" THEN "take" ELSE @]
  BY DEF PickWorker
<1>2. /\ pc[t] = "start" /\ poolLock = None
      /\ UNCHANGED <<lock, slot, handle, failed, call, next>>
  BY DEF PickWorker
<1>3. w \in Workers /\ (Idle(w) \/ pc[w] = "unborn")
  <2>1. CASE empty # {}
    BY <1>1, <2>1 DEF Free, LockInv, Shape, EmptyIdle
  <2>2. CASE empty = {}
    BY <1>1, <2>2 DEF Free, Newborn
  <2>. QED BY <2>1, <2>2
<1>4. w # t /\ w \in Threads /\ w \notin Callers
  BY <1>2, <1>3, PoolAssumption DEF Idle, Threads
<1>5. /\ pc'[t] = "push" /\ pc'[w] \in {"take", "unlock", "ended"}
      /\ pc[w] \in {"unborn", "take", "unlock", "ended"}
      /\ \A x \in Threads : x # t /\ x # w => pc'[x] = pc[x]
  BY <1>1, <1>3, <1>4 DEF LockInv, Shape, Places, Idle
<1>6. \A x \in Threads : pc[x] # "push"
  BY <1>2, PoolAssumption DEF LockInv, PoolLockHeld, Threads
<1>7. \A x \in Threads : /\ InCall(x)' <=> InCall(x)
                         /\ Busy(x)' <=> Busy(x)
                         /\ pc'[x] = "wait" <=> pc[x] = "wait"
                         /\ pc'[x] = "encode" <=> pc[x] = "encode"
                         /\ Width(x)' = Width(x)
  BY <1>2, <1>5 DEF InCall, Busy, Width
<1>8. TaskShape'
  BY <1>2 DEF TaskInv, TaskShape
<1>9. CallsOfCallers'
  BY <1>2, <1>4, <1>5 DEF TaskInv, CallsOfCallers, Threads
<1>10. CallsOfWorkers' /\ NextInCall'
  BY <1>2, <1>7 DEF TaskInv, CallsOfWorkers, NextInCall, Threads
<1>11. TasksHaveHandles'
  BY <1>2, <1>7 DEF TaskInv, TasksHaveHandles, Has, Threads
<1>12. HandlesHaveCalls'
  BY <1>2, <1>7 DEF TaskInv, HandlesHaveCalls, HandleOf
<1>13. PoisonLast'
  BY <1>2, <1>4, <1>5 DEF TaskInv, PoisonLast, CallersDone, Threads
<1>14. OccupiedReason'
  <2>. SUFFICES ASSUME NEW v \in occupied' PROVE v \in Workers /\ OccupiedBy(v)'
    BY DEF OccupiedReason
  <2>1. CASE v = w
    BY <1>1, <1>3, <1>4, <1>5, <2>1 DEF OccupiedBy, LockInv, Shape
  <2>2. CASE v # w
    <3>1. v \in occupied /\ v \in Workers /\ OccupiedBy(v)
      BY <1>1, <2>2 DEF TaskInv, OccupiedReason
    <3>2. \/ \E d \in DOMAIN handle : handle[d].w = v /\ ~handle[d].returned
          \/ pc[v] = "notify" /\ call[v] \in DOMAIN handle /\ handle[call[v]].w = v
      BY <1>6, <3>1 DEF OccupiedBy
    <3>3. ASSUME pc[v] = "notify" PROVE pc'[v] = "notify"
      BY <1>2, <1>5, <2>2, <3>1, <3>3 DEF Threads
    <3>. QED BY <1>2, <3>1, <3>2, <3>3 DEF OccupiedBy
  <2>. QED BY <2>1, <2>2
<1>. QED BY <1>8, <1>9, <1>10, <1>11, <1>12, <1>13, <1>14 DEF TaskInv

\* ... gives it the task...
LEMMA PushTasks ==
  ASSUME LockInv, TaskInv, NEW t \in Threads, Push(t)
  PROVE  TaskInv'
<1>. DEFINE w == target[t]
            d == Task(t)
<1>1. /\ pc[t] = "push"
      /\ slot' = [slot EXCEPT ![w] = <<d>>]
      /\ handle' = [e \in DOMAIN handle \cup {d} |->
                     IF e = d THEN [w |-> w, returned |-> FALSE] ELSE handle[e]]
      /\ UNCHANGED <<lock, occupied, failed, call, target>>
  BY DEF Push, sets
<1>2. \/ /\ next[t] < Width(t)
         /\ next' = [next EXCEPT ![t] = @ + 1] /\ pc' = [pc EXCEPT ![t] = "start"]
      \/ next' = [next EXCEPT ![t] = 1] /\ pc' = [pc EXCEPT ![t] = "wait"]
  BY DEF Push, Goto
<1>3. w \in Workers /\ Idle(w) /\ poolLock = t /\ w # t
  BY <1>1 DEF LockInv, TargetIdle, PoolLockHeld, Idle
<1>4. InCall(t) /\ d \notin DOMAIN handle /\ d \in Paths
  BY <1>1, TaskIsNew, CallsHaveTasks DEF InCall
<1>5. /\ pc'[t] \in {"start", "wait"}
      /\ \A x \in Threads : x # t => pc'[x] = pc[x] /\ next'[x] = next[x]
      /\ slot'[w] = <<d>>
      /\ \A v \in Workers : v # w => slot'[v] = slot[v]
  BY <1>1, <1>2, <1>3 DEF LockInv, Shape, TaskInv, TaskShape
<1>6. /\ DOMAIN handle' = DOMAIN handle \cup {d}
      /\ handle'[d] = [w |-> w, returned |-> FALSE]
      /\ \A e \in DOMAIN handle : handle'[e] = handle[e] /\ e # d
  BY <1>1, <1>4
<1>7. next[t] \in 1 .. Width(t) /\ Width(t) \in Nat /\ next[t] \in Nat
  BY <1>4, CallsHaveTasks DEF TaskInv, NextInCall
<1>8. \A x \in Threads : /\ InCall(x)' <=> InCall(x)
                         /\ Busy(x)' <=> Busy(x)
                         /\ pc'[x] = "encode" <=> pc[x] = "encode"
                         /\ Width(x)' = Width(x)
  BY <1>1, <1>5 DEF InCall, Busy, Width
<1>9. IF pc'[t] = "wait" THEN next'[t] = 1
      ELSE next'[t] = next[t] + 1 /\ next[t] < Width(t)
  BY <1>1, <1>2 DEF LockInv, Shape, TaskInv, TaskShape
<1>. HIDE DEF w, d
<1>10. TaskShape'
  <2>1. next' \in [Threads -> Nat]
    BY <1>2, <1>7 DEF TaskInv, TaskShape
  <2>2. slot' \in [Workers -> {Nothing, Poison} \cup {<<e>> : e \in Paths}]
    BY <1>1, <1>4 DEF TaskInv, TaskShape
  <2>3. handle' \in [DOMAIN handle' -> [w: Workers, returned: BOOLEAN]]
    BY <1>1, <1>3, <1>6 DEF TaskInv, TaskShape
  <2>. QED BY <1>1, <1>4, <1>6, <2>1, <2>2, <2>3 DEF TaskInv, TaskShape
<1>11. CallsOfCallers'
  BY <1>1, <1>5 DEF TaskInv, CallsOfCallers, Threads
<1>12. CallsOfWorkers'
  BY <1>1, <1>8 DEF TaskInv, CallsOfWorkers, Threads
<1>13. NextInCall'
  <2>. SUFFICES ASSUME NEW x \in Threads
       PROVE IF InCall(x)' THEN next'[x] \in 1 .. Width(x)' ELSE next'[x] = 1
    BY DEF NextInCall
  <2>1. CASE x = t
    BY <1>4, <1>7, <1>8, <1>9, <2>1
  <2>2. CASE x # t
    BY <1>5, <1>8, <2>2 DEF TaskInv, NextInCall
  <2>. QED BY <2>1, <2>2
<1>14. TasksHaveHandles'
  <2>. SUFFICES ASSUME NEW v \in Workers, NEW e \in Paths, Has(v, e)'
       PROVE  e \in DOMAIN handle' /\ handle'[e].w = v /\ ~handle'[e].returned
    BY DEF TasksHaveHandles
  <2>1. CASE v = w
    <3>1. ~Busy(v)'
      BY <1>3, <1>8, <2>1 DEF Busy, Idle, Threads
    <3>2. e = d
      BY <1>5, <2>1, <3>1 DEF Has
    <3>. QED BY <1>6, <2>1, <3>2
  <2>2. CASE v # w
    <3>1. Has(v, e)
      BY <1>1, <1>5, <1>8, <2>2 DEF Has, Threads
    <3>. QED BY <1>6, <3>1 DEF TaskInv, TasksHaveHandles
  <2>. QED BY <2>1, <2>2
<1>15. HandlesHaveCalls'
  <2>. SUFFICES ASSUME NEW e \in DOMAIN handle'
       PROVE  \E x \in Threads, k \in Nat : HandleOf(e, x, k)'
    BY DEF HandlesHaveCalls
  <2>1. CASE e = d
    <3>1. PICK n \in Nat : n = next[t]
      BY <1>7
    <3>2. HandleOf(e, t, n)'
      BY <1>1, <1>4, <1>7, <1>8, <1>9, <2>1, <3>1 DEF HandleOf, Task, d
    <3>. QED BY <3>2
  <2>2. CASE e # d
    <3>1. PICK x \in Threads, k \in Nat : HandleOf(e, x, k)
      BY <1>6, <2>2 DEF TaskInv, HandlesHaveCalls
    <3>2. CASE x = t
      BY <1>1, <1>4, <1>7, <1>8, <1>9, <3>1, <3>2 DEF HandleOf
    <3>3. CASE x # t
      BY <1>1, <1>5, <1>8, <3>1, <3>3 DEF HandleOf
    <3>. QED BY <3>2, <3>3
  <2>. QED BY <2>1, <2>2
<1>16. PoisonLast'
  <2>. SUFFICES ASSUME NEW v \in Workers, slot'[v] = Poison PROVE CallersDone'
    BY DEF PoisonLast
  <2>1. v # w
    BY <1>4, <1>5, SlotKinds DEF Vacant
  <2>2. CallersDone
    BY <1>5, <2>1 DEF TaskInv, PoisonLast
  <2>. QED BY <1>1, <1>5, <2>2 DEF CallersDone, Threads
<1>17. OccupiedReason'
  <2>. SUFFICES ASSUME NEW v \in occupied PROVE v \in Workers /\ OccupiedBy(v)'
    BY <1>1 DEF OccupiedReason
  <2>1. v \in Workers /\ OccupiedBy(v)
    BY DEF TaskInv, OccupiedReason
  <2>2. CASE v = w
    BY <1>6, <2>1, <2>2 DEF OccupiedBy
  <2>3. CASE \E e \in DOMAIN handle : handle[e].w = v /\ ~handle[e].returned
    BY <1>6, <2>1, <2>3 DEF OccupiedBy
  <2>4. CASE v # w /\ \E x \in Threads : pc[x] = "push" /\ target[x] = v
    BY <1>3, <2>4 DEF LockInv, PoolLockHeld, w
  <2>5. CASE pc[v] = "notify" /\ call[v] \in DOMAIN handle /\ handle[call[v]].w = v
    BY <1>1, <1>5, <1>6, <2>1, <2>5 DEF OccupiedBy, Threads
  <2>. QED BY <2>1, <2>2, <2>3, <2>4, <2>5 DEF OccupiedBy
<1>. QED BY <1>10, <1>11, <1>12, <1>13, <1>14, <1>15, <1>16, <1>17 DEF TaskInv

\* ... and has waited for one.
LEMMA WaitOverTasks ==
  ASSUME Tiles = 1, LockInv, TaskInv, NEW t \in Threads, WaitOver(t)
  PROVE  TaskInv'
<1>. DEFINE d == Task(t)
<1>1. /\ pc[t] = "wait" /\ lock[handle[d].w] = None /\ handle[d].returned
      /\ handle' = [x \in DOMAIN handle \ {d} |-> handle[x]]
      /\ failed' \subseteq failed
      /\ UNCHANGED <<lock, occupied, slot, call, target>>
  BY DEF WaitOver, Returned, sets, locks
<1>2. \/ /\ next[t] < Width(t) /\ d \notin failed
         /\ next' = [next EXCEPT ![t] = @ + 1] /\ pc' = pc
      \/ /\ ~(next[t] < Width(t) /\ d \notin failed)
         /\ next' = [next EXCEPT ![t] = 1]
         /\ pc' = [pc EXCEPT ![t] = Continue(t)]
  BY DEF WaitOver, Goto
<1>3. /\ InCall(t) /\ call[t] \in Paths /\ call[t][1] \in Callers
      /\ next[t] \in 1 .. Width(t) /\ next[t] \in Nat /\ Width(t) \in Nat
      /\ t \in Workers => Len(call[t]) = 3
  BY <1>1, CallsHaveTasks DEF InCall, TaskInv, NextInCall, CallsOfWorkers
<1>4. t \in Workers => d \notin failed
  <2>1. Len(d) = Len(call[t]) + 1
    BY <1>3, AppendPath DEF Task
  <2>. HIDE DEF d
  <2>2. t \in Workers => Len(d) # 3
    <3>. DEFINE m == Len(d)
                n == Len(call[t])
    <3>1. m = n + 1 /\ (t \in Workers => n = 3)
      BY <1>3, <2>1
    <3>. HIDE DEF m, n
    <3>2. t \in Workers => m # 3
      BY <3>1
    <3>. QED BY <3>2 DEF m
  <2>. QED BY <2>2 DEF TaskInv, TaskShape
<1>5. t \in Callers => Width(t) = 1
  BY <1>1 DEF Width
\* The call goes on, or this was the last of its tasks.
<1>6. \/ /\ next[t] < Width(t) /\ pc' = pc /\ next'[t] = next[t] + 1
      \/ /\ next[t] = Width(t) /\ pc'[t] = Continue(t) /\ next'[t] = 1
  BY <1>2, <1>3, <1>4, <1>5 DEF Threads, LockInv, Shape, TaskInv, TaskShape
<1>7. /\ Continue(t) \in {"idle", "encode"}
      /\ t \in Workers => Continue(t) = "encode"
      /\ t \in Callers => Continue(t) = "idle"
  BY PoolAssumption DEF Continue
<1>8. /\ \A x \in Threads : x # t => pc'[x] = pc[x] /\ next'[x] = next[x]
      /\ next' \in [Threads -> Nat]
  BY <1>2, <1>3 DEF LockInv, Shape, TaskInv, TaskShape
<1>9. /\ DOMAIN handle' = DOMAIN handle \ {d}
      /\ \A e \in DOMAIN handle' : handle'[e] = handle[e] /\ e # d
  BY <1>1
<1>10. \A x \in Threads : Width(x)' = Width(x) /\ (x # t => (InCall(x)' <=> InCall(x)))
  BY <1>1, <1>8 DEF Width, InCall
<1>. HIDE DEF d
<1>11. TaskShape'
  <2>1. handle' \in [DOMAIN handle' -> [w: Workers, returned: BOOLEAN]]
    BY <1>1, <1>9 DEF TaskInv, TaskShape
  <2>. QED BY <1>1, <1>8, <1>9, <2>1 DEF TaskInv, TaskShape
<1>12. CallsOfCallers'
  BY <1>1, <1>6, <1>7, <1>8 DEF TaskInv, CallsOfCallers, Threads
<1>13. CallsOfWorkers'
  BY <1>1, <1>3, <1>6, <1>8 DEF TaskInv, CallsOfWorkers, InCall, Threads
<1>14. NextInCall'
  <2>. SUFFICES ASSUME NEW x \in Threads
       PROVE IF InCall(x)' THEN next'[x] \in 1 .. Width(x)' ELSE next'[x] = 1
    BY DEF NextInCall
  <2>1. CASE x = t
    BY <1>3, <1>6, <1>7, <1>10, <2>1 DEF InCall
  <2>2. CASE x # t
    BY <1>8, <1>10, <2>2 DEF TaskInv, NextInCall
  <2>. QED BY <2>1, <2>2
<1>15. TasksHaveHandles'
  <2>. SUFFICES ASSUME NEW v \in Workers, NEW e \in Paths, Has(v, e)'
       PROVE  e \in DOMAIN handle' /\ handle'[e].w = v /\ ~handle'[e].returned
    BY DEF TasksHaveHandles
  <2>1. Has(v, e)
    BY <1>1, <1>6, <1>7, <1>8 DEF Has, Busy, Threads
  <2>2. e \in DOMAIN handle /\ handle[e].w = v /\ ~handle[e].returned
    BY <2>1 DEF TaskInv, TasksHaveHandles
  <2>. QED BY <1>1, <1>9, <2>2
<1>16. HandlesHaveCalls'
  <2>. SUFFICES ASSUME NEW e \in DOMAIN handle'
       PROVE  \E x \in Threads, k \in Nat : HandleOf(e, x, k)'
    BY DEF HandlesHaveCalls
  <2>1. PICK x \in Threads, k \in Nat : HandleOf(e, x, k)
    BY <1>9 DEF TaskInv, HandlesHaveCalls
  <2>2. CASE x = t
    <3>1. k \in next[t] .. Width(t) /\ k # next[t]
      BY <1>1, <1>3, <1>9, <2>1, <2>2 DEF HandleOf, Task, d
    <3>2. next[t] < Width(t) /\ pc' = pc /\ next'[t] = next[t] + 1
      BY <1>3, <1>6, <3>1
    <3>3. HandleOf(e, t, k)'
      BY <1>1, <1>3, <1>10, <2>1, <2>2, <3>1, <3>2 DEF HandleOf, InCall
    <3>. QED BY <3>3
  <2>3. CASE x # t
    BY <1>1, <1>8, <1>10, <2>1, <2>3 DEF HandleOf
  <2>. QED BY <2>2, <2>3
<1>17. PoisonLast'
  BY <1>1, <1>6, <1>7, <1>8 DEF TaskInv, PoisonLast, CallersDone, Threads
<1>18. OccupiedReason'
  <2>. SUFFICES ASSUME NEW v \in occupied PROVE v \in Workers /\ OccupiedBy(v)'
    BY <1>1 DEF OccupiedReason
  <2>1. v \in Workers /\ OccupiedBy(v)
    BY DEF TaskInv, OccupiedReason
  <2>2. CASE \E e \in DOMAIN handle : handle[e].w = v /\ ~handle[e].returned
    <3>1. PICK e \in DOMAIN handle : handle[e].w = v /\ ~handle[e].returned
      BY <2>2
    <3>2. e \in DOMAIN handle' /\ handle'[e] = handle[e]
      BY <1>1, <1>9, <3>1
    <3>. QED BY <2>1, <3>1, <3>2 DEF OccupiedBy
  <2>3. CASE \E x \in Threads : pc[x] = "push" /\ target[x] = v
    <3>1. PICK x \in Threads : pc[x] = "push" /\ target[x] = v
      BY <2>3
    <3>2. pc'[x] = "push" /\ target'[x] = v
      BY <1>1, <1>8, <3>1
    <3>. QED BY <2>1, <3>2 DEF OccupiedBy
  <2>4. CASE pc[v] = "notify" /\ call[v] \in DOMAIN handle /\ handle[call[v]].w = v
    <3>1. call[v] # d
      BY <1>1, <2>1, <2>4 DEF LockInv, WorkerLockHeld
    <3>. QED BY <1>1, <1>8, <1>9, <2>1, <2>4, <3>1 DEF OccupiedBy, Threads
  <2>. QED BY <2>1, <2>2, <2>3, <2>4 DEF OccupiedBy
<1>. QED BY <1>11, <1>12, <1>13, <1>14, <1>15, <1>16, <1>17, <1>18 DEF TaskInv

\* A caller begins a frame.
LEMMA CompressTasks ==
  ASSUME Tiles = 1, LockInv, TaskInv, NEW c \in Callers, Compress(c)
  PROVE  TaskInv'
<1>1. /\ pc[c] = "idle" /\ call[c][2] < MaxFrames
      /\ call' = [call EXCEPT ![c] = <<c, @[2] + 1>>]
      /\ pc' = [pc EXCEPT ![c] = "start"]
      /\ UNCHANGED <<lock, occupied, slot, handle, failed, next, target>>
  BY DEF Compress, Goto, locks, sets
<1>2. PICK n \in Nat : n = call[c][2] + 1
  BY DEF TaskInv, CallsOfCallers
<1>3. /\ <<c, n>> \in Paths /\ Len(<<c, n>>) = 2
      /\ <<c, n>>[1] = c /\ <<c, n>>[2] = n
  BY DEF Paths
<1>4. c \in Threads /\ ~InCall(c)
  BY <1>1 DEF Threads, InCall
<1>5. /\ call'[c] = <<c, n>> /\ pc'[c] = "start"
      /\ call' \in [Threads -> Paths]
      /\ \A x \in Threads : x # c => pc'[x] = pc[x] /\ call'[x] = call[x]
                                     /\ Width(x)' = Width(x)
  BY <1>1, <1>2, <1>3, <1>4 DEF LockInv, Shape, TaskInv, TaskShape, Width
<1>6. \A w \in Workers : w \in Threads /\ w # c
  BY PoolAssumption DEF Threads
<1>7. TaskShape'
  BY <1>1, <1>5 DEF TaskInv, TaskShape
<1>8. CallsOfCallers'
  BY <1>3, <1>5 DEF TaskInv, CallsOfCallers, Threads
<1>9. CallsOfWorkers'
  BY <1>5, <1>6 DEF TaskInv, CallsOfWorkers, InCall
<1>10. NextInCall'
  <2>1. next[c] = 1 /\ Width(c)' = 1
    BY <1>4 DEF TaskInv, NextInCall, Width
  <2>. QED BY <1>1, <1>5, <2>1 DEF TaskInv, NextInCall, InCall
<1>11. TasksHaveHandles'
  BY <1>1, <1>5, <1>6 DEF TaskInv, TasksHaveHandles, Has, Busy
<1>12. HandlesHaveCalls'
  <2>. SUFFICES ASSUME NEW e \in DOMAIN handle
       PROVE  \E x \in Threads, k \in Nat : HandleOf(e, x, k)'
    BY <1>1 DEF HandlesHaveCalls
  <2>1. PICK x \in Threads, k \in Nat : HandleOf(e, x, k)
    BY DEF TaskInv, HandlesHaveCalls
  <2>2. x # c
    BY <1>4, <2>1 DEF HandleOf
  <2>. QED BY <1>1, <1>5, <2>1, <2>2 DEF HandleOf, InCall
<1>13. PoisonLast'
  <2>1. ~CallersDone
    BY <1>1, PoolAssumption DEF CallersDone, TaskInv, CallsOfCallers
  <2>. QED BY <1>1, <2>1 DEF TaskInv, PoisonLast
<1>14. OccupiedReason'
  BY <1>1, <1>4, <1>5, <1>6 DEF TaskInv, OccupiedReason, OccupiedBy
<1>. QED BY <1>7, <1>8, <1>9, <1>10, <1>11, <1>12, <1>13, <1>14 DEF TaskInv

\* A worker takes its task...
LEMMA TakeTasks ==
  ASSUME LockInv, TaskInv, NEW w \in Workers, Take(w)
  PROVE  TaskInv'
<1>1. PICK d \in Paths : slot[w] = <<d>>
  BY DEF Take, TaskInv, TaskShape, Vacant
<1>2. slot[w][1] = d
  BY <1>1
<1>3. /\ pc[w] = "take"
      /\ slot' = [slot EXCEPT ![w] = Nothing]
      /\ call' = [call EXCEPT ![w] = d]
      /\ \E place \in IF Len(d) = 3 THEN {"start", "finish"} ELSE {"convert"} :
           pc' = [pc EXCEPT ![w] = place]
      /\ failed' = failed \/ (Len(d) = 3 /\ failed' = failed \cup {d})
      /\ UNCHANGED <<lock, occupied, handle, next, target>>
  BY <1>2 DEF Take, Goto, IsTile, locks, sets
<1>4. /\ Has(w, d) /\ d \in DOMAIN handle
      /\ handle[d].w = w /\ ~handle[d].returned
  BY <1>1 DEF Has, TaskInv, TasksHaveHandles
<1>5. d[1] \in Callers /\ Parts[d[1]] \in Nat \ {0}
  BY <1>4, HandlesArePaths, PoolAssumption
<1>6. /\ pc'[w] \in {"start", "convert", "finish"} /\ (pc'[w] = "start" => Len(d) = 3)
      /\ call'[w] = d /\ slot'[w] = Nothing
      /\ \A x \in Threads : x # w => pc'[x] = pc[x] /\ call'[x] = call[x]
                                     /\ Width(x)' = Width(x)
      /\ \A v \in Workers : v # w => slot'[v] = slot[v]
  BY <1>3 DEF LockInv, Shape, TaskInv, TaskShape, Width, Threads
<1>7. \A c \in Callers : c # w /\ c \in Threads
  BY PoolAssumption DEF Threads
<1>8. TaskShape'
  <2>1. \A e \in failed' : Len(e) = 3
    BY <1>3 DEF TaskInv, TaskShape
  <2>. QED BY <1>3, <2>1 DEF TaskInv, TaskShape
<1>9. CallsOfCallers'
  BY <1>6, <1>7 DEF TaskInv, CallsOfCallers
<1>10. CallsOfWorkers'
  BY <1>5, <1>6 DEF TaskInv, CallsOfWorkers, InCall, Threads
<1>11. NextInCall'
  <2>1. next[w] = 1 /\ 1 \in 1 .. Width(w)'
    <3>1. next[w] = 1
      BY <1>3 DEF TaskInv, NextInCall, InCall, Threads
    <3>2. Width(w)' = Parts[d[1]]
      BY <1>6, <1>7 DEF Width
    <3>. QED BY <1>5, <3>1, <3>2
  <2>. QED BY <1>3, <1>6, <2>1 DEF TaskInv, NextInCall, InCall
<1>12. TasksHaveHandles'
  <2>. SUFFICES ASSUME NEW v \in Workers, NEW e \in Paths, Has(v, e)'
       PROVE  e \in DOMAIN handle /\ handle[e].w = v /\ ~handle[e].returned
    BY <1>3 DEF TasksHaveHandles
  <2>1. CASE v = w
    <3>1. e = d
      BY <1>6, <2>1, SlotKinds DEF Has, Vacant
    <3>. QED BY <1>4, <2>1, <3>1
  <2>2. CASE v # w
    BY <1>6, <2>2 DEF Has, Busy, TaskInv, TasksHaveHandles, Threads
  <2>. QED BY <2>1, <2>2
<1>13. HandlesHaveCalls'
  <2>. SUFFICES ASSUME NEW e \in DOMAIN handle
       PROVE  \E x \in Threads, k \in Nat : HandleOf(e, x, k)'
    BY <1>3 DEF HandlesHaveCalls
  <2>1. PICK x \in Threads, k \in Nat : HandleOf(e, x, k)
    BY DEF TaskInv, HandlesHaveCalls
  <2>2. x # w
    BY <1>3, <2>1 DEF HandleOf, InCall
  <2>. QED BY <1>3, <1>6, <2>1, <2>2 DEF HandleOf, InCall
<1>14. PoisonLast'
  <2>1. CallersDone => CallersDone'
    BY <1>6, <1>7 DEF CallersDone
  <2>. QED BY <1>6, <2>1 DEF TaskInv, PoisonLast, Nothing, Poison
<1>15. OccupiedReason'
  BY <1>3, <1>6 DEF TaskInv, OccupiedReason, OccupiedBy, Threads
<1>. QED BY <1>8, <1>9, <1>10, <1>11, <1>12, <1>13, <1>14, <1>15 DEF TaskInv

\* A step that moves one worker between places outside of calls.
LEMMA MoveTasks ==
  ASSUME LockInv, TaskInv, NEW w \in Workers,
         NEW from, NEW to, pc[w] = from, pc' = [pc EXCEPT ![w] = to],
         ~InCall(w), to \notin {"start", "push", "wait", "encode"},
         UNCHANGED <<call, next, target>>
  PROVE  /\ CallsOfCallers' /\ CallsOfWorkers' /\ NextInCall'
         /\ DOMAIN handle' = DOMAIN handle => HandlesHaveCalls'
         /\ CallersDone => CallersDone'
<1>1. /\ pc'[w] = to
      /\ \A x \in Threads : x # w => pc'[x] = pc[x]
  BY DEF LockInv, Shape, Threads
<1>2. \A c \in Callers : c # w /\ c \in Threads
  BY PoolAssumption DEF Threads
<1>3. ~InCall(w)'
  BY <1>1 DEF InCall
<1>4. \A x \in Threads : /\ InCall(x)' <=> InCall(x)
                         /\ Width(x)' = Width(x)
                         /\ InCall(x) => pc'[x] = pc[x]
  BY <1>1, <1>3 DEF InCall, Width
<1>5. CallsOfCallers'
  BY <1>1, <1>2 DEF TaskInv, CallsOfCallers
<1>6. CallsOfWorkers'
  BY <1>1, <1>4 DEF TaskInv, CallsOfWorkers, Threads
<1>7. NextInCall'
  BY <1>4 DEF TaskInv, NextInCall
<1>8. DOMAIN handle' = DOMAIN handle => HandlesHaveCalls'
  BY <1>4 DEF TaskInv, HandlesHaveCalls, HandleOf
<1>9. CallersDone => CallersDone'
  BY <1>1, <1>2 DEF CallersDone
<1>. QED BY <1>5, <1>6, <1>7, <1>8, <1>9

\* ... runs it...
LEMMA RunTasks ==
  ASSUME LockInv, TaskInv, NEW w \in Workers, Run(w)
  PROVE  TaskInv'
<1>1. /\ pc[w] \in {"convert", "encode"}
      /\ failed' = failed \/ (pc[w] = "encode" /\ failed' = failed \cup {call[w]})
      /\ pc' = [pc EXCEPT ![w] = "finish"]
      /\ UNCHANGED <<lock, occupied, slot, handle, call, next, target>>
  BY DEF Run, Goto, locks, sets
<1>2. /\ CallsOfCallers' /\ CallsOfWorkers' /\ NextInCall' /\ HandlesHaveCalls'
      /\ CallersDone => CallersDone'
  BY <1>1, MoveTasks DEF InCall
<1>3. \A d \in failed' : Len(d) = 3
  BY <1>1 DEF TaskInv, TaskShape, CallsOfWorkers
<1>4. TaskShape'
  BY <1>1, <1>3 DEF TaskInv, TaskShape
<1>5. TasksHaveHandles'
  BY <1>1 DEF TaskInv, TasksHaveHandles, Has, Busy, LockInv, Shape, Threads
<1>6. PoisonLast'
  BY <1>1, <1>2 DEF TaskInv, PoisonLast
<1>7. OccupiedReason'
  BY <1>1 DEF TaskInv, OccupiedReason, OccupiedBy, LockInv, Shape, Threads
<1>. QED BY <1>2, <1>4, <1>5, <1>6, <1>7 DEF TaskInv

\* ... has the result...
LEMMA FinishTasks ==
  ASSUME LockInv, TaskInv, NEW w \in Workers, Finish(w)
  PROVE  TaskInv'
<1>. DEFINE d == call[w]
<1>1. /\ pc[w] = "finish"
      /\ handle' = [handle EXCEPT ![d].returned = TRUE]
      /\ pc' = [pc EXCEPT ![w] = "notify"]
      /\ UNCHANGED <<occupied, slot, failed, call, next, target>>
  BY DEF Finish, Goto, sets
<1>2. Has(w, d) /\ d \in Paths /\ slot[w] \in Vacant
  BY <1>1, HasOne DEF Has, Busy, TaskInv, TaskShape, Threads
<1>3. d \in DOMAIN handle /\ handle[d].w = w
  BY <1>2 DEF TaskInv, TasksHaveHandles
<1>4. /\ DOMAIN handle' = DOMAIN handle
      /\ handle' \in [DOMAIN handle -> [w: Workers, returned: BOOLEAN]]
      /\ \A e \in DOMAIN handle : handle'[e].w = handle[e].w
      /\ \A e \in DOMAIN handle : e # d => handle'[e] = handle[e]
  BY <1>1, <1>3 DEF TaskInv, TaskShape
<1>5. /\ CallsOfCallers' /\ CallsOfWorkers' /\ NextInCall' /\ HandlesHaveCalls'
      /\ CallersDone => CallersDone'
  BY <1>1, <1>4, MoveTasks DEF InCall
<1>6. /\ pc'[w] = "notify"
      /\ \A x \in Threads : x # w => pc'[x] = pc[x]
  BY <1>1 DEF LockInv, Shape, Threads
<1>7. TaskShape'
  BY <1>1, <1>4 DEF TaskInv, TaskShape
<1>8. TasksHaveHandles'
  <2>. SUFFICES ASSUME NEW v \in Workers, NEW e \in Paths, Has(v, e)'
       PROVE  e \in DOMAIN handle' /\ handle'[e].w = v /\ ~handle'[e].returned
    BY DEF TasksHaveHandles
  <2>1. v # w
    BY <1>1, <1>2, <1>6, SlotKinds DEF Has, Busy
  <2>2. Has(v, e)
    BY <1>1, <1>6, <2>1 DEF Has, Busy, Threads
  <2>. QED BY <1>3, <1>4, <2>1, <2>2 DEF TaskInv, TasksHaveHandles
<1>9. PoisonLast'
  BY <1>1, <1>5 DEF TaskInv, PoisonLast
<1>10. OccupiedReason'
  <2>. SUFFICES ASSUME NEW v \in occupied PROVE v \in Workers /\ OccupiedBy(v)'
    BY <1>1 DEF OccupiedReason
  <2>1. v \in Workers /\ OccupiedBy(v)
    BY DEF TaskInv, OccupiedReason
  <2>2. CASE v = w
    BY <1>1, <1>3, <1>4, <1>6, <2>2 DEF OccupiedBy
  <2>3. CASE v # w
    BY <1>1, <1>3, <1>4, <1>6, <2>1, <2>3 DEF OccupiedBy, Threads
  <2>. QED BY <2>2, <2>3
<1>. QED BY <1>5, <1>7, <1>8, <1>9, <1>10 DEF TaskInv

\* ... is put back among the free ones...
LEMMA NotifyTasks ==
  ASSUME LockInv, TaskInv, NEW w \in Workers, Notify(w)
  PROVE  TaskInv'
<1>1. /\ pc[w] = "notify" /\ occupied' = occupied \ {w}
      /\ pc' = [pc EXCEPT ![w] = "unlock"]
      /\ UNCHANGED <<lock, slot, handle, failed, call, next, target>>
  BY DEF Notify, Goto, locks
<1>2. /\ CallsOfCallers' /\ CallsOfWorkers' /\ NextInCall' /\ HandlesHaveCalls'
      /\ CallersDone => CallersDone'
  BY <1>1, MoveTasks DEF InCall
<1>3. \A x \in Threads : x # w => pc'[x] = pc[x]
  BY <1>1 DEF LockInv, Shape
<1>4. TaskShape'
  BY <1>1 DEF TaskInv, TaskShape
<1>5. TasksHaveHandles'
  BY <1>1 DEF TaskInv, TasksHaveHandles, Has, Busy, LockInv, Shape, Threads
<1>6. PoisonLast'
  BY <1>1, <1>2 DEF TaskInv, PoisonLast
<1>7. OccupiedReason'
  BY <1>1, <1>3 DEF TaskInv, OccupiedReason, OccupiedBy, Threads
<1>. QED BY <1>2, <1>4, <1>5, <1>6, <1>7 DEF TaskInv

\* ... and lets go of its lock.
LEMMA UnlockTasks ==
  ASSUME LockInv, TaskInv, NEW w \in Workers, Unlock(w)
  PROVE  TaskInv'
<1>1. /\ pc[w] = "unlock"
      /\ call' = [call EXCEPT ![w] = <<>>]
      /\ pc' = [pc EXCEPT ![w] = "take"]
      /\ UNCHANGED <<occupied, slot, handle, failed, next, target>>
  BY DEF Unlock, Goto, sets
<1>2. <<>> \in Paths
  BY DEF Paths
<1>3. /\ pc'[w] = "take" /\ w \in Threads
      /\ \A x \in Threads : x # w => pc'[x] = pc[x] /\ call'[x] = call[x]
                                     /\ Width(x)' = Width(x)
  BY <1>1 DEF LockInv, Shape, TaskInv, TaskShape, Width, Threads
<1>4. \A c \in Callers : c # w /\ c \in Threads
  BY PoolAssumption DEF Threads
<1>5. TaskShape'
  BY <1>1, <1>2 DEF TaskInv, TaskShape
<1>6. CallsOfCallers'
  BY <1>3, <1>4 DEF TaskInv, CallsOfCallers
<1>7. CallsOfWorkers'
  BY <1>3 DEF TaskInv, CallsOfWorkers, InCall, Threads
<1>8. NextInCall'
  BY <1>1, <1>3 DEF TaskInv, NextInCall, InCall
<1>9. TasksHaveHandles'
  BY <1>1, <1>3 DEF TaskInv, TasksHaveHandles, Has, Busy, Threads
<1>10. HandlesHaveCalls'
  BY <1>1, <1>3 DEF TaskInv, HandlesHaveCalls, HandleOf, InCall
<1>11. PoisonLast'
  BY <1>1, <1>3, <1>4 DEF TaskInv, PoisonLast, CallersDone
<1>12. OccupiedReason'
  BY <1>1, <1>3 DEF TaskInv, OccupiedReason, OccupiedBy, Threads
<1>. QED BY <1>5, <1>6, <1>7, <1>8, <1>9, <1>10, <1>11, <1>12 DEF TaskInv

\* The poison is pushed...
LEMMA KillTasks ==
  ASSUME LockInv, TaskInv, NEW w \in Workers, Kill(w)
  PROVE  TaskInv'
<1>1. /\ CallersDone /\ slot' = [slot EXCEPT ![w] = Poison]
      /\ UNCHANGED <<lock, occupied, handle, failed, pc, call, next, target>>
  BY DEF Kill, locks, sets
<1>2. \A v \in Workers, d \in Paths : Has(v, d)' => Has(v, d)
  BY <1>1, SlotKinds DEF Has, Busy, TaskInv, TaskShape, Vacant
<1>3. TaskShape' /\ PoisonLast'
  BY <1>1 DEF TaskInv, TaskShape, PoisonLast, CallersDone
<1>4. TasksHaveHandles'
  BY <1>1, <1>2 DEF TaskInv, TasksHaveHandles
<1>5. CallsOfCallers' /\ CallsOfWorkers' /\ NextInCall' /\ HandlesHaveCalls'
      /\ OccupiedReason'
  BY <1>1 DEF TaskInv, CallsOfCallers, CallsOfWorkers, NextInCall, InCall, Width,
              HandlesHaveCalls, HandleOf, OccupiedReason, OccupiedBy
<1>. QED BY <1>3, <1>4, <1>5 DEF TaskInv

\* ... and the worker ends.
LEMMA EndTasks ==
  ASSUME LockInv, TaskInv, NEW w \in Workers, End(w)
  PROVE  TaskInv'
<1>1. /\ pc[w] = "take"
      /\ slot' = [slot EXCEPT ![w] = Nothing]
      /\ pc' = [pc EXCEPT ![w] = "ended"]
      /\ UNCHANGED <<lock, occupied, handle, failed, call, next, target>>
  BY DEF End, Goto, locks, sets
<1>2. /\ CallsOfCallers' /\ CallsOfWorkers' /\ NextInCall' /\ HandlesHaveCalls'
      /\ CallersDone => CallersDone'
  BY <1>1, MoveTasks DEF InCall
<1>3. \A v \in Workers, d \in Paths : Has(v, d)' => Has(v, d)
  BY <1>1, SlotKinds
     DEF Has, Busy, TaskInv, TaskShape, Vacant, LockInv, Shape, Threads
<1>4. TaskShape'
  BY <1>1 DEF TaskInv, TaskShape
<1>5. TasksHaveHandles'
  BY <1>1, <1>3 DEF TaskInv, TasksHaveHandles
<1>6. PoisonLast'
  BY <1>1, <1>2 DEF TaskInv, TaskShape, PoisonLast, Nothing, Poison
<1>7. OccupiedReason'
  BY <1>1 DEF TaskInv, OccupiedReason, OccupiedBy, LockInv, Shape, Threads
<1>. QED BY <1>2, <1>4, <1>5, <1>6, <1>7 DEF TaskInv

-----------------------------------------------------------------------------
\* Every step keeps the tasks and their handles together.
LEMMA TaskInvNext ==
  ASSUME Tiles = 1 PROVE LockInv /\ TaskInv /\ [Next]_vars => TaskInv'
<1>. SUFFICES ASSUME LockInv, TaskInv, [Next]_vars PROVE TaskInv'
  OBVIOUS
<1>1. ASSUME NEW t \in Threads, CallStep(t) PROVE TaskInv'
  <2>1. CASE WaitAsleep(t)
    BY <2>1, TaskSilentStep DEF WaitAsleep, locks, sets
  <2>. QED BY <1>1, <2>1, PickWorkerTasks, PushTasks, WaitOverTasks DEF CallStep
<1>2. ASSUME NEW c \in Callers, CallerStep(c) PROVE TaskInv'
  BY <1>1, <1>2, CompressTasks DEF CallerStep, Threads
<1>3. ASSUME NEW w \in Workers, WorkerStep(w) PROVE TaskInv'
  BY <1>1, <1>3, TakeTasks, RunTasks, FinishTasks, NotifyTasks, UnlockTasks,
     EndTasks DEF WorkerStep, Threads
<1>4. ASSUME NEW t \in Threads, WakeUp(t) PROVE TaskInv'
  BY <1>4, TaskSilentStep DEF WakeUp, locks, sets
<1>5. CASE UNCHANGED vars
  BY <1>5, TaskSilentStep DEF vars
<1>. QED BY <1>2, <1>3, <1>4, <1>5, KillTasks DEF Next

\* The locks and the tasks stay in order.
LEMMA TasksInvariant == ASSUME Tiles = 1 PROVE Spec => [](LockInv /\ TaskInv)
<1>1. Init => LockInv /\ TaskInv
  BY LockInvInit, TaskInvInit
<1>2. LockInv /\ TaskInv /\ [Next]_vars => (LockInv /\ TaskInv)'
  BY LockInvNext, TaskInvNext
<1>. QED BY <1>1, <1>2, PTL DEF Spec

\* The calls of the type invariant are paths.
LEMMA CallsArePaths == Calls \subseteq Paths
<1>. DEFINE Part == UNION {1 .. Parts[c] : c \in Callers}
<1>1. Part \subseteq Nat
  BY PoolAssumption
<1>. HIDE DEF Part
<1>2. Callers \X (0 .. MaxFrames) \subseteq Paths
  <2>1. ASSUME NEW c \in Callers, NEW f \in 0 .. MaxFrames PROVE <<c, f>> \in Paths
    <3>1. f \in Nat
      BY PoolAssumption
    <3>. QED BY <3>1 DEF Paths
  <2>. QED BY <2>1
<1>3. Callers \X (0 .. MaxFrames) \X (1 .. Tiles) \subseteq Paths
  <2>1. ASSUME NEW c \in Callers, NEW f \in 0 .. MaxFrames, NEW i \in 1 .. Tiles
        PROVE  <<c, f, i>> \in Paths
    <3>1. f \in Nat /\ i \in Nat
      BY PoolAssumption
    <3>. QED BY <3>1 DEF Paths
  <2>. QED BY <2>1
<1>4. Callers \X (0 .. MaxFrames) \X (1 .. Tiles) \X Part \subseteq Paths
  <2>1. ASSUME NEW c \in Callers, NEW f \in 0 .. MaxFrames, NEW i \in 1 .. Tiles,
               NEW p \in Part
        PROVE  <<c, f, i, p>> \in Paths
    <3>1. f \in Nat /\ i \in Nat /\ p \in Nat
      BY <1>1, PoolAssumption
    <3>. QED BY <3>1 DEF Paths
  <2>. QED BY <2>1
<1>5. <<>> \in Paths
  BY DEF Paths
<1>. QED BY <1>2, <1>3, <1>4, <1>5 DEF Calls, Part

\* The data of a task that is waiting or running is in the frame of a call
\* that still goes on: no worker reads the stack of a call that has returned.
THEOREM TaskDataOutlivesTasks == ASSUME Tiles = 1 PROVE Spec => []TaskDataAlive
<1>1. ASSUME LockInv, TaskInv PROVE TaskDataAlive
  <2>. SUFFICES ASSUME NEW w \in Workers, NEW d \in Started(w)
       PROVE  \E t \in Threads : InCall(t) /\ call[t] = SubSeq(d, 1, Len(d) - 1)
    BY DEF TaskDataAlive
  <2>1. d \in Paths /\ Has(w, d)
    <3>1. CASE Running(w) /\ d = call[w]
      BY <1>1, <3>1 DEF Running, InCall, Has, Busy, TaskInv, TaskShape, Threads
    <3>2. CASE d \in Calls /\ slot[w] = <<d>>
      <4>. QED BY <3>2, CallsArePaths DEF Has
    <3>. QED BY <3>1, <3>2 DEF Started
  <2>2. d \in DOMAIN handle
    BY <1>1, <2>1 DEF TaskInv, TasksHaveHandles
  <2>3. PICK t \in Threads, k \in Nat : HandleOf(d, t, k)
    BY <1>1, <2>2 DEF TaskInv, HandlesHaveCalls
  <2>4. InCall(t) /\ d = Append(call[t], k) /\ call[t] \in Paths
    BY <1>1, <2>3 DEF HandleOf, TaskInv, TaskShape
  <2>5. call[t] = SubSeq(d, 1, Len(d) - 1)
    BY <2>4, FrontOfAppend
  <2>. QED BY <2>4, <2>5
<1>. QED BY <1>1, TasksInvariant, PTL

\* push finds no task at the worker run_async has picked: the assertion of
\* worker.cpp:156 holds, also while the pool is destroyed.
THEOREM PushFindsNoTask == ASSUME Tiles = 1 PROVE Spec => []PushAsserts
<1>1. ASSUME LockInv, TaskInv PROVE PushAsserts
  <2>. SUFFICES ASSUME NEW t \in Threads, pc[t] = "push"
       PROVE  slot[target[t]] = Nothing
    BY DEF PushAsserts
  <2>1. target[t] \in Workers /\ slot[target[t]] \in Vacant
    BY <1>1 DEF LockInv, TargetIdle, Idle
  <2>2. ~CallersDone
    <3>1. CASE t \in Callers
      BY <3>1 DEF CallersDone
    <3>2. CASE t \in Workers
      <4>1. Has(t, call[t]) /\ Len(call[t]) = 3 /\ call[t] \in Paths
        BY <1>1, <3>2 DEF Has, Busy, TaskInv, CallsOfWorkers, TaskShape, InCall, Threads
      <4>2. call[t] \in DOMAIN handle
        BY <1>1, <3>2, <4>1 DEF TaskInv, TasksHaveHandles
      <4>3. PICK u \in Threads, k \in Nat : HandleOf(call[t], u, k)
        BY <1>1, <4>2 DEF TaskInv, HandlesHaveCalls
      <4>4. InCall(u) /\ call[u] \in Paths /\ Len(call[t]) = Len(call[u]) + 1
        BY <1>1, <4>3, AppendPath DEF HandleOf, TaskInv, TaskShape
      <4>5. u \notin Workers
        BY <1>1, <4>1, <4>4 DEF TaskInv, CallsOfWorkers
      <4>. QED BY <4>4, <4>5 DEF InCall, CallersDone, Threads
    <3>. QED BY <3>1, <3>2 DEF Threads
  <2>. QED BY <1>1, <2>1, <2>2 DEF TaskInv, PoisonLast, Vacant
<1>. QED BY <1>1, TasksInvariant, PTL

\* A worker counts as occupied only while somebody can still wait for its
\* task: a result is not to be had before its worker is free again.
THEOREM OccupiedOnBehalf == ASSUME Tiles = 1 PROVE Spec => []OccupiedAwaited
<1>1. ASSUME LockInv, TaskInv PROVE OccupiedAwaited
  BY <1>1 DEF TaskInv, OccupiedReason, OccupiedBy, OccupiedAwaited
<1>. QED BY <1>1, TasksInvariant, PTL
=============================================================================
