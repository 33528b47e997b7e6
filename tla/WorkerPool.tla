------------------------------ MODULE WorkerPool ------------------------------
(***************************************************************************)
(* The pool of worker threads (src/src/utils/worker.cpp) as the encoders   *)
(* use it: compress_frame_tiles gives each tile of a frame to a worker and *)
(* waits for all of them, and the worker that compresses a tile            *)
(* (libavcodec_compress_tile) gives each part of the tile to a worker and  *)
(* waits for all of them in turn.  Tasks that wait for tasks, in a pool    *)
(* that makes a worker whenever none is free.                              *)
(*                                                                         *)
(* A call is named by its path: <<c, f>> is frame f of caller c,           *)
(* <<c, f, i>> the compression of its tile i, a task, and <<c, f, i, p>>   *)
(* that of part p of the tile.  The call that starts a task holds its data *)
(* in its stack frame.                                                     *)
(*                                                                         *)
(* A critical section that waits for nothing is one step, taken when its   *)
(* lock is free.  A lock is in poolLock or lock only where its holder does *)
(* wait: for a worker's lock in run_async, for the pool's in notify.       *)
(***************************************************************************)
EXTENDS Integers, Sequences

CONSTANTS
  Callers,     \* the encoder threads
  Workers,     \* the worker threads there may be
  Tiles,       \* tiles in a frame; vf_alloc(1) in video_data.c
  Parts,       \* Parts[c]: cpu_count of the compressor of c, parts of a tile
  MaxFrames,   \* bound of the model: frames of each caller
  None

ASSUME PoolAssumption ==
  /\ Callers \cap Workers = {} /\ None \notin Callers \cup Workers
  /\ None \notin Seq(Callers \cup Nat)
  /\ {Tiles, MaxFrames} \subseteq Nat \ {0}
  /\ Parts \in [Callers -> Nat \ {0}]

Threads == Callers \cup Workers

\* The data of the task that ends a worker; a task's data is <<path>>.
Nothing == <<>>
Poison  == <<None>>

VARIABLES
  poolLock,          \* who holds m_lock of the pool
  lock,              \* lock[w]: who holds m_lock of worker w
  empty, occupied,   \* m_empty_workers, m_occupied_workers
  slot,              \* slot[w]: m_data, the task the worker is to take
  handle,            \* the wp_task_data there are: m_w and m_returned
  failed,            \* the tiles whose compression gave NULL
  asleep,            \* the threads that sleep in pop
  pc, call, next,    \* per thread: where it is, in which call, and which of
                     \* the call's tasks it is starting or waiting for
  target             \* per thread: w in run_async

vars == <<poolLock, lock, empty, occupied, slot, handle, failed, asleep,
          pc, call, next, target>>

sets  == <<empty, occupied>>
locks == <<poolLock, lock>>

Init ==
  /\ poolLock = None /\ lock = [w \in Workers |-> None]
  /\ empty = {} /\ occupied = {}
  /\ slot = [w \in Workers |-> Nothing]
  /\ handle = [d \in {} |-> 0] /\ failed = {} /\ asleep = {}
  /\ pc = [t \in Threads |-> IF t \in Callers THEN "idle" ELSE "unborn"]
  /\ call = [t \in Threads |-> IF t \in Callers THEN <<t, 0>> ELSE <<>>]
  /\ next = [t \in Threads |-> 1]
  /\ target = [t \in Threads |-> None]

\* How many tasks the call of t starts, and the one it is at.
Width(t) == IF t \in Callers THEN Tiles ELSE Parts[call[t][1]]
Task(t)  == Append(call[t], next[t])

IsTile(d) == Len(d) = 3

Goto(t, place) == pc' = [pc EXCEPT ![t] = place]

-----------------------------------------------------------------------------
(* run_async                                                               *)

\* The workers new may give: one is as good as another.
Newborn ==
  LET unborn == {w \in Workers : pc[w] = "unborn"}
  IN  IF unborn = {} THEN {} ELSE {CHOOSE w \in unborn : TRUE}

\* Mutant: a worker that is occupied is taken before one is made.
FreeOrOccupied ==
  IF empty # {} THEN empty ELSE IF occupied # {} THEN occupied ELSE Newborn

\* The first of m_empty_workers is the one at the lowest address: any.
Free == IF empty # {} THEN empty ELSE Newborn

\* The pool is locked, a worker is taken, made if none is free, and counted
\* as occupied.
PickWorker(t) ==
  /\ pc[t] = "start" /\ poolLock = None
  /\ poolLock' = t
  /\ \E w \in Free :
       /\ empty' = empty \ {w} /\ occupied' = occupied \cup {w}
       /\ target' = [target EXCEPT ![t] = w]
       /\ pc' = [pc EXCEPT ![t] = "push",
                           ![w] = IF @ = "unborn" THEN "take" ELSE @]
  /\ UNCHANGED <<lock, slot, handle, failed, asleep, call, next>>

\* wp_worker::push under the worker's lock and the pool's.  After the last
\* task the call goes on to wait for the first.
Push(t) ==
  LET w == target[t]
  IN  /\ pc[t] = "push" /\ lock[w] = None
      /\ slot' = [slot EXCEPT ![w] = <<Task(t)>>]
      /\ handle' = [d \in DOMAIN handle \cup {Task(t)} |->
                     IF d = Task(t) THEN [w |-> w, returned |-> FALSE]
                     ELSE handle[d]]
      /\ poolLock' = None
      /\ IF next[t] < Width(t)
         THEN next' = [next EXCEPT ![t] = @ + 1] /\ Goto(t, "start")
         ELSE next' = [next EXCEPT ![t] = 1] /\ Goto(t, "wait")
      /\ UNCHANGED <<lock, sets, failed, asleep, call, target>>

-----------------------------------------------------------------------------
(* wait_task: wp_worker::pop                                               *)

\* Mutant: the result is not waited for.
ReturnedAtOnce(d) == TRUE

Returned(d) == handle[d].returned

WaitAsleep(t) ==
  /\ pc[t] = "wait" /\ t \notin asleep
  /\ lock[handle[Task(t)].w] = None
  /\ ~Returned(Task(t))
  /\ asleep' = asleep \cup {t}
  /\ UNCHANGED <<locks, sets, slot, handle, failed, pc, call, next, target>>

\* Where a call continues when its tasks are over: a frame is done, and a tile
\* is encoded.
Continue(t) == IF t \in Callers THEN "idle" ELSE "encode"

\* The result is taken and its wp_task_data deleted.  compress_frame_tiles
\* returns NULL at the first tile that failed, and waits for no other.
WaitOver(t) ==
  LET d == Task(t)
  IN  /\ pc[t] = "wait" /\ t \notin asleep
      /\ lock[handle[d].w] = None
      /\ Returned(d)
      /\ handle' = [x \in DOMAIN handle \ {d} |-> handle[x]]
      /\ IF next[t] < Width(t) /\ d \notin failed
         THEN next' = [next EXCEPT ![t] = @ + 1] /\ UNCHANGED pc
         ELSE next' = [next EXCEPT ![t] = 1] /\ Goto(t, Continue(t))
      /\ failed' = failed \ {d}
      /\ UNCHANGED <<locks, sets, slot, asleep, call, target>>

\* pthread_cond_wait may return without a signal.
WakeUp(t) ==
  /\ t \in asleep
  /\ asleep' = asleep \ {t}
  /\ UNCHANGED <<locks, sets, slot, handle, failed, pc, call, next, target>>

-----------------------------------------------------------------------------
(* The callers and the workers.                                            *)

Compress(c) ==
  /\ pc[c] = "idle" /\ call[c][2] < MaxFrames
  /\ call' = [call EXCEPT ![c] = <<c, @[2] + 1>>]
  /\ Goto(c, "start")
  /\ UNCHANGED <<locks, sets, slot, handle, failed, asleep, next, target>>

\* wp_worker::run, when there is a task to take: m_task_ready_cv has no one
\* to wake but this worker, so that to sleep on it is to wait for the slot.
\* A tile is taken apart, unless the encoder cannot be configured for it and
\* there is nothing to give; a part is converted there and then.
Take(w) ==
  /\ pc[w] = "take" /\ lock[w] = None
  /\ slot[w] \notin {Nothing, Poison}
  /\ slot' = [slot EXCEPT ![w] = Nothing]
  /\ call' = [call EXCEPT ![w] = slot[w][1]]
  /\ \/ /\ Goto(w, IF IsTile(slot[w][1]) THEN "start" ELSE "convert")
        /\ UNCHANGED failed
     \/ /\ IsTile(slot[w][1])
        /\ Goto(w, "finish")
        /\ failed' = failed \cup {slot[w][1]}
  /\ UNCHANGED <<locks, sets, handle, asleep, next, target>>

\* The worker runs my_task, or the rest of libavcodec_compress_tile, which may
\* have nothing to give; either reads the data of the task.
Run(w) ==
  /\ pc[w] \in {"convert", "encode"}
  /\ \/ UNCHANGED failed
     \/ pc[w] = "encode" /\ failed' = failed \cup {call[w]}
  /\ Goto(w, "finish")
  /\ UNCHANGED <<locks, sets, slot, handle, asleep, call, next, target>>

\* Mutant: no signal after the result.
SleepersNone(w) == {}

\* Those pthread_cond_signal(&m_task_completed_cv) may wake: one of the
\* threads that sleep in pop for this worker.
Sleepers(w) ==
  {t \in asleep : handle[Task(t)].w = w}

\* Mutant: the worker goes back to the pool before its result is there.
FinishUnlocked(w) ==
  /\ pc[w] = "finish" /\ lock[w] = None
  /\ Goto(w, "notify")
  /\ handle' = [handle EXCEPT ![call[w]].returned = TRUE]
  /\ IF Sleepers(w) = {} THEN UNCHANGED asleep
     ELSE \E t \in Sleepers(w) : asleep' = asleep \ {t}
  /\ UNCHANGED <<poolLock, lock, sets, slot, failed, call, next, target>>

\* Mutant: the worker counts as free before the pool's lock is had.
FinishFree(w) ==
  /\ pc[w] = "finish" /\ lock[w] = None
  /\ lock' = [lock EXCEPT ![w] = w]
  /\ occupied' = occupied \ {w} /\ empty' = empty \cup {w}
  /\ handle' = [handle EXCEPT ![call[w]].returned = TRUE]
  /\ IF Sleepers(w) = {} THEN UNCHANGED asleep
     ELSE \E t \in Sleepers(w) : asleep' = asleep \ {t}
  /\ Goto(w, "notify")
  /\ UNCHANGED <<poolLock, slot, failed, call, next, target>>

\* The result is there, under the worker's lock, which is kept.
Finish(w) ==
  /\ pc[w] = "finish" /\ lock[w] = None
  /\ lock' = [lock EXCEPT ![w] = w]
  /\ handle' = [handle EXCEPT ![call[w]].returned = TRUE]
  /\ IF Sleepers(w) = {} THEN UNCHANGED asleep
     ELSE \E t \in Sleepers(w) : asleep' = asleep \ {t}
  /\ Goto(w, "notify")
  /\ UNCHANGED <<poolLock, sets, slot, failed, call, next, target>>

\* worker_pool::notify
Notify(w) ==
  /\ pc[w] = "notify" /\ poolLock = None
  /\ occupied' = occupied \ {w} /\ empty' = empty \cup {w}
  /\ Goto(w, "unlock")
  /\ UNCHANGED <<locks, slot, handle, failed, asleep, call, next, target>>

Unlock(w) ==
  /\ pc[w] = "unlock"
  /\ lock' = [lock EXCEPT ![w] = None]
  /\ call' = [call EXCEPT ![w] = <<>>]
  /\ Goto(w, "take")
  /\ UNCHANGED <<poolLock, sets, slot, handle, failed, asleep, next, target>>

-----------------------------------------------------------------------------
(* ~worker_pool, when the program exits; the callers are joined by then.   *)

CallersDone == \A c \in Callers : pc[c] = "idle" /\ call[c][2] = MaxFrames

Dying == {w \in Workers : slot[w] = Poison}

\* ~wp_worker, one worker after the other: the poisoned task is pushed, and
\* the thread joined before the next.
Kill(w) ==
  /\ CallersDone /\ Dying = {}
  /\ w \in empty \cup occupied /\ pc[w] # "ended" /\ lock[w] = None
  /\ w \in occupied =>
       \A v \in empty : pc[v] = "ended"
  /\ slot' = [slot EXCEPT ![w] = Poison]
  /\ UNCHANGED <<locks, sets, handle, failed, asleep, pc, call, next, target>>

End(w) ==
  /\ pc[w] = "take" /\ lock[w] = None
  /\ slot[w] = Poison
  /\ slot' = [slot EXCEPT ![w] = Nothing]
  /\ Goto(w, "ended")
  /\ UNCHANGED <<locks, sets, handle, failed, asleep, call, next, target>>

-----------------------------------------------------------------------------
CallStep(t) == PickWorker(t) \/ Push(t) \/ WaitAsleep(t) \/ WaitOver(t)

CallerStep(c) == Compress(c) \/ CallStep(c)

WorkerStep(w) ==
  CallStep(w) \/ Take(w) \/ Run(w)
  \/ Finish(w) \/ Notify(w) \/ Unlock(w) \/ End(w)

Terminated == CallersDone /\ \A w \in empty \cup occupied : pc[w] = "ended"

Next ==
  \/ \E c \in Callers : CallerStep(c)
  \/ \E w \in Workers : WorkerStep(w) \/ Kill(w)
  \/ \E t \in Threads : WakeUp(t)
  \/ Terminated /\ UNCHANGED vars

Spec == Init /\ [][Next]_vars

\* Threads run.  A thread that waits for a lock gets it when it is free often
\* enough: the work is finite, so that nobody can take it for ever.
FairSpec ==
  /\ Spec
  /\ \A c \in Callers : WF_vars(CallerStep(c))
  /\ \A w \in Workers : WF_vars(WorkerStep(w)) /\ WF_vars(Kill(w))
-----------------------------------------------------------------------------
InCall(t) == pc[t] \in {"start", "push", "wait"}

Calls ==
  LET frames == 0 .. MaxFrames
      tiles  == 1 .. Tiles
      parts  == UNION {1 .. Parts[c] : c \in Callers}
  IN  {<<>>} \cup (Callers \X frames) \cup (Callers \X frames \X tiles)
      \cup (Callers \X frames \X tiles \X parts)

\* The variables keep their types, and a call is never past its last task.
TypeOK ==
  /\ poolLock \in Threads \cup {None}
  /\ lock \in [Workers -> Workers \cup {None}]
  /\ empty \subseteq Workers /\ occupied \subseteq Workers
  /\ empty \cap occupied = {}
  /\ \A w \in Workers : slot[w] \in {Nothing, Poison} \cup {<<d>> : d \in Calls}
  /\ DOMAIN handle \subseteq Calls /\ failed \subseteq Calls
  /\ \A d \in DOMAIN handle : handle[d] \in [w: Workers, returned: BOOLEAN]
  /\ asleep \subseteq Threads
  /\ pc \in [Threads -> {"idle", "unborn", "take", "start", "push", "wait",
       "convert", "encode", "finish", "notify", "unlock", "ended"}]
  /\ call \in [Threads -> Calls]
  /\ \A t \in Threads : InCall(t) => next[t] \in 1 .. Width(t)
  /\ target \in [Threads -> Workers \cup {None}]

\* run_async takes a worker's lock while it holds the pool's, and a worker
\* takes the pool's while it holds its own.  They do not wait for each other:
\* a worker whose lock run_async wants is past notify, if it has its lock.
LockOrder ==
  \A t \in Threads : pc[t] = "push" =>
    /\ poolLock = t
    /\ lock[target[t]] # None => pc[target[t]] = "unlock"

\* A worker that is given a task has none: push asserts it (worker.cpp:156).
\* That a worker is in m_empty_workers only after it took its last task is the
\* work of three threads under two locks.
PushAsserts ==
  \A t \in Threads : pc[t] = "push" => slot[target[t]] = Nothing

\* The tasks that w has or is about to take, whose data it reads.
Running(w) == InCall(w) \/ pc[w] \in {"convert", "encode"}

Started(w) ==
  (IF Running(w) THEN {call[w]} ELSE {})
  \cup {d \in Calls \ {<<>>} : slot[w] = <<d>>}

\* The data of a task is in the stack frame of the call that started it, so no
\* task may be waiting or running when that call is over.  True of frames of
\* one tile, which are all this program makes; compress_frame_tiles returns at
\* the first tile that fails and leaves the tasks of the others.
TaskDataAlive ==
  \A w \in Workers : \A d \in Started(w) :
    \E t \in Threads : InCall(t) /\ call[t] = SubSeq(d, 1, Len(d) - 1)

\* A worker is occupied only on behalf of a task that can still be waited for.
\* A worker is made only when all are occupied, so that the pool never holds
\* more of them than there were such tasks at one time.  It takes that a result
\* can be had only when its worker is free again: notify is called before the
\* worker's lock is given up.
OccupiedAwaited ==
  \A w \in occupied :
    \/ \E d \in DOMAIN handle : handle[d].w = w
    \/ \E t \in Threads : pc[t] = "push" /\ target[t] = w

\* Every call returns and every worker ends: no signal is lost between the
\* threads that wait in pop and the workers that finish, whoever else uses the
\* same worker meanwhile, and tasks that wait for tasks always find a worker.
Completes == <>Terminated
=============================================================================
