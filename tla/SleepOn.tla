------------------------------ MODULE SleepOn ------------------------------
(***************************************************************************)
(* sleep_on() / wake_up() of kernel/sched.c, in the only way the kernel    *)
(* uses them: guarding a lock byte.  The same three loops are written out  *)
(* for buffers (b_lock/b_wait), inodes (i_lock/i_wait) and super blocks    *)
(* (s_lock/s_wait); this module models one such byte and its wait queue.   *)
(*                                                                         *)
(* There is no queue structure in the code: *p points at the last task     *)
(* that went to sleep and every sleeper keeps, in the local variable tmp   *)
(* of its own sleep_on() frame, the task that was last before it.          *)
(*                                                                         *)
(* The kernel is not preemptive: a task leaves the CPU only inside         *)
(* schedule(), and the loops run with interrupts off (cli), so one action  *)
(* is what a task does from one return of schedule() to the next call.     *)
(***************************************************************************)
EXTENDS Naturals

CONSTANTS Tasks,   \* the tasks, task[0] excluded: it may not sleep (sched.c:157)
          NULL     \* the null pointer

ASSUME NullIsNoTask == NULL \notin Tasks

VARIABLES state,   \* state[t]: "running" or "uninterruptible"
          pc,      \* pc[t]: "out", or the loop whose sleep_on() t is inside
          tmp,     \* tmp[t]: the local of t's sleep_on() frame
          wait,    \* *p: b_wait, i_wait, s_wait
          lock     \* the lock byte: b_lock, i_lock, s_lock

vars == <<state, pc, tmp, wait, lock>>

Inside(t) == pc[t] # "out"

TypeOK ==
  /\ state \in [Tasks -> {"running", "uninterruptible"}]
  /\ pc \in [Tasks -> {"out", "wait_on", "lock_on"}]
  /\ tmp \in [Tasks -> Tasks \cup {NULL}]
  /\ wait \in Tasks \cup {NULL}
  /\ lock \in BOOLEAN

Init ==
  /\ state = [t \in Tasks |-> "running"]
  /\ pc = [t \in Tasks |-> "out"]
  /\ tmp = [t \in Tasks |-> NULL]
  /\ wait = NULL
  /\ lock = FALSE
-----------------------------------------------------------------------------
(* Plausible bugs, used only to show that the properties can fail. *)

(* sleep_on() forgets the previous sleeper. *)
sleep_on_drops(t, st, loop) ==
  /\ tmp' = [tmp EXCEPT ![t] = NULL]
  /\ wait' = t
  /\ state' = [st EXCEPT ![t] = "uninterruptible"]
  /\ pc' = [pc EXCEPT ![t] = loop]

(* wake_up() does not clear *p. *)
wake_up_keeps ==
  /\ state' = IF wait = NULL THEN state ELSE [state EXCEPT ![wait] = "running"]
  /\ wait' = wait

(* sleep_on() does not pass the wakeup on. *)
WakeSaved_none(t) == state
-----------------------------------------------------------------------------
(* sleep_on(p) up to its call of schedule(); st is the state array when it *)
(* is called, loop the while statement around the call.                    *)
sleep_on(t, st, loop) ==
  /\ tmp' = [tmp EXCEPT ![t] = wait]
  /\ wait' = t
  /\ state' = [st EXCEPT ![t] = "uninterruptible"]
  /\ pc' = [pc EXCEPT ![t] = loop]

(* The tail of sleep_on(): if (tmp) tmp->state = 0. *)
WakeSaved(t) ==
  IF tmp[t] = NULL THEN state ELSE [state EXCEPT ![tmp[t]] = "running"]

(* wake_up(p): only the task *p points at is made runnable. *)
wake_up ==
  /\ state' = IF wait = NULL THEN state ELSE [state EXCEPT ![wait] = "running"]
  /\ wait' = NULL

CallFromOut(t) == state[t] = "running" /\ pc[t] = "out"

(* wait_on_buffer, wait_on_inode, wait_on_super: while (lock) sleep_on(). *)
(* With the byte clear they return at once and change nothing.            *)
WaitOn(t) ==
  /\ CallFromOut(t)
  /\ lock
  /\ sleep_on(t, state, "wait_on")
  /\ UNCHANGED lock

(* lock_buffer, lock_inode, lock_super. *)
LockOn(t) ==
  /\ CallFromOut(t)
  /\ \/ /\ lock
        /\ sleep_on(t, state, "lock_on")
        /\ UNCHANGED lock
     \/ /\ ~lock
        /\ lock' = TRUE
        /\ UNCHANGED <<state, pc, tmp, wait>>

(* schedule() returns to t inside sleep_on(): the saved task is made       *)
(* runnable, then the loop tests the byte again.                           *)
Resume(t) ==
  /\ state[t] = "running"
  /\ Inside(t)
  /\ \/ /\ lock
        /\ sleep_on(t, WakeSaved(t), pc[t])
        /\ UNCHANGED lock
     \/ /\ ~lock
        /\ state' = WakeSaved(t)
        /\ lock' = (pc[t] = "lock_on")
        /\ pc' = [pc EXCEPT ![t] = "out"]
        /\ tmp' = [tmp EXCEPT ![t] = NULL]
        /\ UNCHANGED wait

(* unlock_buffer, unlock_inode, free_super: by the task that holds the     *)
(* lock or, for a buffer, by end_request() in the disk interrupt.          *)
Unlock ==
  /\ lock
  /\ lock' = FALSE
  /\ wake_up
  /\ UNCHANGED <<pc, tmp>>

Next ==
  \/ \E t \in Tasks : WaitOn(t) \/ LockOn(t) \/ Resume(t)
  \/ Unlock

Spec == Init /\ [][Next]_vars

(* A holder always unlocks (every request ends, every inode read returns), *)
(* and schedule() does not starve a runnable task: its counter grows at    *)
(* every recharge while the others use theirs up.                          *)
Fairness == WF_vars(Unlock) /\ \A t \in Tasks : WF_vars(Resume(t))

FairSpec == Spec /\ Fairness
-----------------------------------------------------------------------------
(* No wakeup is lost: a sleeping task is the one *p points at or is saved  *)
(* in the frame of another task still inside sleep_on() on this queue, so  *)
(* somebody will make it runnable.  sched.c:151-165.                       *)
NoOrphan ==
  \A t \in Tasks : state[t] = "uninterruptible" =>
    \/ wait = t
    \/ \E u \in Tasks : Inside(u) /\ tmp[u] = t

(* tmp is never stale: the task a frame will write to at sched.c:164 is    *)
(* still asleep on this queue.  Were it gone, `tmp->state=0' would wake a  *)
(* task out of some other sleep or write into a freed task page.           *)
SavedAsleep ==
  \A u \in Tasks : Inside(u) /\ tmp[u] # NULL =>
    state[tmp[u]] = "uninterruptible" /\ Inside(tmp[u])

(* Every sleeper is woken, however deep it is in the chain of tmp's. *)
SleeperWakes ==
  \A t \in Tasks : state[t] = "uninterruptible" ~> state[t] = "running"
-----------------------------------------------------------------------------
(* The inductive invariant behind the properties above: the queue is a     *)
(* simple chain, so that each task has exactly one waker.                  *)
HeadAsleep ==
  wait # NULL => state[wait] = "uninterruptible"

OneWaker ==
  /\ \A u, v \in Tasks :
       Inside(u) /\ Inside(v) /\ tmp[u] = tmp[v] /\ tmp[u] # NULL => u = v
  /\ \A u \in Tasks : Inside(u) /\ wait # NULL => tmp[u] # wait

AsleepInside ==
  \A t \in Tasks : state[t] = "uninterruptible" => Inside(t)

QueueInv ==
  /\ TypeOK
  /\ HeadAsleep
  /\ OneWaker
  /\ AsleepInside
  /\ NoOrphan
  /\ SavedAsleep
  /\ (~lock => wait = NULL)
=============================================================================
