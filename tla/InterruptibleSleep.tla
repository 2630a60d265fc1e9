------------------------- MODULE InterruptibleSleep -------------------------
(***************************************************************************)
(* interruptible_sleep_on() and wake_up() of kernel/sched.c as the         *)
(* terminals use them: tasks that tty_read() the same queue sleep in       *)
(* sleep_if_empty() until characters or a signal arrive, and a signal may  *)
(* kill them.                                                              *)
(*                                                                         *)
(* An action is what a task does from one return of schedule() to the      *)
(* next call; each ends with the scan for signals at the top of            *)
(* schedule().  A pending signal here is one that is not blocked.          *)
(***************************************************************************)
EXTENDS Integers

CONSTANTS Tasks, NULL,
          MaxChars     \* bound: characters in tty->secondary

ASSUME SleepConstants == NULL \notin Tasks /\ MaxChars \in Nat

VARIABLES state,       \* "running", "interruptible", "zombie", "free" (released)
          pc,          \* "out", or "in" interruptible_sleep_on()
          tmp,         \* the local of that call
          wait,        \* *p: tty->secondary.proc_list
          chars,       \* characters in the queue
          signal       \* an unblocked signal is pending

vars == <<state, pc, tmp, wait, chars, signal>>

TypeOK ==
  /\ state \in [Tasks -> {"running", "interruptible", "zombie", "free"}]
  /\ pc \in [Tasks -> {"out", "in"}]
  /\ tmp \in [Tasks -> Tasks \cup {NULL}]
  /\ wait \in Tasks \cup {NULL}
  /\ chars \in 0..MaxChars
  /\ signal \in [Tasks -> BOOLEAN]

Init ==
  /\ state = [t \in Tasks |-> "running"]
  /\ pc = [t \in Tasks |-> "out"]
  /\ tmp = [t \in Tasks |-> NULL]
  /\ wait = NULL
  /\ chars = 0
  /\ signal = [t \in Tasks |-> FALSE]
-----------------------------------------------------------------------------
(* schedule(): wake up any interruptible tasks that have got a signal. *)
Scan(st) ==
  [t \in Tasks |-> IF st[t] = "interruptible" /\ signal[t] THEN "running" ELSE st[t]]

(* p->state = 0 through a pointer that may be stale: it also revives a     *)
(* zombie; on a released task it writes into a free page.                  *)
SetRunning(st, p) ==
  IF p = NULL THEN st
  ELSE [st EXCEPT ![p] = IF @ = "free" THEN @ ELSE "running"]

(* A bug: the queue is not emptied. *)
Emptied_not == wait

(* *p=NULL, in interruptible_sleep_on() and in wake_up(). *)
Emptied == NULL

(* interruptible_sleep_on() up to schedule(), *p being old. *)
SleepOn(t, st, old) ==
  /\ tmp' = [tmp EXCEPT ![t] = old]
  /\ wait' = t
  /\ state' = Scan([st EXCEPT ![t] = "interruptible"])
  /\ pc' = [pc EXCEPT ![t] = "in"]
  /\ UNCHANGED chars

(* tty_read() with characters there: it takes some of them. *)
Take == chars' \in 0 .. chars - 1

(* tty_read() calls sleep_if_empty(), or finds characters.  With a signal  *)
(* pending it returns -EINTR at once.                                      *)
tty_read(t) ==
  /\ state[t] = "running" /\ pc[t] = "out"
  /\ ~signal[t]
  /\ \/ /\ chars = 0
        /\ SleepOn(t, state, wait)
     \/ /\ chars > 0
        /\ Take
        /\ UNCHANGED <<state, pc, tmp, wait>>
  /\ UNCHANGED signal

(* schedule() returns and somebody slept later: wake him, sleep again. *)
Again(t) ==
  /\ state[t] = "running" /\ pc[t] = "in"
  /\ wait # NULL /\ wait # t
  /\ state' = Scan([SetRunning(state, wait) EXCEPT ![t] = "interruptible"])
  /\ UNCHANGED <<pc, tmp, wait, chars, signal>>

(* schedule() returns and t leaves: *p=NULL, the saved task is woken, and  *)
(* the loop of sleep_if_empty() goes on or ends.                           *)
Leave(t) ==
  LET st == SetRunning(state, tmp[t]) IN
  /\ state[t] = "running" /\ pc[t] = "in"
  /\ wait \in {NULL, t}
  /\ \/ /\ ~signal[t] /\ chars = 0
        /\ SleepOn(t, st, NULL)
     \/ /\ signal[t] \/ chars > 0
        /\ wait' = Emptied
        /\ state' = st
        /\ pc' = [pc EXCEPT ![t] = "out"]
        /\ tmp' = [tmp EXCEPT ![t] = NULL]
        /\ IF signal[t] THEN UNCHANGED chars ELSE Take
  /\ UNCHANGED signal

(* The keyboard interrupt: copy_to_cooked() puts a character into the      *)
(* queue and calls wake_up().                                              *)
Input ==
  /\ chars < MaxChars
  /\ chars' = chars + 1
  /\ state' = SetRunning(state, wait)
  /\ wait' = Emptied
  /\ UNCHANGED <<pc, tmp, signal>>

(* send_sig(), tty_intr(). *)
Signal(t) ==
  /\ state[t] \in {"running", "interruptible"}
  /\ ~signal[t]
  /\ signal' = [signal EXCEPT ![t] = TRUE]
  /\ UNCHANGED <<state, pc, tmp, wait, chars>>

(* Some other task calls schedule(). *)
schedule ==
  /\ state # Scan(state)
  /\ state' = Scan(state)
  /\ UNCHANGED <<pc, tmp, wait, chars, signal>>

(* do_signal() on the way out of the system call: the handler takes the    *)
(* signal, or the default action is do_exit().                             *)
Handle(t) ==
  /\ state[t] = "running" /\ pc[t] = "out" /\ signal[t]
  /\ signal' = [signal EXCEPT ![t] = FALSE]
  /\ UNCHANGED <<state, pc, tmp, wait, chars>>

do_exit(t) ==
  /\ state[t] = "running" /\ pc[t] = "out" /\ signal[t]
  /\ state' = Scan([state EXCEPT ![t] = "zombie"])
  /\ signal' = [signal EXCEPT ![t] = FALSE]
  /\ UNCHANGED <<pc, tmp, wait, chars>>

(* sys_waitpid() in the father. *)
release(t) ==
  /\ state[t] = "zombie"
  /\ state' = Scan([state EXCEPT ![t] = "free"])
  /\ UNCHANGED <<pc, tmp, wait, chars, signal>>

Next ==
  \/ \E t \in Tasks : \/ tty_read(t) \/ Again(t) \/ Leave(t) \/ Signal(t)
                      \/ Handle(t) \/ do_exit(t) \/ release(t)
  \/ Input
  \/ schedule

Spec == Init /\ [][Next]_vars
-----------------------------------------------------------------------------
(* *p never points at a task that has left: wake_up() hits a task that is  *)
(* inside interruptible_sleep_on() and alive, whoever left, died or slept  *)
(* again in the meantime (sched.c:167-186).                                *)
HeadIsInside ==
  wait # NULL => pc[wait] = "in" /\ state[wait] \in {"running", "interruptible"}

(* exit.c:134, "just to suppress warnings": do_exit() is not expected to   *)
(* come back from its schedule().  A zombie stays one until it is released.*)
ZombieStaysDead ==
  [][\A t \in Tasks : state[t] = "zombie" => state'[t] \in {"zombie", "free"}]_vars
=============================================================================
