------------------------------- MODULE Process -------------------------------
(***************************************************************************)
(* kernel/sched.c, fork.c, exit.c, signal.c and the process calls of sys.c: *)
(* the task table, the scheduler, fork, exit, wait and signals.            *)
(*                                                                         *)
(* One processor: `current' is the task that runs, and every action is a   *)
(* stretch of it up to the next schedule(), or an interrupt.  Task 0 is    *)
(* the idle task and has no entry here.  Task 1 is init; it runs the loop  *)
(* of init/main.c: start a shell, wait for anybody, start the shell again. *)
(* All other tasks belong to one user, who is not the super user.          *)
(***************************************************************************)
EXTENDS Integers, FiniteSets

CONSTANTS NR_TASKS,   \* slots, slot 0 included
          MaxPid,     \* the largest pid before last_pid wraps around
          Priority,   \* of every task
          MaxForks,   \* bound: forks in a behaviour, if CountForks
          CountForks,
          MaxSets,    \* bound: calls that change masks, handlers, alarms, groups
          MaxAlarm,   \* bound: ticks an alarm is set ahead
          Calls,      \* the system calls the user's programs make
          WaitFor     \* the arguments they give waitpid()

ASSUME Constants ==
  /\ NR_TASKS \in Nat /\ NR_TASKS > 2 /\ MaxPid \in Nat /\ MaxPid >= NR_TASKS
  /\ Priority \in Nat \ {0} /\ MaxForks \in Nat /\ CountForks \in BOOLEAN /\ MaxSets \in Nat /\ MaxAlarm \in Nat \ {0}
  /\ WaitFor \subseteq Int

Slots == 1 .. NR_TASKS - 1
Init1 == 1
Idle0 == 0

HUP == 1
KILL == 9
ALRM == 14
CHLD == 17
Signals == {HUP, KILL, ALRM, CHLD}

VARIABLES task,      \* task[i]: the task structure; pid 0 where task[i] == NULL
          pc,        \* where the task is, see TypeOK
          current,   \* the running task
          last_pid,
          shell,     \* init's variable pid, 0 if it has to start a shell
          forks,     \* bound: how many forks there were
          sets,      \* bound: how many of the calls MaxSets bounds
          moved      \* history: the sleepers in waitpid() who, or a child of
                     \* whom, was moved to another group since they sleep

vars == <<task, pc, current, last_pid, shell, forks, sets, moved>>
bounds == <<forks, sets, moved>>

NULL == [pid |-> 0, father |-> 0, state |-> "zombie", counter |-> 0, signal |-> {},
         blocked |-> {}, ign |-> {}, handled |-> {}, alarm |-> 0,
         pgrp |-> 0, session |-> 0, leader |-> FALSE, waitfor |-> 0]

Exists(T, i) == T[i].pid # 0

(* INIT_TASK, and the first fork() in main(). *)
Init ==
  /\ task = [i \in Slots |-> IF i = Init1
                             THEN [NULL EXCEPT !.pid = 1, !.state = "running",
                                               !.counter = Priority] ELSE NULL]
  /\ pc = [i \in Slots |-> "user"]
  /\ current = Init1
  /\ last_pid = 1
  /\ shell = 0
  /\ forks = 0
  /\ sets = 0
  /\ moved = {}
-----------------------------------------------------------------------------
(* Bugs of schedule(): a signal does not wake; used-up tasks get no time. *)
Awakened_never(t) == t
Recharged_runnable(T) ==
  [i \in Slots |-> IF Exists(T, i) /\ T[i].state = "running" /\ i # Init1
                   THEN [T[i] EXCEPT !.counter = Priority] ELSE T[i]]

(* schedule(), first loop: alarms, and signals that end a sleep. *)
Awakened(t) ==
  LET s == IF t.alarm = 1 THEN t.signal \cup {ALRM} ELSE t.signal IN
  [t EXCEPT !.signal = s,
            !.alarm = IF @ = 1 THEN 0 ELSE @,
            !.state = IF @ = "interruptible" /\ s \ (t.blocked \ {KILL}) # {}
                      THEN "running" ELSE @]

Recharged(T) ==
  [i \in Slots |-> IF Exists(T, i)
                   THEN [T[i] EXCEPT !.counter = @ \div 2 + Priority] ELSE T[i]]

Woken(T) == [i \in Slots |-> IF Exists(T, i) THEN Awakened(T[i]) ELSE T[i]]
Runnable(T) == {i \in Slots : Exists(T, i) /\ T[i].state = "running"}

(* The scheduler proper, with the runnable tasks r of W: the table, and    *)
(* the task that is switched to.  One recharge is enough, since priorities *)
(* are positive.                                                           *)
Charged(W, r) == IF r # {} /\ \A i \in r : W[i].counter = 0 THEN Recharged(W) ELSE W
Highest(R, r) ==
  LET first == {i \in r : \A j \in r : R[j].counter =< R[i].counter}
  IN  IF r = {} THEN Idle0 ELSE CHOOSE i \in first : \A j \in first : j =< i

Schedule(T) ==
  \E W \in {Woken(T)} : \E r \in {Runnable(W)} : \E R \in {Charged(W, r)} :
    task' = R /\ current' = Highest(R, r)

Goto(i, where) == pc' = [pc EXCEPT ![i] = where]

Runs(i, where) == current = i /\ pc[i] = where
Calling(i, call) == Runs(i, "user") /\ i # Init1 /\ call \in Calls

(* Back from a system call that did not sleep. *)
Return(i, T) ==
  /\ task' = T
  /\ Goto(i, "ret")
  /\ UNCHANGED current

(* task[0]: for(;;) pause(); *)
Idle ==
  /\ current = Idle0
  /\ Runnable(Woken(task)) # {}
  /\ Schedule(task)
  /\ UNCHANGED <<pc, last_pid, shell, bounds>>
-----------------------------------------------------------------------------
(* find_empty_process(): the next pid no task has. *)
find_empty_process(T, last) ==
  LET nth(n) == ((last + n - 1) % MaxPid) + 1
      free == {n \in 1 .. MaxPid : \A i \in Slots : T[i].pid # nth(n)}
  IN  nth(CHOOSE n \in free : \A k \in free : n =< k)

(* copy_process(): what the child does not inherit. *)
copy_process(t, pid) ==
  [t EXCEPT !.pid = pid, !.father = t.pid, !.state = "running", !.counter = Priority,
            !.signal = {}, !.alarm = 0, !.leader = FALSE, !.waitfor = 0]

(* What init's child does before anything else: setsid(). *)
Shell(t) == [t EXCEPT !.leader = TRUE, !.session = t.pid, !.pgrp = t.pid]

(* sys_fork(): no slot, no memory, or a child. *)
Fork(i) ==
  LET pid == find_empty_process(task, last_pid)
      child == copy_process(task[i], pid)
      empty == {j \in Slots : ~Exists(task, j)} IN
  /\ Calling(i, "fork") \/ (i = Init1 /\ Runs(i, "user") /\ shell = 0)
  /\ forks < MaxForks
  /\ forks' = IF CountForks THEN forks + 1 ELSE forks
  /\ UNCHANGED <<sets, moved>>
  /\ last_pid' = pid
  /\ \/ Return(i, task) /\ UNCHANGED shell
     \/ /\ empty # {}
        /\ LET nr == CHOOSE j \in empty : \A k \in empty : j =< k IN
           /\ task' = [task EXCEPT ![nr] = IF i = Init1 THEN Shell(child) ELSE child]
           /\ pc' = [pc EXCEPT ![i] = "forked", ![nr] = "user"]
        /\ shell' = IF i = Init1 THEN pid ELSE shell
        /\ UNCHANGED current
-----------------------------------------------------------------------------
send_sig(T, to, sig) ==
  [i \in Slots |-> IF i \in to THEN [T[i] EXCEPT !.signal = @ \cup {sig}] ELSE T[i]]

(* Bugs of do_exit(): children keep their father; init is not told of the  *)
(* zombies it gets.                                                        *)
Orphaned_keep(T, i) == T
Orphaned_silent(T, i) ==
  [j \in Slots |-> IF Exists(T, j) /\ T[j].father = T[i].pid
                   THEN [T[j] EXCEPT !.father = 1] ELSE T[j]]

(* do_exit(), its first half: the children become init's. *)
Orphaned(T, i) ==
  LET children == {j \in Slots : Exists(T, j) /\ T[j].father = T[i].pid}
      A == [j \in Slots |-> IF j \in children THEN [T[j] EXCEPT !.father = 1] ELSE T[j]]
  IN  IF \E j \in children : T[j].state = "zombie" THEN send_sig(A, {Init1}, CHLD) ELSE A

(* kill_session() *)
kill_session(T, i) ==
  send_sig(T, {j \in Slots : Exists(T, j) /\ T[j].session = T[i].session}, HUP)

(* tell_father() finds the father, or releases the task itself. *)
Fathers(T, pid) == {j \in Slots : pid # 0 /\ T[j].pid = pid}
(* A bug: a father that waits for a group is not told. *)
tell_father_named(T, i) ==
  send_sig(T, {j \in Fathers(T, T[i].father) : T[j].waitfor \in {0, -1, T[i].pid}}, CHLD)

tell_father(T, i) ==
  IF Fathers(T, T[i].father) = {} THEN [T EXCEPT ![i] = NULL]
  ELSE send_sig(T, Fathers(T, T[i].father), CHLD)

Exit(i) ==
  /\ Calling(i, "exit")
  /\ task' = Orphaned(task, i)
  /\ Goto(i, "exit")
  /\ UNCHANGED <<current, last_pid, shell, bounds>>

(* sys_close() and iput() may wait for a disk. *)
ExitSleep(i) ==
  /\ Runs(i, "exit")
  /\ Schedule([task EXCEPT ![i].state = "uninterruptible"])
  /\ Goto(i, "closed")
  /\ UNCHANGED <<last_pid, shell, bounds>>

(* An interrupt ends that wait. *)
Wake(i) ==
  /\ Exists(task, i) /\ task[i].state = "uninterruptible"
  /\ task' = [task EXCEPT ![i].state = "running"]
  /\ UNCHANGED <<pc, current, last_pid, shell, bounds>>

(* do_exit(), the rest. *)
ExitEnd(i) ==
  LET K == IF task[i].leader THEN kill_session(task, i) ELSE task IN
  /\ Runs(i, "exit") \/ Runs(i, "closed")
  /\ Schedule(tell_father([K EXCEPT ![i].state = "zombie"], i))
  /\ Goto(i, "user")
  /\ UNCHANGED <<last_pid, shell, bounds>>
-----------------------------------------------------------------------------
(* sys_waitpid(): the children its argument means. *)
Meant(i, arg) ==
  {j \in Slots \ {i} :
     /\ Exists(task, j) /\ task[j].father = task[i].pid
     /\ CASE arg > 0 -> task[j].pid = arg
          [] arg = 0 -> task[j].pgrp = task[i].pgrp
          [] arg < -1 -> task[j].pgrp = -arg
          [] OTHER -> TRUE}

(* From `repeat:'.  A zombie is released, which calls schedule(); without  *)
(* one the caller sleeps, or returns 0 or -ECHILD.                         *)
Waitpid(i, arg, nohang) ==
  LET dead == {j \in Meant(i, arg) : task[j].state = "zombie"}
      j == CHOOSE k \in dead : \A n \in dead : n =< k IN
  \/ /\ dead # {}
     /\ Schedule([task EXCEPT ![j] = NULL, ![i].waitfor = 0])
     /\ Goto(i, "ret")
     /\ shell' = IF i = Init1 /\ task[j].pid = shell THEN 0 ELSE shell
     /\ UNCHANGED <<last_pid, bounds>>
  \/ /\ dead = {} /\ Meant(i, arg) # {} /\ ~nohang
     /\ Schedule([task EXCEPT ![i].state = "interruptible", ![i].waitfor = arg])
     /\ Goto(i, "wait")
     /\ UNCHANGED <<last_pid, shell, bounds>>
  \/ /\ dead = {} /\ (Meant(i, arg) = {} \/ nohang)
     /\ Return(i, [task EXCEPT ![i].waitfor = 0])
     /\ UNCHANGED <<last_pid, shell, bounds>>

sys_waitpid(i, arg, nohang) ==
  /\ Calling(i, "waitpid") \/ (i = Init1 /\ Runs(i, "user") /\ shell # 0
                               /\ arg = -1 /\ ~nohang)
  /\ Waitpid(i, arg, nohang)

(* Awake again: SIGCHLD is taken back; another signal ends the call. *)
AfterSleep(i) ==
  LET left == task[i].signal \ {CHLD} IN
  /\ Runs(i, "wait")
  /\ IF left # {} THEN Return(i, [task EXCEPT ![i].signal = left, ![i].waitfor = 0])
     ELSE task' = [task EXCEPT ![i].signal = {}] /\ Goto(i, "again") /\ UNCHANGED current
  /\ moved' = moved \ {i}
  /\ UNCHANGED <<last_pid, shell, forks, sets>>

Repeat(i) ==
  /\ Runs(i, "again")
  /\ Waitpid(i, task[i].waitfor, FALSE)
-----------------------------------------------------------------------------
(* sys_kill().  The last else belongs to the if before it: for pid < -1    *)
(* nothing is sent, and for -1 the loop that follows the first task that   *)
(* can be signalled reaches only process group 1.                          *)
Killed(i, pid) ==
  LET allowed == {j \in Slots : Exists(task, j) /\ j # Init1}
      last == {j \in allowed : \A k \in allowed : k =< j}
  IN  CASE pid = 0 -> {j \in Slots : Exists(task, j) /\ task[j].pgrp = task[i].pid}
        [] pid > 0 -> {j \in allowed : task[j].pid = pid}
        [] OTHER -> last \cup {j \in allowed : task[j].pgrp = 1}

sys_kill(i, pid, sig) ==
  /\ Calling(i, "kill")
  /\ Return(i, send_sig(task, Killed(i, pid), sig))
  /\ UNCHANGED <<last_pid, shell, bounds>>

sys_pause(i) ==
  /\ Calling(i, "pause")
  /\ Schedule([task EXCEPT ![i].state = "interruptible"])
  /\ Goto(i, "ret")
  /\ UNCHANGED <<last_pid, shell, bounds>>

(* Calls that change only the caller's own structure: sys_alarm(),         *)
(* sys_ssetmask(), sys_signal() and sys_setsid().  Those that would change *)
(* nothing are not made.                                                   *)
Own(i, call, t) ==
  /\ Calling(i, call)
  /\ t # task[i]
  /\ sets < MaxSets
  /\ sets' = sets + 1
  /\ Return(i, [task EXCEPT ![i] = t])
  /\ UNCHANGED <<last_pid, shell, forks, moved>>

sys_alarm(i, n) == Own(i, "alarm", [task[i] EXCEPT !.alarm = n])
sys_ssetmask(i, mask) == Own(i, "ssetmask", [task[i] EXCEPT !.blocked = mask \ {KILL}])
sys_signal(i, sig, how) ==
  /\ sig # KILL
  /\ Own(i, "signal", [task[i] EXCEPT
       !.ign = IF how = "ignore" THEN @ \cup {sig} ELSE @ \ {sig},
       !.handled = IF how = "handler" THEN @ \cup {sig} ELSE @ \ {sig}])
sys_setsid(i) ==
  /\ ~task[i].leader
  /\ Own(i, "setsid", [task[i] EXCEPT !.leader = TRUE, !.session = task[i].pid,
                                      !.pgrp = task[i].pid])

(* sys_setpgid(): any task of the session but its leader, running, asleep  *)
(* or dead, into any group.                                                *)
sys_setpgid(i, j, pgid) ==
  /\ Calling(i, "setpgid")
  /\ Exists(task, j) /\ ~task[j].leader /\ task[j].session = task[i].session
  /\ task[j].pgrp # pgid
  /\ sets < MaxSets
  /\ sets' = sets + 1
  /\ Return(i, [task EXCEPT ![j].pgrp = pgid])
  /\ moved' = moved \cup {k \in Slots : pc[k] = "wait" /\ task[k].pid \in {task[j].pid, task[j].father}}
  /\ UNCHANGED <<last_pid, shell, forks>>
-----------------------------------------------------------------------------
(* system_call: a task whose time is used up calls schedule() before it    *)
(* goes on to ret_from_sys_call.                                           *)
Reschedule(i) ==
  /\ Runs(i, "ret") \/ Runs(i, "forked")
  /\ task[i].counter = 0
  /\ Schedule(task)
  /\ Goto(i, "signals")
  /\ UNCHANGED <<last_pid, shell, bounds>>

(* ret_from_sys_call: the lowest signal that is not blocked; do_signal().  *)
do_signal(i) ==
  LET open == task[i].signal \ task[i].blocked
      n == IF open = {} THEN 0 ELSE CHOOSE s \in open : \A r \in open : s =< r
      T == [task EXCEPT ![i].signal = @ \ {n}] IN
  /\ Runs(i, "signals") \/ ((Runs(i, "ret") \/ Runs(i, "forked")) /\ task[i].counter > 0)
  /\ \/ /\ n \in task[i].ign \cup ({0, CHLD} \ task[i].handled)
        /\ task' = T
        /\ Goto(i, "user")
     \/ /\ n \in task[i].handled
        /\ task' = [T EXCEPT ![i].handled = @ \ {n}]
        /\ Goto(i, "user")
     \/ /\ n \notin task[i].ign \cup task[i].handled \cup {0, CHLD}
        /\ task' = Orphaned(T, i)
        /\ Goto(i, "exit")
  /\ UNCHANGED <<current, last_pid, shell, bounds>>

UserMode == \E i \in Slots : Runs(i, "user")

(* The timer interrupt, do_timer(): time is taken from the current task;   *)
(* in user mode a task whose time is used up is switched.                  *)
Tick ==
  LET A == [i \in Slots |-> IF task[i].alarm > 1 THEN [task[i] EXCEPT !.alarm = @ - 1]
                            ELSE task[i]]
      T == IF current = Idle0 \/ task[current].counter = 0 THEN A
           ELSE [A EXCEPT ![current].counter = @ - 1] IN
  /\ \/ /\ UserMode /\ T[current].counter = 0
        /\ Schedule(T)
        /\ Goto(current, "signals")
     \/ /\ UserMode /\ T[current].counter > 0
        /\ task' = T
        /\ Goto(current, "signals")
        /\ UNCHANGED current
     \/ /\ ~UserMode
        /\ task' = T
        /\ UNCHANGED <<pc, current>>
  /\ UNCHANGED <<last_pid, shell, bounds>>

Call(i) ==
  \/ Fork(i) \/ Exit(i) \/ sys_pause(i) \/ sys_setsid(i)
  \/ \E arg \in WaitFor, nohang \in BOOLEAN : sys_waitpid(i, arg, nohang)
  \/ \E pid \in -1 .. MaxPid : sys_kill(i, pid, KILL)
  \/ \E n \in {0, MaxAlarm + 1} : sys_alarm(i, n)
  \/ \E mask \in {{}, {CHLD, KILL}} : sys_ssetmask(i, mask)
  \/ \E how \in {"default", "handler"} : sys_signal(i, ALRM, how)
  \/ sys_signal(i, HUP, "ignore")
  \/ \E j \in Slots, pgid \in 1 .. MaxPid : sys_setpgid(i, j, pgid)

Kernel(i) ==
  \/ ExitSleep(i) \/ ExitEnd(i) \/ AfterSleep(i) \/ Repeat(i)
  \/ Reschedule(i) \/ do_signal(i)

Next == Idle \/ Tick \/ \E i \in Slots : Call(i) \/ Kernel(i) \/ Wake(i)

Spec == Init /\ [][Next]_vars

(* The clock ticks, disks answer, kernel code goes on, and init's program  *)
(* gets to its next call between two ticks.                                *)
FairSpec == /\ Spec
            /\ WF_vars(Tick) /\ WF_vars(Idle)
            /\ WF_vars(\E i \in Slots : Kernel(i))
            /\ \A i \in Slots : WF_vars(Wake(i))
            /\ SF_vars(Fork(Init1) \/ sys_waitpid(Init1, -1, FALSE))
-----------------------------------------------------------------------------
TypeOK ==
  /\ current \in Slots \cup {Idle0}
  /\ \A i \in Slots :
       /\ task[i].pid \in 0 .. MaxPid /\ task[i].father \in 0 .. MaxPid
       /\ task[i].counter \in 0 .. 2 * Priority
       /\ task[i].signal \subseteq Signals
       /\ task[i].state \in {"running", "interruptible", "uninterruptible", "zombie"}
       /\ pc[i] \in {"user", "ret", "forked", "signals", "wait", "again", "exit", "closed"}

(* exit.c:96: "if we don't find any fathers, we just release ourselves"    *)
(* never happens: every task but init has a father that still runs, even   *)
(* while that one sleeps half-way through its own exit.                    *)
FatherLives ==
  \A i \in Slots \ {Init1} : Exists(task, i) =>
    \E j \in Slots : /\ task[j].pid = task[i].father
                     /\ task[j].state # "zombie"
                     /\ pc[j] \notin {"exit", "closed"}

(* sys_waitpid() looks for zombies and then sleeps until a SIGCHLD comes   *)
(* (exit.c:187): a task that sleeps there while a child it means is dead   *)
(* has the signal, or has blocked it itself.  For a group (arguments 0 and *)
(* below -1) only as long as setpgid() moved neither the sleeper nor a     *)
(* child of it: the SIGCHLD of one that died before is spent by then.      *)
WaiterIsTold ==
  \A i \in Slots :
    /\ pc[i] = "wait" /\ task[i].state = "interruptible"
    /\ task[i].waitfor > 0 \/ task[i].waitfor = -1 \/ i \notin moved
    /\ \E j \in Meant(i, task[i].waitfor) : task[j].state = "zombie"
    => CHLD \in task[i].signal \cup task[i].blocked

(* The same without that restriction.  The code does not keep it. *)
WaiterIsAlwaysTold ==
  \A i \in Slots :
    /\ pc[i] = "wait" /\ task[i].state = "interruptible"
    /\ \E j \in Meant(i, task[i].waitfor) : task[j].state = "zombie"
    => CHLD \in task[i].signal \cup task[i].blocked

(* A fork() has just given a task its time. *)
Forked == \E i \in Slots : pc[i] = "forked"

(* schedule() (sched.c:124-140) starves nobody, however often others sleep *)
(* and come back with more time: a runnable task gets its turn, unless     *)
(* forks go on for ever.  Each child gets a full Priority, which no other  *)
(* task has to give up, and then no recharge may come.                     *)
RunnableRuns ==
  \A i \in Slots : Exists(task, i) /\ task[i].state = "running" ~> current = i \/ Forked

(* A task that SIGKILL was sent to ends, whether it sleeps in pause() or   *)
(* waitpid(), is runnable or is about to sleep (exit.c:35, sched.c:111);   *)
(* while others fork it may have to wait for its turn, as above.           *)
KillIsFinal ==
  \A i \in Slots : Exists(task, i) /\ KILL \in task[i].signal ~>
                     task[i].state = "zombie" \/ pc[i] \in {"exit", "closed"} \/ Forked
=============================================================================
