---------------------------- MODULE ProcessProofs ----------------------------
(***************************************************************************)
(* Processes, for any number of slots, pids, priorities and forks: nobody  *)
(* becomes an orphan without a father, and no waiting father misses the    *)
(* death of a child.                                                       *)
(*                                                                         *)
(* Most calls keep pids, fathers and who is a zombie (Kept): one lemma     *)
(* serves them all, and schedule() too.  What is left is fork(), the two   *)
(* halves of do_exit() and the two outcomes of sys_waitpid().              *)
(***************************************************************************)
EXTENDS Process, FiniteSetTheorems, WellFoundedInduction, TLAPS

(* A finite set has an element of the greatest value. *)
LEMMA GreatestValue ==
  ASSUME NEW S, IsFiniteSet(S), S # {}, NEW v \in [S -> Int]
  PROVE  \E x \in S : \A y \in S : v[y] =< v[x]
<1> DEFINE above(x) == {y \in S : v[y] > v[x]}
           F == {above(x) : x \in S}
           R == StrictSubsetOrdering(S)
<1>1. F \subseteq FiniteSubsetsOf(S)
  <2>1. \A x \in S : IsFiniteSet(above(x)) /\ above(x) \subseteq S
    BY FS_Subset
  <2> QED BY <2>1 DEF FiniteSubsetsOf
<1>2. F # {}
  <2>1. \A x \in S : above(x) \in F
    OBVIOUS
  <2> HIDE DEF F
  <2> QED BY <2>1
<1>3. IsWellFoundedOn(R, FiniteSubsetsOf(S))
  BY FS_StrictSubsetOrderingWellFounded
<1> HIDE DEF R
<1>4. PICK U \in F : \A V \in F : ~(<<V, U>> \in R)
  BY <1>1, <1>2, <1>3, WFMin
<1>5. PICK x \in S : U = above(x)
  BY <1>4
<1>6. ASSUME NEW y \in S, ~(v[y] =< v[x])
      PROVE  FALSE
  <2>1. above(y) \in F /\ above(y) \subseteq above(x) /\ y \in above(x) /\ y \notin above(y)
    BY <1>6
  <2>2. <<above(y), above(x)>> \in R
    BY <2>1 DEF R, StrictSubsetOrdering
  <2> QED BY <1>4, <1>5, <2>1, <2>2
<1> QED BY <1>6

LEMMA SlotsFinite == IsFiniteSet(Slots) /\ Init1 \in Slots /\ Slots \subseteq Nat /\ Idle0 \notin Slots
BY Constants, FS_Interval DEF Slots, Init1, Idle0
-----------------------------------------------------------------------------
States == {"running", "interruptible", "uninterruptible", "zombie"}
Places == {"user", "ret", "forked", "signals", "wait", "again", "exit", "closed"}
Exiting == {"exit", "closed"}

TaskRec ==
  [pid : Nat, father : Nat, state : States, counter : Int, signal : SUBSET Signals,
   blocked : SUBSET Signals, ign : SUBSET Signals, handled : SUBSET Signals, alarm : Nat,
   pgrp : Nat, session : Nat, leader : BOOLEAN, waitfor : Int]

(* The process tree of table T when the tasks are at places p. *)
Distinct(T) == \A i, j \in Slots : T[i].pid # 0 /\ T[i].pid = T[j].pid => i = j
Empties(T) == \A i \in Slots : T[i].pid = 0 => T[i].state = "zombie"
Sessions(T) == \A i \in Slots \ {Init1} : T[i].pid # 0 => T[i].session # 0
Quiet(t) == t.signal \subseteq {CHLD} /\ t.alarm = 0 /\ t.pgrp = 0 /\ t.session = 0
InitLives(T, p) ==
  /\ T[Init1].pid = 1 /\ T[Init1].father = 0 /\ T[Init1].state # "zombie"
  /\ p[Init1] \notin Exiting /\ Quiet(T[Init1])
HaveFathers(T, p) ==
  \A i \in Slots \ {Init1} : T[i].pid # 0 =>
    \E j \in Slots : T[j].pid = T[i].father /\ T[j].state # "zombie" /\ p[j] \notin Exiting

Family(T, p) ==
  /\ T \in [Slots -> TaskRec] /\ p \in [Slots -> Places]
  /\ Distinct(T) /\ Empties(T) /\ Sessions(T) /\ InitLives(T, p) /\ HaveFathers(T, p)

(* WaiterIsTold of table T, when the tasks of m were moved. *)
Sleeps(T, p, m, i) ==
  /\ p[i] = "wait" /\ T[i].state = "interruptible"
  /\ T[i].waitfor > 0 \/ T[i].waitfor = -1 \/ i \notin m
Wants(arg, t, c) ==
  /\ arg > 0 => c.pid = arg
  /\ arg = 0 => c.pgrp = t.pgrp
  /\ arg < -1 => c.pgrp = -arg
DeadChild(T, i, j) ==
  /\ j # i /\ T[j].pid # 0 /\ T[j].father = T[i].pid /\ T[j].state = "zombie"
  /\ Wants(T[i].waitfor, T[i], T[j])
Told(T, p, m) ==
  \A i, j \in Slots : Sleeps(T, p, m, i) /\ DeadChild(T, i, j) => CHLD \in T[i].signal \cup T[i].blocked

(* u is t after a step that is nobody's birth, death or adoption. *)
Kept(t, u) ==
  /\ u \in TaskRec
  /\ u.pid = t.pid /\ u.father = t.father
  /\ u.state = "zombie" <=> t.state = "zombie"
  /\ u.session # 0 \/ u.session = t.session
  /\ t.state = "zombie" => u.pgrp = t.pgrp

Slept(t, u) ==
  /\ t.state = "interruptible" /\ u.waitfor = t.waitfor /\ u.pgrp = t.pgrp
  /\ t.signal \subseteq u.signal /\ t.blocked \subseteq u.blocked

LEMMA KeptKeeps ==
  ASSUME NEW T, NEW p, NEW m, Family(T, p), Told(T, p, m),
         NEW U \in [Slots -> TaskRec], NEW q \in [Slots -> Places],
         \A i \in Slots : Kept(T[i], U[i]),
         Quiet(U[Init1]),
         \A i \in Slots : q[i] \in Exiting => p[i] \in Exiting,
         \A i \in Slots : q[i] = "wait" /\ U[i].state = "interruptible"
                          => p[i] = "wait" /\ Slept(T[i], U[i])
  PROVE  Family(U, q) /\ Told(U, q, m)
<1>1. T \in [Slots -> TaskRec] /\ p \in [Slots -> Places] /\ Init1 \in Slots
  BY SlotsFinite DEF Family
<1>2. Distinct(U) /\ Empties(U)
  BY DEF Kept, Family, Distinct, Empties
<1>3. Sessions(U)
  BY DEF Kept, Family, Sessions
<1>4. InitLives(U, q)
  BY <1>1 DEF Kept, Family, InitLives
<1>5. HaveFathers(U, q)
  <2> SUFFICES ASSUME NEW i \in Slots \ {Init1}, U[i].pid # 0
               PROVE  \E j \in Slots : U[j].pid = U[i].father /\ U[j].state # "zombie" /\ q[j] \notin Exiting
    BY DEF HaveFathers
  <2>1. T[i].pid # 0 /\ T[i].father = U[i].father
    BY DEF Kept
  <2>2. PICK j \in Slots : T[j].pid = T[i].father /\ T[j].state # "zombie" /\ p[j] \notin Exiting
    BY <2>1 DEF Family, HaveFathers
  <2> QED BY <2>1, <2>2 DEF Kept
<1>6. Told(U, q, m)
  <2> SUFFICES ASSUME NEW i \in Slots, NEW j \in Slots, Sleeps(U, q, m, i), DeadChild(U, i, j)
               PROVE  CHLD \in U[i].signal \cup U[i].blocked
    BY DEF Told
  <2>1. p[i] = "wait" /\ Slept(T[i], U[i])
    BY DEF Sleeps
  <2>2. Sleeps(T, p, m, i)
    BY <2>1 DEF Sleeps, Slept
  <2>3. DeadChild(T, i, j)
    BY <2>1 DEF DeadChild, Wants, Kept, Slept
  <2> QED BY <2>1, <2>2, <2>3 DEF Told, Slept
<1> QED BY <1>2, <1>3, <1>4, <1>5, <1>6 DEF Family
-----------------------------------------------------------------------------
(* What schedule() does to a task: signals, time, waking. *)
Later(t, u) ==
  /\ Kept(t, u)
  /\ u.state = "interruptible" => Slept(t, u)
  /\ Quiet(t) => Quiet(u)

LEMMA AwakenedLater ==
  ASSUME NEW t \in TaskRec
  PROVE  Later(t, Awakened(t))
<1> DEFINE s == IF t.alarm = 1 THEN t.signal \cup {ALRM} ELSE t.signal
           a == IF t.alarm = 1 THEN 0 ELSE t.alarm
           st == IF t.state = "interruptible" /\ s \ (t.blocked \ {KILL}) # {} THEN "running" ELSE t.state
<1>1. Awakened(t) = [t EXCEPT !.signal = s, !.alarm = a, !.state = st]
  BY DEF Awakened, TaskRec
<1>2. /\ s \in SUBSET Signals /\ t.signal \subseteq s /\ (t.alarm = 0 => s = t.signal)
      /\ a \in Nat /\ (t.alarm = 0 => a = 0)
      /\ st \in States /\ (st = "zombie" <=> t.state = "zombie")
      /\ (st = "interruptible" => t.state = "interruptible")
  BY DEF TaskRec, Signals, States
<1> HIDE DEF s, a, st
<1> DEFINE u == [t EXCEPT !.signal = s, !.alarm = a, !.state = st]
<1>3. u \in TaskRec
  BY <1>2 DEF TaskRec
<1>4. /\ u.pid = t.pid /\ u.father = t.father /\ u.session = t.session /\ u.leader = t.leader
      /\ u.pgrp = t.pgrp /\ u.waitfor = t.waitfor /\ u.blocked = t.blocked
      /\ u.signal = s /\ u.alarm = a /\ u.state = st
  BY DEF TaskRec
<1> HIDE DEF u
<1> QED BY <1>1, <1>2, <1>3, <1>4 DEF Later, Kept, Slept, Quiet, u

LEMMA RechargedLater ==
  ASSUME NEW t \in TaskRec, NEW c \in Int
  PROVE  Later(t, [t EXCEPT !.counter = c]) /\ [t EXCEPT !.counter = c].state = t.state
<1> DEFINE u == [t EXCEPT !.counter = c]
<1>1. u \in TaskRec
  BY DEF TaskRec
<1>2. /\ u.pid = t.pid /\ u.father = t.father /\ u.session = t.session /\ u.leader = t.leader
      /\ u.pgrp = t.pgrp /\ u.waitfor = t.waitfor /\ u.blocked = t.blocked
      /\ u.signal = t.signal /\ u.alarm = t.alarm /\ u.state = t.state
  BY DEF TaskRec
<1> HIDE DEF u
<1>3. Later(t, u) /\ u.state = t.state
  BY <1>1, <1>2 DEF Later, Kept, Slept, Quiet
<1> QED BY <1>3 DEF u

LEMMA LaterTwice ==
  ASSUME NEW t, NEW u, NEW w, Later(t, u), Later(u, w)
  PROVE  Later(t, w)
BY DEF Later, Kept, Slept

LEMMA LaterSame ==
  ASSUME NEW t \in TaskRec
  PROVE  Later(t, t)
BY DEF Later, Kept, Slept

LEMMA ScheduleIs ==
  ASSUME NEW T \in [Slots -> TaskRec],
         NEW W, W = Woken(T), NEW r, r = Runnable(W), NEW R, R = Charged(W, r)
  PROVE  /\ R \in [Slots -> TaskRec]
         /\ \A i \in Slots : Later(T[i], R[i])
         /\ \/ Highest(R, r) = Idle0
            \/ /\ Highest(R, r) \in Slots
               /\ R[Highest(R, r)].pid # 0
               /\ R[Highest(R, r)].state = "running"
<1> DEFINE first == {i \in r : \A j \in r : R[j].counter =< R[i].counter}
           next == IF r = {} THEN Idle0 ELSE CHOOSE i \in first : \A j \in first : j =< i
<1>1. Highest(R, r) = next
  BY DEF Highest
<1>0. /\ \A i \in Slots : W[i] = IF Exists(T, i) THEN Awakened(T[i]) ELSE T[i]
      /\ r \subseteq Slots /\ \A i \in r : W[i].pid # 0 /\ W[i].state = "running"
  BY DEF Woken, Runnable, Exists
<1>2. \A i \in Slots : W[i] \in TaskRec /\ Later(T[i], W[i])
  <2> TAKE i \in Slots
  <2>1. T[i] \in TaskRec
    OBVIOUS
  <2>2. Later(T[i], Awakened(T[i])) /\ Later(T[i], T[i])
    BY <2>1, AwakenedLater, LaterSame
  <2>3. Later(T[i], W[i])
    BY <1>0, <2>2
  <2> QED BY <2>3 DEF Later, Kept
<1>3. W = [i \in Slots |-> W[i]]
  BY DEF Woken
<1>4. \A i \in Slots : /\ R[i] \in TaskRec /\ Later(W[i], R[i]) /\ R[i].state = W[i].state
                       /\ R = [k \in Slots |-> R[k]]
  <2> TAKE i \in Slots
  <2>1. W[i] \in TaskRec
    BY <1>2
  <2>2. W[i].counter \div 2 + Priority \in Int
    BY <2>1, Constants DEF TaskRec
  <2>3. /\ Later(W[i], [W[i] EXCEPT !.counter = @ \div 2 + Priority])
        /\ [W[i] EXCEPT !.counter = @ \div 2 + Priority].state = W[i].state
        /\ Later(W[i], W[i])
    BY <2>1, <2>2, RechargedLater, LaterSame
  <2>4. Later(W[i], R[i]) /\ R[i].state = W[i].state
    BY <2>3 DEF Charged, Recharged
  <2>5. R = [k \in Slots |-> R[k]]
    BY <1>3 DEF Charged, Recharged
  <2> QED BY <2>4, <2>5 DEF Later, Kept
<1>5. Slots # {}
  BY SlotsFinite
<1>6. R \in [Slots -> TaskRec] /\ \A i \in Slots : Later(T[i], R[i])
  BY <1>2, <1>4, <1>5, LaterTwice
<1>7. ASSUME r # {}
      PROVE  next \in r
  <2>1. r \subseteq Slots /\ IsFiniteSet(r)
    BY <1>0, SlotsFinite, FS_Subset
  <2>2. [i \in r |-> R[i].counter] \in [r -> Int]
    BY <1>4, <2>1 DEF TaskRec
  <2>3. PICK x \in r : \A y \in r : [i \in r |-> R[i].counter][y] =< [i \in r |-> R[i].counter][x]
    BY <1>7, <2>1, <2>2, GreatestValue
  <2>4. x \in first /\ first \subseteq r /\ first \subseteq Slots
    BY <2>1, <2>3
  <2> HIDE DEF first
  <2>5. IsFiniteSet(first) /\ first # {} /\ [i \in first |-> i] \in [first -> Int]
    <3>1. IsFiniteSet(first)
      BY <2>4, SlotsFinite, FS_Subset
    <3>2. \A i \in first : i \in Int
      BY <2>4, SlotsFinite
    <3> QED BY <2>4, <3>1, <3>2
  <2>6. PICK y \in first : \A z \in first : [i \in first |-> i][z] =< [i \in first |-> i][y]
    BY <2>5, GreatestValue
  <2>7. \E i \in first : \A j \in first : j =< i
    BY <2>6
  <2>8. next \in first
    BY <1>7, <2>7
  <2> QED BY <2>4, <2>8
<1>8. next = Idle0 \/ (next \in Slots /\ R[next].pid # 0 /\ R[next].state = "running")
  <2>1. CASE r = {}
    BY <2>1
  <2>2. CASE r # {}
    <3>1. next \in r
      BY <1>7, <2>2
    <3> HIDE DEF next
    <3>2. next \in Slots /\ W[next].pid # 0 /\ W[next].state = "running"
      BY <1>0, <3>1
    <3> QED BY <1>4, <3>2 DEF Later, Kept
  <2> QED BY <2>1, <2>2
<1> HIDE DEF next
<1> QED BY <1>1, <1>6, <1>8
-----------------------------------------------------------------------------
LEMMA LaterKeeps ==
  ASSUME NEW T, NEW p, NEW m, Family(T, p), Told(T, p, m),
         NEW U \in [Slots -> TaskRec], NEW q \in [Slots -> Places],
         \A i \in Slots : Later(T[i], U[i]),
         \A i \in Slots : q[i] \in Exiting \cup {"wait"} => q[i] = p[i]
  PROVE  Family(U, q) /\ Told(U, q, m)
<1>1. \A i \in Slots : Kept(T[i], U[i])
  BY DEF Later
<1>2. Quiet(U[Init1])
  BY SlotsFinite DEF Later, Family, InitLives
<1>3. \A i \in Slots : q[i] \in Exiting => p[i] \in Exiting
  OBVIOUS
<1>4. \A i \in Slots : q[i] = "wait" /\ U[i].state = "interruptible"
                       => p[i] = "wait" /\ Slept(T[i], U[i])
  BY DEF Later
<1> QED BY <1>1, <1>2, <1>3, <1>4, KeptKeeps

LEMMA OneChanged ==
  ASSUME NEW T, NEW p, NEW m, Family(T, p), Told(T, p, m),
         NEW i \in Slots, NEW u, NEW w \in Places,
         Kept(T[i], u), i = Init1 => Quiet(u),
         w # "wait", w \in Exiting => p[i] \in Exiting
  PROVE  /\ Family([T EXCEPT ![i] = u], [p EXCEPT ![i] = w])
         /\ Told([T EXCEPT ![i] = u], [p EXCEPT ![i] = w], m)
<1> DEFINE U == [T EXCEPT ![i] = u]
           q == [p EXCEPT ![i] = w]
<1>1. T \in [Slots -> TaskRec] /\ p \in [Slots -> Places] /\ u \in TaskRec
  BY DEF Family, Kept
<1>2. U \in [Slots -> TaskRec] /\ q \in [Slots -> Places]
  BY <1>1
<1>3. /\ U[i] = u /\ q[i] = w
      /\ \A k \in Slots : k # i => U[k] = T[k] /\ q[k] = p[k]
  BY <1>1
<1> HIDE DEF U, q
<1>4. \A k \in Slots : Later(T[k], T[k])
  BY <1>1, LaterSame
<1>5. \A k \in Slots : Kept(T[k], U[k])
  BY <1>3, <1>4 DEF Later
<1>6. Quiet(U[Init1])
  BY <1>3, SlotsFinite DEF Family, InitLives
<1>7. \A k \in Slots : q[k] \in Exiting => p[k] \in Exiting
  BY <1>3
<1>8. \A k \in Slots : q[k] = "wait" /\ U[k].state = "interruptible"
                       => p[k] = "wait" /\ Slept(T[k], U[k])
  BY <1>3, <1>4 DEF Later
<1>9. Family(U, q) /\ Told(U, q, m)
  BY <1>2, <1>5, <1>6, <1>7, <1>8, KeptKeeps
<1> QED BY <1>9 DEF U, q

(* The running task runs. *)
Running(T, c) == c \in Slots \cup {Idle0} /\ (c # Idle0 => T[c].pid # 0 /\ T[c].state = "running")

ProcInv ==
  Family(task, pc) /\ Told(task, pc, moved) /\ Running(task, current) /\ last_pid \in Nat

LEMMA ScheduleKeeps ==
  ASSUME NEW T, Family(T, pc'), Told(T, pc', moved'), Schedule(T)
  PROVE  Family(task', pc') /\ Told(task', pc', moved') /\ Running(task', current')
<1>1. T \in [Slots -> TaskRec] /\ pc' \in [Slots -> Places]
  BY DEF Family
<1>2. PICK W \in {Woken(T)} : \E r \in {Runnable(W)} : \E R \in {Charged(W, r)} :
        task' = R /\ current' = Highest(R, r)
  BY DEF Schedule
<1>4. PICK r \in {Runnable(W)} : \E R \in {Charged(W, r)} : task' = R /\ current' = Highest(R, r)
  BY <1>2
<1>5. PICK R \in {Charged(W, r)} : task' = R /\ current' = Highest(R, r)
  BY <1>4
<1>6. W = Woken(T) /\ r = Runnable(W) /\ R = Charged(W, r)
  OBVIOUS
<1>3. /\ task' \in [Slots -> TaskRec] /\ \A i \in Slots : Later(T[i], task'[i])
      /\ Running(task', current')
  <2>1. /\ R \in [Slots -> TaskRec] /\ \A i \in Slots : Later(T[i], R[i])
        /\ \/ Highest(R, r) = Idle0
           \/ /\ Highest(R, r) \in Slots /\ R[Highest(R, r)].pid # 0
              /\ R[Highest(R, r)].state = "running"
    BY <1>1, <1>6, ScheduleIs
  <2> QED BY <1>5, <2>1 DEF Running
<1> QED BY <1>1, <1>3, LaterKeeps
-----------------------------------------------------------------------------
(* u is t with more signals. *)
Signalled(t, u) ==
  /\ u \in TaskRec /\ t.signal \subseteq u.signal
  /\ u.pid = t.pid /\ u.father = t.father /\ u.state = t.state /\ u.waitfor = t.waitfor
  /\ u.blocked = t.blocked /\ u.leader = t.leader /\ u.session = t.session
  /\ u.pgrp = t.pgrp /\ u.alarm = t.alarm

LEMMA SendSigIs ==
  ASSUME NEW T \in [Slots -> TaskRec], NEW to, NEW sig \in Signals
  PROVE  /\ send_sig(T, to, sig) \in [Slots -> TaskRec]
         /\ \A k \in Slots :
              /\ Signalled(T[k], send_sig(T, to, sig)[k])
              /\ k \in to => send_sig(T, to, sig)[k].signal = T[k].signal \cup {sig}
              /\ k \notin to => send_sig(T, to, sig)[k] = T[k]
<1> DEFINE U == send_sig(T, to, sig)
<1>1. \A k \in Slots : U[k] = IF k \in to THEN [T[k] EXCEPT !.signal = T[k].signal \cup {sig}] ELSE T[k]
  BY DEF send_sig
<1>2. U = [k \in Slots |-> U[k]]
  BY DEF send_sig
<1> HIDE DEF U
<1>3. ASSUME NEW k \in Slots
      PROVE  /\ Signalled(T[k], U[k])
             /\ k \in to => U[k].signal = T[k].signal \cup {sig}
             /\ k \notin to => U[k] = T[k]
  <2>1. T[k] \in TaskRec
    OBVIOUS
  <2>2. T[k].signal \cup {sig} \in SUBSET Signals
    BY <2>1 DEF TaskRec
  <2>3. CASE k \in to
    <3> DEFINE t == T[k]
               s == T[k].signal \cup {sig}
    <3> HIDE DEF t, s
    <3>1. t \in TaskRec /\ s \in SUBSET Signals /\ t.signal \subseteq s
      BY <2>1, <2>2 DEF t, s
    <3>2. Signalled(t, [t EXCEPT !.signal = s]) /\ [t EXCEPT !.signal = s].signal = s
      BY <3>1 DEF TaskRec, Signalled
    <3> QED BY <1>1, <2>3, <3>2 DEF t, s
  <2>4. CASE k \notin to
    BY <1>1, <2>1, <2>4 DEF Signalled
  <2> QED BY <2>3, <2>4
<1>4. U \in [Slots -> TaskRec]
  BY <1>2, <1>3 DEF Signalled
<1> QED BY <1>3, <1>4 DEF U
-----------------------------------------------------------------------------
(* A finite set of numbers has a greatest and a least one. *)
LEMMA Extremes ==
  ASSUME NEW S, S \subseteq Int, IsFiniteSet(S), S # {}
  PROVE  /\ \E x \in S : \A y \in S : y =< x
         /\ \E x \in S : \A y \in S : x =< y
<1>1. [x \in S |-> x] \in [S -> Int] /\ [x \in S |-> 0 - x] \in [S -> Int]
  OBVIOUS
<1>2. PICK x \in S : \A y \in S : [z \in S |-> z][y] =< [z \in S |-> z][x]
  BY <1>1, GreatestValue
<1>3. PICK m \in S : \A y \in S : [z \in S |-> 0 - z][y] =< [z \in S |-> 0 - z][m]
  BY <1>1, GreatestValue
<1>4. \A y \in S : y =< x
  BY <1>2
<1>5. \A y \in S : m =< y
  BY <1>3
<1> QED BY <1>4, <1>5

LEMMA ModOf ==
  ASSUME NEW m \in Nat \ {0}, NEW k \in Int, NEW r \in 0 .. m - 1
  PROVE  (m * k + r) % m = r
OBVIOUS

(* The pids tried from any start run through all of them. *)
LEMMA EveryPidTried ==
  ASSUME NEW last \in Nat, NEW v \in 1 .. MaxPid
  PROVE  \E n \in 1 .. MaxPid : ((last + n - 1) % MaxPid) + 1 = v
<1> DEFINE k == last % MaxPid
           d == last \div MaxPid
<1>1. MaxPid \in Nat \ {0}
  BY Constants
<1>2. k \in 0 .. MaxPid - 1 /\ d \in Int /\ last = MaxPid * d + k
  BY <1>1
<1> HIDE DEF k, d
<1>3. CASE v - 1 >= k
  <2>1. v - k \in 1 .. MaxPid /\ last + (v - k) - 1 = MaxPid * d + (v - 1)
    BY <1>1, <1>2, <1>3
  <2>2. (MaxPid * d + (v - 1)) % MaxPid = v - 1
    BY <1>1, <1>2, ModOf
  <2> QED BY <2>1, <2>2
<1>4. CASE v - 1 < k
  <2>1. (v - k) + MaxPid \in 1 .. MaxPid
    BY <1>1, <1>2, <1>4
  <2>2. MaxPid * (d + 1) = MaxPid * d + MaxPid
    BY <1>1, <1>2
  <2>3. last + ((v - k) + MaxPid) - 1 = MaxPid * (d + 1) + (v - 1)
    BY <1>1, <1>2, <2>2
  <2>4. (MaxPid * (d + 1) + (v - 1)) % MaxPid = v - 1
    BY <1>1, <1>2, ModOf
  <2> QED BY <2>1, <2>3, <2>4
<1> QED BY <1>1, <1>2, <1>3, <1>4

(* There are more pids than tasks, so find_empty_process() ends. *)
LEMMA FreshPid ==
  ASSUME NEW T \in [Slots -> TaskRec], NEW last \in Nat
  PROVE  /\ find_empty_process(T, last) \in 1 .. MaxPid
         /\ \A i \in Slots : T[i].pid # find_empty_process(T, last)
<1> DEFINE nth(n) == ((last + n - 1) % MaxPid) + 1
           free == {n \in 1 .. MaxPid : \A i \in Slots : T[i].pid # nth(n)}
           used == {T[i].pid : i \in Slots}
<1>1. /\ MaxPid \in Nat \ {0} /\ NR_TASKS \in Nat /\ NR_TASKS > 2 /\ MaxPid >= NR_TASKS
  BY Constants
<1>2. free # {}
  <2> SUFFICES ASSUME free = {}
               PROVE  FALSE
    OBVIOUS
  <2>1. 1 .. MaxPid \subseteq used
    <3> SUFFICES ASSUME NEW v \in 1 .. MaxPid
                 PROVE  v \in used
      OBVIOUS
    <3>1. PICK n \in 1 .. MaxPid : nth(n) = v
      BY EveryPidTried
    <3>2. PICK i \in Slots : T[i].pid = nth(n)
      OBVIOUS
    <3> QED BY <3>1, <3>2
  <2>2. IsFiniteSet(Slots) /\ Cardinality(Slots) = NR_TASKS - 1
    BY <1>1, FS_Interval DEF Slots
  <2>3. IsFiniteSet(1 .. MaxPid) /\ Cardinality(1 .. MaxPid) = MaxPid
    BY <1>1, FS_Interval
  <2>4. IsFiniteSet(used) /\ Cardinality(used) <= Cardinality(Slots)
    <3> DEFINE f == [i \in Slots |-> T[i].pid]
    <3>1. f \in Surjection(Slots, used)
      BY DEF Surjection
    <3> QED BY <2>2, <3>1, FS_Surjection
  <2>5. Cardinality(1 .. MaxPid) <= Cardinality(used)
    BY <2>1, <2>4, FS_Subset
  <2>6. Cardinality(used) \in Nat
    BY <2>4, FS_CardinalityType
  <2> HIDE DEF used
  <2> QED BY <1>1, <2>2, <2>3, <2>4, <2>5, <2>6
<1>3. IsFiniteSet(free) /\ free \subseteq Int
  <2>1. free \subseteq 1 .. MaxPid /\ 1 .. MaxPid \subseteq Int /\ IsFiniteSet(1 .. MaxPid)
    BY <1>1, FS_Interval
  <2> HIDE DEF free
  <2> QED BY <2>1, FS_Subset
<1> DEFINE n == CHOOSE m \in free : \A k \in free : m =< k
<1>4. n \in free
  <2> HIDE DEF free
  <2> QED BY <1>2, <1>3, Extremes
<1>5. find_empty_process(T, last) = nth(n)
  BY DEF find_empty_process
<1> HIDE DEF n
<1>6. nth(n) \in 1 .. MaxPid
  BY <1>1, <1>4
<1> QED BY <1>4, <1>5, <1>6
-----------------------------------------------------------------------------
(* copy_process(): the new task's father is its maker, who runs. *)
LEMMA ForkKeeps ==
  ASSUME NEW T, NEW p, NEW m, Family(T, p), Told(T, p, m),
         NEW i \in Slots, T[i].pid # 0, T[i].state # "zombie",
         NEW nr \in Slots, T[nr].pid = 0,
         NEW pid \in Nat \ {0}, \A k \in Slots : T[k].pid # pid,
         NEW c, c = IF i = Init1 THEN Shell(copy_process(T[i], pid)) ELSE copy_process(T[i], pid)
  PROVE  /\ Family([T EXCEPT ![nr] = c], [p EXCEPT ![i] = "forked", ![nr] = "user"])
         /\ Told([T EXCEPT ![nr] = c], [p EXCEPT ![i] = "forked", ![nr] = "user"], m)
<1> DEFINE U == [T EXCEPT ![nr] = c]
           q == [p EXCEPT ![i] = "forked", ![nr] = "user"]
<1>1. T \in [Slots -> TaskRec] /\ p \in [Slots -> Places] /\ Init1 \in Slots
  BY SlotsFinite DEF Family
<1>2. /\ c \in TaskRec /\ c.pid = pid /\ c.father = T[i].pid /\ c.state = "running"
      /\ c.session # 0
  <2> DEFINE t == T[i]
  <2>1. t \in TaskRec /\ t.pid \in Nat
    BY <1>1 DEF TaskRec
  <2> HIDE DEF t
  <2>2. /\ copy_process(t, pid) \in TaskRec /\ copy_process(t, pid).pid = pid
        /\ copy_process(t, pid).father = t.pid /\ copy_process(t, pid).state = "running"
        /\ copy_process(t, pid).session = t.session
    <3>1. /\ {} \in SUBSET Signals /\ "running" \in States /\ FALSE \in BOOLEAN /\ 0 \in Nat
          /\ 0 \in Int /\ Priority \in Int /\ pid \in Nat
      BY Constants DEF States
    <3> DEFINE none == {}
               run == "running"
    <3>2. none \in SUBSET Signals /\ run \in States
      BY <3>1
    <3>3. copy_process(t, pid) =
            [t EXCEPT !.pid = pid, !.father = t.pid, !.state = run, !.counter = Priority,
                      !.signal = none, !.alarm = 0, !.leader = FALSE, !.waitfor = 0]
      BY DEF copy_process
    <3> HIDE DEF none, run
    <3>4. copy_process(t, pid) \in TaskRec
      BY ZenonT(30), <2>1, <3>1, <3>2, <3>3 DEF TaskRec
    <3>5. /\ copy_process(t, pid).pid = pid
          /\ copy_process(t, pid).father = t.pid /\ copy_process(t, pid).state = run
          /\ copy_process(t, pid).session = t.session
      BY <2>1, <3>3 DEF TaskRec
    <3> QED BY <3>4, <3>5 DEF run
  <2>3. /\ Shell(copy_process(t, pid)) \in TaskRec /\ Shell(copy_process(t, pid)).pid = pid
        /\ Shell(copy_process(t, pid)).father = t.pid /\ Shell(copy_process(t, pid)).state = "running"
        /\ Shell(copy_process(t, pid)).session = pid
    <3> DEFINE k == copy_process(t, pid)
    <3> HIDE DEF k
    <3>1. k \in TaskRec /\ k.pid = pid /\ k.father = t.pid /\ k.state = "running" /\ TRUE \in BOOLEAN
      BY <2>2 DEF k
    <3>2. Shell(k) = [k EXCEPT !.leader = TRUE, !.session = pid, !.pgrp = pid]
      BY <3>1 DEF Shell
    <3>3. Shell(k) \in TaskRec
      BY <3>1, <3>2 DEF TaskRec
    <3>4. Shell(k).pid = k.pid /\ Shell(k).father = k.father /\ Shell(k).state = k.state /\ Shell(k).session = pid
      BY <3>1, <3>2 DEF TaskRec
    <3> QED BY <3>1, <3>3, <3>4 DEF k
  <2>4. i # Init1 => t.session # 0
    BY DEF t, Family, Sessions
  <2> QED BY <2>2, <2>3, <2>4 DEF t
<1>3. U \in [Slots -> TaskRec] /\ q \in [Slots -> Places]
  BY <1>1, <1>2 DEF Places
<1>4. /\ U[nr] = c /\ q[nr] = "user" /\ q[i] = "forked" /\ i # nr /\ nr # Init1
      /\ \A k \in Slots : k # nr => U[k] = T[k]
      /\ \A k \in Slots : k # nr /\ k # i => q[k] = p[k]
  BY <1>1 DEF Family, InitLives
<1> HIDE DEF U, q
<1>5. Distinct(U) /\ Empties(U) /\ Sessions(U)
  BY <1>2, <1>4 DEF Family, Distinct, Empties, Sessions
<1>6. InitLives(U, q)
  BY <1>1, <1>4 DEF Family, InitLives, Exiting
<1>7. HaveFathers(U, q)
  <2> SUFFICES ASSUME NEW k \in Slots \ {Init1}, U[k].pid # 0
               PROVE  \E j \in Slots : U[j].pid = U[k].father /\ U[j].state # "zombie" /\ q[j] \notin Exiting
    BY DEF HaveFathers
  <2>1. CASE k = nr
    BY <1>2, <1>4, <2>1 DEF Exiting
  <2>2. CASE k # nr
    <3>1. PICK j \in Slots : T[j].pid = T[k].father /\ T[j].state # "zombie" /\ p[j] \notin Exiting
      BY <1>4, <2>2 DEF Family, HaveFathers
    <3>2. j # nr
      BY <3>1 DEF Family, Empties
    <3> QED BY <1>4, <2>2, <3>1, <3>2 DEF Exiting
  <2> QED BY <2>1, <2>2
<1>8. Told(U, q, m)
  <2> SUFFICES ASSUME NEW k \in Slots, NEW j \in Slots, Sleeps(U, q, m, k), DeadChild(U, k, j)
               PROVE  CHLD \in U[k].signal \cup U[k].blocked
    BY DEF Told
  <2>1. k # nr /\ k # i /\ j # nr
    BY <1>2, <1>4 DEF Sleeps, DeadChild, Wants
  <2>2. Sleeps(T, p, m, k) /\ DeadChild(T, k, j)
    BY <1>4, <2>1 DEF Sleeps, DeadChild, Wants
  <2> QED BY <1>4, <2>1, <2>2 DEF Told
<1>9. Family(U, q) /\ Told(U, q, m)
  BY <1>3, <1>5, <1>6, <1>7, <1>8 DEF Family
<1> QED BY <1>9 DEF U, q

(* do_exit(), first half: init is a father to whom it leaves its children, *)
(* and hears of the dead ones among them.                                  *)
LEMMA OrphanedKeeps ==
  ASSUME NEW T, NEW p, NEW m, Family(T, p), Told(T, p, m),
         NEW i \in Slots, i # Init1, T[i].pid # 0
  PROVE  /\ Family(Orphaned(T, i), [p EXCEPT ![i] = "exit"])
         /\ Told(Orphaned(T, i), [p EXCEPT ![i] = "exit"], m)
         /\ Orphaned(T, i)[i].pid = T[i].pid /\ Orphaned(T, i)[i].state = T[i].state
<1> DEFINE children == {j \in Slots : Exists(T, j) /\ T[j].father = T[i].pid}
           A == [j \in Slots |-> IF j \in children THEN [T[j] EXCEPT !.father = 1] ELSE T[j]]
           dead == \E j \in children : T[j].state = "zombie"
           U == IF dead THEN send_sig(A, {Init1}, CHLD) ELSE A
           q == [p EXCEPT ![i] = "exit"]
<1>1. T \in [Slots -> TaskRec] /\ p \in [Slots -> Places] /\ Init1 \in Slots
  BY SlotsFinite DEF Family
<1>2. Orphaned(T, i) = U
  BY DEF Orphaned
<1>3. \A j \in Slots : j \in children <=> T[j].pid # 0 /\ T[j].father = T[i].pid
  BY DEF Exists
<1>4. Init1 \notin children
  BY <1>1, <1>3 DEF Family, InitLives
<1>5. /\ A \in [Slots -> TaskRec]
      /\ \A j \in Slots : j \notin children => A[j] = T[j]
      /\ \A j \in Slots : j \in children => A[j].father = 1
      /\ \A j \in Slots :
           /\ A[j].pid = T[j].pid /\ A[j].state = T[j].state /\ A[j].signal = T[j].signal
           /\ A[j].blocked = T[j].blocked /\ A[j].waitfor = T[j].waitfor
           /\ A[j].pgrp = T[j].pgrp /\ A[j].session = T[j].session
  <2> HIDE DEF children
  <2> QED BY <1>1 DEF TaskRec
<1> HIDE DEF children, A
<1>6. CHLD \in Signals
  BY DEF Signals
<1>7. /\ U \in [Slots -> TaskRec]
      /\ \A j \in Slots :
           /\ U[j].pid = T[j].pid /\ U[j].state = T[j].state /\ T[j].signal \subseteq U[j].signal
           /\ U[j].blocked = T[j].blocked /\ U[j].waitfor = T[j].waitfor
           /\ U[j].pgrp = T[j].pgrp /\ U[j].session = T[j].session
           /\ U[j].father = IF j \in children THEN 1 ELSE T[j].father
  BY <1>5, <1>6, SendSigIs DEF Signalled
<1>8. Quiet(U[Init1]) /\ (dead => CHLD \in U[Init1].signal)
  <2>1. A[Init1] = T[Init1] /\ Quiet(T[Init1])
    BY <1>1, <1>4, <1>5 DEF Family, InitLives
  <2>2. CASE dead
    <3>1. /\ Signalled(A[Init1], U[Init1])
          /\ U[Init1].signal = A[Init1].signal \cup {CHLD}
      BY <1>1, <1>5, <1>6, <2>2, SendSigIs
    <3> QED BY <2>1, <3>1 DEF Quiet, Signalled
  <2>3. CASE ~dead
    BY <2>1, <2>3
  <2> QED BY <2>2, <2>3
<1>9. /\ q \in [Slots -> Places] /\ q[i] = "exit" /\ \A k \in Slots : k # i => q[k] = p[k]
  BY <1>1 DEF Places
<1>10. dead <=> \E j \in children : T[j].state = "zombie"
  OBVIOUS
<1> HIDE DEF U, q, dead
<1>11. Distinct(U) /\ Empties(U) /\ Sessions(U)
  BY <1>7 DEF Family, Distinct, Empties, Sessions
<1>12. InitLives(U, q)
  BY <1>1, <1>4, <1>7, <1>8, <1>9 DEF Family, InitLives
<1>13. HaveFathers(U, q)
  <2> SUFFICES ASSUME NEW k \in Slots \ {Init1}, U[k].pid # 0
               PROVE  \E j \in Slots : U[j].pid = U[k].father /\ U[j].state # "zombie" /\ q[j] \notin Exiting
    BY DEF HaveFathers
  <2>1. CASE k \in children
    BY <1>1, <1>7, <1>12, <2>1 DEF InitLives
  <2>2. CASE k \notin children
    <3>1. PICK j \in Slots : T[j].pid = T[k].father /\ T[j].state # "zombie" /\ p[j] \notin Exiting
      BY <1>7 DEF Family, HaveFathers
    <3>2. j # i
      BY <1>3, <1>7, <2>2, <3>1
    <3> QED BY <1>7, <1>9, <2>2, <3>1, <3>2
  <2> QED BY <2>1, <2>2
<1>14. Told(U, q, m)
  <2> SUFFICES ASSUME NEW k \in Slots, NEW j \in Slots, Sleeps(U, q, m, k), DeadChild(U, k, j)
               PROVE  CHLD \in U[k].signal \cup U[k].blocked
    BY DEF Told
  <2>1. k # i
    BY <1>9 DEF Sleeps
  <2>2. CASE j \in children
    <3>1. U[k].pid = 1 /\ dead
      BY <1>7, <1>10, <2>2 DEF DeadChild
    <3>2. k = Init1
      BY <1>1, <1>11, <1>12, <3>1 DEF Distinct, InitLives
    <3> QED BY <1>8, <3>1, <3>2
  <2>3. CASE j \notin children
    <3>1. Sleeps(T, p, m, k) /\ DeadChild(T, k, j)
      BY <1>7, <1>9, <2>1, <2>3 DEF Sleeps, DeadChild, Wants
    <3> QED BY <1>7, <3>1 DEF Told
  <2> QED BY <2>2, <2>3
<1>15. Family(U, q) /\ Told(U, q, m) /\ U[i].pid = T[i].pid /\ U[i].state = T[i].state
  BY <1>7, <1>9, <1>11, <1>12, <1>13, <1>14 DEF Family
<1> QED BY <1>2, <1>15 DEF q
(* do_exit(), second half: the task has no children left, and its father   *)
(* lives and hears of its death.                                           *)
LEMMA ExitEndKeeps ==
  ASSUME NEW T, NEW p, NEW m, Family(T, p), Told(T, p, m),
         NEW i \in Slots, T[i].pid # 0, p[i] \in Exiting,
         NEW K, K = IF T[i].leader THEN kill_session(T, i) ELSE T
  PROVE  /\ Family(tell_father([K EXCEPT ![i].state = "zombie"], i), [p EXCEPT ![i] = "user"])
         /\ Told(tell_father([K EXCEPT ![i].state = "zombie"], i), [p EXCEPT ![i] = "user"], m)
<1> DEFINE Z == [K EXCEPT ![i].state = "zombie"]
           U == tell_father(Z, i)
           q == [p EXCEPT ![i] = "user"]
<1>1. T \in [Slots -> TaskRec] /\ p \in [Slots -> Places] /\ Init1 \in Slots /\ i # Init1
  BY SlotsFinite DEF Family, InitLives
<1>2. HUP \in Signals /\ CHLD \in Signals
  BY DEF Signals
<1>3. K \in [Slots -> TaskRec] /\ (\A k \in Slots : Signalled(T[k], K[k])) /\ K[Init1] = T[Init1]
  <2>1. CASE T[i].leader
    <3> DEFINE to == {j \in Slots : Exists(T, j) /\ T[j].session = T[i].session}
    <3>1. Init1 \notin to
      BY <1>1 DEF Family, InitLives, Quiet, Sessions
    <3>2. K = send_sig(T, to, HUP)
      BY <2>1 DEF kill_session
    <3> HIDE DEF to
    <3> QED BY <1>1, <1>2, <3>1, <3>2, SendSigIs
  <2>2. CASE ~T[i].leader
    BY <1>1, <2>2 DEF Signalled
  <2> QED BY <2>1, <2>2
<1>4. /\ Z \in [Slots -> TaskRec] /\ Z[i].state = "zombie"
      /\ Z[i].pid = K[i].pid /\ Z[i].father = K[i].father
      /\ Z[i].pgrp = K[i].pgrp /\ Z[i].session = K[i].session
      /\ \A k \in Slots : k # i => Z[k] = K[k]
  BY <1>3 DEF TaskRec, States
<1> HIDE DEF Z
<1>5. PICK f \in Slots : T[f].pid = T[i].father /\ T[f].state # "zombie" /\ p[f] \notin Exiting
  BY <1>1 DEF Family, HaveFathers
<1>6. T[i].father # 0 /\ f # i
  BY <1>5 DEF Family, Empties
<1> DEFINE to == Fathers(Z, Z[i].father)
<1>7. to # {} /\ \A k \in Slots : T[k].pid = T[i].father => k \in to
  <2>1. Z[f].pid = T[f].pid /\ Z[i].father = T[i].father
    BY <1>3, <1>4, <1>6 DEF Signalled
  <2>2. \A k \in Slots : Z[k].pid = T[k].pid
    BY <1>3, <1>4 DEF Signalled
  <2> QED BY <1>5, <1>6, <2>1, <2>2 DEF Fathers
<1>8. U = send_sig(Z, to, CHLD)
  BY <1>7 DEF tell_father
<1> HIDE DEF to, U
<1>9. /\ U \in [Slots -> TaskRec] /\ \A k \in Slots : Signalled(Z[k], U[k])
      /\ \A k \in Slots : U[k].signal \subseteq Z[k].signal \cup {CHLD}
      /\ \A k \in to : k \in Slots => CHLD \in U[k].signal
  BY <1>2, <1>4, <1>8, SendSigIs
<1>10. /\ q \in [Slots -> Places] /\ q[i] = "user" /\ \A k \in Slots : k # i => q[k] = p[k]
  BY <1>1 DEF Places
<1> HIDE DEF q
<1>11. /\ U[i].state = "zombie" /\ \A k \in Slots : k # i => U[k].state = T[k].state
       /\ \A k \in Slots : k # i => /\ T[k].signal \subseteq U[k].signal
                                    /\ T[k].blocked = U[k].blocked /\ U[k].waitfor = T[k].waitfor
       /\ \A k \in Slots : /\ U[k].pid = T[k].pid /\ U[k].father = T[k].father
                           /\ U[k].pgrp = T[k].pgrp /\ U[k].session = T[k].session
  BY <1>3, <1>4, <1>9 DEF Signalled
<1>12. Distinct(U) /\ Empties(U) /\ Sessions(U)
  BY <1>11 DEF Family, Distinct, Empties, Sessions
<1>13. InitLives(U, q)
  <2>1. Quiet(U[Init1])
    <3>1. Z[Init1] = T[Init1] /\ Quiet(T[Init1])
      BY <1>1, <1>3, <1>4 DEF Family, InitLives
    <3> QED BY <1>1, <1>9, <3>1 DEF Signalled, Quiet
  <2> QED BY <1>1, <1>10, <1>11, <2>1 DEF Family, InitLives
<1>14. HaveFathers(U, q)
  <2> SUFFICES ASSUME NEW k \in Slots \ {Init1}, U[k].pid # 0
               PROVE  \E j \in Slots : U[j].pid = U[k].father /\ U[j].state # "zombie" /\ q[j] \notin Exiting
    BY DEF HaveFathers
  <2>1. PICK j \in Slots : T[j].pid = T[k].father /\ T[j].state # "zombie" /\ p[j] \notin Exiting
    BY <1>11 DEF Family, HaveFathers
  <2>2. j # i
    BY <2>1
  <2> QED BY <1>10, <1>11, <2>1, <2>2
<1>15. Told(U, q, m)
  <2> SUFFICES ASSUME NEW k \in Slots, NEW j \in Slots, Sleeps(U, q, m, k), DeadChild(U, k, j)
               PROVE  CHLD \in U[k].signal \cup U[k].blocked
    BY DEF Told
  <2>1. k # i
    BY <1>10 DEF Sleeps
  <2>2. CASE j = i
    <3>1. k \in to
      BY <1>7, <1>11, <2>2 DEF DeadChild
    <3> QED BY <1>9, <3>1
  <2>3. CASE j # i
    <3>1. Sleeps(T, p, m, k) /\ DeadChild(T, k, j)
      BY <1>10, <1>11, <2>1, <2>3 DEF Sleeps, DeadChild, Wants
    <3> QED BY <1>11, <2>1, <3>1 DEF Told
  <2> QED BY <2>2, <2>3
<1>16. Family(U, q) /\ Told(U, q, m)
  BY <1>9, <1>10, <1>12, <1>13, <1>14, <1>15 DEF Family
<1> QED BY <1>16 DEF U, q, Z
-----------------------------------------------------------------------------
(* sys_waitpid() releases a zombie: nobody's father. *)
LEMMA ReleaseKeeps ==
  ASSUME NEW T, NEW p, NEW m, Family(T, p), Told(T, p, m),
         NEW i \in Slots, T[i].state # "zombie",
         NEW j \in Slots, T[j].state = "zombie"
  PROVE  /\ Family([T EXCEPT ![j] = NULL, ![i].waitfor = 0], [p EXCEPT ![i] = "ret"])
         /\ Told([T EXCEPT ![j] = NULL, ![i].waitfor = 0], [p EXCEPT ![i] = "ret"], m)
<1> DEFINE U == [T EXCEPT ![j] = NULL, ![i].waitfor = 0]
           q == [p EXCEPT ![i] = "ret"]
<1>1. T \in [Slots -> TaskRec] /\ p \in [Slots -> Places] /\ Init1 \in Slots /\ i # j
  BY SlotsFinite DEF Family
<1>2. NULL \in TaskRec /\ NULL.pid = 0 /\ NULL.state = "zombie"
  BY DEF NULL, TaskRec, States
<1>3. [T[i] EXCEPT !.waitfor = 0] \in TaskRec
  BY <1>1 DEF TaskRec
<1>4. U = [[T EXCEPT ![j] = NULL] EXCEPT ![i] = [T[i] EXCEPT !.waitfor = 0]]
  BY <1>1
<1>5. U \in [Slots -> TaskRec] /\ q \in [Slots -> Places]
  BY <1>1, <1>2, <1>3, <1>4 DEF Places
<1>6. /\ U[j] = NULL /\ q[i] = "ret"
      /\ \A k \in Slots : k # i => q[k] = p[k]
      /\ \A k \in Slots : k # i /\ k # j => U[k] = T[k]
      /\ U[i] = [T[i] EXCEPT !.waitfor = 0]
  BY <1>1
<1>7. /\ U[i].pid = T[i].pid /\ U[i].father = T[i].father /\ U[i].state = T[i].state
      /\ U[i].leader = T[i].leader /\ U[i].session = T[i].session /\ (Quiet(T[i]) => Quiet(U[i]))
  BY <1>1, <1>6 DEF TaskRec, Quiet
<1> HIDE DEF U, q
<1>8. Distinct(U) /\ Empties(U) /\ Sessions(U)
  <2>1. \A k \in Slots : \/ U[k].pid = 0 /\ U[k].state = "zombie"
                         \/ /\ U[k].pid = T[k].pid /\ U[k].state = T[k].state
                            /\ U[k].session = T[k].session
    BY <1>2, <1>6, <1>7
  <2> QED BY <2>1 DEF Family, Distinct, Empties, Sessions
<1>9. InitLives(U, q)
  BY <1>1, <1>6, <1>7 DEF Family, InitLives, Exiting
<1>10. HaveFathers(U, q)
  <2> SUFFICES ASSUME NEW k \in Slots \ {Init1}, U[k].pid # 0
               PROVE  \E f \in Slots : U[f].pid = U[k].father /\ U[f].state # "zombie" /\ q[f] \notin Exiting
    BY DEF HaveFathers
  <2>1. T[k].pid # 0 /\ T[k].father = U[k].father
    BY <1>2, <1>6, <1>7
  <2>2. PICK f \in Slots : T[f].pid = T[k].father /\ T[f].state # "zombie" /\ p[f] \notin Exiting
    BY <2>1 DEF Family, HaveFathers
  <2> QED BY ZenonT(30), <1>6, <1>7, <2>1, <2>2 DEF Exiting
<1>11. Told(U, q, m)
  <2> SUFFICES ASSUME NEW k \in Slots, NEW c \in Slots, Sleeps(U, q, m, k), DeadChild(U, k, c)
               PROVE  CHLD \in U[k].signal \cup U[k].blocked
    BY DEF Told
  <2>1. k # i /\ c # j /\ k # j
    BY <1>2, <1>6 DEF Sleeps, DeadChild, Wants
  <2>2. Sleeps(T, p, m, k) /\ DeadChild(T, k, c)
    BY <1>6, <1>7, <2>1 DEF Sleeps, DeadChild, Wants
  <2> QED BY <1>6, <2>1, <2>2 DEF Told
<1>12. Family(U, q) /\ Told(U, q, m)
  BY <1>5, <1>8, <1>9, <1>10, <1>11 DEF Family
<1> QED BY <1>12 DEF U, q

(* sys_waitpid() sleeps, having seen that no child it means is dead. *)
LEMMA SleepKeeps ==
  ASSUME NEW T, NEW p, NEW m, Family(T, p), Told(T, p, m),
         NEW i \in Slots, T[i].state # "zombie", p[i] \notin Exiting, NEW arg \in Int,
         \A j \in Slots \ {i} : T[j].pid # 0 /\ T[j].father = T[i].pid /\ T[j].state = "zombie"
                                => ~Wants(arg, T[i], T[j])
  PROVE  /\ Family([T EXCEPT ![i].state = "interruptible", ![i].waitfor = arg], [p EXCEPT ![i] = "wait"])
         /\ Told([T EXCEPT ![i].state = "interruptible", ![i].waitfor = arg], [p EXCEPT ![i] = "wait"], m)
<1> DEFINE u == [T[i] EXCEPT !.state = "interruptible", !.waitfor = arg]
           U == [T EXCEPT ![i].state = "interruptible", ![i].waitfor = arg]
           q == [p EXCEPT ![i] = "wait"]
<1>1. T \in [Slots -> TaskRec] /\ p \in [Slots -> Places] /\ Init1 \in Slots
  BY SlotsFinite DEF Family
<1>2. /\ u \in TaskRec /\ u.pid = T[i].pid /\ u.father = T[i].father /\ u.state = "interruptible"
      /\ u.leader = T[i].leader /\ u.session = T[i].session /\ (Quiet(T[i]) => Quiet(u))
      /\ u.waitfor = arg /\ u.pgrp = T[i].pgrp
  BY <1>1 DEF TaskRec, Quiet, States
<1>3. U = [T EXCEPT ![i] = u]
  BY <1>1
<1> HIDE DEF u
<1>4. /\ U \in [Slots -> TaskRec] /\ q \in [Slots -> Places] /\ U[i] = u /\ q[i] = "wait"
      /\ \A k \in Slots : k # i => q[k] = p[k] /\ U[k] = T[k]
  BY <1>1, <1>2, <1>3 DEF Places
<1> HIDE DEF U, q
<1>5. Distinct(U) /\ Empties(U) /\ Sessions(U)
  <2>1. T[i].pid # 0
    BY DEF Family, Empties
  <2> QED BY <1>2, <1>4, <2>1 DEF Family, Distinct, Empties, Sessions
<1>6. InitLives(U, q)
  BY <1>1, <1>2, <1>4 DEF Family, InitLives, Exiting
<1>7. HaveFathers(U, q)
  <2> SUFFICES ASSUME NEW k \in Slots \ {Init1}, U[k].pid # 0
               PROVE  \E f \in Slots : U[f].pid = U[k].father /\ U[f].state # "zombie" /\ q[f] \notin Exiting
    BY DEF HaveFathers
  <2>1. T[k].pid # 0 /\ T[k].father = U[k].father
    BY <1>2, <1>4
  <2>2. PICK f \in Slots : T[f].pid = T[k].father /\ T[f].state # "zombie" /\ p[f] \notin Exiting
    BY <2>1 DEF Family, HaveFathers
  <2> QED BY <1>2, <1>4, <2>1, <2>2 DEF Exiting
<1>8. Told(U, q, m)
  <2> SUFFICES ASSUME NEW k \in Slots, NEW j \in Slots, Sleeps(U, q, m, k), DeadChild(U, k, j)
               PROVE  CHLD \in U[k].signal \cup U[k].blocked
    BY DEF Told
  <2>1. j # i
    BY <1>2, <1>4 DEF DeadChild
  <2>2. CASE k = i
    BY <1>2, <1>4, <2>1, <2>2 DEF DeadChild, Wants
  <2>3. CASE k # i
    <3>1. Sleeps(T, p, m, k) /\ DeadChild(T, k, j)
      BY <1>4, <2>1, <2>3 DEF Sleeps, DeadChild, Wants
    <3> QED BY <1>4, <2>3, <3>1 DEF Told
  <2> QED BY <2>2, <2>3
<1>9. Family(U, q) /\ Told(U, q, m)
  BY <1>4, <1>5, <1>6, <1>7, <1>8 DEF Family
<1> QED BY <1>9 DEF U, q
-----------------------------------------------------------------------------
LEMMA ProcInit == Init => ProcInv
<1> SUFFICES ASSUME Init
             PROVE  ProcInv
  OBVIOUS
<1> DEFINE one == [NULL EXCEPT !.pid = 1, !.state = "running", !.counter = Priority]
<1>1. /\ NULL \in TaskRec /\ NULL.pid = 0 /\ NULL.state = "zombie"
      /\ one \in TaskRec /\ one.pid = 1 /\ one.father = 0 /\ one.state = "running"
      /\ one.leader = FALSE /\ Quiet(one)
  <2>1. NULL \in TaskRec /\ NULL.pid = 0 /\ NULL.state = "zombie"
    BY DEF NULL, TaskRec, States
  <2>2. NULL.father = 0 /\ NULL.leader = FALSE /\ Quiet(NULL)
    BY DEF NULL, Quiet
  <2> HIDE DEF NULL
  <2>3. "running" \in States /\ Priority \in Int
    BY Constants DEF States
  <2>4. one \in TaskRec
    BY <2>1, <2>3 DEF TaskRec
  <2>5. one.pid = 1 /\ one.state = "running" /\ one.father = NULL.father /\ one.leader = NULL.leader
    BY <2>1 DEF TaskRec
  <2>6. Quiet(one)
    BY <2>1, <2>2 DEF TaskRec, Quiet
  <2> QED BY <2>1, <2>2, <2>4, <2>5, <2>6
<1>2. /\ task \in [Slots -> TaskRec] /\ pc \in [Slots -> Places] /\ Init1 \in Slots
      /\ task[Init1] = one /\ \A k \in Slots : pc[k] = "user" /\ (k # Init1 => task[k] = NULL)
  BY <1>1, SlotsFinite DEF Init, Places
<1> HIDE DEF one
<1>3. Family(task, pc)
  BY <1>1, <1>2 DEF Family, Distinct, Empties, Sessions, InitLives, HaveFathers, Exiting
<1>4. Told(task, pc, moved)
  BY <1>2 DEF Told, Sleeps
<1> QED BY <1>1, <1>2, <1>3, <1>4 DEF ProcInv, Init, Running

(* sys_waitpid() from `repeat:'. *)
LEMMA WaitpidKeeps ==
  ASSUME ProcInv, NEW i \in Slots, current = i, pc[i] \notin Exiting, NEW arg \in Int, NEW nohang \in BOOLEAN,
         Waitpid(i, arg, nohang)
  PROVE  ProcInv'
<1> DEFINE meant == Meant(i, arg)
           dead == {j \in meant : task[j].state = "zombie"}
           j == CHOOSE k \in dead : \A n \in dead : n =< k
<1>1. /\ Family(task, pc) /\ Told(task, pc, moved) /\ task[i].pid # 0 /\ task[i].state = "running"
      /\ task[i] \in TaskRec /\ task \in [Slots -> TaskRec] /\ pc \in [Slots -> Places]
  BY SlotsFinite DEF ProcInv, Running, Family
<1>2. last_pid' = last_pid /\ last_pid \in Nat /\ moved' = moved
  BY DEF Waitpid, ProcInv, bounds
<1>3. CASE /\ dead # {}
           /\ Schedule([task EXCEPT ![j] = NULL, ![i].waitfor = 0])
           /\ Goto(i, "ret")
  <2>1. dead \subseteq Slots
    BY DEF Meant
  <2>2. IsFiniteSet(dead) /\ dead \subseteq Int
    <3> HIDE DEF dead
    <3>1. IsFiniteSet(dead)
      BY <2>1, SlotsFinite, FS_Subset
    <3> QED BY <2>1, <3>1, SlotsFinite
  <2>3. j \in dead
    <3> HIDE DEF dead
    <3> QED BY <1>3, <2>2, Extremes
  <2>4. j \in Slots /\ task[j].state = "zombie"
    BY <2>1, <2>3
  <2> HIDE DEF j
  <2> DEFINE U == [task EXCEPT ![j] = NULL, ![i].waitfor = 0]
  <2>5. pc' = [pc EXCEPT ![i] = "ret"] /\ Schedule(U)
    BY <1>3 DEF Goto
  <2>6. Family(U, pc') /\ Told(U, pc', moved')
    BY <1>1, <1>2, <2>4, <2>5, ReleaseKeeps
  <2> HIDE DEF U
  <2> QED BY <1>2, <2>5, <2>6, ScheduleKeeps DEF ProcInv
<1>4. CASE /\ dead = {}
           /\ Schedule([task EXCEPT ![i].state = "interruptible", ![i].waitfor = arg])
           /\ Goto(i, "wait")
  <2> DEFINE U == [task EXCEPT ![i].state = "interruptible", ![i].waitfor = arg]
  <2>1. pc' = [pc EXCEPT ![i] = "wait"] /\ Schedule(U)
    BY <1>4 DEF Goto
  <2>2. \A k \in Slots \ {i} : task[k].pid # 0 /\ task[k].father = task[i].pid /\ task[k].state = "zombie"
                               => ~Wants(arg, task[i], task[k])
    BY <1>4 DEF Meant, Exists, Wants
  <2>3. Family(U, pc') /\ Told(U, pc', moved')
    BY <1>1, <1>2, <2>1, <2>2, SleepKeeps
  <2> HIDE DEF U
  <2> QED BY <1>2, <2>1, <2>3, ScheduleKeeps DEF ProcInv
<1>5. CASE Return(i, [task EXCEPT ![i].waitfor = 0])
  <2> DEFINE u == [task[i] EXCEPT !.waitfor = 0]
  <2>1. u \in TaskRec /\ Kept(task[i], u) /\ u.pid = task[i].pid /\ u.state = task[i].state
        /\ (Quiet(task[i]) => Quiet(u))
    BY <1>1 DEF Kept, TaskRec, Quiet
  <2>2. task' = [task EXCEPT ![i] = u] /\ pc' = [pc EXCEPT ![i] = "ret"] /\ current' = current
    BY <1>5 DEF Return, Goto
  <2> HIDE DEF u
  <2>3. i = Init1 => Quiet(u)
    BY <1>1, <2>1 DEF Family, InitLives
  <2>4. Family(task', pc') /\ Told(task', pc', moved')
    BY <1>1, <1>2, <2>1, <2>2, <2>3, OneChanged DEF Places, Exiting
  <2> QED BY <1>1, <1>2, <2>1, <2>2, <2>4 DEF ProcInv, Running
<1> QED BY <1>3, <1>4, <1>5 DEF Waitpid

(* Steps that change only the structure of the running task. *)
LEMMA OwnStep ==
  ASSUME ProcInv, NEW i \in Slots, current = i,
         NEW u, Kept(task[i], u), i = Init1 => Quiet(u),
         NEW w \in Places, w # "wait", w \in Exiting => pc[i] \in Exiting,
         pc' = [pc EXCEPT ![i] = w], last_pid' \in Nat, moved' \in {moved, moved \ {i}},
         \/ Schedule([task EXCEPT ![i] = u])
         \/ task' = [task EXCEPT ![i] = u] /\ current' = current /\ u.state = task[i].state
  PROVE  ProcInv'
<1>1. /\ Family(task, pc) /\ Told(task, pc, moved) /\ task[i].pid # 0 /\ task[i].state = "running"
      /\ task \in [Slots -> TaskRec]
  BY SlotsFinite DEF ProcInv, Running, Family
<1> DEFINE U == [task EXCEPT ![i] = u]
<1>2. Family(U, pc') /\ Told(U, pc', moved')
  <2>1. Family(U, pc') /\ Told(U, pc', moved)
    BY <1>1, OneChanged
  <2>2. \A k \in Slots : pc'[k] = "wait" => (k \in moved => k \in moved')
    BY <1>1 DEF Family
  <2> HIDE DEF U
  <2> QED BY <2>1, <2>2 DEF Told, Sleeps
<1>3. CASE Schedule(U)
  <2> HIDE DEF U
  <2> QED BY <1>2, <1>3, ScheduleKeeps DEF ProcInv
<1>4. CASE task' = U /\ current' = current /\ u.state = task[i].state
  BY <1>1, <1>2, <1>4 DEF ProcInv, Running, Kept
<1> QED BY <1>3, <1>4

(* Steps that end with a schedule() or return, and change many by little. *)
LEMMA KeptStep ==
  ASSUME ProcInv, NEW U \in [Slots -> TaskRec], Quiet(U[Init1]),
         \A k \in Slots : Kept(task[k], U[k]) /\ (U[k].state = "interruptible" => Slept(task[k], U[k])),
         pc' \in [Slots -> Places], last_pid' \in Nat, moved' = moved,
         \A k \in Slots : pc'[k] \in Exiting \cup {"wait"} => pc'[k] = pc[k],
         \/ Schedule(U)
         \/ /\ task' = U /\ current' = current
            /\ \A k \in Slots : U[k].state = task[k].state
  PROVE  ProcInv'
<1>1. Family(task, pc) /\ Told(task, pc, moved) /\ Running(task, current)
  BY DEF ProcInv
<1>2. Family(U, pc') /\ Told(U, pc', moved')
  BY <1>1, KeptKeeps
<1>3. CASE Schedule(U)
  BY <1>2, <1>3, ScheduleKeeps DEF ProcInv
<1>4. CASE task' = U /\ current' = current /\ \A k \in Slots : U[k].state = task[k].state
  <2>1. \A k \in Slots : U[k].pid = task[k].pid
    BY DEF Kept
  <2> QED BY <1>1, <1>2, <1>4, <2>1 DEF ProcInv, Running
<1> QED BY <1>3, <1>4
-----------------------------------------------------------------------------
(* sys_setpgid(): those who might miss a death now are in n. *)
LEMMA MovedKeeps ==
  ASSUME NEW T, NEW p, NEW m, Family(T, p), Told(T, p, m),
         NEW i \in Slots, p[i] = "user", NEW j \in Slots \ {Init1}, NEW g \in Nat,
         NEW n, n = m \cup {k \in Slots : p[k] = "wait" /\ T[k].pid \in {T[j].pid, T[j].father}}
  PROVE  /\ Family([T EXCEPT ![j] = [T[j] EXCEPT !.pgrp = g]], [p EXCEPT ![i] = "ret"])
         /\ Told([T EXCEPT ![j] = [T[j] EXCEPT !.pgrp = g]], [p EXCEPT ![i] = "ret"], n)
<1> DEFINE u == [T[j] EXCEPT !.pgrp = g]
           U == [T EXCEPT ![j] = u]
           q == [p EXCEPT ![i] = "ret"]
<1>1. T \in [Slots -> TaskRec] /\ p \in [Slots -> Places] /\ Init1 \in Slots
  BY SlotsFinite DEF Family
<1>2. /\ u \in TaskRec /\ u.pid = T[j].pid /\ u.father = T[j].father /\ u.state = T[j].state
      /\ u.session = T[j].session /\ u.waitfor = T[j].waitfor
      /\ u.signal = T[j].signal /\ u.blocked = T[j].blocked
  BY <1>1 DEF TaskRec
<1> HIDE DEF u
<1>3. /\ U \in [Slots -> TaskRec] /\ q \in [Slots -> Places] /\ q[i] = "ret"
      /\ \A k \in Slots : k # i => q[k] = p[k]
      /\ U[j] = u /\ \A k \in Slots : k # j => U[k] = T[k]
  BY <1>1, <1>2 DEF Places
<1> HIDE DEF U, q
<1>4. \A k \in Slots : /\ U[k].pid = T[k].pid /\ U[k].father = T[k].father /\ U[k].state = T[k].state
                       /\ U[k].session = T[k].session /\ U[k].waitfor = T[k].waitfor
                       /\ U[k].signal = T[k].signal /\ U[k].blocked = T[k].blocked
  BY <1>2, <1>3
<1>5. Distinct(U) /\ Empties(U) /\ Sessions(U)
  BY <1>4 DEF Family, Distinct, Empties, Sessions
<1>6. InitLives(U, q)
  BY <1>1, <1>3 DEF Family, InitLives, Exiting
<1>7. HaveFathers(U, q)
  <2> SUFFICES ASSUME NEW k \in Slots \ {Init1}, U[k].pid # 0
               PROVE  \E f \in Slots : U[f].pid = U[k].father /\ U[f].state # "zombie" /\ q[f] \notin Exiting
    BY DEF HaveFathers
  <2>1. PICK f \in Slots : T[f].pid = T[k].father /\ T[f].state # "zombie" /\ p[f] \notin Exiting
    BY <1>4 DEF Family, HaveFathers
  <2> QED BY <1>3, <1>4, <2>1 DEF Exiting
<1>8. Told(U, q, n)
  <2> SUFFICES ASSUME NEW k \in Slots, NEW c \in Slots, Sleeps(U, q, n, k), DeadChild(U, k, c)
               PROVE  CHLD \in U[k].signal \cup U[k].blocked
    BY DEF Told
  <2>1. p[k] = "wait" /\ Sleeps(T, p, m, k)
    BY <1>3, <1>4 DEF Sleeps
  <2>2. CASE T[k].waitfor > 0 \/ T[k].waitfor = -1
    <3>1. DeadChild(T, k, c)
      BY <1>1, <1>4, <2>2 DEF DeadChild, Wants, TaskRec
    <3> QED BY <1>4, <2>1, <3>1 DEF Told
  <2>3. CASE ~(T[k].waitfor > 0 \/ T[k].waitfor = -1)
    <3>1. T[k].pid \notin {T[j].pid, T[j].father}
      BY <1>4, <2>1, <2>3 DEF Sleeps
    <3>2. k # j /\ c # j
      BY <1>4, <3>1 DEF DeadChild
    <3>3. DeadChild(T, k, c)
      BY <1>3, <3>2 DEF DeadChild
    <3> QED BY <1>4, <2>1, <3>3 DEF Told
  <2> QED BY <2>2, <2>3
<1>9. Family(U, q) /\ Told(U, q, n)
  BY <1>3, <1>5, <1>6, <1>7, <1>8 DEF Family
<1> QED BY <1>9 DEF U, q, u
-----------------------------------------------------------------------------
LEMMA CallKeeps ==
  ASSUME ProcInv, NEW i \in Slots, Call(i)
  PROVE  ProcInv'
<1>1. /\ Family(task, pc) /\ Told(task, pc, moved) /\ last_pid \in Nat /\ Init1 \in Slots
      /\ task \in [Slots -> TaskRec] /\ pc \in [Slots -> Places] /\ task[i] \in TaskRec
  BY SlotsFinite DEF ProcInv, Running, Family
<1>2. current = i => task[i].pid # 0 /\ task[i].state = "running"
  BY SlotsFinite DEF ProcInv, Running
<1>3. "ret" \in Places /\ "ret" \notin Exiting /\ "ret" # "wait"
  BY DEF Places, Exiting
<1>4. CASE Fork(i)
  <2> DEFINE pid == find_empty_process(task, last_pid)
             c == IF i = Init1 THEN Shell(copy_process(task[i], pid)) ELSE copy_process(task[i], pid)
             empty == {j \in Slots : ~Exists(task, j)}
             nr == CHOOSE j \in empty : \A k \in empty : j =< k
  <2>1. pid \in 1 .. MaxPid /\ \A k \in Slots : task[k].pid # pid
    BY <1>1, FreshPid
  <2>2. current = i /\ last_pid' = pid /\ moved' = moved
    BY <1>4 DEF Fork, Calling, Runs
  <2>3. pid \in Nat \ {0}
    BY <2>1, Constants
  <2> HIDE DEF pid
  <2>4. CASE Return(i, task)
    <3>1. task' = [task EXCEPT ![i] = task[i]] /\ pc' = [pc EXCEPT ![i] = "ret"] /\ current' = current
      BY <1>1, <2>4 DEF Return, Goto
    <3>2. Kept(task[i], task[i]) /\ (i = Init1 => Quiet(task[i]))
      BY <1>1, LaterSame DEF Later, Family, InitLives
    <3> QED BY <1>3, <2>2, <2>3, <3>1, <3>2, OwnStep
  <2>5. CASE /\ empty # {}
             /\ task' = [task EXCEPT ![nr] = c]
             /\ pc' = [pc EXCEPT ![i] = "forked", ![nr] = "user"]
             /\ UNCHANGED current
    <3>1. empty \subseteq Slots
      OBVIOUS
    <3>2. IsFiniteSet(empty) /\ empty \subseteq Int
      <4> HIDE DEF empty
      <4>1. IsFiniteSet(empty)
        BY <3>1, SlotsFinite, FS_Subset
      <4> QED BY <3>1, <4>1, SlotsFinite
    <3>3. nr \in empty
      <4> HIDE DEF empty
      <4> QED BY <2>5, <3>2, Extremes
    <3>4. nr \in Slots /\ task[nr].pid = 0 /\ nr # i
      BY <1>2, <2>2, <3>3 DEF Exists
    <3> DEFINE new == c
    <3>7. new = IF i = Init1 THEN Shell(copy_process(task[i], pid)) ELSE copy_process(task[i], pid)
      OBVIOUS
    <3>8. task' = [task EXCEPT ![nr] = new]
      BY <2>5
    <3> HIDE DEF nr, new, c
    <3>5. Family(task', pc') /\ Told(task', pc', moved')
      <4>1. pc' = [pc EXCEPT ![i] = "forked", ![nr] = "user"]
        BY <2>5
      <4>2. task[i].pid # 0 /\ task[i].state # "zombie" /\ moved' = moved
        BY <1>2, <2>2
      <4>3. /\ Family([task EXCEPT ![nr] = new], [pc EXCEPT ![i] = "forked", ![nr] = "user"])
            /\ Told([task EXCEPT ![nr] = new], [pc EXCEPT ![i] = "forked", ![nr] = "user"], moved)
        BY <1>1, <2>1, <2>3, <3>4, <3>7, <4>2, ForkKeeps
      <4> QED BY <3>8, <4>1, <4>2, <4>3
    <3>6. task'[i] = task[i] /\ current' = i
      BY <1>1, <2>2, <2>5, <3>4, <3>8
    <3> QED BY <1>2, <2>2, <2>3, <3>5, <3>6 DEF ProcInv, Running
  <2> QED BY <1>4, <2>4, <2>5 DEF Fork, pid
<1>5. CASE Exit(i)
  <2>1. current = i /\ i # Init1 /\ current' = i /\ last_pid' = last_pid /\ moved' = moved
    BY <1>5 DEF Exit, Calling, Runs, bounds
  <2>2. task' = Orphaned(task, i) /\ pc' = [pc EXCEPT ![i] = "exit"]
    BY <1>5 DEF Exit, Goto
  <2> QED BY <1>1, <1>2, <2>1, <2>2, OrphanedKeeps DEF ProcInv, Running
<1>6. CASE sys_pause(i)
  <2> DEFINE u == [task[i] EXCEPT !.state = "interruptible"]
  <2>1. current = i /\ pc' = [pc EXCEPT ![i] = "ret"] /\ last_pid' = last_pid /\ moved' = moved /\ i # Init1
    BY <1>6 DEF sys_pause, Calling, Runs, Goto, bounds
  <2>2. Schedule([task EXCEPT ![i] = u])
    BY <1>6 DEF sys_pause
  <2>3. Kept(task[i], u)
    BY <1>1, <1>2, <2>1 DEF Kept, TaskRec, States
  <2> HIDE DEF u
  <2> QED BY <1>1, <1>3, <2>1, <2>2, <2>3, OwnStep
<1>7. ASSUME NEW t, NEW call, Own(i, call, t), Kept(task[i], t), t.state = task[i].state
      PROVE  ProcInv'
  <2>1. /\ current = i /\ i # Init1 /\ task' = [task EXCEPT ![i] = t] /\ current' = current
        /\ pc' = [pc EXCEPT ![i] = "ret"] /\ last_pid' = last_pid /\ moved' = moved
    BY <1>7 DEF Own, Calling, Runs, Return, Goto, bounds
  <2> QED BY <1>1, <1>3, <1>7, <2>1, OwnStep
<1>8. CASE sys_setsid(i)
  <2> DEFINE t == [task[i] EXCEPT !.leader = TRUE, !.session = task[i].pid, !.pgrp = task[i].pid]
  <2>1. Own(i, "setsid", t) /\ current = i
    BY <1>8 DEF sys_setsid, Own, Calling, Runs
  <2>2. Kept(task[i], t) /\ t.state = task[i].state
    BY <1>1, <1>2, <2>1 DEF Kept, TaskRec
  <2> HIDE DEF t
  <2> QED BY <1>7, <2>1, <2>2
<1>9. ASSUME NEW arg \in WaitFor, NEW nohang \in BOOLEAN, sys_waitpid(i, arg, nohang)
      PROVE  ProcInv'
  <2>1. current = i /\ pc[i] \notin Exiting /\ arg \in Int /\ Waitpid(i, arg, nohang)
    BY <1>9, Constants DEF sys_waitpid, Calling, Runs, Exiting
  <2> QED BY <2>1, WaitpidKeeps
<1>10. ASSUME NEW pid \in -1 .. MaxPid, sys_kill(i, pid, KILL)
       PROVE  ProcInv'
  <2> DEFINE to == Killed(i, pid)
             U == send_sig(task, to, KILL)
  <2>1. /\ current = i /\ task' = U /\ current' = current /\ last_pid' = last_pid /\ moved' = moved
        /\ pc' = [pc EXCEPT ![i] = "ret"]
    BY <1>10 DEF sys_kill, Calling, Runs, Return, Goto, bounds
  <2>2. Init1 \notin to
    BY <1>1, <1>2, <2>1, Constants DEF Killed, Family, InitLives, Quiet
  <2> HIDE DEF to
  <2>3. KILL \in Signals
    BY DEF Signals
  <2>4. /\ U \in [Slots -> TaskRec] /\ \A k \in Slots : Signalled(task[k], U[k])
        /\ U[Init1] = task[Init1]
    BY <1>1, <2>2, <2>3, SendSigIs
  <2> HIDE DEF U
  <2>5. \A k \in Slots : /\ Kept(task[k], U[k]) /\ U[k].state = task[k].state
                         /\ U[k].state = "interruptible" => Slept(task[k], U[k])
    BY <2>4 DEF Signalled, Kept, Slept
  <2>7. Quiet(U[Init1])
    BY <1>1, <2>4 DEF Family, InitLives
  <2>6. pc' \in [Slots -> Places] /\ \A k \in Slots : pc'[k] \in Exiting \cup {"wait"} => pc'[k] = pc[k]
    BY <1>1, <1>3, <2>1
  <2> QED BY <1>1, <2>1, <2>4, <2>5, <2>6, <2>7, KeptStep
<1>11. ASSUME NEW n \in {0, MaxAlarm + 1}, sys_alarm(i, n)
       PROVE  ProcInv'
  <2> DEFINE t == [task[i] EXCEPT !.alarm = n]
  <2>1. Own(i, "alarm", t) /\ n \in Nat
    BY <1>11, Constants DEF sys_alarm
  <2>2. Kept(task[i], t) /\ t.state = task[i].state
    BY <1>1, <2>1 DEF Kept, TaskRec
  <2> HIDE DEF t
  <2> QED BY <1>7, <2>1, <2>2
<1>12. ASSUME NEW mask \in {{}, {CHLD, KILL}}, sys_ssetmask(i, mask)
       PROVE  ProcInv'
  <2> DEFINE m == mask \ {KILL}
             t == [task[i] EXCEPT !.blocked = m]
  <2>1. Own(i, "ssetmask", t) /\ m \in SUBSET Signals
    BY <1>12 DEF sys_ssetmask, Signals
  <2> HIDE DEF m
  <2>2. Kept(task[i], t) /\ t.state = task[i].state
    BY <1>1, <2>1 DEF Kept, TaskRec
  <2> HIDE DEF t
  <2> QED BY <1>7, <2>1, <2>2
<1>13. ASSUME NEW sig \in Signals, NEW how, sys_signal(i, sig, how)
       PROVE  ProcInv'
  <2> DEFINE a == IF how = "ignore" THEN task[i].ign \cup {sig} ELSE task[i].ign \ {sig}
             b == IF how = "handler" THEN task[i].handled \cup {sig} ELSE task[i].handled \ {sig}
             t == [task[i] EXCEPT !.ign = a, !.handled = b]
  <2>1. Own(i, "signal", t)
    BY <1>1, <1>13 DEF sys_signal, TaskRec
  <2>2. a \in SUBSET Signals /\ b \in SUBSET Signals
    BY <1>1 DEF TaskRec
  <2> HIDE DEF a, b
  <2>3. Kept(task[i], t) /\ t.state = task[i].state
    BY <1>1, <2>2 DEF Kept, TaskRec
  <2> HIDE DEF t
  <2> QED BY <1>7, <2>1, <2>3
<1>14. ASSUME NEW j \in Slots, NEW pgid \in 1 .. MaxPid, sys_setpgid(i, j, pgid)
       PROVE  ProcInv'
  <2> DEFINE u == [task[j] EXCEPT !.pgrp = pgid]
             U == [task EXCEPT ![j] = u]
             n == moved \cup {k \in Slots : pc[k] = "wait" /\ task[k].pid \in {task[j].pid, task[j].father}}
  <2>1. /\ current = i /\ i # Init1 /\ current' = current /\ last_pid' = last_pid
        /\ pc' = [pc EXCEPT ![i] = "ret"] /\ pc[i] = "user" /\ moved' = n
        /\ task[j].pid # 0 /\ task[j].session = task[i].session
    BY <1>14 DEF sys_setpgid, Calling, Runs, Return, Goto, Exists
  <2>2. task' = U
    BY <1>1, <1>14 DEF sys_setpgid, Return
  <2>3. j # Init1
    BY <1>1, <1>2, <2>1 DEF Family, InitLives, Quiet, Sessions
  <2>4. pgid \in Nat
    BY Constants
  <2>5. Family(U, pc') /\ Told(U, pc', n)
    BY <1>1, <2>1, <2>3, <2>4, MovedKeeps
  <2>6. U[i].pid = task[i].pid /\ U[i].state = task[i].state
    BY <1>1 DEF TaskRec
  <2> HIDE DEF U, n
  <2> QED BY <1>1, <1>2, <2>1, <2>2, <2>5, <2>6 DEF ProcInv, Running
<1>15. ALRM \in Signals /\ HUP \in Signals
  BY DEF Signals
<1> QED BY <1>4, <1>5, <1>6, <1>8, <1>9, <1>10, <1>11, <1>12, <1>13, <1>14, <1>15 DEF Call

LEMMA KernelKeeps ==
  ASSUME ProcInv, NEW i \in Slots, Kernel(i)
  PROVE  ProcInv'
<1>1. /\ Family(task, pc) /\ Told(task, pc, moved) /\ last_pid \in Nat /\ Init1 \in Slots
      /\ task \in [Slots -> TaskRec] /\ pc \in [Slots -> Places] /\ task[i] \in TaskRec
  BY SlotsFinite DEF ProcInv, Running, Family
<1>2. current = i => task[i].pid # 0 /\ task[i].state = "running"
  BY SlotsFinite DEF ProcInv, Running
<1>3. i = Init1 => Quiet(task[i])
  BY <1>1 DEF Family, InitLives
<1>4. Kept(task[i], task[i])
  BY <1>1, LaterSame DEF Later
<1>5. {"user", "ret", "signals", "again", "exit", "closed"} \subseteq Places
  BY DEF Places
<1>6. CASE ExitSleep(i)
  <2> DEFINE u == [task[i] EXCEPT !.state = "uninterruptible"]
  <2>1. current = i /\ pc' = [pc EXCEPT ![i] = "closed"] /\ last_pid' = last_pid /\ moved' = moved /\ pc[i] \in Exiting
    BY <1>6 DEF ExitSleep, Runs, Goto, Exiting, bounds
  <2>2. Schedule([task EXCEPT ![i] = u])
    BY <1>6 DEF ExitSleep
  <2>3. Kept(task[i], u) /\ (Quiet(task[i]) => Quiet(u))
    BY <1>1, <1>2, <2>1 DEF Kept, TaskRec, States, Quiet
  <2> HIDE DEF u
  <2>4. i = Init1 => Quiet(u)
    BY <1>3, <2>3
  <2> QED BY <1>1, <1>5, <2>1, <2>2, <2>3, <2>4, OwnStep
<1>7. CASE ExitEnd(i)
  <2> DEFINE K == IF task[i].leader THEN kill_session(task, i) ELSE task
             U == tell_father([K EXCEPT ![i].state = "zombie"], i)
  <2>1. /\ current = i /\ pc' = [pc EXCEPT ![i] = "user"] /\ last_pid' = last_pid /\ moved' = moved
        /\ pc[i] \in Exiting /\ Schedule(U)
    BY <1>7 DEF ExitEnd, Runs, Goto, Exiting, bounds
  <2> HIDE DEF K
  <2>2. Family(U, pc') /\ Told(U, pc', moved')
    BY <1>1, <1>2, <2>1, ExitEndKeeps DEF K
  <2> HIDE DEF U
  <2> QED BY <1>1, <2>1, <2>2, ScheduleKeeps DEF ProcInv
<1>8. CASE AfterSleep(i)
  <2> DEFINE left == task[i].signal \ {CHLD}
             a == [task[i] EXCEPT !.signal = left, !.waitfor = 0]
             b == [task[i] EXCEPT !.signal = {}]
  <2>1. current = i /\ last_pid' = last_pid /\ moved' = moved \ {i} /\ current' = current
    BY <1>8 DEF AfterSleep, Runs, Return, bounds
  <2>2. left \in SUBSET Signals /\ left \subseteq task[i].signal
    BY <1>1 DEF TaskRec
  <2>3. \/ task' = [task EXCEPT ![i] = a] /\ pc' = [pc EXCEPT ![i] = "ret"]
        \/ task' = [task EXCEPT ![i] = b] /\ pc' = [pc EXCEPT ![i] = "again"]
    BY <1>1, <1>8 DEF AfterSleep, Return, Goto
  <2> HIDE DEF left
  <2>4. Kept(task[i], a) /\ a.state = task[i].state /\ (Quiet(task[i]) => Quiet(a))
    <3>1. a \in TaskRec
      <4> DEFINE t == task[i]
                 b1 == [t EXCEPT !.signal = left]
      <4>1. t \in TaskRec /\ left \in SUBSET Signals
        BY <1>1, <2>2
      <4>2. a = [b1 EXCEPT !.waitfor = 0]
        BY <4>1 DEF TaskRec
      <4> HIDE DEF t, a
      <4>3. b1 \in TaskRec
        BY <4>1 DEF TaskRec
      <4> HIDE DEF b1
      <4> QED BY <4>2, <4>3 DEF TaskRec
    <3>2. /\ a.pid = task[i].pid /\ a.father = task[i].father /\ a.state = task[i].state
          /\ a.leader = task[i].leader /\ a.session = task[i].session /\ a.signal = left
          /\ a.alarm = task[i].alarm /\ a.pgrp = task[i].pgrp
      BY <1>1 DEF TaskRec
    <3> HIDE DEF a
    <3> QED BY <2>2, <3>1, <3>2 DEF Kept, Quiet
  <2>5. Kept(task[i], b) /\ b.state = task[i].state /\ (Quiet(task[i]) => Quiet(b))
    BY <1>1, <2>2 DEF Kept, TaskRec, Quiet
  <2> HIDE DEF a, b
  <2>6. (i = Init1 => Quiet(a)) /\ (i = Init1 => Quiet(b))
    BY <1>3, <2>4, <2>5
  <2>7. "ret" \notin Exiting /\ "again" \notin Exiting
    BY DEF Exiting
  <2>8. CASE task' = [task EXCEPT ![i] = a] /\ pc' = [pc EXCEPT ![i] = "ret"]
    BY <1>1, <1>5, <2>1, <2>4, <2>6, <2>7, <2>8, OwnStep
  <2>9. CASE task' = [task EXCEPT ![i] = b] /\ pc' = [pc EXCEPT ![i] = "again"]
    BY <1>1, <1>5, <2>1, <2>5, <2>6, <2>7, <2>9, OwnStep
  <2> QED BY <2>3, <2>8, <2>9
<1>9. CASE Repeat(i)
  <2>1. current = i /\ pc[i] \notin Exiting /\ task[i].waitfor \in Int /\ Waitpid(i, task[i].waitfor, FALSE)
    BY <1>1, <1>9 DEF Repeat, Runs, Exiting, TaskRec
  <2> QED BY <2>1, WaitpidKeeps
<1>10. CASE Reschedule(i)
  <2>1. current = i /\ pc' = [pc EXCEPT ![i] = "signals"] /\ last_pid' = last_pid /\ moved' = moved
    BY <1>10 DEF Reschedule, Runs, Goto, bounds
  <2>2. Schedule([task EXCEPT ![i] = task[i]])
    <3>1. [task EXCEPT ![i] = task[i]] = task
      BY <1>1
    <3> QED BY <1>10, <3>1 DEF Reschedule
  <2>3. "signals" \notin Exiting
    BY DEF Exiting
  <2> QED BY <1>1, <1>3, <1>4, <1>5, <2>1, <2>2, <2>3, OwnStep
<1>11. CASE do_signal(i)
  <2> DEFINE open == task[i].signal \ task[i].blocked
             n == IF open = {} THEN 0 ELSE CHOOSE s \in open : \A r \in open : s =< r
             left == task[i].signal \ {n}
             t == [task[i] EXCEPT !.signal = left]
             T == [task EXCEPT ![i].signal = @ \ {n}]
  <2>1. /\ current = i /\ last_pid' = last_pid /\ moved' = moved /\ current' = current
        /\ pc[i] \in {"signals", "ret", "forked"}
    BY <1>11 DEF do_signal, Runs, bounds
  <2>2. open \subseteq Signals
    BY <1>1 DEF TaskRec
  <2>3. open # {} => n \in open
    <3>1. Signals \subseteq Int
      BY DEF Signals, HUP, KILL, ALRM, CHLD
    <3>2. IsFiniteSet(Signals)
      <4>1. IsFiniteSet({HUP}) /\ IsFiniteSet({KILL}) /\ IsFiniteSet({ALRM}) /\ IsFiniteSet({CHLD})
        BY FS_Singleton
      <4>2. Signals = ({HUP} \cup {KILL}) \cup ({ALRM} \cup {CHLD})
        BY DEF Signals
      <4>3. IsFiniteSet({HUP} \cup {KILL}) /\ IsFiniteSet({ALRM} \cup {CHLD})
        BY <4>1, FS_Union
      <4> QED BY <4>2, <4>3, FS_Union
    <3> HIDE DEF open
    <3>3. IsFiniteSet(open) /\ open \subseteq Int
      BY <2>2, <3>1, <3>2, FS_Subset
    <3> QED BY <3>3, Extremes
  <2>4. T = [task EXCEPT ![i] = t]
    BY <1>1
  <2>5. left \in SUBSET Signals /\ left \subseteq task[i].signal
    BY <1>1 DEF TaskRec
  <2>6. \/ task' = T /\ pc' = [pc EXCEPT ![i] = "user"]
        \/ task' = [T EXCEPT ![i].handled = @ \ {n}] /\ pc' = [pc EXCEPT ![i] = "user"]
        \/ n \notin {0, CHLD} /\ task' = Orphaned(T, i) /\ pc' = [pc EXCEPT ![i] = "exit"]
    BY <1>11 DEF do_signal, Goto
  <2>7. n \notin {0, CHLD} => i # Init1
    <3>1. n # 0 => n \in task[i].signal
      BY <2>3
    <3> HIDE DEF n
    <3> QED BY <1>3, <3>1 DEF Quiet
  <2> HIDE DEF n, open, left
  <2>8. Kept(task[i], t) /\ t.state = task[i].state /\ (Quiet(task[i]) => Quiet(t)) /\ t.pid = task[i].pid
        /\ t \in TaskRec
    BY <1>1, <2>5 DEF Kept, TaskRec, Quiet
  <2> HIDE DEF t, T
  <2>9. i = Init1 => Quiet(t)
    BY <1>3, <2>8
  <2>10. "user" \notin Exiting
    BY DEF Exiting
  <2>11. CASE task' = T /\ pc' = [pc EXCEPT ![i] = "user"]
    BY <1>1, <1>5, <2>1, <2>4, <2>8, <2>9, <2>10, <2>11, OwnStep
  <2>12. CASE task' = [T EXCEPT ![i].handled = @ \ {n}] /\ pc' = [pc EXCEPT ![i] = "user"]
    <3> DEFINE h == t.handled \ {n}
               u == [t EXCEPT !.handled = h]
    <3>1. task' = [task EXCEPT ![i] = u]
      BY <1>1, <2>4, <2>12
    <3>2. h \in SUBSET Signals
      BY <2>8 DEF TaskRec
    <3> HIDE DEF h
    <3>3. Kept(task[i], u) /\ u.state = t.state /\ (Quiet(t) => Quiet(u))
      BY <1>1, <2>8, <3>2 DEF Kept, TaskRec, Quiet
    <3> HIDE DEF u
    <3>4. i = Init1 => Quiet(u)
      BY <2>9, <3>3
    <3> QED BY <1>1, <1>5, <2>1, <2>8, <2>10, <2>12, <3>1, <3>3, <3>4, OwnStep
  <2>13. CASE n \notin {0, CHLD} /\ task' = Orphaned(T, i) /\ pc' = [pc EXCEPT ![i] = "exit"]
    <3>1. pc = [pc EXCEPT ![i] = pc[i]] /\ pc[i] \in Places
      BY <1>1
    <3> DEFINE w == pc[i]
    <3> HIDE DEF w
    <3>4. w \in Places /\ w # "wait" /\ (w \in Exiting => pc[i] \in Exiting)
      BY <2>1, <3>1 DEF w
    <3>5. Family([task EXCEPT ![i] = t], [pc EXCEPT ![i] = w]) /\ Told([task EXCEPT ![i] = t], [pc EXCEPT ![i] = w], moved)
      BY <1>1, <2>8, <2>9, <3>4, OneChanged
    <3>2. Family(T, pc) /\ Told(T, pc, moved)
      BY <2>4, <3>1, <3>5 DEF w
    <3>3. T[i].pid # 0 /\ T[i].state = "running"
      BY <1>1, <1>2, <2>1, <2>4, <2>8
    <3> QED BY <1>1, <2>1, <2>7, <2>13, <3>2, <3>3, OrphanedKeeps DEF ProcInv, Running
  <2> QED BY <2>6, <2>11, <2>12, <2>13
<1> QED BY <1>6, <1>7, <1>8, <1>9, <1>10, <1>11 DEF Kernel

LEMMA ClockKeeps ==
  ASSUME ProcInv, Idle \/ Tick \/ \E i \in Slots : Wake(i)
  PROVE  ProcInv'
<1>1. /\ Family(task, pc) /\ Told(task, pc, moved) /\ last_pid \in Nat /\ Init1 \in Slots
      /\ task \in [Slots -> TaskRec] /\ pc \in [Slots -> Places] /\ Running(task, current)
  BY SlotsFinite DEF ProcInv, Family
<1>2. ASSUME NEW U \in [Slots -> TaskRec], \A k \in Slots : Later(task[k], U[k])
      PROVE  /\ Quiet(U[Init1])
             /\ \A k \in Slots : Kept(task[k], U[k]) /\ (U[k].state = "interruptible" => Slept(task[k], U[k]))
  BY <1>1, <1>2 DEF Later, Family, InitLives
<1>3. CASE Idle
  <2>1. \A k \in Slots : Later(task[k], task[k])
    BY <1>1, LaterSame
  <2>2. pc' = pc /\ last_pid' = last_pid /\ moved' = moved /\ Schedule(task)
    BY <1>3 DEF Idle, bounds
  <2> QED BY <1>1, <1>2, <2>1, <2>2, KeptStep
<1>4. CASE Tick
  <2> DEFINE A == [i \in Slots |-> IF task[i].alarm > 1 THEN [task[i] EXCEPT !.alarm = @ - 1]
                                   ELSE task[i]]
             T == IF current = Idle0 \/ task[current].counter = 0 THEN A
                  ELSE [A EXCEPT ![current].counter = @ - 1]
  <2>1. last_pid' = last_pid /\ moved' = moved /\ (Schedule(T) \/ (task' = T /\ current' = current))
    BY <1>4 DEF Tick, bounds
  <2>2. pc' \in [Slots -> Places] /\ \A k \in Slots : pc'[k] \in Exiting \cup {"wait"} => pc'[k] = pc[k]
    <3>1. pc' = pc \/ pc' = [pc EXCEPT ![current] = "signals"]
      BY <1>4 DEF Tick, Goto
    <3> QED BY <1>1, <3>1 DEF Places, Exiting
  <2>3. \A k \in Slots : A[k] \in TaskRec /\ Later(task[k], A[k]) /\ A[k].state = task[k].state
    <3> TAKE k \in Slots
    <3>1. task[k] \in TaskRec
      BY <1>1
    <3>2. CASE task[k].alarm > 1
      <4> DEFINE n == task[k].alarm - 1
                 u == [task[k] EXCEPT !.alarm = n]
      <4>1. A[k] = u
        BY <3>2
      <4>2. n \in Nat /\ ~Quiet(task[k])
        BY <3>1, <3>2 DEF TaskRec, Quiet
      <4> HIDE DEF n
      <4>3. u \in TaskRec
        BY <3>1, <4>2 DEF TaskRec
      <4>4. /\ u.pid = task[k].pid /\ u.father = task[k].father /\ u.state = task[k].state
            /\ u.leader = task[k].leader /\ u.session = task[k].session
            /\ u.signal = task[k].signal /\ u.blocked = task[k].blocked /\ u.waitfor = task[k].waitfor
            /\ u.pgrp = task[k].pgrp
        BY <3>1 DEF TaskRec
      <4> HIDE DEF u
      <4>5. Later(task[k], u)
        BY <3>1, <4>2, <4>3, <4>4 DEF Later, Kept, Slept
      <4> HIDE DEF A
      <4> QED BY <4>1, <4>3, <4>4, <4>5
    <3>3. CASE ~(task[k].alarm > 1)
      <4>1. A[k] = task[k]
        BY <3>3
      <4> HIDE DEF A
      <4> QED BY <3>1, <4>1, LaterSame
    <3> QED BY <3>2, <3>3
  <2>4. A \in [Slots -> TaskRec]
    <3>1. A = [k \in Slots |-> A[k]]
      OBVIOUS
    <3> HIDE DEF A
    <3> QED BY <2>3, <3>1
  <2> HIDE DEF A
  <2>5. T \in [Slots -> TaskRec] /\ \A k \in Slots : Later(task[k], T[k]) /\ T[k].state = task[k].state
    <3>1. CASE current = Idle0 \/ task[current].counter = 0
      BY <2>3, <2>4, <3>1
    <3>2. CASE ~(current = Idle0 \/ task[current].counter = 0)
      <4> DEFINE c == A[current].counter - 1
                 u == [A[current] EXCEPT !.counter = c]
      <4>1. current \in Slots
        BY <1>1, <3>2 DEF Running
      <4>2. A[current] \in TaskRec /\ c \in Int
        BY <2>3, <4>1 DEF TaskRec
      <4>3. T = [A EXCEPT ![current] = u]
        BY <2>4, <3>2, <4>1
      <4> HIDE DEF c
      <4>4. Later(A[current], u) /\ u.state = A[current].state
        BY <4>2, RechargedLater
      <4>5. u \in TaskRec
        BY <4>4 DEF Later, Kept
      <4> HIDE DEF u, T
      <4>6. T \in [Slots -> TaskRec] /\ T[current] = u /\ \A k \in Slots : k # current => T[k] = A[k]
        BY <2>4, <4>1, <4>3, <4>5
      <4>7. Later(task[current], u)
        BY <2>3, <4>1, <4>4, LaterTwice
      <4> QED BY <2>3, <4>1, <4>4, <4>6, <4>7
    <3> QED BY <3>1, <3>2
  <2> HIDE DEF T
  <2> QED BY <1>1, <1>2, <2>1, <2>2, <2>5, KeptStep
<1>5. ASSUME NEW i \in Slots, Wake(i)
      PROVE  ProcInv'
  <2> DEFINE u == [task[i] EXCEPT !.state = "running"]
  <2>1. /\ task[i].state = "uninterruptible" /\ task' = [task EXCEPT ![i] = u]
        /\ pc' = pc /\ current' = current /\ last_pid' = last_pid /\ moved' = moved
    BY <1>5 DEF Wake, bounds
  <2>2. task[i] \in TaskRec
    BY <1>1
  <2>3. /\ Kept(task[i], u) /\ u.state = "running" /\ u.pid = task[i].pid
        /\ (Quiet(task[i]) => Quiet(u))
    BY <2>1, <2>2 DEF Kept, TaskRec, Quiet, States
  <2> HIDE DEF u
  <2>4. Later(task[i], u) /\ u \in TaskRec
    BY <2>3 DEF Later, Kept
  <2>5. /\ task' \in [Slots -> TaskRec] /\ task'[i] = u /\ \A k \in Slots : k # i => task'[k] = task[k]
    BY <1>1, <2>1, <2>4
  <2>6. \A k \in Slots : Later(task[k], task'[k])
    BY <1>1, <2>4, <2>5, LaterSame
  <2>7. Family(task', pc) /\ Told(task', pc, moved)
    BY <1>1, <2>5, <2>6, LaterKeeps
  <2>8. Running(task', current)
    BY <1>1, <2>1, <2>3, <2>5 DEF Running
  <2> QED BY <1>1, <2>1, <2>7, <2>8 DEF ProcInv
<1> QED BY <1>3, <1>4, <1>5

LEMMA ProcStep == ProcInv /\ [Next]_vars => ProcInv'
<1> SUFFICES ASSUME ProcInv, [Next]_vars
             PROVE  ProcInv'
  OBVIOUS
<1>1. CASE UNCHANGED vars
  BY <1>1 DEF vars, ProcInv
<1> QED BY <1>1, CallKeeps, KernelKeeps, ClockKeeps DEF Next

(* What copy_process(), do_exit(), sys_waitpid(), schedule() and the other *)
(* process calls keep about the task table: the family, what waiters were  *)
(* told, and that the current task is one that runs.                       *)
THEOREM ProcessInvariant == Spec => []ProcInv
BY ProcInit, ProcStep, PTL DEF Spec

(* Every task but init always has a father that lives and has not begun to *)
(* exit, so tell_father() (exit.c:83) always finds somebody to tell, and   *)
(* the branch in which a task releases itself (exit.c:96) is never taken.  *)
THEOREM NobodyIsOrphaned == Spec => []FatherLives
<1>1. ProcInv => FatherLives
  BY DEF ProcInv, Family, HaveFathers, FatherLives, Exists, Exiting
<1> QED BY <1>1, ProcessInvariant, PTL

(* sys_waitpid() (exit.c:142) looks for zombies and then sleeps: a child   *)
(* that dies afterwards, by its own exit or as one that init inherits,     *)
(* leaves the sleeper with SIGCHLD, whether it waits for one child, for    *)
(* anybody or for a group.  Only the sleepers of a group are not told for  *)
(* whom, or for whose child, setpgid() chose another group meanwhile.      *)
THEOREM NoDeathIsMissed == Spec => []WaiterIsTold
<1>1. ProcInv => WaiterIsTold
  <2> SUFFICES ASSUME ProcInv, NEW i \in Slots,
                      pc[i] = "wait", task[i].state = "interruptible",
                      task[i].waitfor > 0 \/ task[i].waitfor = -1 \/ i \notin moved,
                      NEW j \in Meant(i, task[i].waitfor), task[j].state = "zombie"
               PROVE  CHLD \in task[i].signal \cup task[i].blocked
    BY DEF WaiterIsTold
  <2>1. task[i].waitfor \in Int
    BY DEF ProcInv, Family, TaskRec
  <2>2. j \in Slots \ {i} /\ Exists(task, j) /\ task[j].father = task[i].pid
    BY DEF Meant
  <2>4. Wants(task[i].waitfor, task[i], task[j])
    BY <2>1 DEF Meant, Wants
  <2>5. DeadChild(task, i, j)
    BY <2>2, <2>4 DEF DeadChild, Exists
  <2>3. Sleeps(task, pc, moved, i)
    BY DEF Sleeps
  <2> QED BY <2>2, <2>3, <2>5 DEF ProcInv, Told
<1> QED BY <1>1, ProcessInvariant, PTL
=============================================================================
