--------------------------- MODULE SleepOnProofs ---------------------------
(***************************************************************************)
(* Proofs about SleepOn for any set of tasks.                              *)
(***************************************************************************)
EXTENDS SleepOn, TLAPS

(* The queue starts empty. *)
LEMMA InitQueueInv == Init => QueueInv
  BY NullIsNoTask DEF Init, QueueInv, TypeOK, HeadAsleep, OneWaker,
     AsleepInside, NoOrphan, SavedAsleep, Inside

(* A task that is out of sleep_on() is in nobody's chain, so it may join it. *)
LEMMA OutsideUnreferenced ==
  ASSUME QueueInv, NEW t \in Tasks, state[t] = "running"
  PROVE  /\ wait # t
         /\ \A u \in Tasks : Inside(u) => tmp[u] # t
  BY NullIsNoTask DEF QueueInv, TypeOK, HeadAsleep, SavedAsleep

(* Every step keeps the queue a simple chain in which each sleeper has      *)
(* exactly one waker.  In Resume, st is the state array after the wakeup    *)
(* the frame passes on.                                                     *)
LEMMA StepQueueInv == QueueInv /\ [Next]_vars => QueueInv'
<1> SUFFICES ASSUME QueueInv, [Next]_vars PROVE QueueInv'
  OBVIOUS
<1> USE NullIsNoTask
<1>1. ASSUME NEW t \in Tasks, WaitOn(t) PROVE QueueInv'
  <2> USE <1>1 DEF WaitOn, CallFromOut, sleep_on
  <2>0. wait # t /\ \A u \in Tasks : Inside(u) => tmp[u] # t
    BY OutsideUnreferenced
  <2>1. TypeOK'
    BY DEF QueueInv, TypeOK
  <2>2. HeadAsleep' /\ AsleepInside' /\ (~lock => wait = NULL)'
    BY DEF QueueInv, TypeOK, HeadAsleep, AsleepInside, Inside
  <2>3. OneWaker'
    BY <2>0 DEF QueueInv, TypeOK, OneWaker, Inside
  <2>4. NoOrphan'
    BY <2>0 DEF QueueInv, TypeOK, NoOrphan, Inside
  <2>5. SavedAsleep'
    BY <2>0 DEF QueueInv, TypeOK, SavedAsleep, HeadAsleep, AsleepInside, Inside
  <2> QED
    BY <2>1, <2>2, <2>3, <2>4, <2>5 DEF QueueInv
<1>2. ASSUME NEW t \in Tasks, LockOn(t) PROVE QueueInv'
  <2>1. CASE lock
    <3> USE <1>2, <2>1 DEF LockOn, CallFromOut, sleep_on
    <3>0. wait # t /\ \A u \in Tasks : Inside(u) => tmp[u] # t
      BY OutsideUnreferenced
    <3>1. TypeOK'
      BY DEF QueueInv, TypeOK
    <3>2. HeadAsleep' /\ AsleepInside' /\ (~lock => wait = NULL)'
      BY DEF QueueInv, TypeOK, HeadAsleep, AsleepInside, Inside
    <3>3. OneWaker'
      BY <3>0 DEF QueueInv, TypeOK, OneWaker, Inside
    <3>4. NoOrphan'
      BY <3>0 DEF QueueInv, TypeOK, NoOrphan, Inside
    <3>5. SavedAsleep'
      BY <3>0 DEF QueueInv, TypeOK, SavedAsleep, HeadAsleep, AsleepInside, Inside
    <3> QED
      BY <3>1, <3>2, <3>3, <3>4, <3>5 DEF QueueInv
  <2>2. CASE ~lock
    <3>1. lock' = TRUE /\ UNCHANGED <<state, pc, tmp, wait>>
      BY <1>2, <2>2 DEF LockOn
    <3>2. TypeOK'
      BY <3>1 DEF QueueInv, TypeOK
    <3> QED
      BY <3>1, <3>2 DEF QueueInv, HeadAsleep, OneWaker, AsleepInside,
         NoOrphan, SavedAsleep, Inside
  <2> QED
    BY <2>1, <2>2
<1>3. ASSUME NEW t \in Tasks, Resume(t) PROVE QueueInv'
  <2> DEFINE st == WakeSaved(t)
  <2>0. /\ wait # t
        /\ \A u \in Tasks : Inside(u) => tmp[u] # t
        /\ Inside(t) /\ state[t] = "running"
    BY <1>3, OutsideUnreferenced DEF Resume
  <2>1. /\ st \in [Tasks -> {"running", "uninterruptible"}]
        /\ \A u \in Tasks : st[u] = "uninterruptible" <=>
             (state[u] = "uninterruptible" /\ u # tmp[t])
    BY DEF WakeSaved, QueueInv, TypeOK
  <2>2. wait # NULL => st[wait] = "uninterruptible"
    BY <2>0, <2>1 DEF QueueInv, TypeOK, HeadAsleep, OneWaker
  <2>3. \A u \in Tasks : Inside(u) /\ u # t /\ tmp[u] # NULL =>
          st[tmp[u]] = "uninterruptible" /\ Inside(tmp[u])
    BY <2>0, <2>1 DEF QueueInv, TypeOK, SavedAsleep, OneWaker
  <2>4. \A u \in Tasks : st[u] = "uninterruptible" =>
          \/ wait = u
          \/ \E v \in Tasks : Inside(v) /\ v # t /\ tmp[v] = u
    BY <2>1 DEF QueueInv, TypeOK, NoOrphan
  <2> HIDE DEF st
  <2>5. CASE lock
    <3>1. /\ tmp' = [tmp EXCEPT ![t] = wait]
          /\ wait' = t
          /\ state' = [st EXCEPT ![t] = "uninterruptible"]
          /\ pc' = [pc EXCEPT ![t] = pc[t]]
          /\ lock' = lock
      BY <1>3, <2>5 DEF Resume, sleep_on, st
    <3>2. TypeOK'
      BY <2>1, <3>1 DEF QueueInv, TypeOK
    <3>3. HeadAsleep' /\ AsleepInside' /\ (~lock => wait = NULL)'
      BY <2>0, <2>1, <2>5, <3>1
      DEF QueueInv, TypeOK, HeadAsleep, AsleepInside, Inside
    <3>4. OneWaker'
      BY <2>0, <3>1 DEF QueueInv, TypeOK, OneWaker, Inside
    <3>5. NoOrphan'
      BY <2>0, <2>1, <2>4, <3>1 DEF QueueInv, TypeOK, NoOrphan, Inside
    <3>6. SavedAsleep'
      BY <2>0, <2>1, <2>2, <2>3, <3>1
      DEF QueueInv, TypeOK, SavedAsleep, HeadAsleep, AsleepInside, Inside
    <3> QED
      BY <3>2, <3>3, <3>4, <3>5, <3>6 DEF QueueInv
  <2>6. CASE ~lock
    <3>1. /\ tmp' = [tmp EXCEPT ![t] = NULL]
          /\ wait' = wait
          /\ state' = st
          /\ pc' = [pc EXCEPT ![t] = "out"]
          /\ lock' \in BOOLEAN
      BY <1>3, <2>6 DEF Resume, st
    <3>2. TypeOK'
      BY <2>1, <3>1 DEF QueueInv, TypeOK
    <3>3. HeadAsleep' /\ AsleepInside' /\ (~lock => wait = NULL)'
      BY <2>0, <2>1, <2>2, <2>6, <3>1
      DEF QueueInv, TypeOK, HeadAsleep, AsleepInside, Inside
    <3>4. OneWaker'
      BY <2>0, <3>1 DEF QueueInv, TypeOK, OneWaker, Inside
    <3>5. NoOrphan'
      BY <2>0, <2>1, <2>4, <3>1 DEF QueueInv, TypeOK, NoOrphan, Inside
    <3>6. SavedAsleep'
      BY <2>0, <2>1, <2>3, <3>1
      DEF QueueInv, TypeOK, SavedAsleep, Inside
    <3> QED
      BY <3>2, <3>3, <3>4, <3>5, <3>6 DEF QueueInv
  <2> QED
    BY <2>5, <2>6
<1>4. CASE Unlock
  <2> USE <1>4 DEF Unlock, wake_up
  <2>1. TypeOK'
    BY DEF QueueInv, TypeOK
  <2>2. HeadAsleep' /\ AsleepInside' /\ (~lock => wait = NULL)'
    BY DEF QueueInv, TypeOK, HeadAsleep, AsleepInside, Inside
  <2>3. OneWaker'
    BY DEF QueueInv, TypeOK, OneWaker, Inside
  <2>4. NoOrphan'
    BY DEF QueueInv, TypeOK, NoOrphan, Inside
  <2>5. SavedAsleep'
    BY DEF QueueInv, TypeOK, SavedAsleep, OneWaker, Inside
  <2> QED
    BY <2>1, <2>2, <2>3, <2>4, <2>5 DEF QueueInv
<1>5. CASE UNCHANGED vars
  BY <1>5 DEF vars, QueueInv, TypeOK, HeadAsleep, OneWaker, AsleepInside,
     NoOrphan, SavedAsleep, Inside
<1> QED
  BY <1>1, <1>2, <1>3, <1>4, <1>5 DEF Next

(* The whole queue invariant holds in every reachable state. *)
THEOREM QueueInvariant == Spec => []QueueInv
  BY InitQueueInv, StepQueueInv, PTL DEF Spec

(* No wakeup is lost, for any number of tasks: every sleeping task is *p   *)
(* or is saved in the frame of a task still inside sleep_on().             *)
THEOREM NoLostWakeup == Spec => []NoOrphan
<1>1. QueueInv => NoOrphan
  BY DEF QueueInv
<1> QED
  BY <1>1, QueueInvariant, PTL

(* `tmp->state=0' only ever hits a task that is asleep on the same queue. *)
THEOREM NoStaleSaved == Spec => []SavedAsleep
<1>1. QueueInv => SavedAsleep
  BY DEF QueueInv
<1> QED
  BY <1>1, QueueInvariant, PTL
=============================================================================
