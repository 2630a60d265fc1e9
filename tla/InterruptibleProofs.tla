------------------------- MODULE InterruptibleProofs -------------------------
(***************************************************************************)
(* For every number of readers and characters: the head of a queue of      *)
(* interruptible sleepers is a live task inside interruptible_sleep_on(),  *)
(* although the tmp pointers behind it may be stale.                       *)
(***************************************************************************)
EXTENDS InterruptibleSleep, TLAPS

HeadInv == TypeOK /\ HeadIsInside

(* p->state = 0 and the scan of schedule() make no live task a zombie and  *)
(* write no new kind of state.                                             *)
LEMMA SetRunningType ==
  ASSUME NEW st \in [Tasks -> {"running", "interruptible", "zombie", "free"}],
         NEW p \in Tasks \cup {NULL}
  PROVE  /\ SetRunning(st, p) \in [Tasks -> {"running", "interruptible", "zombie", "free"}]
         /\ \A t \in Tasks : st[t] \in {"running", "interruptible"}
                              => SetRunning(st, p)[t] \in {"running", "interruptible"}
  BY DEF SetRunning

LEMMA ScanType ==
  ASSUME NEW st \in [Tasks -> {"running", "interruptible", "zombie", "free"}]
  PROVE  /\ Scan(st) \in [Tasks -> {"running", "interruptible", "zombie", "free"}]
         /\ \A t \in Tasks : st[t] \in {"running", "interruptible"}
                              => Scan(st)[t] \in {"running", "interruptible"}
  BY DEF Scan

(* Whoever calls interruptible_sleep_on(), from whatever state st its own  *)
(* writes have led to, becomes the head and is inside.                     *)
LEMMA SleepOnHead ==
  ASSUME TypeOK, NEW t \in Tasks, NEW old \in Tasks \cup {NULL},
         NEW st \in [Tasks -> {"running", "interruptible", "zombie", "free"}],
         SleepOn(t, st, old), signal' = signal
  PROVE  HeadInv'
<1> DEFINE s == [st EXCEPT ![t] = "interruptible"]
<1>1. s \in [Tasks -> {"running", "interruptible", "zombie", "free"}] /\ s[t] = "interruptible"
  OBVIOUS
<1>2. state' = Scan(s)
  BY DEF SleepOn
<1> HIDE DEF s
<1>3. /\ state' \in [Tasks -> {"running", "interruptible", "zombie", "free"}]
      /\ state'[t] \in {"running", "interruptible"}
  BY <1>1, <1>2, ScanType
<1>4. TypeOK'
  BY <1>3 DEF SleepOn, TypeOK
<1>5. HeadIsInside'
  BY <1>3 DEF SleepOn, TypeOK, HeadIsInside
<1> QED BY <1>4, <1>5 DEF HeadInv

LEMMA StepHeadInv == HeadInv /\ [Next]_vars => HeadInv'
<1> SUFFICES ASSUME HeadInv, [Next]_vars PROVE HeadInv'
  OBVIOUS
<1> USE SleepConstants
<1>0. TypeOK /\ HeadIsInside
  BY DEF HeadInv
<1>1. ASSUME NEW t \in Tasks, tty_read(t) PROVE HeadInv'
  <2>1. CASE chars = 0
    BY <1>0, <1>1, <2>1, SleepOnHead DEF tty_read, TypeOK
  <2>2. CASE chars > 0
    BY <1>0, <1>1, <2>2 DEF tty_read, Take, HeadInv, TypeOK, HeadIsInside
  <2> QED BY <1>0, <2>1, <2>2 DEF TypeOK
<1>2. ASSUME NEW t \in Tasks, Again(t) PROVE HeadInv'
  <2> DEFINE s == SetRunning(state, wait)
             u == [s EXCEPT ![t] = "interruptible"]
  <2>1. /\ s \in [Tasks -> {"running", "interruptible", "zombie", "free"}]
        /\ wait # NULL => s[wait] \in {"running", "interruptible"}
    BY <1>0, SetRunningType DEF TypeOK, HeadIsInside
  <2> HIDE DEF s
  <2>2. /\ u \in [Tasks -> {"running", "interruptible", "zombie", "free"}]
        /\ wait # NULL => u[wait] \in {"running", "interruptible"}
    BY <1>0, <2>1 DEF TypeOK
  <2>3. state' = Scan(u)
    BY <1>2 DEF Again, s
  <2> HIDE DEF u
  <2>4. /\ state' \in [Tasks -> {"running", "interruptible", "zombie", "free"}]
        /\ wait # NULL => state'[wait] \in {"running", "interruptible"}
    BY <1>0, <2>2, <2>3, ScanType DEF TypeOK
  <2> QED BY <1>0, <1>2, <2>4 DEF Again, HeadInv, TypeOK, HeadIsInside
<1>3. ASSUME NEW t \in Tasks, Leave(t) PROVE HeadInv'
  <2> DEFINE s == SetRunning(state, tmp[t])
  <2>1. s \in [Tasks -> {"running", "interruptible", "zombie", "free"}]
    BY <1>0, SetRunningType DEF TypeOK
  <2> HIDE DEF s
  <2>2. CASE SleepOn(t, s, NULL) /\ signal' = signal
    BY <1>0, <2>1, <2>2, SleepOnHead
  <2>3. CASE wait' = Emptied
    <3>1. /\ state' = s
          /\ pc' = [pc EXCEPT ![t] = "out"]
          /\ tmp' = [tmp EXCEPT ![t] = NULL]
          /\ chars' \in 0 .. MaxChars
          /\ signal' = signal
      BY <1>0, <1>3, <2>3 DEF Leave, SleepOn, Emptied, Take, TypeOK, s
    <3> QED BY <1>0, <2>1, <2>3, <3>1 DEF Emptied, HeadInv, TypeOK, HeadIsInside
  <2> QED BY <1>3, <2>2, <2>3 DEF Leave, s
<1>4. CASE Input
  <2>1. state' \in [Tasks -> {"running", "interruptible", "zombie", "free"}]
    BY <1>0, <1>4, SetRunningType DEF Input, TypeOK
  <2> QED BY <1>0, <1>4, <2>1 DEF Input, Emptied, HeadInv, TypeOK, HeadIsInside
<1>5. ASSUME NEW t \in Tasks, Signal(t) PROVE HeadInv'
  BY <1>0, <1>5 DEF Signal, HeadInv, TypeOK, HeadIsInside
<1>6. CASE schedule
  <2>1. /\ state' \in [Tasks -> {"running", "interruptible", "zombie", "free"}]
        /\ wait # NULL => state'[wait] \in {"running", "interruptible"}
    BY <1>0, <1>6, ScanType DEF schedule, TypeOK, HeadIsInside
  <2> QED BY <1>0, <1>6, <2>1 DEF schedule, HeadInv, TypeOK, HeadIsInside
<1>7. ASSUME NEW t \in Tasks, Handle(t) PROVE HeadInv'
  BY <1>0, <1>7 DEF Handle, HeadInv, TypeOK, HeadIsInside
<1>8. ASSUME NEW t \in Tasks, do_exit(t) \/ release(t) PROVE HeadInv'
  <2>1. PICK x \in {"zombie", "free"} : state' = Scan([state EXCEPT ![t] = x])
    BY <1>8 DEF do_exit, release
  <2>2. wait # t
    BY <1>0, <1>8, <2>1 DEF do_exit, release, TypeOK, HeadIsInside
  <2> DEFINE s == [state EXCEPT ![t] = x]
  <2>3. /\ s \in [Tasks -> {"running", "interruptible", "zombie", "free"}]
        /\ wait # NULL => s[wait] \in {"running", "interruptible"}
    BY <1>0, <2>2 DEF TypeOK, HeadIsInside
  <2> HIDE DEF s
  <2>4. /\ state' \in [Tasks -> {"running", "interruptible", "zombie", "free"}]
        /\ wait # NULL => state'[wait] \in {"running", "interruptible"}
    BY <1>0, <2>1, <2>3, ScanType DEF TypeOK, s
  <2>5. UNCHANGED <<pc, tmp, wait, chars>> /\ signal' \in [Tasks -> BOOLEAN]
    BY <1>0, <1>8 DEF do_exit, release, TypeOK
  <2> QED BY <1>0, <2>4, <2>5 DEF HeadInv, TypeOK, HeadIsInside
<1>9. CASE UNCHANGED vars
  BY <1>0, <1>9 DEF vars, HeadInv, TypeOK, HeadIsInside
<1> QED BY <1>1, <1>2, <1>3, <1>4, <1>5, <1>6, <1>7, <1>8, <1>9 DEF Next

(* *p is never stale, for any number of tasks: whoever leaves sets it to   *)
(* NULL, and only a task outside the queue can die (sched.c:167-186).      *)
THEOREM HeadNeverStale == Spec => []HeadIsInside
<1>1. Init => HeadInv
  BY SleepConstants DEF Init, HeadInv, TypeOK, HeadIsInside
<1>2. HeadInv => HeadIsInside
  BY DEF HeadInv
<1> QED BY <1>1, <1>2, StepHeadInv, PTL DEF Spec
=============================================================================
