------------------------------- MODULE Timers -------------------------------
(***************************************************************************)
(* The timer list of kernel/sched.c: add_timer() and the part of           *)
(* do_timer() that runs expired timers.  Each entry holds the ticks it has *)
(* to wait after the entry before it.                                      *)
(*                                                                         *)
(* A timer is identified with its function.  do_timer() is split at the    *)
(* calls of the functions, because these call add_timer() themselves       *)
(* (floppy_on_interrupt() does), in the middle of its loop.  add_timer()   *)
(* with a time that is not positive calls the function at once and touches *)
(* no state.  The sti() of add_timer() would let the next tick into the    *)
(* loop (sched.c:302); the functions are done long before it comes.        *)
(***************************************************************************)
EXTENDS Integers, Sequences, SequencesExt

CONSTANTS Fns,          \* the functions
          MaxDelay,     \* bound: ticks a timer may ask for
          MaxAdds       \* bound: calls of add_timer() altogether

ASSUME TimerBounds == MaxDelay \in Nat /\ MaxAdds \in Nat

VARIABLES list,         \* from next_timer on: [fn, jiffies]
          ticking,      \* inside the while loop of do_timer()
          asked, age,   \* per pending function: ticks asked for, ticks since
          later,        \* ticks asked for by the timers added after it
          adds          \* calls of add_timer() so far

vars == <<list, ticking, asked, age, later, adds>>

Pending == {list[i].fn : i \in DOMAIN list}

Init ==
  /\ list = <<>>
  /\ ticking = FALSE
  /\ asked = [f \in Fns |-> 0]
  /\ age = [f \in Fns |-> 0]
  /\ later = [f \in Fns |-> 0]
  /\ adds = 0

(* Ticks until entry i expires: the sum of the first i entries. *)
Until(l, i) == FoldLeft(LAMBDA sum, e : sum + e.jiffies, 0, SubSeq(l, 1, i))
-----------------------------------------------------------------------------
(* A bug: the new entry takes too much off the entry behind it. *)
insert_short(l, f, j) ==
  LET stops == {i \in 0 .. Len(l) : i = Len(l) \/ l[i + 1].jiffies >= j - Until(l, i)}
      at == Min(stops)
      new == [fn |-> f, jiffies |-> j - Until(l, at)]
      rest == IF at = Len(l) THEN l
              ELSE [l EXCEPT ![at + 1].jiffies = @ - j]
  IN  InsertAt(rest, at + 1, new)

(* add_timer(): the new entry starts in front and moves behind each entry  *)
(* that is due strictly earlier, subtracting its time.  The entry it stops *)
(* before keeps its own time, and so has to wait for the new one, too.     *)
insert(l, f, j) ==
  LET stops == {i \in 0 .. Len(l) : i = Len(l) \/ l[i + 1].jiffies >= j - Until(l, i)}
      at == Min(stops)
  IN  InsertAt(l, at + 1, [fn |-> f, jiffies |-> j - Until(l, at)])

add_timer(f, j) ==
  /\ f \notin Pending
  /\ adds < MaxAdds
  /\ list' = insert(list, f, j)
  /\ asked' = [asked EXCEPT ![f] = j]
  /\ age' = [age EXCEPT ![f] = 0]
  /\ later' = [g \in Fns |-> IF g = f THEN 0
                             ELSE IF g \in Pending THEN later[g] + j ELSE later[g]]
  /\ adds' = adds + 1
  /\ UNCHANGED ticking

(* do_timer() up to its while loop: one tick for the first entry. *)
Tick ==
  /\ ~ticking
  /\ list # <<>>
  /\ list' = [list EXCEPT ![1].jiffies = @ - 1]
  /\ age' = [f \in Fns |-> IF f \in Pending THEN age[f] + 1 ELSE age[f]]
  /\ ticking' = TRUE
  /\ UNCHANGED <<asked, later, adds>>

(* A bug: the entry is not taken off the list. *)
Expire_keeps ==
  /\ ticking
  /\ list # <<>>
  /\ Head(list).jiffies =< 0
  /\ UNCHANGED <<list, asked, age, later, ticking, adds>>

(* One round of the loop: the entry leaves the list, then its function is  *)
(* called, which may add a timer before the next round.                    *)
Expire ==
  /\ ticking
  /\ list # <<>>
  /\ Head(list).jiffies =< 0
  /\ list' = Tail(list)
  /\ asked' = [asked EXCEPT ![Head(list).fn] = 0]
  /\ age' = [age EXCEPT ![Head(list).fn] = 0]
  /\ later' = [later EXCEPT ![Head(list).fn] = 0]
  /\ UNCHANGED <<ticking, adds>>

EndOfTick ==
  /\ ticking
  /\ list # <<>> => Head(list).jiffies > 0
  /\ ticking' = FALSE
  /\ UNCHANGED <<list, asked, age, later, adds>>

Next ==
  \/ \E f \in Fns, j \in 1..MaxDelay : add_timer(f, j)
  \/ Tick
  \/ Expire
  \/ EndOfTick

Spec == Init /\ [][Next]_vars

(* The timer interrupt keeps coming. *)
FairSpec == Spec /\ WF_vars(Tick) /\ WF_vars(Expire) /\ WF_vars(EndOfTick)
-----------------------------------------------------------------------------
(* No function is called before its time, whatever was added in front of,  *)
(* between or behind the entries meanwhile.  It may be late, because       *)
(* add_timer() does not take the new entry's time off the entry behind it, *)
(* but only by what was asked for after it (sched.c:290-300).              *)
NeverEarlyLittleLate ==
  \A i \in DOMAIN list :
    LET f == list[i].fn
        fires == age[f] + Until(list, i)
    IN  asked[f] =< fires /\ fires =< asked[f] + later[f]

(* Every timer is called once timers stop being added. *)
EveryTimerFires == \A f \in Fns : f \in Pending ~> f \notin Pending
=============================================================================
