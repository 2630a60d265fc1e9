---------------------------- MODULE RequestQueue ----------------------------
(***************************************************************************)
(* The request queue of one block device: make_request() and add_request() *)
(* of ll_rw_blk.c against end_request() of blk.h, run by the device's      *)
(* interrupt.  The buffers are abstracted to their block numbers; each is  *)
(* locked by the task that makes its request, so a block has one request   *)
(* at a time and the block stands for that task as well.                   *)
(*                                                                         *)
(* make_request() looks for a free entry with interrupts enabled and, if   *)
(* there is none, calls sleep_on(&wait_for_request): requests may end in   *)
(* between, when nobody is asleep yet.  That window is a state of its own  *)
(* ("full").  A drive needs milliseconds to serve a request and the window *)
(* is a few instructions, so at most one request is served in it.  But the *)
(* drivers end a request for a block past the end of the device at once,   *)
(* and go on to the next one with goto repeat: any number of those ends in *)
(* the window.                                                             *)
(*                                                                         *)
(* The requests that ask for a block ahead, which give up where the others *)
(* sleep, are in BufferCache.                                              *)
(***************************************************************************)
EXTENDS BlkRequest

CONSTANTS Blocks,      \* the block numbers that may be asked for
          nr_sects     \* the size of the device: hd[].nr_sects, floppy_type[].size

(* With two entries a write would find none behind a single request.       *)
ASSUME QueueConstants == Blocks \subseteq Nat /\ nr_sects \in Nat /\ NR_REQUEST > 2

VARIABLES pc,      \* pc[b]: "idle", "full", "asleep", "woken", "queued"
          rw,      \* rw[b]: the command of a task that has not found an entry yet
          list,    \* blk_dev[major].current_request and what follows it
          ended    \* history: the kinds of requests that ended in the last window

vars == <<pc, rw, list, ended>>

(* The test of do_hd_request() and do_fd_request(): a request for a block  *)
(* that passes it is served by the drive, another one is dropped.          *)
TooFar(sector) == sector + 2 > nr_sects
Kind(req) == IF TooFar(2 * req.bh) THEN "dropped" ELSE "served"

Used == {list[i].slot : i \in DOMAIN list}

Request(b, cmd) ==
  [cmd |-> cmd, dev |-> 1, sector |-> 2 * b, bh |-> b,
   slot |-> find_request(Used, cmd)]

TypeOK ==
  /\ pc \in [Blocks -> {"idle", "full", "asleep", "woken", "queued"}]
  /\ rw \in [Blocks -> {READ, WRITE}]
  /\ list \in Seq([cmd : {READ, WRITE}, dev : {1}, sector : {2 * b : b \in Blocks},
                   bh : Blocks, slot : 0 .. NR_REQUEST - 1])
  /\ ended \subseteq {"served", "dropped"}

Init ==
  /\ pc = [b \in Blocks |-> "idle"]
  /\ rw = [b \in Blocks |-> READ]
  /\ list = <<>>
  /\ ended = {}
-----------------------------------------------------------------------------
(* No task is between the scan and sleep_on(): the kernel does not preempt *)
(* it there, only an interrupt may come.                                   *)
CpuFree == \A b \in Blocks : pc[b] # "full"

(* make_request() from `repeat:': take an entry and queue it, or find none.*)
Scan(b, cmd) ==
  \/ /\ FreeSlots(Used, cmd) # {}
     /\ list' = add_request(list, Request(b, cmd))
     /\ pc' = [pc EXCEPT ![b] = "queued"]
     /\ rw' = [rw EXCEPT ![b] = READ]
     /\ UNCHANGED ended
  \/ /\ FreeSlots(Used, cmd) = {}
     /\ pc' = [pc EXCEPT ![b] = "full"]
     /\ rw' = [rw EXCEPT ![b] = cmd]
     /\ ended' = {}
     /\ UNCHANGED list

make_request(b, cmd) ==
  /\ CpuFree
  /\ pc[b] = "idle"
  /\ Scan(b, cmd)

(* sleep_on(&wait_for_request). *)
SleepForRequest(b) ==
  /\ pc[b] = "full"
  /\ pc' = [pc EXCEPT ![b] = "asleep"]
  /\ UNCHANGED <<rw, list, ended>>

(* schedule() returns to a woken task: goto repeat. *)
Repeat(b) ==
  /\ CpuFree
  /\ pc[b] = "woken"
  /\ Scan(b, rw[b])

(* A bug: only the entry that empties the list wakes the waiters. *)
WakeWaiters_last ==
  IF Len(list) > 1 THEN pc
  ELSE [b \in Blocks |-> IF b = Head(list).bh THEN "idle" ELSE pc[b]]

(* wake_up(&wait_for_request): the first sleeper, and through the chain of *)
(* sleep_on() frames every other one (SleepOn), becomes runnable.          *)
WakeWaiters ==
  [b \in Blocks |-> IF b = Head(list).bh THEN "idle"
                    ELSE IF pc[b] = "asleep" THEN "woken" ELSE pc[b]]

(* end_request() of blk.h, for the head of the list. *)
EndHead ==
  /\ list # <<>>
  /\ pc' = WakeWaiters
  /\ list' = Tail(list)
  /\ ended' = IF CpuFree THEN ended ELSE ended \cup {Kind(Head(list))}
  /\ UNCHANGED rw

(* No time for a second transfer in a window. *)
end_request ==
  /\ EndHead
  /\ CpuFree \/ Kind(Head(list)) = "dropped" \/ "served" \notin ended

Next ==
  \/ \E b \in Blocks : \/ \E cmd \in {READ, WRITE} : make_request(b, cmd)
                       \/ SleepForRequest(b)
                       \/ Repeat(b)
  \/ end_request

Spec == Init /\ [][Next]_vars

(* The drive answers every request, with data or with an error, and a task *)
(* that has found no entry does not stop before its sleep_on().            *)
FairSpec ==
  Spec /\ WF_vars(end_request) /\ \A b \in Blocks : WF_vars(SleepForRequest(b))
-----------------------------------------------------------------------------
(* The list is at most two ascending runs: the sweep under way and the     *)
(* next one.  ll_rw_blk.c:78-84 inserts without ever looking at the whole  *)
(* list, while the head moves on under it.                                 *)
OneSweep ==
  \A i, j \in 1..(Len(list) - 1) :
    ~IN_ORDER(list[i], list[i + 1]) /\ ~IN_ORDER(list[j], list[j + 1]) => i = j

(* A task asleep on wait_for_request has a request before it that will end *)
(* and wake it, although one may end between the scan and sleep_on()       *)
(* (ll_rw_blk.c:119-129) and its wakeup find nobody.  The one way to be    *)
(* forgotten is that in this window the driver dropped requests for blocks *)
(* past the end of the device (hd.c:304-307, floppy.c:436-439).            *)
NoStrandedRequester ==
  (\E b \in Blocks : pc[b] = "asleep") => list # <<>> \/ "dropped" \in ended

(* wait_for_request is "used to wait on when there are no free requests"   *)
(* (ll_rw_blk.c:24): whoever waits does so while requests are in use.      *)
WaitsForRequests ==
  (\E b \in Blocks : pc[b] = "asleep") => list # <<>>

(* The elevator starves nobody: a queued request is served, however many   *)
(* others keep arriving and being put before it.                           *)
EveryRequestServed ==
  \A b \in Blocks : pc[b] = "queued" ~> pc[b] = "idle"
=============================================================================
