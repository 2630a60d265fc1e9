------------------------------ MODULE HardDisk ------------------------------
(***************************************************************************)
(* kernel/blk_drv/hd.c: the driver of the hard disk, between the request   *)
(* queue and the controller.                                               *)
(*                                                                         *)
(* The request the driver works on is the head of RequestQueue's list, so  *)
(* errors and done (sectors moved) are kept for the head only.  `strategy' *)
(* is TRUE while do_hd_request() runs: one step is one round of its        *)
(* `repeat:', and nothing else runs in between.  The drive may answer any  *)
(* command with an error.  It decodes the cylinder, head and sector it is  *)
(* given, and goes on to the next sector by itself.                        *)
(***************************************************************************)
EXTENDS RequestQueue

CONSTANTS MAX_ERRORS,
          Sect, Heads,              \* hd_info[]
          start_sect                \* of the partition the requests are for

(* With fewer errors, the ones that lead to a reset would end the request. *)
ASSUME Geometry ==
  /\ MAX_ERRORS \in Nat /\ MAX_ERRORS > 2 /\ Sect \in Nat \ {0} /\ Heads \in Nat \ {0}
  /\ start_sect \in Nat

VARIABLES do_hd,         \* the function the next interrupt calls, or "none"
          drive,         \* the command the drive works on
          errors, done,  \* of CURRENT
          reset, recalibrate,
          strategy

hd == <<do_hd, drive, errors, done, reset, recalibrate, strategy>>
queue == vars

NoCommand == [cmd |-> "none", at |-> 0, left |-> 0]

HdInit ==
  /\ do_hd = "none"
  /\ drive = NoCommand
  /\ errors = 0
  /\ done = 0
  /\ reset = TRUE
  /\ recalibrate = TRUE
  /\ strategy = FALSE

CURRENT == Head(list)

(* Bug: a retry starts the block from its first sector again. *)
Sector_first == CURRENT.sector

(* The next sector of the request; CURRENT->sector moves with each one. *)
Sector == CURRENT.sector + done

(* Where the two divl of do_hd_request() send the heads. *)
Chs(block) == [sec |-> (block % Sect) + 1, head |-> (block \div Sect) % Heads,
               cyl |-> (block \div Sect) \div Heads]

(* The sector of the drive that has this address. *)
Lba(chs) == (chs.cyl * Heads + chs.head) * Sect + chs.sec - 1

hd_out(cmd, chs, n, handler) ==
  /\ do_hd' = handler
  /\ drive' = [cmd |-> cmd, at |-> Lba(chs), left |-> n]
  /\ strategy' = FALSE
-----------------------------------------------------------------------------
(* end_request() of the queue, and the next request starts afresh. *)
EndRequest ==
  /\ EndHead
  /\ errors' = 0
  /\ done' = 0

(* Bug: a request begins to count again after the reset it asked for. *)
bad_rw_intr_restart ==
  IF errors + 1 >= MAX_ERRORS THEN EndRequest /\ UNCHANGED reset
  ELSE LET bad == errors + 1 > MAX_ERRORS \div 2
       IN  /\ errors' = IF bad THEN 0 ELSE errors + 1
           /\ reset' = (reset \/ bad)
           /\ UNCHANGED <<queue, done>>

(* bad_rw_intr().  After end_request() it looks at the errors of the next  *)
(* request, which are 0, or through a null pointer if there is none.       *)
bad_rw_intr ==
  IF errors + 1 >= MAX_ERRORS
  THEN EndRequest /\ reset' \in (IF Len(list) = 1 THEN {reset, TRUE} ELSE {reset})
  ELSE /\ errors' = errors + 1
       /\ reset' = (reset \/ errors + 1 > MAX_ERRORS \div 2)
       /\ UNCHANGED <<queue, done>>

(* do_hd_request(), from `repeat:'. *)
NoRequest ==
  /\ strategy /\ list = <<>>
  /\ strategy' = FALSE
  /\ UNCHANGED <<queue, do_hd, drive, errors, done, reset, recalibrate>>

OutOfRange ==
  /\ strategy /\ list # <<>> /\ TooFar(Sector)
  /\ EndRequest
  /\ UNCHANGED <<do_hd, drive, reset, recalibrate, strategy>>

Ready == strategy /\ list # <<>> /\ ~TooFar(Sector)

reset_hd ==
  /\ Ready /\ reset
  /\ reset' = FALSE
  /\ recalibrate' = TRUE
  /\ hd_out("specify", Chs(0), 0, "recal")
  /\ UNCHANGED <<queue, errors, done>>

Recalibrate ==
  /\ Ready /\ ~reset /\ recalibrate
  /\ recalibrate' = FALSE
  /\ hd_out("restore", Chs(0), 0, "recal")
  /\ UNCHANGED <<queue, errors, done, reset>>

Block == start_sect + Sector

StartRead ==
  /\ Ready /\ ~reset /\ ~recalibrate /\ CURRENT.cmd = READ
  /\ hd_out("read", Chs(Block), 2 - done, "read")
  /\ UNCHANGED <<queue, errors, done, reset, recalibrate>>

StartWrite ==
  /\ Ready /\ ~reset /\ ~recalibrate /\ CURRENT.cmd = WRITE
  /\ hd_out("write", Chs(Block), 2 - done, "write")
  /\ UNCHANGED <<queue, errors, done, reset, recalibrate>>

(* The drive does not ask for the data in time: goto repeat. *)
WriteTimeout ==
  /\ Ready /\ ~reset /\ ~recalibrate /\ CURRENT.cmd = WRITE
  /\ do_hd' = "write"
  /\ bad_rw_intr
  /\ UNCHANGED <<drive, recalibrate, strategy>>
-----------------------------------------------------------------------------
(* A drive's interrupt.  hd_interrupt clears do_hd and calls what it was.  *)
(* In make_request()'s window there is no time for another one after a     *)
(* request has been served in it.                                          *)
Interrupt(handler) ==
  /\ ~strategy /\ drive.cmd # "none" /\ do_hd = handler
  /\ CpuFree \/ "served" \notin ended

(* One sector has been moved.  The last one ends the request, and          *)
(* do_hd_request() looks for the next.                                     *)
Moved ==
  \/ /\ done = 0
     /\ done' = 1
     /\ drive' = [cmd |-> drive.cmd, at |-> drive.at + 1, left |-> drive.left - 1]
     /\ UNCHANGED <<queue, do_hd, strategy>>
  \/ /\ done = 1
     /\ EndRequest
     /\ drive' = NoCommand
     /\ do_hd' = "none"
     /\ strategy' = TRUE

Failed ==
  /\ bad_rw_intr
  /\ drive' = NoCommand
  /\ do_hd' = "none"
  /\ strategy' = TRUE
  /\ UNCHANGED recalibrate

read_intr ==
  /\ Interrupt("read")
  /\ Moved
  /\ errors' = 0
  /\ UNCHANGED <<reset, recalibrate>>

write_intr ==
  /\ Interrupt("write")
  /\ Moved
  /\ done = 0 => UNCHANGED errors
  /\ UNCHANGED <<reset, recalibrate>>

(* win_result() of either is not 0. *)
rw_error == (Interrupt("read") \/ Interrupt("write")) /\ Failed

recal_intr ==
  /\ Interrupt("recal")
  /\ drive' = NoCommand
  /\ do_hd' = "none"
  /\ strategy' = TRUE
  /\ UNCHANGED <<queue, errors, done, reset, recalibrate>>

recal_error == Interrupt("recal") /\ Failed
-----------------------------------------------------------------------------
(* A task's part of the queue.  add_request() calls do_hd_request() if the *)
(* list was empty.                                                         *)
Task(b) ==
  /\ ~strategy
  /\ (\E cmd \in {READ, WRITE} : make_request(b, cmd)) \/ Repeat(b)
  /\ strategy' = (list = <<>> /\ list' # <<>>)
  /\ UNCHANGED <<do_hd, drive, errors, done, reset, recalibrate>>

Sleeps(b) == ~strategy /\ SleepForRequest(b) /\ UNCHANGED hd

do_hd_request ==
  NoRequest \/ OutOfRange \/ reset_hd \/ Recalibrate \/ StartRead \/ StartWrite \/ WriteTimeout
hd_interrupt == read_intr \/ write_intr \/ rw_error \/ recal_intr \/ recal_error

HdNext == do_hd_request \/ hd_interrupt \/ \E b \in Blocks : Task(b) \/ Sleeps(b)
-----------------------------------------------------------------------------
(* Whatever was interrupted, retried or reset before, a transfer is for    *)
(* the request at the head of the list, in its direction, goes on exactly  *)
(* where that request stands, and stays in its partition (hd.c:250-341).   *)
RightSectors ==
  drive.cmd \in {"read", "write"} =>
    /\ list # <<>>
    /\ drive.cmd = IF CURRENT.cmd = READ THEN "read" ELSE "write"
    /\ do_hd = drive.cmd
    /\ drive.at = start_sect + CURRENT.sector + done /\ drive.left = 2 - done
    /\ drive.at + drive.left =< start_sect + nr_sects
    /\ ~reset /\ ~recalibrate

(* The driver is what the queue takes it for: each request ends once, with *)
(* its waiters told, and all of them end, even on a drive that answers     *)
(* every command with an error.                                            *)
DrivesQueue == FairSpec
=============================================================================
