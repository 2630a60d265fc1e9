------------------------------- MODULE Floppy -------------------------------
(***************************************************************************)
(* kernel/blk_drv/floppy.c: the driver of one floppy drive.                *)
(*                                                                         *)
(* The driver is one chain of functions: do_fd_request(), the motor's      *)
(* timer, and the interrupts of the controller.  `do_floppy' names the     *)
(* next of them; "request" is do_fd_request() itself, which nothing        *)
(* interrupts.  The controller may report an error for any command, or not *)
(* take its bytes or give its result in time (output_byte(), result()).    *)
(* The heads are where the last command left them, and after a failed seek *)
(* anywhere.  A task asks for a block only when the controller is not busy *)
(* with a reset on an empty list: see FdTask.                              *)
(***************************************************************************)
EXTENDS RequestQueue

CONSTANTS FD_MAX_ERRORS,
          FdSect, FdHead,           \* floppy_type[]
          FdBlocks,                 \* bound: the blocks that are asked for
          MaxStuck                  \* bound: failures that the driver does not count

ASSUME FdGeometry ==
  /\ FD_MAX_ERRORS \in Nat /\ FdSect \in Nat \ {0} /\ FdHead \in Nat \ {0}
  /\ MaxStuck \in Nat /\ FdBlocks \subseteq Blocks

VARIABLES do_floppy,
          fd_errors,                \* of CURRENT
          fd_reset, fd_recalibrate,
          current_track,            \* where the driver takes the heads to be
          at,                       \* where they are
          stuck                     \* failures since the last answer that counts

fd == <<do_floppy, fd_errors, fd_reset, fd_recalibrate, current_track, at, stuck>>

Track(sector) == (sector \div FdSect) \div FdHead
Anywhere == 0 .. Track(nr_sects)

(* floppy_type[]: two heads, so a cylinder has an even number of sectors,  *)
(* and at most 80 tracks: no track has the number 255 of "not known".      *)
ASSUME FdTracks == (FdSect * FdHead) % 2 = 0 /\ Track(nr_sects) < 255

seek_track == Track(Head(list).sector)

FdInit ==
  /\ do_floppy = "none"
  /\ fd_errors = 0
  /\ fd_reset = FALSE
  /\ fd_recalibrate = FALSE
  /\ current_track = 255
  /\ at \in Anywhere
  /\ stuck = 0
-----------------------------------------------------------------------------
FdEnd == EndHead /\ fd_errors' = 0

(* Bug: the heads are taken to be where they were. *)
bad_flp_intr_stays ==
  IF fd_errors + 1 > FD_MAX_ERRORS THEN FdEnd /\ UNCHANGED <<fd_reset, fd_recalibrate>>
  ELSE /\ fd_errors' = fd_errors + 1
       /\ fd_reset' = (fd_reset \/ fd_errors + 1 > FD_MAX_ERRORS \div 2)
       /\ UNCHANGED <<vars, fd_recalibrate>>

(* bad_flp_intr(), after a failure or when output_byte() or result() has   *)
(* given up and set reset.  After end_request() it looks at the errors of  *)
(* the next request, which are 0, or through a null pointer.               *)
bad_flp_intr ==
  \E timeout \in BOOLEAN :
    \/ /\ fd_errors + 1 > FD_MAX_ERRORS
       /\ FdEnd
       /\ \/ fd_recalibrate' = TRUE /\ fd_reset' = (fd_reset \/ timeout)
          \/ Len(list) = 1 /\ fd_reset' = TRUE /\ UNCHANGED fd_recalibrate
    \/ /\ fd_errors + 1 =< FD_MAX_ERRORS
       /\ fd_errors' = fd_errors + 1
       /\ IF fd_errors + 1 > FD_MAX_ERRORS \div 2
          THEN fd_reset' = TRUE /\ UNCHANGED fd_recalibrate
          ELSE fd_recalibrate' = TRUE /\ fd_reset' = (fd_reset \/ timeout)
       /\ UNCHANGED vars

(* The bytes of a command: the interrupt will call handler, or the         *)
(* controller does not take them, and do_fd_request() is called to reset.  *)
output_bytes(handler) ==
  \/ /\ do_floppy' = handler
     /\ UNCHANGED <<fd_reset, stuck>>
  \/ /\ stuck < MaxStuck
     /\ do_floppy' = "request"
     /\ fd_reset' = TRUE
     /\ stuck' = stuck + 1
-----------------------------------------------------------------------------
(* do_fd_request() *)
reset_floppy ==
  /\ do_floppy = "request" /\ fd_reset
  /\ fd_reset' = FALSE
  /\ fd_recalibrate' = TRUE
  /\ do_floppy' = "reset"
  /\ UNCHANGED <<vars, fd_errors, current_track, at, stuck>>

recalibrate_floppy ==
  /\ do_floppy = "request" /\ ~fd_reset /\ fd_recalibrate
  /\ fd_recalibrate' = FALSE
  /\ current_track' = 0
  /\ output_bytes("recal")
  /\ UNCHANGED <<vars, fd_errors, at>>

FdReady == do_floppy = "request" /\ ~fd_reset /\ ~fd_recalibrate

FdNone ==
  /\ FdReady /\ list = <<>>
  /\ do_floppy' = "none"
  /\ UNCHANGED <<vars, fd_errors, fd_reset, fd_recalibrate, current_track, at, stuck>>

FdOutOfRange ==
  /\ FdReady /\ list # <<>> /\ TooFar(Head(list).sector)
  /\ FdEnd
  /\ UNCHANGED <<do_floppy, fd_reset, fd_recalibrate, current_track, at, stuck>>

(* ticks_to_floppy_on(), and floppy_on_interrupt() when the motor runs. *)
MotorOn ==
  /\ FdReady /\ list # <<>> /\ ~TooFar(Head(list).sector)
  /\ do_floppy' = "on"
  /\ UNCHANGED <<vars, fd_errors, fd_reset, fd_recalibrate, current_track, at, stuck>>
-----------------------------------------------------------------------------
(* An interrupt of the timer or of the controller.  In make_request()'s    *)
(* window none comes after a request has been served in it.                *)
FdInterrupt(handler) ==
  /\ do_floppy = handler
  /\ CpuFree \/ "served" \notin ended

(* transfer(): seek first, unless the heads are there. *)
transfer ==
  /\ FdInterrupt("on")
  /\ output_bytes(IF seek_track # current_track THEN "seek" ELSE "rw")
  /\ UNCHANGED <<vars, fd_errors, fd_recalibrate, current_track, at>>

(* seek_interrupt() goes on with setup_rw_floppy(). *)
seek_interrupt ==
  /\ FdInterrupt("seek")
  /\ at' = seek_track
  /\ current_track' = seek_track
  /\ output_bytes("rw")
  /\ UNCHANGED <<vars, fd_errors, fd_recalibrate>>

seek_error ==
  /\ FdInterrupt("seek")
  /\ at' \in Anywhere
  /\ bad_flp_intr
  /\ do_floppy' = "request"
  /\ stuck' = 0
  /\ UNCHANGED current_track

(* rw_interrupt(): the block has been moved, or the disk is protected, or  *)
(* result() has given up and an old reply says that the disk is protected. *)
rw_interrupt ==
  /\ FdInterrupt("rw")
  /\ FdEnd
  /\ fd_reset' \in {fd_reset, TRUE}
  /\ do_floppy' = "request"
  /\ stuck' = 0
  /\ UNCHANGED <<fd_recalibrate, current_track, at>>

fd_rw_error ==
  /\ FdInterrupt("rw")
  /\ bad_flp_intr
  /\ do_floppy' = "request"
  /\ stuck' = 0
  /\ UNCHANGED <<current_track, at>>

(* recal_interrupt(): an error resets the controller and is not counted. *)
recal_interrupt ==
  /\ FdInterrupt("recal")
  /\ \/ /\ at' = 0
        /\ fd_recalibrate' = FALSE
        /\ UNCHANGED <<fd_reset, stuck>>
     \/ /\ stuck < MaxStuck
        /\ stuck' = stuck + 1
        /\ fd_reset' = TRUE
        /\ UNCHANGED <<fd_recalibrate, at>>
  /\ do_floppy' = "request"
  /\ UNCHANGED <<vars, fd_errors, current_track>>

reset_interrupt ==
  /\ FdInterrupt("reset")
  /\ output_bytes("request")
  /\ UNCHANGED <<vars, fd_errors, fd_recalibrate, current_track, at>>
-----------------------------------------------------------------------------
(* A task's part of the queue.  add_request() calls do_fd_request() if the *)
(* list was empty; the model excludes that it does so while a reset goes   *)
(* on for a request that has been given up, because then two chains run.   *)
FdTask(b) ==
  /\ IF list = <<>> THEN do_floppy = "none" ELSE do_floppy # "request"
  /\ (\E cmd \in {READ, WRITE} : make_request(b, cmd)) \/ Repeat(b)
  /\ do_floppy' = IF list = <<>> /\ list' # <<>> THEN "request" ELSE do_floppy
  /\ UNCHANGED <<fd_errors, fd_reset, fd_recalibrate, current_track, at, stuck>>

FdSleeps(b) == do_floppy # "request" /\ SleepForRequest(b) /\ UNCHANGED fd

do_fd_request == reset_floppy \/ recalibrate_floppy \/ FdNone \/ FdOutOfRange \/ MotorOn
floppy_interrupt ==
  transfer \/ seek_interrupt \/ seek_error \/ rw_interrupt \/ fd_rw_error
  \/ recal_interrupt \/ reset_interrupt

FdNext == do_fd_request \/ floppy_interrupt \/ \E b \in FdBlocks : FdTask(b) \/ FdSleeps(b)
-----------------------------------------------------------------------------
(* Whatever failed before, a transfer is for the request at the head of    *)
(* the list, and the heads are over its track when it starts, although the *)
(* driver only knows current_track; both sectors of the block are on that  *)
(* track (floppy.c:291-338, 417-455).                                      *)
RightTrack ==
  do_floppy = "rw" =>
    /\ list # <<>>
    /\ at = seek_track /\ at = Track(Head(list).sector + 1)
    /\ ~fd_reset /\ ~fd_recalibrate
=============================================================================
