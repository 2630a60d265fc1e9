------------------------------ MODULE MCDrives ------------------------------
(***************************************************************************)
(* The request queue with a hard disk or with a floppy drive behind it.    *)
(***************************************************************************)
EXTENDS HardDisk, Floppy

VARIABLE major    \* of the device: 2 is the floppy, 3 the hard disk

all == <<vars, hd, fd, major>>

WithDisk(A) == major = 3 /\ A /\ UNCHANGED <<fd, major>>
WithFloppy(A) == major = 2 /\ A /\ UNCHANGED <<hd, major>>

DrivesInit == Init /\ HdInit /\ FdInit /\ major \in {2, 3}
DrivesNext == WithDisk(HdNext) \/ WithFloppy(FdNext)

(* The drives answer every command; code that has begun goes on. *)
DrivesSpec ==
  /\ DrivesInit /\ [][DrivesNext]_all
  /\ WF_all(WithDisk(do_hd_request)) /\ WF_all(WithDisk(hd_interrupt))
  /\ WF_all(WithFloppy(do_fd_request)) /\ WF_all(WithFloppy(floppy_interrupt))
  /\ \A b \in Blocks : WF_all(WithDisk(Sleeps(b)) \/ WithFloppy(FdSleeps(b)))
=============================================================================
