-------------------------------- MODULE Pipe --------------------------------
(***************************************************************************)
(* read_pipe() and write_pipe() of fs/pipe.c on one pipe, and the closing  *)
(* of its ends (iput() in fs/inode.c).  Tasks share the two file           *)
(* structures through fork(), so there may be several readers and writers; *)
(* i_count is the number of ends that are still open.                      *)
(*                                                                         *)
(* A task runs until it sleeps or returns; cpu is the task inside such a   *)
(* stretch.  An action moves one chunk, the body of the outer loop.  The   *)
(* user's buffer is in memory: the copy does not fault (see the README).   *)
(* All tasks asleep on i_wait are woken by a wake_up() (SleepOn).          *)
(***************************************************************************)
EXTENDS Integers, Sequences, FiniteSets, Functions

CONSTANTS Readers, Writers, NULL,
          PAGE_SIZE,     \* size of the ring, a power of two in the code
          MaxCount,      \* bound: bytes of one read() or write()
          MaxBytes       \* bound: bytes written altogether

ASSUME PipeConstants ==
  /\ Readers \cap Writers = {} /\ NULL \notin Readers \cup Writers
  /\ PAGE_SIZE \in Nat /\ PAGE_SIZE > 1
  /\ MaxCount \in Nat /\ MaxBytes \in Nat

Tasks == Readers \cup Writers
Ends == {"read", "write"}

VARIABLES head, tail,    \* PIPE_HEAD, PIPE_TAIL (i_zone[0], i_zone[1])
          page,          \* the ring at i_size
          open,          \* the ends that are open: i_count = Cardinality(open)
          pc,            \* "idle", "loop", "asleep"
          count,         \* what is left of the call's count
          cpu,           \* the task that may not be preempted, or NULL
          sent,          \* bytes written so far; the next one is sent + 1
          received,      \* bytes delivered so far
          eof            \* callers that were told that the other end is closed

vars == <<head, tail, page, open, pc, count, cpu, sent, received, eof>>

Mask(n) == n % PAGE_SIZE             \* n & (PAGE_SIZE-1)

(* PIPE_SIZE(inode) of fs.h. *)
PIPE_SIZE == Mask(head - tail)

Side(t) == IF t \in Readers THEN "read" ELSE "write"

Init ==
  /\ head = 0 /\ tail = 0
  /\ page = [i \in 0 .. PAGE_SIZE - 1 |-> 0]
  /\ open = Ends
  /\ pc = [t \in Tasks |-> "idle"]
  /\ count = [t \in Tasks |-> 0]
  /\ cpu = NULL
  /\ sent = 0 /\ received = 0
  /\ eof = {}
-----------------------------------------------------------------------------
Runs(t) == cpu \in {t, NULL}

(* Bugs: no wakeup at all; a ring that may be filled to the last byte; a   *)
(* last byte that the reader does not see.                                 *)
wake_up_none == pc
Room_full == PAGE_SIZE - PIPE_SIZE
Stuck_off(t) ==
  IF t \in Readers THEN PIPE_SIZE =< 1 ELSE PIPE_SIZE = PAGE_SIZE - 1

wake_up == [t \in Tasks |-> IF pc[t] = "asleep" THEN "loop" ELSE pc[t]]

(* The free space of the ring; one byte stays unused. *)
Room == (PAGE_SIZE - 1) - PIPE_SIZE

(* The condition of the inner while loops: `!(size = ...)'. *)
Stuck(t) == IF t \in Readers THEN PIPE_SIZE = 0 ELSE Room = 0

Min3(a, b, c) == IF a < b THEN (IF a < c THEN a ELSE c) ELSE (IF b < c THEN b ELSE c)

(* read(fd, buf, n), write(fd, buf, n) on an open end. *)
Call(t, n) ==
  /\ cpu = NULL
  /\ pc[t] = "idle"
  /\ Side(t) \in open
  /\ t \in Writers => sent + SumFunctionOnSet(count, Writers) + n =< MaxBytes
  /\ pc' = [pc EXCEPT ![t] = "loop"]
  /\ count' = [count EXCEPT ![t] = n]
  /\ cpu' = t
  /\ UNCHANGED <<head, tail, page, open, sent, received, eof>>

(* The loop is done, count = 0: wake_up() and return. *)
Done(t) ==
  /\ pc[t] = "loop" /\ Runs(t)
  /\ count[t] = 0
  /\ pc' = [wake_up EXCEPT ![t] = "idle"]
  /\ cpu' = NULL
  /\ UNCHANGED <<head, tail, page, open, count, sent, received, eof>>

(* The inner while: nothing to read, or no room.  Wake the others, then    *)
(* return if the other end is closed, or sleep.                            *)
Blocked(t) ==
  /\ pc[t] = "loop" /\ Runs(t)
  /\ count[t] > 0
  /\ Stuck(t)
  /\ cpu' = NULL
  /\ \/ /\ Cardinality(open) # 2
        /\ pc' = [wake_up EXCEPT ![t] = "idle"]
        /\ count' = [count EXCEPT ![t] = 0]
        /\ eof' = eof \cup {t}
     \/ /\ Cardinality(open) = 2
        /\ pc' = [wake_up EXCEPT ![t] = "asleep"]
        /\ UNCHANGED <<count, eof>>
  /\ UNCHANGED <<head, tail, page, open, sent, received>>

(* read_pipe(): one chunk, up to the end of the page.  The bytes are those *)
(* from the old tail on (pipe.c:31-35): `received' counts them.            *)
ReadChunk(t) ==
  LET chars == Min3(PAGE_SIZE - tail, count[t], PIPE_SIZE) IN
  /\ t \in Readers
  /\ pc[t] = "loop" /\ Runs(t)
  /\ count[t] > 0 /\ PIPE_SIZE > 0
  /\ tail' = Mask(tail + chars)
  /\ count' = [count EXCEPT ![t] = @ - chars]
  /\ received' = received + chars
  /\ cpu' = t
  /\ UNCHANGED <<head, page, open, pc, sent, eof>>

(* write_pipe(): one chunk, up to the end of the page. *)
WriteChunk(t) ==
  LET chars == Min3(PAGE_SIZE - head, count[t], Room) IN
  /\ t \in Writers
  /\ pc[t] = "loop" /\ Runs(t)
  /\ count[t] > 0 /\ Room > 0
  /\ head' = Mask(head + chars)
  /\ page' = [i \in 0 .. PAGE_SIZE - 1 |->
                IF i \in head .. head + chars - 1 THEN sent + (i - head) + 1 ELSE page[i]]
  /\ count' = [count EXCEPT ![t] = @ - chars]
  /\ sent' = sent + chars
  /\ cpu' = t
  /\ UNCHANGED <<tail, open, pc, received, eof>>

(* The last close of an end: iput() wakes i_wait and drops i_count.  A     *)
(* file structure is not closed while a call uses it.                      *)
Close(end) ==
  /\ cpu = NULL
  /\ end \in open
  /\ \A t \in Tasks : Side(t) = end => pc[t] = "idle"
  /\ open' = open \ {end}
  /\ pc' = wake_up
  /\ UNCHANGED <<head, tail, page, count, cpu, sent, received, eof>>

TaskStep(t) == Done(t) \/ Blocked(t) \/ ReadChunk(t) \/ WriteChunk(t)

Next ==
  \/ \E t \in Tasks, n \in 1..MaxCount : Call(t, n)
  \/ \E t \in Tasks : TaskStep(t)
  \/ \E end \in Ends : Close(end)

Spec == Init /\ [][Next]_vars

(* schedule() lets every runnable task run: a task that keeps the others   *)
(* from the CPU uses up its counter, and theirs are larger then.           *)
FairSpec == Spec /\ \A t \in Tasks : SF_vars(TaskStep(t))
-----------------------------------------------------------------------------
(* The bytes in the ring, oldest first. *)
Contents == [i \in 1..PIPE_SIZE |-> page[Mask(tail + i - 1)]]

C == INSTANCE Channel WITH Capacity <- PAGE_SIZE - 1, chan <- Contents

(* The pipe is a first-in first-out channel: pipe.c:14-69 delivers every   *)
(* byte once and in order, whatever the chunks, the wrap-around of the     *)
(* ring and the interleaving of readers and writers.                       *)
IsChannel == C!Spec

TypeOK ==
  /\ head \in 0 .. PAGE_SIZE - 1 /\ tail \in 0 .. PAGE_SIZE - 1
  /\ page \in [0 .. PAGE_SIZE - 1 -> 0 .. MaxBytes]
  /\ open \subseteq Ends
  /\ pc \in [Tasks -> {"idle", "loop", "asleep"}]
  /\ count \in [Tasks -> 0 .. MaxCount]
  /\ cpu \in Tasks \cup {NULL}
  /\ sent \in 0 .. MaxBytes /\ received \in 0 .. MaxBytes
  /\ eof \subseteq Tasks

(* Nobody sleeps for nothing: between two stretches a sleeping reader has  *)
(* an empty pipe and a sleeping writer a full one, and the other end is    *)
(* open.  So readers and writers never sleep on each other.                *)
SleepIsJustified ==
  cpu = NULL => \A t \in Tasks : pc[t] = "asleep" =>
    /\ open = Ends
    /\ IF t \in Readers THEN PIPE_SIZE = 0 ELSE Room = 0

(* End of file is told only when every byte was delivered and the writers  *)
(* are gone.                                                               *)
EofIsTrue ==
  eof \cap Readers # {} => "write" \notin open /\ received = sent

(* When one end is closed the callers at the other end do not hang: each   *)
(* call returns, also if it was asleep at that moment.                     *)
CloseIsNoticed ==
  \A t \in Tasks : (open # Ends /\ pc[t] # "idle") ~> pc[t] = "idle"
=============================================================================
