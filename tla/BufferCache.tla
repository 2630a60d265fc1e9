---------------------------- MODULE BufferCache ----------------------------
(***************************************************************************)
(* The buffer cache of fs/buffer.c on top of ll_rw_block()                 *)
(* (kernel/blk_drv/ll_rw_blk.c, blk.h), with tasks that read blocks,       *)
(* change them, release them and sync, and the interrupt that ends         *)
(* requests.                                                               *)
(*                                                                         *)
(* The kernel does not preempt itself: once a task runs, other tasks run   *)
(* only when it sleeps.  cpu is the task inside such a stretch, or NULL.   *)
(* The steps of a stretch are actions of their own, so the interrupt may   *)
(* come between any two of them, except where the code has cli().          *)
(*                                                                         *)
(* A task asleep in `while (bh->b_lock) sleep_on(&bh->b_wait)' is one that *)
(* is at that loop without the CPU: SleepOn shows that such a sleeper is   *)
(* woken once the lock is free, and here it may go on, in any order, from  *)
(* then on.  Tasks asleep on buffer_wait and wait_for_request are at pc    *)
(* "no_buffer" and "no_request" until somebody wakes that queue.           *)
(*                                                                         *)
(* The contents of a block are a version number; latest is what the last   *)
(* writer put into the block, disk what the device holds.                  *)
(*                                                                         *)
(* block_write() of a whole block does not mark its buffer up to date, so  *)
(* a bread() of that block before it is synced loses the write (README).   *)
(* Here a device is either Raw, and only written as a device file, or has  *)
(* a file system, and is only used through bread() and breada().           *)
(***************************************************************************)
EXTENDS BlkRequest

CONSTANTS Tasks, NULL,
          Buffers,      \* the buffer heads
          Order,        \* their order in memory, start_buffer first
          Keys,         \* the blocks in use, as <<device, block number>>
          Raw,          \* the devices that block_write() writes
          Ops,          \* Ops[t]: the calls task t makes
          Errors,       \* the commands the device may fail: {}, {READ}, ...
          MaxVersion    \* the versions of a block are 0 .. MaxVersion, and 0 again

NoKey == <<0, 0>>      \* b_dev = 0: the buffer was never used
Dev(k) == k[1]
Devs == {Dev(k) : k \in Keys}      \* one major each

ASSUME BufferOrder == Order \in Seq(Buffers) /\ IsInjective(Order) /\ Range(Order) = Buffers
ASSUME FewTasks == IsFiniteSet(Tasks) /\ NULL \notin Tasks \cup Buffers
ASSUME RealBlocks == Keys \subseteq (Nat \ {0}) \X Nat
ASSUME KnownOps ==
  Ops \in [Tasks -> SUBSET {"bread", "breada", "block_write", "sys_sync", "sync_dev"}]

(* breada() holds one buffer while it waits for another. *)
ASSUME EnoughBuffers ==
  Cardinality({t \in Tasks : "breada" \in Ops[t]}) < Cardinality(Buffers)

VARIABLES bh,       \* the buffer heads
          data,     \* b_data: the version each buffer holds
          list,     \* blk_dev[].current_request and its successors, per device
          moved,    \* the data of the current request have been transferred
          disk,     \* the version on the device, per block
          latest,   \* the version last written by a task, per block
          pc, f,    \* where each task is, and its local variables
          cpu       \* the task that may not be preempted, or NULL

vars == <<bh, data, list, moved, disk, latest, pc, f, cpu>>
device == <<list, moved, disk>>

NR_BUFFERS == Len(Order)
NoFrame == [op |-> "none", key |-> NoKey, ahead |-> NoKey, first |-> NULL,
            bh |-> NULL, rq |-> NULL, rw |-> READ, ra |-> FALSE,
            i |-> 0, dev |-> 0]

Init ==
  /\ bh = [b \in Buffers |-> [key |-> NoKey, count |-> 0, dirt |-> FALSE,
                              lock |-> FALSE, uptodate |-> FALSE]]
  /\ data = [b \in Buffers |-> 0]
  /\ list = [d \in Devs |-> <<>>]
  /\ moved = [d \in Devs |-> FALSE]
  /\ disk = [k \in Keys |-> 0]
  /\ latest = [k \in Keys |-> 0]
  /\ pc = [t \in Tasks |-> "idle"]
  /\ f = [t \in Tasks |-> NoFrame]
  /\ cpu = NULL
-----------------------------------------------------------------------------
(* Control. *)

(* t is at label l and may run: it has the CPU or nobody has. *)
At(t, l) == pc[t] = l /\ cpu \in {t, NULL}

(* t goes on to label l with locals fr, keeping the CPU. *)
Goto(t, l, fr) ==
  /\ pc' = [pc EXCEPT ![t] = l]
  /\ f' = [f EXCEPT ![t] = fr]
  /\ cpu' = t

(* t goes to label l and gives up the CPU: it sleeps, or it is back in     *)
(* user mode.                                                              *)
Yield(t, l, fr) ==
  /\ pc' = [pc EXCEPT ![t] = l]
  /\ f' = [f EXCEPT ![t] = fr]
  /\ cpu' = NULL

(* wake_up(): every task asleep at label l goes on at label next.          *)
Wake(labels, l, next) == [t \in Tasks |-> IF labels[t] = l THEN next ELSE labels[t]]

(* The buffer sync_dev() and sys_sync() are at, in round i of their loops. *)
SyncBuffer(i) == Order[((i - 1) % NR_BUFFERS) + 1]

(* The buffer whose lock t waits for, in the loops of wait_on_buffer() and *)
(* lock_buffer().                                                          *)
Awaited(t) ==
  CASE pc[t] \in {"hashed", "victim", "wait_read", "release"} -> f[t].bh
    [] pc[t] = "lock_buffer" -> f[t].rq
    [] pc[t] = "sync_wait" -> SyncBuffer(f[t].i)
    [] OTHER -> NULL

Sleep(t) ==
  /\ cpu = t
  /\ Awaited(t) # NULL
  /\ bh[Awaited(t)].lock
  /\ ~f[t].ra
  /\ cpu' = NULL
  /\ UNCHANGED <<bh, data, device, latest, pc, f>>
-----------------------------------------------------------------------------
(* Bugs of getblk(): no test of b_count after the sleep, no second look    *)
(* into the hash table, no writing out, no waiting for the lock.           *)
TakenMeanwhile_never(b) == FALSE
AddedMeanwhile_never(k) == FALSE
MustSync_never(b) == FALSE
Settled_always(b) == TRUE

(* find_buffer(): the buffers hashed under block k. *)
find_buffer(k) == {b \in Buffers : bh[b].key = k}

TakenMeanwhile(b) == bh[b].count > 0
AddedMeanwhile(k) == find_buffer(k) # {}
MustSync(b) == bh[b].dirt
Settled(b) == ~bh[b].lock

BADNESS(b) == (IF bh[b].dirt THEN 2 ELSE 0) + (IF bh[b].lock THEN 1 ELSE 0)

Unused == {b \in Buffers : bh[b].count = 0}

(* The do-while of getblk(): a least bad one of the unused buffers.  Ties  *)
(* go to the order of the free list, which is left open here.              *)
Victims == {b \in Unused : \A c \in Unused : BADNESS(b) =< BADNESS(c)}

(* getblk() from `repeat:' up to its first wait. *)
Getblk(t) ==
  /\ At(t, "getblk")
  /\ \/ \E b \in find_buffer(f[t].key) :
          /\ bh' = [bh EXCEPT ![b].count = @ + 1]
          /\ Goto(t, "hashed", [f[t] EXCEPT !.bh = b])
     \/ /\ find_buffer(f[t].key) = {}
        /\ \E b \in Victims : Goto(t, "victim", [f[t] EXCEPT !.bh = b])
        /\ UNCHANGED bh
     \/ /\ find_buffer(f[t].key) = {}
        /\ Unused = {}
        /\ Yield(t, "no_buffer", f[t])
        /\ UNCHANGED bh
  /\ UNCHANGED <<data, device, latest>>

(* get_hash_table() after wait_on_buffer(): is it still our block? *)
Hashed(t) ==
  LET b == f[t].bh IN
  /\ At(t, "hashed")
  /\ ~bh[b].lock
  /\ IF bh[b].key = f[t].key
     THEN Goto(t, "got", f[t]) /\ UNCHANGED bh
     ELSE /\ bh' = [bh EXCEPT ![b].count = @ - 1]
          /\ Goto(t, "getblk", f[t])
  /\ UNCHANGED <<data, device, latest>>

(* sync_dev() and sys_sync(): the loop over all buffers, made twice by     *)
(* sync_dev().  sync_inodes() is left out: no inode is dirty.              *)
SyncEnd(fr) == IF fr.op = "sys_sync" THEN NR_BUFFERS ELSE 2 * NR_BUFFERS
OnSyncDev(fr, b) == fr.op = "sys_sync" \/ Dev(bh[b].key) = fr.dev

(* Go on with the loop at its next buffer of the device, or return: to the *)
(* wait_on_buffer(bh) of getblk(), or out of the system call.              *)
SyncFrom(t, fr, from) ==
  LET left == {j \in from .. SyncEnd(fr) : OnSyncDev(fr, SyncBuffer(j))}
  IN  IF left # {} THEN Goto(t, "sync_wait", [fr EXCEPT !.i = Min(left), !.rq = NULL])
      ELSE IF fr.key # NoKey
      THEN Goto(t, "victim", [fr EXCEPT !.i = 0, !.dev = 0, !.rq = NULL])
      ELSE Yield(t, "idle", NoFrame)

(* A bug: the new buffer is not marked as out of date. *)
Claim_uptodate(b, k) ==
  bh' = [bh EXCEPT ![b].key = k, ![b].count = 1, ![b].dirt = FALSE]

(* The end of getblk(): the buffer becomes the one of its new block. *)
Claim(b, k) ==
  bh' = [bh EXCEPT ![b] = [key |-> k, count |-> 1, dirt |-> FALSE,
                           lock |-> @.lock, uptodate |-> FALSE]]

(* getblk() after wait_on_buffer(bh), before and inside the loop over      *)
(* b_dirt: used meanwhile; dirty; our block added by somebody else while   *)
(* we slept; or ours to take.                                              *)
Victim(t) ==
  LET b == f[t].bh
      k == f[t].key IN
  /\ At(t, "victim")
  /\ Settled(b)
  /\ \/ /\ TakenMeanwhile(b) \/ (~MustSync(b) /\ AddedMeanwhile(k))
        /\ Goto(t, "getblk", f[t])
        /\ UNCHANGED bh
     \/ /\ ~TakenMeanwhile(b) /\ MustSync(b)
        /\ SyncFrom(t, [f[t] EXCEPT !.dev = Dev(bh[b].key)], 1)
        /\ UNCHANGED bh
     \/ /\ ~TakenMeanwhile(b) /\ ~MustSync(b) /\ ~AddedMeanwhile(k)
        /\ Claim(b, k)
        /\ Goto(t, "got", f[t])
  /\ UNCHANGED <<data, device, latest>>
-----------------------------------------------------------------------------
(* ll_rw_block(rw, rq), up to its first wait; its callers' locals are fr.  *)
ll_rw_block(t, fr, rw, rq, ra) ==
  Goto(t, "lock_buffer", [fr EXCEPT !.rw = rw, !.rq = rq, !.ra = ra])

(* What follows the call of ll_rw_block(): the sync loop, the wait of      *)
(* bread(), or the next argument of breada().                              *)
AfterRW(t, fr) ==
  IF fr.i > 0 THEN SyncFrom(t, fr, fr.i + 1)
  ELSE Goto(t, IF fr.op = "bread" THEN "wait_read"
               ELSE IF fr.first = NULL THEN "ahead" ELSE "ahead_done",
            [fr EXCEPT !.rq = NULL, !.rw = READ, !.ra = FALSE])

(* sync_dev(), sys_sync() after wait_on_buffer(). *)
SyncWait(t) ==
  LET b == SyncBuffer(f[t].i) IN
  /\ At(t, "sync_wait")
  /\ ~bh[b].lock
  /\ IF OnSyncDev(f[t], b) /\ bh[b].dirt
     THEN ll_rw_block(t, f[t], WRITE, b, FALSE)
     ELSE SyncFrom(t, f[t], f[t].i + 1)
  /\ UNCHANGED <<bh, data, device, latest>>

NothingToDo(b, rw) ==
  (rw = WRITE /\ ~bh[b].dirt) \/ (rw = READ /\ bh[b].uptodate)

(* make_request() up to `repeat:'.  A read-ahead of a locked buffer is     *)
(* dropped; else lock_buffer(), and unlock again if there is nothing to do.*)
LockBuffer(t) ==
  LET b == f[t].rq IN
  /\ At(t, "lock_buffer")
  /\ \/ /\ bh[b].lock /\ f[t].ra
        /\ AfterRW(t, f[t])
        /\ UNCHANGED bh
     \/ /\ ~bh[b].lock /\ NothingToDo(b, f[t].rw)
        /\ AfterRW(t, f[t])
        /\ UNCHANGED bh
     \/ /\ ~bh[b].lock /\ ~NothingToDo(b, f[t].rw)
        /\ bh' = [bh EXCEPT ![b].lock = TRUE]
        /\ Goto(t, "find_request", f[t])
  /\ UNCHANGED <<data, device, latest>>

UsedSlots == UNION {{list[d][i].slot : i \in DOMAIN list[d]} : d \in Devs}

(* add_request() clears b_dirt whatever the command is. *)
Queued(b) == [bh EXCEPT ![b].dirt = FALSE]

(* make_request() from `repeat:': queue the request, or find no free entry *)
(* and sleep on wait_for_request, or forget it if it was a read-ahead.     *)
FindRequest(t) ==
  LET b == f[t].rq
      d == Dev(bh[b].key)
      free == FreeSlots(UsedSlots, f[t].rw) IN
  /\ At(t, "find_request")
  /\ \/ /\ free # {}
        /\ list' = [list EXCEPT ![d] = add_request(@,
             [cmd |-> f[t].rw, dev |-> d, sector |-> 2 * bh[b].key[2], bh |-> b,
              slot |-> find_request(UsedSlots, f[t].rw)])]
        /\ bh' = Queued(b)
        /\ AfterRW(t, f[t])
     \/ /\ free = {}
        /\ IF f[t].ra
           THEN bh' = [bh EXCEPT ![b].lock = FALSE] /\ AfterRW(t, f[t])
           ELSE Yield(t, "no_request", f[t]) /\ UNCHANGED bh
        /\ UNCHANGED list
  /\ UNCHANGED <<data, moved, disk, latest>>
-----------------------------------------------------------------------------
(* Bugs of brelse(): it forgets the count, or the waiters. *)
Put_keeps(b) == bh
WakeBufferWait_none == pc

Put(b) == [bh EXCEPT ![b].count = @ - 1]
WakeBufferWait == Wake(pc, "no_buffer", "getblk")

(* The tail of brelse(), once the buffer is unlocked; t returns to user mode. *)
Brelse(t, b) ==
  /\ bh' = Put(b)
  /\ pc' = [WakeBufferWait EXCEPT ![t] = "idle"]
  /\ f' = [f EXCEPT ![t] = NoFrame]
  /\ cpu' = NULL

(* The call returned b to its caller, which now uses it. *)
Hold(t, b) == Yield(t, "hold", [NoFrame EXCEPT !.op = f[t].op, !.bh = b])

(* getblk() has returned: to block_write(), to bread(), or to breada().    *)
(* breada() asks for its ahead block with the wrong buffer head.           *)
Got(t) ==
  LET b == f[t].bh IN
  /\ At(t, "got")
  /\ CASE f[t].op = "block_write" -> Hold(t, b)
       [] f[t].op = "bread" ->
            IF bh[b].uptodate THEN Hold(t, b)
            ELSE ll_rw_block(t, f[t], READ, b, FALSE)
       [] f[t].op = "breada" /\ f[t].first = NULL ->
            IF bh[b].uptodate THEN Goto(t, "ahead", f[t])
            ELSE ll_rw_block(t, f[t], READ, b, FALSE)
       [] OTHER ->
            IF bh[b].uptodate THEN Goto(t, "ahead_done", f[t])
            ELSE ll_rw_block(t, f[t], READ, f[t].first, TRUE)
  /\ UNCHANGED <<bh, data, device, latest>>

(* breada(): tmp = getblk(dev, first) for the next argument. *)
Ahead(t) ==
  /\ At(t, "ahead")
  /\ Goto(t, "getblk", [f[t] EXCEPT !.first = f[t].bh, !.bh = NULL, !.key = f[t].ahead])
  /\ UNCHANGED <<bh, data, device, latest>>

(* breada(): tmp->b_count--, without a wakeup for buffer_wait. *)
AheadDone(t) ==
  /\ At(t, "ahead_done")
  /\ bh' = [bh EXCEPT ![f[t].bh].count = @ - 1]
  /\ Goto(t, "wait_read", [f[t] EXCEPT !.bh = f[t].first, !.first = NULL])
  /\ UNCHANGED <<data, device, latest>>

(* bread(), breada() after wait_on_buffer(): return it, or brelse() it and *)
(* return NULL.                                                            *)
WaitRead(t) ==
  LET b == f[t].bh IN
  /\ At(t, "wait_read")
  /\ ~bh[b].lock
  /\ \/ bh[b].uptodate /\ Hold(t, b) /\ UNCHANGED bh
     \/ ~bh[b].uptodate /\ Brelse(t, b)
  /\ UNCHANGED <<data, device, latest>>
-----------------------------------------------------------------------------
(* The tasks: the file system, block_read() and block_write() call bread(), *)
(* breada() and, for a whole block, getblk(); anybody may sync.             *)
Start(t, op, k) ==
  /\ At(t, "idle")
  /\ Goto(t, "getblk", [NoFrame EXCEPT !.op = op, !.key = k])
  /\ UNCHANGED <<bh, data, device, latest>>

StartAhead(t, k, ahead) ==
  /\ At(t, "idle")
  /\ Dev(ahead) = Dev(k) /\ ahead # k
  /\ Goto(t, "getblk", [NoFrame EXCEPT !.op = "breada", !.key = k, !.ahead = ahead])
  /\ UNCHANGED <<bh, data, device, latest>>

StartSync(t, op, d) ==
  /\ At(t, "idle")
  /\ SyncFrom(t, [NoFrame EXCEPT !.op = op, !.dev = d], 1)
  /\ UNCHANGED <<bh, data, device, latest>>

(* The holder of a buffer changes it: *p = ..., bh->b_dirt = 1.  After     *)
(* block_write()'s getblk() this overwrites the whole block.  It may do so *)
(* at any time, also while the buffer is being written, since nobody takes *)
(* b_lock for this, and as often as it likes.                              *)
Modify(t) ==
  LET b == f[t].bh
      k == bh[b].key
      new == IF latest[k] < MaxVersion THEN latest[k] + 1 ELSE 0 IN
  /\ At(t, "hold")
  /\ latest' = [latest EXCEPT ![k] = new]
  /\ data' = [data EXCEPT ![b] = new]
  /\ bh' = [bh EXCEPT ![b].dirt = TRUE]
  /\ UNCHANGED <<device, pc, f, cpu>>

(* brelse(): wait_on_buffer(), then its tail. *)
StartRelease(t) ==
  /\ At(t, "hold")
  /\ Goto(t, "release", f[t])
  /\ UNCHANGED <<bh, data, device, latest>>

Release(t) ==
  /\ At(t, "release")
  /\ ~bh[f[t].bh].lock
  /\ Brelse(t, f[t].bh)
  /\ UNCHANGED <<data, device, latest>>
-----------------------------------------------------------------------------
BlockOf(r) == <<r.dev, r.sector \div 2>>

(* External: the controller moves the data of the current request. *)
Transfer(d) ==
  LET r == Head(list[d]) IN
  /\ list[d] # <<>>
  /\ ~moved[d]
  /\ moved' = [moved EXCEPT ![d] = TRUE]
  /\ IF r.cmd = READ
     THEN data' = [data EXCEPT ![r.bh] = disk[BlockOf(r)]] /\ UNCHANGED disk
     ELSE disk' = [disk EXCEPT ![BlockOf(r)] = data[r.bh]] /\ UNCHANGED data
  /\ UNCHANGED <<bh, list, latest, pc, f, cpu>>

(* A bug: the end of a write removes the mark of what was written since.   *)
Ended_clean(b, ok) ==
  [bh EXCEPT ![b].uptodate = ok, ![b].lock = FALSE, ![b].dirt = FALSE]

Ended(b, ok) == [bh EXCEPT ![b].uptodate = ok, ![b].lock = FALSE]

(* end_request(uptodate), in the interrupt. *)
end_request(d, uptodate) ==
  LET r == Head(list[d]) IN
  /\ list[d] # <<>>
  /\ IF uptodate THEN moved[d] ELSE r.cmd \in Errors
  /\ bh' = Ended(r.bh, uptodate)
  /\ list' = [list EXCEPT ![d] = Tail(@)]
  /\ moved' = [moved EXCEPT ![d] = FALSE]
  /\ pc' = Wake(pc, "no_request", "find_request")
  /\ UNCHANGED <<data, disk, latest, f, cpu>>

TaskStep(t) ==
  \/ Sleep(t) \/ Getblk(t) \/ Hashed(t) \/ Victim(t) \/ SyncWait(t)
  \/ LockBuffer(t) \/ FindRequest(t) \/ Got(t) \/ Ahead(t) \/ AheadDone(t)
  \/ WaitRead(t) \/ Modify(t) \/ StartRelease(t) \/ Release(t)

Next ==
  \/ \E t \in Tasks : TaskStep(t)
  \/ \E t \in Tasks, k \in Keys :
       \/ \E op \in Ops[t] \cap {"bread", "block_write"} :
            (op = "block_write" <=> Dev(k) \in Raw) /\ Start(t, op, k)
       \/ "breada" \in Ops[t] /\ Dev(k) \notin Raw /\ \E ahead \in Keys : StartAhead(t, k, ahead)
  \/ \E t \in Tasks : \E op \in Ops[t] \cap {"sys_sync", "sync_dev"}, d \in Devs :
       StartSync(t, op, d)
  \/ \E d \in Devs : Transfer(d)
  \/ \E d \in Devs, uptodate \in BOOLEAN : end_request(d, uptodate)

Spec == Init /\ [][Next]_vars
-----------------------------------------------------------------------------
TypeOK ==
  /\ bh \in [Buffers -> [key : Keys \cup {NoKey}, count : Nat, dirt : BOOLEAN,
                         lock : BOOLEAN, uptodate : BOOLEAN]]
  /\ data \in [Buffers -> 0..MaxVersion]
  /\ disk \in [Keys -> 0..MaxVersion]
  /\ latest \in [Keys -> 0..MaxVersion]
  /\ moved \in [Devs -> BOOLEAN]
  /\ cpu \in Tasks \cup {NULL}
  /\ pc \in [Tasks -> {"idle", "getblk", "hashed", "victim", "no_buffer", "got",
                       "sync_wait", "lock_buffer", "find_request", "no_request",
                       "ahead", "ahead_done", "wait_read", "hold", "release"}]

(* A block is in at most one buffer, however many tasks looked for it, did *)
(* not find it and slept before they took a buffer for it (buffer.c:237).  *)
NoAlias ==
  \A b, c \in Buffers : bh[b].key = bh[c].key /\ bh[b].key # NoKey => b = c

(* t will call brelse() for b, or take back its b_count++. *)
Holds(t, b) ==
  \/ f[t].first = b
  \/ f[t].bh = b /\ pc[t] \in {"hashed", "got", "ahead", "ahead_done",
                               "wait_read", "hold", "release"}
  \/ f[t].bh = b /\ pc[t] \in {"lock_buffer", "find_request", "no_request"} /\ f[t].i = 0

(* b_count is exactly the number of tasks that use the buffer, so brelse() *)
(* never frees a free buffer (buffer.c:258) and a buffer in use is never   *)
(* taken for another block.                                                *)
CountIsUsers ==
  \A b \in Buffers : bh[b].count = Cardinality({t \in Tasks : Holds(t, b)})

(* A buffer in use, locked or dirty keeps its block: buffer.c:240-241, "it's *)
(* unused (b_count=0), unlocked (b_lock=0), and clean".                     *)
BusyKeepsBlock ==
  [][\A b \in Buffers :
       bh[b].count > 0 \/ bh[b].lock \/ bh[b].dirt => bh'[b].key = bh[b].key]_vars

(* Where a request for buffer b is: device and position. *)
Queue(b) == {q \in Devs \X (1..Cardinality(Buffers)) :
               q[2] \in DOMAIN list[q[1]] /\ list[q[1]][q[2]].bh = b}
Requesting(t, b) == pc[t] \in {"find_request", "no_request"} /\ f[t].rq = b

(* A locked buffer has one owner who will unlock it: the request made for  *)
(* it or the task about to make it.  So neither `block not locked' nor     *)
(* `request list destroyed' (blk.h:127-136) can happen, and the sectors    *)
(* a request moves are those of the block its buffer stands for.           *)
LockHasOwner ==
  \A b \in Buffers :
    /\ Cardinality(Queue(b)) + Cardinality({t \in Tasks : Requesting(t, b)})
         = IF bh[b].lock THEN 1 ELSE 0
    /\ \A q \in Queue(b) : BlockOf(list[q[1]][q[2]]) = bh[b].key

(* Whoever sleeps on buffer_wait will be woken: another task uses a buffer *)
(* and is not itself waiting for one, so it will call brelse(), though     *)
(* breada() gives its ahead block back in silence (buffer.c:337).          *)
BufferWaiterRemembered ==
  (\E t \in Tasks : pc[t] = "no_buffer") =>
    \E t \in Tasks, b \in Buffers : pc[t] # "no_buffer" /\ Holds(t, b)

(* What a task wrote into a block is on the disk or in its buffer, marked  *)
(* dirty or in a write request.  add_request() removes the mark before the *)
(* data are moved and a task may write again in between.                   *)
NoLostWrite ==
  \A k \in Keys :
    \/ disk[k] = latest[k]
    \/ \E b \in find_buffer(k) :
         /\ data[b] = latest[k]
         /\ \/ bh[b].dirt
            \/ \E q \in Queue(b) : list[q[1]][q[2]].cmd = WRITE

(* buffer.c:263-265: "bread() reads a specified block and returns the      *)
(* buffer that contains it."  What its caller finds there is what was      *)
(* written last.                                                           *)
BreadReturnsLatest ==
  \A t \in Tasks : pc[t] = "hold" /\ f[t].op \in {"bread", "breada"} =>
    data[f[t].bh] = latest[bh[f[t].bh].key]
=============================================================================
