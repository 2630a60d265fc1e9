-------------------------- MODULE BufferCacheProofs --------------------------
(***************************************************************************)
(* For every number of tasks, buffers, devices and blocks:                 *)
(*                                                                         *)
(* A block is in at most one buffer, and a buffer changes its block only   *)
(* while it is unused, unlocked and clean.  Only getblk() writes b_dev and *)
(* b_blocknr, so the argument is one lemma for the steps that keep every   *)
(* block where it is, and one for Claim() under the guards of Victim().    *)
(*                                                                         *)
(* b_count is the number of users, a locked buffer has one owner and a     *)
(* sleeper on buffer_wait is remembered (UseInv: what the local variables  *)
(* of each task stand for, place by place, and which requests there are).  *)
(*                                                                         *)
(* If no write fails, nothing written is lost and bread() returns the      *)
(* latest contents (DataInv, which rests on UseInv).                       *)
(***************************************************************************)
EXTENDS BufferCache, FiniteSetTheorems, WellFoundedInduction, SequenceTheorems, TLAPS

(* bh is an array of buffer heads; nothing is said about the fields. *)
Head5(r) == [key |-> r.key, count |-> r.count, dirt |-> r.dirt,
             lock |-> r.lock, uptodate |-> r.uptodate]
Shape == bh = [b \in Buffers |-> Head5(bh[b])]

SameKeys == \A b \in Buffers : bh'[b].key = bh[b].key

(* Operations that count, mark, lock or unlock a buffer (brelse(),         *)
(* lock_buffer(), add_request(), end_request(), ...) keep every block where *)
(* it is.                                                                  *)
LEMMA FlagsOnly ==
  ASSUME Shape, NEW b, NEW x,
         \/ bh' = [bh EXCEPT ![b].count = x]
         \/ bh' = [bh EXCEPT ![b].dirt = x]
         \/ bh' = [bh EXCEPT ![b].lock = x]
         \/ bh' = [bh EXCEPT ![b].uptodate = x, ![b].lock = FALSE]
         \/ bh' = bh
  PROVE  Shape' /\ SameKeys
<1>0. ASSUME NEW r, bh' = [c \in Buffers |-> IF c = b THEN r ELSE bh[c]],
             b \in Buffers => r.key = bh[b].key /\ r = Head5(r)
      PROVE  Shape' /\ SameKeys
  <2>1. ASSUME NEW c \in Buffers
        PROVE  bh'[c].key = bh[c].key /\ bh'[c] = Head5(bh'[c])
    BY <1>0 DEF Shape
  <2>2. bh' = [c \in Buffers |-> bh'[c]]
    BY <1>0
  <2> QED BY <2>1, <2>2 DEF Shape, SameKeys
<1> b \in Buffers => bh[b] = Head5(bh[b])
  BY DEF Shape
<1>1. CASE bh' = [bh EXCEPT ![b].count = x]
  <2> DEFINE r == [bh[b] EXCEPT !.count = x]
  <2>1. bh' = [c \in Buffers |-> IF c = b THEN r ELSE bh[c]]
    BY <1>1 DEF Shape
  <2>2. b \in Buffers => r.key = bh[b].key /\ r = Head5(r)
    BY DEF Head5
  <2> QED BY <1>0, <2>1, <2>2
<1>2. CASE bh' = [bh EXCEPT ![b].dirt = x]
  <2> DEFINE r == [bh[b] EXCEPT !.dirt = x]
  <2>1. bh' = [c \in Buffers |-> IF c = b THEN r ELSE bh[c]]
    BY <1>2 DEF Shape
  <2>2. b \in Buffers => r.key = bh[b].key /\ r = Head5(r)
    BY DEF Head5
  <2> QED BY <1>0, <2>1, <2>2
<1>3. CASE bh' = [bh EXCEPT ![b].lock = x]
  <2> DEFINE r == [bh[b] EXCEPT !.lock = x]
  <2>1. bh' = [c \in Buffers |-> IF c = b THEN r ELSE bh[c]]
    BY <1>3 DEF Shape
  <2>2. b \in Buffers => r.key = bh[b].key /\ r = Head5(r)
    BY DEF Head5
  <2> QED BY <1>0, <2>1, <2>2
<1>4. CASE bh' = [bh EXCEPT ![b].uptodate = x, ![b].lock = FALSE]
  <2> DEFINE r == [bh[b] EXCEPT !.uptodate = x, !.lock = FALSE]
  <2>1. bh' = [c \in Buffers |-> IF c = b THEN r ELSE bh[c]]
    BY <1>4 DEF Shape
  <2>2. b \in Buffers => r.key = bh[b].key /\ r = Head5(r)
    <3>1. SUFFICES ASSUME b \in Buffers
                   PROVE  r.key = bh[b].key /\ r = Head5(r)
      OBVIOUS
    <3> DEFINE q == [bh[b] EXCEPT !.uptodate = x]
    <3>2. q.key = bh[b].key /\ q = Head5(q)
      BY <3>1 DEF Head5
    <3>3. r = [q EXCEPT !.lock = FALSE]
      BY <3>1 DEF Head5
    <3> HIDE DEF q, r
    <3> QED BY <3>2, <3>3 DEF Head5
  <2> QED BY <1>0, <2>1, <2>2
<1>5. CASE bh' = bh
  BY <1>5 DEF Shape, Head5, SameKeys
<1> QED BY <1>1, <1>2, <1>3, <1>4, <1>5

(* What getblk() does when it gives buffer b to block k. *)
Moves(b, k) ==
  /\ ~(bh[b].count > 0) /\ ~bh[b].dirt /\ ~bh[b].lock
  /\ find_buffer(k) = {}
  /\ \A c \in Buffers : bh'[c].key = IF c = b THEN k ELSE bh[c].key

(* The end of getblk(), under the conditions tested before it, is such a   *)
(* step.                                                                   *)
LEMMA ClaimMoves ==
  ASSUME Shape, NEW b, NEW k,
         ~TakenMeanwhile(b), ~MustSync(b), ~AddedMeanwhile(k), Settled(b), Claim(b, k)
  PROVE  Shape' /\ Moves(b, k)
<1> DEFINE r == [key |-> k, count |-> 1, dirt |-> FALSE, lock |-> bh[b].lock,
                 uptodate |-> FALSE]
<1>1. bh' = [c \in Buffers |-> IF c = b THEN r ELSE bh[c]]
  BY DEF Shape, Claim
<1>2. r.key = k /\ r = Head5(r)
  BY DEF Head5
<1> HIDE DEF r
<1>3. ASSUME NEW c \in Buffers
      PROVE  bh'[c].key = (IF c = b THEN k ELSE bh[c].key) /\ bh'[c] = Head5(bh'[c])
  BY <1>1, <1>2 DEF Shape
<1>4. bh' = [c \in Buffers |-> bh'[c]]
  BY <1>1
<1>5. Shape'
  BY <1>3, <1>4 DEF Shape
<1> QED BY <1>3, <1>5 DEF Moves, TakenMeanwhile, MustSync, AddedMeanwhile, Settled

(* Every step of the tasks and of the interrupt keeps all blocks where     *)
(* they are, or is such a step of getblk().                                *)
LEMMA StepKeys ==
  ASSUME Shape, [Next]_vars
  PROVE  Shape' /\ (SameKeys \/ \E b, k : Moves(b, k))
<1> USE FlagsOnly
<1>1. ASSUME NEW t \in Tasks, TaskStep(t)
      PROVE  Shape' /\ (SameKeys \/ \E b, k : Moves(b, k))
  <2>1. CASE Sleep(t)
    BY <2>1 DEF Sleep
  <2>2. CASE Getblk(t)
    BY <2>2 DEF Getblk
  <2>3. CASE Hashed(t)
    BY <2>3 DEF Hashed
  <2>4. CASE Victim(t)
    <3>1. bh' = bh \/ (/\ ~TakenMeanwhile(f[t].bh) /\ ~MustSync(f[t].bh)
                       /\ ~AddedMeanwhile(f[t].key) /\ Settled(f[t].bh)
                       /\ Claim(f[t].bh, f[t].key))
      BY <2>4 DEF Victim
    <3> QED BY <3>1, ClaimMoves
  <2>5. CASE SyncWait(t)
    BY <2>5 DEF SyncWait
  <2>6. CASE LockBuffer(t)
    BY <2>6 DEF LockBuffer
  <2>7. CASE FindRequest(t)
    BY <2>7 DEF FindRequest, Queued
  <2>8. CASE Got(t)
    BY <2>8 DEF Got
  <2>9. CASE Ahead(t)
    BY <2>9 DEF Ahead
  <2>10. CASE AheadDone(t)
    BY <2>10 DEF AheadDone
  <2>11. CASE WaitRead(t)
    BY <2>11 DEF WaitRead, Brelse, Put
  <2>12. CASE Modify(t)
    BY <2>12 DEF Modify
  <2>13. CASE StartRelease(t)
    BY <2>13 DEF StartRelease
  <2>14. CASE Release(t)
    BY <2>14 DEF Release, Brelse, Put
  <2> QED BY <1>1, <2>1, <2>2, <2>3, <2>4, <2>5, <2>6, <2>7, <2>8, <2>9, <2>10, <2>11,
             <2>12, <2>13, <2>14 DEF TaskStep
<1>2. ASSUME NEW t \in Tasks, NEW op, NEW k, NEW ahead, NEW d,
             Start(t, op, k) \/ StartAhead(t, k, ahead) \/ StartSync(t, op, d)
      PROVE  Shape' /\ SameKeys
  BY <1>2 DEF Start, StartAhead, StartSync
<1>3. ASSUME NEW d \in Devs, Transfer(d)
      PROVE  Shape' /\ SameKeys
  BY <1>3 DEF Transfer
<1>4. ASSUME NEW d \in Devs, NEW uptodate \in BOOLEAN, end_request(d, uptodate)
      PROVE  Shape' /\ SameKeys
  BY <1>4 DEF end_request, Ended
<1>5. ASSUME UNCHANGED vars
      PROVE  Shape' /\ SameKeys
  BY <1>5 DEF vars
<1> QED BY <1>1, <1>2, <1>3, <1>4, <1>5 DEF Next

LEMMA InitShape == Init => Shape /\ NoAlias
BY DEF Init, Shape, Head5, NoAlias

(* A step of getblk() does not give a block a second buffer: it looked     *)
(* into the hash table after its last sleep.                               *)
LEMMA StepNoAlias ==
  ASSUME Shape, NoAlias, [Next]_vars
  PROVE  NoAlias'
<1>1. CASE SameKeys
  BY <1>1 DEF SameKeys, NoAlias
<1>2. ASSUME NEW b, NEW k, Moves(b, k)
      PROVE  NoAlias'
  BY <1>2 DEF Moves, NoAlias, find_buffer
<1> QED BY <1>1, <1>2, StepKeys

(* However many tasks look for a block, do not find it and sleep before    *)
(* they take a buffer for it, it ends up in one buffer (buffer.c:237).     *)
THEOREM OneBufferPerBlock == Spec => []NoAlias
<1>1. Init => Shape /\ NoAlias
  BY InitShape
<1>2. Shape /\ NoAlias /\ [Next]_vars => (Shape /\ NoAlias)'
  BY StepKeys, StepNoAlias
<1> QED BY <1>1, <1>2, PTL DEF Spec

(* getblk() never takes a buffer that is in use, locked or dirty for       *)
(* another block, whatever happened while it slept (buffer.c:219-242).     *)
THEOREM BusyBuffersKept == Spec => BusyKeepsBlock
<1> DEFINE Kept == \A b \in Buffers :
             bh[b].count > 0 \/ bh[b].lock \/ bh[b].dirt => bh'[b].key = bh[b].key
<1>1. Init => Shape
  BY InitShape
<1>2. Shape /\ [Next]_vars => Shape'
  BY StepKeys
<1>3. Shape /\ [Next]_vars => [Kept]_vars
  BY StepKeys DEF SameKeys, Moves
<1> QED BY <1>1, <1>2, <1>3, PTL DEF Spec, BusyKeepsBlock
-----------------------------------------------------------------------------
(* The shape of the state. *)
Blocks == Keys \cup {NoKey}
Labels == {"idle", "getblk", "hashed", "victim", "no_buffer", "got", "sync_wait", "lock_buffer",
           "find_request", "no_request", "ahead", "ahead_done", "wait_read", "hold", "release"}
BufferHead == [key : Blocks, count : Nat, dirt : BOOLEAN, lock : BOOLEAN, uptodate : BOOLEAN]
Frame ==
  [op : {"none", "bread", "breada", "block_write", "sys_sync", "sync_dev"},
   key : Blocks, ahead : Blocks, first : Buffers \cup {NULL}, bh : Buffers \cup {NULL},
   rq : Buffers \cup {NULL}, rw : {READ, WRITE}, ra : BOOLEAN, i : Nat, dev : Nat]
Requests == [cmd : {READ, WRITE}, dev : Devs, sector : Nat, bh : Buffers, slot : 0 .. NR_REQUEST - 1]

Types ==
  /\ bh \in [Buffers -> BufferHead] /\ data \in [Buffers -> Int]
  /\ disk \in [Keys -> Int] /\ latest \in [Keys -> Int]
  /\ list \in [Devs -> Seq(Requests)] /\ moved \in [Devs -> BOOLEAN]
  /\ pc \in [Tasks -> Labels] /\ f \in [Tasks -> Frame]

(* What the locals fr of a task at label p say about the buffers H: those  *)
(* it has counted stand for the blocks it asked for.                       *)
Asking == {"getblk", "hashed", "victim", "no_buffer", "got", "ahead", "ahead_done"}
Filling == {"lock_buffer", "find_request", "no_request"}
Using == {"wait_read", "hold", "release"}
Syncs(p, fr) == p = "sync_wait" \/ (p \in Filling /\ fr.i > 0)

Asked(fr, o) ==
  /\ fr.key \in Keys /\ fr.op \in {"bread", "breada", "block_write"}
  /\ fr.op = "block_write" <=> Dev(fr.key) \in Raw
  /\ fr.op = "breada" => /\ "breada" \in o /\ fr.ahead \in Keys /\ Dev(fr.ahead) = Dev(fr.key)
                         /\ fr.first = NULL => fr.ahead # fr.key

Local(p, fr, H, o) ==
  /\ p \in Asking \/ (p \in Filling /\ fr.i = 0) \/ (Syncs(p, fr) /\ fr.key # NoKey) => Asked(fr, o)
  /\ fr.first # NULL =>
       /\ fr.op = "breada" /\ p \in (Asking \ {"ahead"}) \cup Filling \cup {"sync_wait"}
       /\ fr.key \in Keys /\ H[fr.first].key \in Keys \ {fr.key} /\ Dev(H[fr.first].key) \notin Raw
  /\ p \in {"hashed", "got", "ahead", "ahead_done"} \/ (p \in Filling /\ fr.i = 0) =>
       fr.bh \in Buffers /\ H[fr.bh].key = fr.key
  /\ p = "victim" \/ (Syncs(p, fr) /\ fr.key # NoKey) => fr.bh \in Buffers
  /\ p \in Using =>
       /\ fr.bh \in Buffers /\ H[fr.bh].key \in Keys
       /\ fr.op \in {"bread", "breada", "block_write"}
       /\ fr.op = "block_write" <=> Dev(H[fr.bh].key) \in Raw
  /\ p = "wait_read" => fr.op # "block_write"
  /\ p \in Filling =>
       /\ fr.rq \in Buffers
       /\ fr.i = 0 => fr.rw = READ /\ fr.op # "block_write" /\ fr.rq \in {fr.bh, fr.first}
       /\ fr.i > 0 => fr.rw = WRITE /\ fr.ra = FALSE
  /\ p = "ahead" => fr.op = "breada"
  /\ p = "ahead_done" => fr.first # NULL
  /\ p = "sync_wait" => fr.i > 0
  /\ p \notin Filling \cup {"sync_wait"} => fr.i = 0

Locals == \A t \in Tasks : Local(pc[t], f[t], bh, Ops[t])

Users(b) == {t \in Tasks : Holds(t, b)}
Counts == \A b \in Buffers : bh[b].count = Cardinality(Users(b))

(* A lock belongs to one request, in a list or about to be made. *)
Locks ==
  /\ \A d \in Devs : \A n \in 1 .. Len(list[d]) :
       /\ bh[list[d][n].bh].lock /\ BlockOf(list[d][n]) = bh[list[d][n].bh].key
       /\ bh[list[d][n].bh].key \in Keys
  /\ \A d, e \in Devs : \A n \in 1 .. Len(list[d]), k \in 1 .. Len(list[e]) :
       list[d][n].bh = list[e][k].bh => d = e /\ n = k
  /\ \A t \in Tasks : pc[t] \in {"find_request", "no_request"} =>
       /\ bh[f[t].rq].lock /\ bh[f[t].rq].key \in Keys
       /\ \A d \in Devs : \A n \in 1 .. Len(list[d]) : list[d][n].bh # f[t].rq
       /\ \A u \in Tasks : pc[u] \in {"find_request", "no_request"} /\ f[u].rq = f[t].rq => u = t
  /\ \A b \in Buffers : bh[b].lock =>
       \/ \E d \in Devs : \E n \in 1 .. Len(list[d]) : list[d][n].bh = b
       \/ \E t \in Tasks : Requesting(t, b)

DirtyUsed == \A b \in Buffers : bh[b].dirt => bh[b].key \in Keys

UseInv == Types /\ NoAlias /\ Locals /\ Counts /\ Locks /\ DirtyUsed /\ BufferWaiterRemembered

(* Where the last contents of a block are, if only reads fail. *)
Writing(b) ==
  \E d \in Devs : \E n \in 1 .. Len(list[d]) : list[d][n].bh = b /\ list[d][n].cmd = WRITE

Fresh ==
  \A b \in Buffers : bh[b].key \in Keys /\ (bh[b].dirt \/ bh[b].uptodate \/ Writing(b))
                     => data[b] = latest[bh[b].key]
Marks ==
  \A b \in Buffers : bh[b].dirt => bh[b].key \in Keys /\ (Dev(bh[b].key) \notin Raw => bh[b].uptodate)
Kept ==
  \A k \in Keys : disk[k] = latest[k] \/ \E b \in Buffers : bh[b].key = k /\ (bh[b].dirt \/ Writing(b))
Reading(r, done) ==
  /\ ~bh[r.bh].uptodate /\ ~bh[r.bh].dirt /\ Dev(bh[r.bh].key) \notin Raw
  /\ done => data[r.bh] = latest[bh[r.bh].key]
Transfers ==
  \A d \in Devs :
    /\ \A n \in 1 .. Len(list[d]) : list[d][n].cmd = READ => Reading(list[d][n], n = 1 /\ moved[d])
    /\ moved[d] => list[d] # <<>>
    /\ moved[d] /\ list[d][1].cmd = WRITE /\ ~bh[list[d][1].bh].dirt
         => disk[bh[list[d][1].bh].key] = latest[bh[list[d][1].bh].key]
Wanted ==
  \A t \in Tasks : pc[t] \in {"find_request", "no_request"} =>
    IF f[t].rw = READ
    THEN ~bh[f[t].rq].uptodate /\ ~bh[f[t].rq].dirt /\ Dev(bh[f[t].rq].key) \notin Raw
    ELSE bh[f[t].rq].dirt
Filled ==
  \A t \in Tasks : pc[t] \in {"hold", "release"} /\ f[t].op # "block_write" => bh[f[t].bh].uptodate

DataInv == Fresh /\ Marks /\ Kept /\ Transfers /\ Wanted /\ Filled
-----------------------------------------------------------------------------
LEMMA NatHasLeast ==
  ASSUME NEW T \in SUBSET Nat, T # {}
  PROVE  Min(T) \in T
<1> DEFINE R == OpToRel(<, Nat)
<1>1. PICK x \in T : \A y \in T : ~(<<y, x>> \in R)
  <2>1. IsWellFoundedOn(R, Nat)
    BY NatLessThanWellFounded
  <2> HIDE DEF R
  <2> QED BY <2>1, WFMin
<1>2. \A y \in T : ~(y < x)
  BY <1>1 DEF OpToRel
<1>3. \A y \in T : x =< y
  BY <1>2
<1> HIDE DEF R
<1> QED BY <1>3 DEF Min

LEMMA BuffersFinite ==
  /\ IsFiniteSet(Buffers) /\ NR_BUFFERS \in Nat \ {0}
  /\ \A n \in Nat \ {0} : SyncBuffer(n) \in Buffers
<1>1. NR_BUFFERS \in Nat /\ \A n \in 1 .. NR_BUFFERS : Order[n] \in Buffers
  BY BufferOrder DEF NR_BUFFERS
<1>2. IsFiniteSet(Buffers)
  <2>1. IsFiniteSet(1 .. NR_BUFFERS)
    BY <1>1, FS_Interval
  <2>2. Order \in Surjection(1 .. NR_BUFFERS, Buffers)
    BY <1>1, BufferOrder DEF Surjection, Range, NR_BUFFERS
  <2> QED BY <2>1, <2>2, FS_Surjection
<1>3. NR_BUFFERS # 0
  <2>1. Cardinality({t \in Tasks : "breada" \in Ops[t]}) \in Nat
    BY FewTasks, FS_Subset, FS_CardinalityType
  <2>2. Cardinality(Buffers) # 0
    BY <1>2, <2>1, EnoughBuffers, FS_CardinalityType
  <2>3. Buffers # {}
    BY <2>2, FS_EmptySet
  <2> QED BY <1>1, <2>3, BufferOrder DEF Range, NR_BUFFERS
<1>4. \A n \in Nat \ {0} : ((n - 1) % NR_BUFFERS) + 1 \in 1 .. NR_BUFFERS
  BY <1>1, <1>3
<1> QED BY <1>1, <1>2, <1>3, <1>4 DEF SyncBuffer

LEMMA KeysAre ==
  /\ NoKey \notin Keys
  /\ \A k \in Keys : Dev(k) \in Devs /\ Dev(k) \in Nat /\ k[2] \in Nat /\ k = <<Dev(k), k[2]>>
BY RealBlocks DEF NoKey, Dev, Devs

LEMMA TypesShape == Types => Shape
<1> SUFFICES ASSUME Types
             PROVE  Shape
  OBVIOUS
<1>1. bh = [b \in Buffers |-> bh[b]]
  BY DEF Types
<1>2. \A b \in Buffers : bh[b] = Head5(bh[b])
  BY DEF Types, BufferHead, Head5
<1> QED BY <1>1, <1>2 DEF Shape

LEMMA NoFrameIs ==
  /\ NoFrame \in Frame /\ NoFrame.first = NULL /\ NoFrame.i = 0 /\ NoFrame.key = NoKey
  /\ NoFrame.op = "none" /\ NoFrame.bh = NULL /\ NoFrame.rq = NULL /\ NoFrame.ra = FALSE
BY DEF NoFrame, Frame, Blocks, READ, WRITE

(* Holds() as a predicate on a task's label and locals. *)
HoldsAt(p, fr, b) ==
  \/ fr.first = b
  \/ fr.bh = b /\ p \in {"hashed", "got", "ahead", "ahead_done", "wait_read", "hold", "release"}
  \/ fr.bh = b /\ p \in Filling /\ fr.i = 0

LEMMA HoldsIs == \A t, b : Holds(t, b) <=> HoldsAt(pc[t], f[t], b)
BY DEF Holds, HoldsAt, Filling

LEMMA HeldIsCounted ==
  ASSUME Types, Counts, NEW t \in Tasks, NEW b \in Buffers, Holds(t, b)
  PROVE  bh[b].count > 0
<1>1. IsFiniteSet(Users(b)) /\ Users(b) # {}
  BY FewTasks, FS_Subset DEF Users
<1>2. Cardinality(Users(b)) \in Nat /\ Cardinality(Users(b)) # 0
  BY <1>1, FS_CardinalityType, FS_EmptySet
<1> QED BY <1>2 DEF Counts

(* Nobody's buffer is taken for another block. *)
LEMMA HeldKept ==
  ASSUME Types, Counts, [Next]_vars, NEW t \in Tasks, NEW b \in Buffers, Holds(t, b)
  PROVE  bh'[b].key = bh[b].key
<1>1. bh[b].count > 0
  BY HeldIsCounted
<1>2. SameKeys \/ \E c, k : Moves(c, k)
  BY TypesShape, StepKeys
<1> QED BY <1>1, <1>2 DEF SameKeys, Moves

LEMMA LocalKept ==
  ASSUME NEW p \in Labels, NEW fr \in Frame, NEW H, NEW G, NEW o, Local(p, fr, H, o),
         \A b \in Buffers : HoldsAt(p, fr, b) => G[b].key = H[b].key
  PROVE  Local(p, fr, G, o)
<1>1. fr.first # NULL => fr.first \in Buffers /\ G[fr.first].key = H[fr.first].key
  BY DEF Frame, HoldsAt
<1>2. p \in {"hashed", "got", "ahead", "ahead_done"} \/ (p \in Filling /\ fr.i = 0) =>
        fr.bh \in Buffers /\ G[fr.bh].key = H[fr.bh].key
  BY DEF Local, HoldsAt
<1>3. p \in Using => fr.bh \in Buffers /\ G[fr.bh].key = H[fr.bh].key
  BY DEF Local, HoldsAt, Using
<1> QED BY <1>1, <1>2, <1>3 DEF Local

LEMMA LocalWoken ==
  ASSUME NEW fr, NEW H, NEW o
  PROVE  /\ Local("no_buffer", fr, H, o) => Local("getblk", fr, H, o)
         /\ Local("no_request", fr, H, o) => Local("find_request", fr, H, o)
BY DEF Local, Asking, Filling, Using, Syncs

(* The step of a task t to label p with locals g; others may be woken. *)
StepTo(t, p, g) ==
  /\ p \in Labels /\ g \in Frame
  /\ pc' \in [Tasks -> Labels] /\ pc'[t] = p
  /\ f' = [f EXCEPT ![t] = g]
  /\ \A u \in Tasks : u # t => pc'[u] = pc[u] \/ (pc[u] = "no_buffer" /\ pc'[u] = "getblk")

Counted(t, p, g) ==
  \A b \in Buffers :
    \/ (HoldsAt(p, g, b) <=> HoldsAt(pc[t], f[t], b)) /\ bh'[b].count = bh[b].count
    \/ HoldsAt(p, g, b) /\ ~HoldsAt(pc[t], f[t], b) /\ bh'[b].count = bh[b].count + 1
    \/ ~HoldsAt(p, g, b) /\ HoldsAt(pc[t], f[t], b) /\ bh'[b].count = bh[b].count - 1

LEMMA StepLocals ==
  ASSUME UseInv, [Next]_vars, NEW t \in Tasks, NEW p, NEW g, StepTo(t, p, g),
         Local(p, g, bh', Ops[t])
  PROVE  Locals' /\ f' \in [Tasks -> Frame]
<1>1. Types /\ Counts /\ Locals
  BY DEF UseInv
<1>2. f \in [Tasks -> Frame] /\ pc \in [Tasks -> Labels]
  BY <1>1 DEF Types
<1>3. f' \in [Tasks -> Frame] /\ f'[t] = g /\ \A u \in Tasks : u # t => f'[u] = f[u]
  BY <1>2 DEF StepTo
<1>4. ASSUME NEW u \in Tasks, u # t
      PROVE  Local(pc'[u], f'[u], bh', Ops[u])
  <2>1. Local(pc[u], f[u], bh, Ops[u])
    BY <1>1 DEF Locals
  <2>2. \A b \in Buffers : HoldsAt(pc[u], f[u], b) => bh'[b].key = bh[b].key
    BY <1>1, HoldsIs, HeldKept
  <2>3. Local(pc[u], f[u], bh', Ops[u])
    BY <1>2, <2>1, <2>2, LocalKept
  <2>4. Local(pc'[u], f[u], bh', Ops[u])
    BY <1>4, <2>3, LocalWoken DEF StepTo
  <2> QED BY <1>3, <1>4, <2>4
<1> QED BY <1>3, <1>4 DEF Locals, StepTo

LEMMA StepCounts ==
  ASSUME UseInv, NEW t \in Tasks, NEW p, NEW g, StepTo(t, p, g), Counted(t, p, g)
  PROVE  Counts'
<1>1. Types /\ Counts
  BY DEF UseInv
<1>2. f \in [Tasks -> Frame] /\ pc \in [Tasks -> Labels]
  BY <1>1 DEF Types
<1>3. f'[t] = g /\ pc'[t] = p /\ \A u \in Tasks : u # t => f'[u] = f[u]
  BY <1>2 DEF StepTo
<1> SUFFICES ASSUME NEW b \in Buffers
             PROVE  bh'[b].count = Cardinality({u \in Tasks : HoldsAt(pc'[u], f'[u], b)})
  BY DEF Counts, Users, Holds, HoldsAt, Filling
<1> DEFINE A == {u \in Tasks : HoldsAt(pc[u], f[u], b)}
           B == {u \in Tasks : HoldsAt(pc'[u], f'[u], b)}
<1>4. bh[b].count = Cardinality(A) /\ IsFiniteSet(A) /\ Cardinality(A) \in Nat
  <2>1. A = Users(b)
    BY HoldsIs DEF Users
  <2>2. IsFiniteSet(A)
    BY FewTasks, FS_Subset
  <2> QED BY <1>1, <2>1, <2>2, FS_CardinalityType DEF Counts
<1>5. \A u \in Tasks : u # t => (u \in A <=> u \in B)
  <2> TAKE u \in Tasks
  <2> HAVE u # t
  <2>1. f'[u] = f[u] /\ (pc'[u] = pc[u] \/ (pc[u] = "no_buffer" /\ pc'[u] = "getblk"))
    BY <1>3 DEF StepTo
  <2> QED BY <2>1 DEF HoldsAt, Filling
<1>6. (t \in A <=> HoldsAt(pc[t], f[t], b)) /\ (t \in B <=> HoldsAt(p, g, b)) /\ A \subseteq Tasks /\ B \subseteq Tasks
  BY <1>3
<1> HIDE DEF A, B
<1>7. CASE (HoldsAt(p, g, b) <=> HoldsAt(pc[t], f[t], b)) /\ bh'[b].count = bh[b].count
  <2>1. A = B
    BY <1>5, <1>6, <1>7
  <2> QED BY <1>4, <1>7, <2>1 DEF B
<1>8. CASE HoldsAt(p, g, b) /\ ~HoldsAt(pc[t], f[t], b) /\ bh'[b].count = bh[b].count + 1
  <2>1. B = A \cup {t} /\ t \notin A
    BY <1>5, <1>6, <1>8
  <2>2. Cardinality(B) = Cardinality(A) + 1
    BY <1>4, <2>1, FS_AddElement
  <2> QED BY <1>4, <1>8, <2>2 DEF B
<1>9. CASE ~HoldsAt(p, g, b) /\ HoldsAt(pc[t], f[t], b) /\ bh'[b].count = bh[b].count - 1
  <2>1. B = A \ {t} /\ t \in A
    BY <1>5, <1>6, <1>9
  <2>2. Cardinality(B) = Cardinality(A) - 1
    BY <1>4, <2>1, FS_RemoveElement
  <2> QED BY <1>4, <1>9, <2>2 DEF B
<1> QED BY <1>7, <1>8, <1>9 DEF Counted
-----------------------------------------------------------------------------
LEMMA GotoIs ==
  ASSUME Types, NEW t \in Tasks, NEW p \in Labels, NEW g \in Frame,
         Goto(t, p, g) \/ Yield(t, p, g)
  PROVE  StepTo(t, p, g)
BY DEF Goto, Yield, StepTo, Types

LEMMA BrelseIs ==
  ASSUME Types, NEW t \in Tasks, NEW b, Brelse(t, b)
  PROVE  StepTo(t, "idle", NoFrame)
<1>1. pc \in [Tasks -> Labels]
  BY DEF Types
<1>2. pc' = [WakeBufferWait EXCEPT ![t] = "idle"] /\ f' = [f EXCEPT ![t] = NoFrame]
  BY DEF Brelse
<1>3. WakeBufferWait \in [Tasks -> Labels] /\ \A u \in Tasks : WakeBufferWait[u] = IF pc[u] = "no_buffer" THEN "getblk" ELSE pc[u]
  BY <1>1 DEF WakeBufferWait, Wake, Labels
<1> HIDE DEF WakeBufferWait
<1>4. "idle" \in Labels
  BY DEF Labels
<1> QED BY <1>2, <1>3, <1>4, NoFrameIs DEF StepTo

(* What the sync loop keeps of the call it is made for. *)
Carried(fr, H, o) ==
  /\ fr.key # NoKey => Asked(fr, o) /\ fr.bh \in Buffers
  /\ fr.first # NULL => /\ fr.op = "breada" /\ fr.key \in Keys
                        /\ H[fr.first].key \in Keys \ {fr.key} /\ Dev(H[fr.first].key) \notin Raw

Busy == {"find_request", "no_request"}

LEMMA SyncFromIs ==
  ASSUME Types, NEW t \in Tasks, NEW fr \in Frame, NEW from \in Nat \ {0}, NEW o,
         SyncFrom(t, fr, from), Carried(fr, bh, o)
  PROVE  \E p, g : /\ StepTo(t, p, g) /\ Local(p, g, bh, o) /\ p \notin Busy \cup {"no_buffer"}
                   /\ \A b \in Buffers : HoldsAt(p, g, b) <=> fr.first = b
<1> DEFINE left == {j \in from .. SyncEnd(fr) : OnSyncDev(fr, SyncBuffer(j))}
<1>1. left \in SUBSET Nat /\ \A j \in left : j > 0
  BY BuffersFinite DEF SyncEnd
<1>2. CASE left # {}
  <2> DEFINE n == Min(left)
             g == [fr EXCEPT !.i = n, !.rq = NULL]
  <2>1. n \in left
    BY <1>1, <1>2, NatHasLeast
  <2>2. n \in Nat /\ n > 0
    BY <1>1, <2>1
  <2>3. Goto(t, "sync_wait", g)
    BY <1>2 DEF SyncFrom
  <2> HIDE DEF n
  <2>4. g \in Frame /\ g.i = n /\ g.key = fr.key /\ g.first = fr.first /\ g.op = fr.op
        /\ g.bh = fr.bh /\ g.ahead = fr.ahead
    BY <2>2 DEF Frame
  <2> HIDE DEF g
  <2>5. StepTo(t, "sync_wait", g)
    BY <2>3, <2>4, GotoIs DEF Labels
  <2>6. Local("sync_wait", g, bh, o)
    BY <2>2, <2>4 DEF Local, Carried, Asked, Asking, Filling, Using, Syncs
  <2>7. \A b \in Buffers : HoldsAt("sync_wait", g, b) <=> fr.first = b
    BY <2>4 DEF HoldsAt, Filling
  <2> QED BY <2>5, <2>6, <2>7 DEF Busy
<1>3. CASE left = {} /\ fr.key # NoKey
  <2> DEFINE g == [fr EXCEPT !.i = 0, !.dev = 0, !.rq = NULL]
  <2>3. Goto(t, "victim", g)
    BY <1>3 DEF SyncFrom
  <2>4. g \in Frame /\ g.i = 0 /\ g.key = fr.key /\ g.first = fr.first /\ g.op = fr.op
        /\ g.bh = fr.bh /\ g.ahead = fr.ahead
    BY DEF Frame
  <2> HIDE DEF g
  <2>5. StepTo(t, "victim", g)
    BY <2>3, <2>4, GotoIs DEF Labels
  <2>6. Local("victim", g, bh, o)
    BY <1>3, <2>4 DEF Local, Carried, Asked, Asking, Filling, Using, Syncs
  <2>7. \A b \in Buffers : HoldsAt("victim", g, b) <=> fr.first = b
    BY <2>4 DEF HoldsAt, Filling
  <2> QED BY <2>5, <2>6, <2>7 DEF Busy
<1>4. CASE left = {} /\ fr.key = NoKey
  <2>1. Yield(t, "idle", NoFrame)
    BY <1>4 DEF SyncFrom
  <2>2. StepTo(t, "idle", NoFrame)
    BY <2>1, GotoIs, NoFrameIs DEF Labels
  <2>3. Local("idle", NoFrame, bh, o)
    BY NoFrameIs DEF Local, Asking, Filling, Using, Syncs
  <2>4. fr.first = NULL
    BY <1>4, KeysAre DEF Carried
  <2>5. \A b \in Buffers : HoldsAt("idle", NoFrame, b) <=> fr.first = b
    BY <2>4, NoFrameIs, FewTasks DEF HoldsAt, Filling
  <2> QED BY <2>2, <2>3, <2>5 DEF Busy
<1> QED BY <1>2, <1>3, <1>4

LEMMA AfterRWIs ==
  ASSUME Types, NEW t \in Tasks, NEW o, pc[t] \in Filling, Local(pc[t], f[t], bh, o), AfterRW(t, f[t])
  PROVE  \E p, g : /\ StepTo(t, p, g) /\ Local(p, g, bh, o) /\ p \notin Busy \cup {"no_buffer"}
                   /\ \A b \in Buffers : HoldsAt(p, g, b) <=> HoldsAt(pc[t], f[t], b)
<1> DEFINE fr == f[t]
<1>1. fr \in Frame
  BY DEF Types
<1> HIDE DEF fr
<1>2. Local(pc[t], fr, bh, o)
  BY DEF fr
<1>3. CASE fr.i > 0
  <2>1. SyncFrom(t, fr, fr.i + 1)
    BY <1>3 DEF AfterRW, fr
  <2>2. Carried(fr, bh, o)
    BY <1>2, <1>3 DEF Carried, Local, Syncs
  <2>3. fr.i + 1 \in Nat \ {0}
    BY <1>1 DEF Frame
  <2>4. PICK p, g : /\ StepTo(t, p, g) /\ Local(p, g, bh, o) /\ p \notin Busy \cup {"no_buffer"}
                    /\ \A b \in Buffers : HoldsAt(p, g, b) <=> fr.first = b
    BY <1>1, <2>1, <2>2, <2>3, SyncFromIs
  <2>5. \A b \in Buffers : HoldsAt(pc[t], fr, b) <=> fr.first = b
    BY <1>1, <1>3 DEF HoldsAt, Frame, Filling
  <2> QED BY <2>4, <2>5 DEF fr
<1>4. CASE ~(fr.i > 0)
  <2> DEFINE p == IF fr.op = "bread" THEN "wait_read"
                  ELSE IF fr.first = NULL THEN "ahead" ELSE "ahead_done"
             g == [fr EXCEPT !.rq = NULL, !.rw = READ, !.ra = FALSE]
  <2>1. fr.i = 0
    BY <1>1, <1>4 DEF Frame
  <2>2. Goto(t, p, g)
    BY <1>4 DEF AfterRW, fr
  <2>3. g \in Frame /\ g.i = fr.i /\ g.key = fr.key /\ g.first = fr.first /\ g.op = fr.op
        /\ g.bh = fr.bh /\ g.ahead = fr.ahead
    BY <1>1 DEF Frame, READ, WRITE
  <2> HIDE DEF g
  <2>4. StepTo(t, p, g)
    BY <2>2, <2>3, GotoIs DEF Labels
  <2>5. /\ Asked(fr, o) /\ fr.bh \in Buffers /\ bh[fr.bh].key = fr.key /\ fr.op # "block_write"
        /\ fr.first # NULL => /\ fr.op = "breada" /\ fr.key \in Keys
                              /\ bh[fr.first].key \in Keys \ {fr.key} /\ Dev(bh[fr.first].key) \notin Raw
    BY <1>2, <2>1 DEF Local
  <2>6. Local(p, g, bh, o)
    BY <2>1, <2>3, <2>5 DEF Local, Asked, Asking, Filling, Using, Syncs
  <2>7. \A b \in Buffers : HoldsAt(p, g, b) <=> HoldsAt(pc[t], fr, b)
    BY <2>1, <2>3, <2>5 DEF HoldsAt, Filling
  <2>8. p \notin Busy \cup {"no_buffer"}
    BY DEF Busy
  <2> HIDE DEF p
  <2> QED BY <2>4, <2>6, <2>7, <2>8 DEF fr
<1> QED BY <1>3, <1>4
-----------------------------------------------------------------------------
(* The fields of the buffer heads after an assignment. *)
LEMMA CountSet ==
  ASSUME Types, NEW b \in Buffers, NEW x \in Nat, bh' = [bh EXCEPT ![b].count = x]
  PROVE  /\ bh' \in [Buffers -> BufferHead]
         /\ \A c \in Buffers : /\ bh'[c].key = bh[c].key /\ bh'[c].lock = bh[c].lock
                               /\ bh'[c].dirt = bh[c].dirt /\ bh'[c].uptodate = bh[c].uptodate
                               /\ bh'[c].count = IF c = b THEN x ELSE bh[c].count
<1>1. bh \in [Buffers -> BufferHead]
  BY DEF Types
<1> DEFINE r == [bh[b] EXCEPT !.count = x]
<1>2. bh' = [bh EXCEPT ![b] = r]
  OBVIOUS
<1>3. r \in BufferHead /\ r.key = bh[b].key /\ r.lock = bh[b].lock /\ r.dirt = bh[b].dirt
      /\ r.uptodate = bh[b].uptodate /\ r.count = x
  BY <1>1 DEF BufferHead
<1> HIDE DEF r
<1> QED BY <1>1, <1>2, <1>3

LEMMA LockSet ==
  ASSUME Types, NEW b \in Buffers, NEW x \in BOOLEAN, bh' = [bh EXCEPT ![b].lock = x]
  PROVE  /\ bh' \in [Buffers -> BufferHead]
         /\ \A c \in Buffers : /\ bh'[c].key = bh[c].key /\ bh'[c].count = bh[c].count
                               /\ bh'[c].dirt = bh[c].dirt /\ bh'[c].uptodate = bh[c].uptodate
                               /\ bh'[c].lock = IF c = b THEN x ELSE bh[c].lock
<1>1. bh \in [Buffers -> BufferHead]
  BY DEF Types
<1> DEFINE r == [bh[b] EXCEPT !.lock = x]
<1>2. bh' = [bh EXCEPT ![b] = r]
  OBVIOUS
<1>3. r \in BufferHead /\ r.key = bh[b].key /\ r.lock = x /\ r.dirt = bh[b].dirt
      /\ r.uptodate = bh[b].uptodate /\ r.count = bh[b].count
  BY <1>1 DEF BufferHead
<1> HIDE DEF r
<1> QED BY <1>1, <1>2, <1>3

LEMMA DirtSet ==
  ASSUME Types, NEW b \in Buffers, NEW x \in BOOLEAN, bh' = [bh EXCEPT ![b].dirt = x]
  PROVE  /\ bh' \in [Buffers -> BufferHead]
         /\ \A c \in Buffers : /\ bh'[c].key = bh[c].key /\ bh'[c].count = bh[c].count
                               /\ bh'[c].lock = bh[c].lock /\ bh'[c].uptodate = bh[c].uptodate
                               /\ bh'[c].dirt = IF c = b THEN x ELSE bh[c].dirt
<1>1. bh \in [Buffers -> BufferHead]
  BY DEF Types
<1> DEFINE r == [bh[b] EXCEPT !.dirt = x]
<1>2. bh' = [bh EXCEPT ![b] = r]
  OBVIOUS
<1>3. r \in BufferHead /\ r.key = bh[b].key /\ r.dirt = x /\ r.lock = bh[b].lock
      /\ r.uptodate = bh[b].uptodate /\ r.count = bh[b].count
  BY <1>1 DEF BufferHead
<1> HIDE DEF r
<1> QED BY <1>1, <1>2, <1>3

LEMMA EndedSet ==
  ASSUME Types, NEW b \in Buffers, NEW x \in BOOLEAN, bh' = Ended(b, x)
  PROVE  /\ bh' \in [Buffers -> BufferHead]
         /\ \A c \in Buffers : /\ bh'[c].key = bh[c].key /\ bh'[c].count = bh[c].count
                               /\ bh'[c].dirt = bh[c].dirt
                               /\ bh'[c].uptodate = IF c = b THEN x ELSE bh[c].uptodate
                               /\ bh'[c].lock = IF c = b THEN FALSE ELSE bh[c].lock
<1>1. bh \in [Buffers -> BufferHead]
  BY DEF Types
<1> DEFINE q == [bh[b] EXCEPT !.uptodate = x]
           r == [q EXCEPT !.lock = FALSE]
<1>2. bh' = [bh EXCEPT ![b] = r]
  BY <1>1 DEF Ended
<1>3. q \in BufferHead /\ q.key = bh[b].key /\ q.dirt = bh[b].dirt
      /\ q.uptodate = x /\ q.count = bh[b].count
  BY <1>1 DEF BufferHead
<1> HIDE DEF q
<1>4. r \in BufferHead /\ r.key = bh[b].key /\ r.dirt = bh[b].dirt /\ r.lock = FALSE
      /\ r.uptodate = x /\ r.count = bh[b].count
  BY <1>3 DEF BufferHead
<1> HIDE DEF r
<1> QED BY <1>1, <1>2, <1>4

LEMMA ClaimSet ==
  ASSUME Types, NEW b \in Buffers, NEW k \in Blocks, Claim(b, k)
  PROVE  /\ bh' \in [Buffers -> BufferHead]
         /\ \A c \in Buffers : bh'[c].lock = bh[c].lock
         /\ \A c \in Buffers : c # b => bh'[c] = bh[c]
         /\ bh'[b].key = k /\ bh'[b].count = 1 /\ ~bh'[b].dirt /\ ~bh'[b].uptodate
<1>1. bh \in [Buffers -> BufferHead]
  BY DEF Types
<1> DEFINE r == [key |-> k, count |-> 1, dirt |-> FALSE, lock |-> bh[b].lock, uptodate |-> FALSE]
<1>2. bh' = [bh EXCEPT ![b] = r]
  BY DEF Claim
<1>3. r \in BufferHead /\ r.key = k /\ ~r.dirt /\ r.lock = bh[b].lock
      /\ ~r.uptodate /\ r.count = 1
  BY <1>1 DEF BufferHead
<1> HIDE DEF r
<1> QED BY <1>1, <1>2, <1>3
-----------------------------------------------------------------------------
(* Nobody is left asleep on buffer_wait without a user of a buffer. *)
Still(t, p, g) ==
  \/ \A u \in Tasks : pc'[u] # "no_buffer"
  \/ /\ pc[t] # "no_buffer" /\ p # "no_buffer"
     /\ (\E b \in Buffers : HoldsAt(pc[t], f[t], b)) => \E b \in Buffers : HoldsAt(p, g, b)

(* The effect of a step of t on labels, locals, counts and buffer_wait. *)
Proceeds(t, p, g) ==
  StepTo(t, p, g) /\ Local(p, g, bh', Ops[t]) /\ Counted(t, p, g)

LEMMA StepWaiters ==
  ASSUME UseInv, NEW t \in Tasks, NEW p, NEW g, StepTo(t, p, g), Still(t, p, g)
  PROVE  BufferWaiterRemembered'
<1>1. f \in [Tasks -> Frame] /\ pc \in [Tasks -> Labels] /\ BufferWaiterRemembered
  BY DEF UseInv, Types
<1>2. f'[t] = g /\ pc'[t] = p /\ \A u \in Tasks : u # t => f'[u] = f[u]
  BY <1>1 DEF StepTo
<1> SUFFICES ASSUME NEW u \in Tasks, pc'[u] = "no_buffer"
             PROVE  \E v \in Tasks, b \in Buffers : pc'[v] # "no_buffer" /\ HoldsAt(pc'[v], f'[v], b)
  BY DEF BufferWaiterRemembered, Holds, HoldsAt, Filling
<1>3. u # t /\ pc[u] = "no_buffer" /\ pc[t] # "no_buffer" /\ p # "no_buffer"
      /\ ((\E b \in Buffers : HoldsAt(pc[t], f[t], b)) => \E b \in Buffers : HoldsAt(p, g, b))
  BY <1>2 DEF Still, StepTo
<1>4. PICK v \in Tasks, b \in Buffers : pc[v] # "no_buffer" /\ HoldsAt(pc[v], f[v], b)
  BY <1>1, <1>3, HoldsIs DEF BufferWaiterRemembered
<1>5. CASE v = t
  BY <1>2, <1>3, <1>4, <1>5
<1>6. CASE v # t
  BY <1>2, <1>4, <1>6 DEF StepTo
<1> QED BY <1>5, <1>6

(* A step that neither locks nor unlocks and leaves the lists alone. *)
Quiet(t) ==
  /\ bh' \in [Buffers -> BufferHead]
  /\ \A b \in Buffers : bh'[b].lock = bh[b].lock
  /\ list' = list
  /\ pc[t] \notin Busy
  /\ \E p, g : /\ Proceeds(t, p, g) /\ p \notin Busy
               /\ Still(t, p, g) \/ BufferWaiterRemembered'

LEMMA RequestIs ==
  ASSUME Types, NEW d \in Devs, NEW n \in 1 .. Len(list[d])
  PROVE  /\ list[d] \in Seq(Requests) /\ list[d][n] \in Requests /\ list[d][n].bh \in Buffers
         /\ list[d][n].cmd \in {READ, WRITE}
<1>1. list[d] \in Seq(Requests)
  BY DEF Types
<1>2. list[d][n] \in Requests
  BY <1>1
<1> QED BY <1>1, <1>2 DEF Requests

LEMMA LockedKept ==
  ASSUME Types, [Next]_vars, NEW b \in Buffers, bh[b].lock
  PROVE  bh'[b].key = bh[b].key
BY TypesShape, StepKeys DEF SameKeys, Moves

LEMMA LocksKept ==
  ASSUME UseInv, list' = list,
         \A u \in Tasks : (pc'[u] \in Busy <=> pc[u] \in Busy) /\ (pc'[u] \in Busy => f'[u] = f[u]),
         \A b \in Buffers : bh'[b].lock = bh[b].lock /\ (bh[b].lock => bh'[b].key = bh[b].key)
  PROVE  Locks'
<1>1. Types /\ Locks /\ Locals
  BY DEF UseInv
<1>7. \A d \in Devs : \A n \in 1 .. Len(list[d]) : list[d][n].bh \in Buffers
  BY <1>1, RequestIs
<1>8. \A u \in Tasks : pc[u] \in Busy => f[u].rq \in Buffers
  BY <1>1 DEF Locals, Local, Busy, Filling
<1>9. \A d \in Devs : \A n \in 1 .. Len(list'[d]) :
       /\ bh'[list'[d][n].bh].lock /\ BlockOf(list'[d][n]) = bh'[list'[d][n].bh].key
       /\ bh'[list'[d][n].bh].key \in Keys
  BY <1>1, <1>7 DEF Locks
<1>10. \A d, e \in Devs : \A n \in 1 .. Len(list'[d]), k \in 1 .. Len(list'[e]) :
       list'[d][n].bh = list'[e][k].bh => d = e /\ n = k
  BY <1>1 DEF Locks
<1>11. \A u \in Tasks : pc'[u] \in Busy =>
       /\ bh'[f'[u].rq].lock /\ bh'[f'[u].rq].key \in Keys
       /\ \A d \in Devs : \A n \in 1 .. Len(list'[d]) : list'[d][n].bh # f'[u].rq
       /\ \A v \in Tasks : pc'[v] \in Busy /\ f'[v].rq = f'[u].rq => v = u
  BY <1>1, <1>8 DEF Locks, Busy
<1>12. \A b \in Buffers : bh'[b].lock =>
       \/ \E d \in Devs : \E n \in 1 .. Len(list'[d]) : list'[d][n].bh = b
       \/ \E u \in Tasks : pc'[u] \in Busy /\ f'[u].rq = b
  BY <1>1 DEF Locks, Busy, Requesting
<1> QED BY <1>9, <1>10, <1>11, <1>12 DEF Locks, Busy, Requesting, BlockOf

LEMMA QuietLocks ==
  ASSUME UseInv, [Next]_vars, NEW t \in Tasks, Quiet(t)
  PROVE  Locks'
<1>1. Types
  BY DEF UseInv
<1>2. PICK p, g : StepTo(t, p, g) /\ p \notin Busy
  BY DEF Quiet, Proceeds
<1>3. f \in [Tasks -> Frame] /\ pc \in [Tasks -> Labels]
  BY <1>1 DEF Types
<1>4. \A u \in Tasks : (pc'[u] \in Busy <=> pc[u] \in Busy) /\ (pc'[u] \in Busy => f'[u] = f[u])
  BY <1>2, <1>3 DEF Quiet, StepTo, Busy
<1>5. \A b \in Buffers : bh'[b].lock = bh[b].lock /\ (bh[b].lock => bh'[b].key = bh[b].key)
  BY <1>1, LockedKept DEF Quiet
<1> QED BY <1>4, <1>5, LocksKept DEF Quiet

(* The parts of UseInv' that need no more than that. *)
Used == Locals' /\ Counts' /\ Locks' /\ BufferWaiterRemembered' /\ bh' \in [Buffers -> BufferHead]
        /\ pc' \in [Tasks -> Labels] /\ f' \in [Tasks -> Frame] /\ list' \in [Devs -> Seq(Requests)]

LEMMA QuietUsed ==
  ASSUME UseInv, [Next]_vars, NEW t \in Tasks, Quiet(t)
  PROVE  Used
<1>1. PICK p, g : /\ StepTo(t, p, g) /\ Local(p, g, bh', Ops[t]) /\ Counted(t, p, g)
                  /\ Still(t, p, g) \/ BufferWaiterRemembered'
  BY DEF Quiet, Proceeds
<1>2. Locals' /\ f' \in [Tasks -> Frame]
  BY <1>1, StepLocals
<1>3. Counts'
  BY <1>1, StepCounts
<1>4. BufferWaiterRemembered'
  BY <1>1, StepWaiters
<1>5. list' \in [Devs -> Seq(Requests)]
  BY DEF Quiet, UseInv, Types
<1> QED BY <1>1, <1>2, <1>3, <1>4, <1>5, QuietLocks DEF Used, StepTo, Quiet
-----------------------------------------------------------------------------
(* Steps that change no label, no local and neither key, count nor lock. *)
LEMMA IdleUsed ==
  ASSUME UseInv, UNCHANGED <<pc, f, list>>, bh' \in [Buffers -> BufferHead],
         \A b \in Buffers : /\ bh'[b].key = bh[b].key /\ bh'[b].lock = bh[b].lock
                            /\ bh'[b].count = bh[b].count
  PROVE  Used
<1>1. Types /\ Locals /\ Counts /\ Locks /\ BufferWaiterRemembered
  BY DEF UseInv
<1>2. Locals'
  <2> SUFFICES ASSUME NEW t \in Tasks
               PROVE  Local(pc[t], f[t], bh', Ops[t])
    BY DEF Locals
  <2>1. Local(pc[t], f[t], bh, Ops[t]) /\ pc[t] \in Labels /\ f[t] \in Frame
    BY <1>1 DEF Locals, Types
  <2> QED BY <2>1, LocalKept
<1>3. Counts'
  BY SMTT(30), <1>1 DEF Counts, Users, Holds
<1>4. BufferWaiterRemembered'
  BY <1>1 DEF BufferWaiterRemembered, Holds
<1>5. Locks'
  BY LocksKept
<1> QED BY <1>1, <1>2, <1>3, <1>4, <1>5 DEF Used, Types

LEMMA SleepUsed ==
  ASSUME UseInv, NEW t \in Tasks, Sleep(t)
  PROVE  Used
BY IdleUsed DEF Sleep, UseInv, Types, device

LEMMA TransferUsed ==
  ASSUME UseInv, NEW d \in Devs, Transfer(d)
  PROVE  Used
BY IdleUsed DEF Transfer, UseInv, Types

LEMMA ModifyUsed ==
  ASSUME UseInv, NEW t \in Tasks, Modify(t)
  PROVE  Used
<1>1. Types /\ Local(pc[t], f[t], bh, Ops[t]) /\ pc[t] = "hold"
  BY DEF UseInv, Locals, Modify, At
<1>2. f[t].bh \in Buffers
  BY <1>1 DEF Local, Using
<1>3. bh' = [bh EXCEPT ![f[t].bh].dirt = TRUE] /\ UNCHANGED <<pc, f, list>>
  BY DEF Modify, device
<1> QED BY <1>1, <1>2, <1>3, DirtSet, IdleUsed

(* Steps that move one task and leave the buffers alone. *)
LEMMA QuietSame ==
  ASSUME Types, NEW t \in Tasks, NEW p, NEW g, pc[t] \notin Busy \cup {"no_buffer"},
         StepTo(t, p, g), p \notin Busy \cup {"no_buffer"}, Local(p, g, bh, Ops[t]),
         \A b \in Buffers : HoldsAt(p, g, b) <=> HoldsAt(pc[t], f[t], b),
         bh' = bh, list' = list
  PROVE  Quiet(t)
<1>1. bh' \in [Buffers -> BufferHead] /\ \A b \in Buffers : bh'[b].lock = bh[b].lock
  BY DEF Types
<1>2. Counted(t, p, g) /\ Still(t, p, g)
  BY DEF Counted, Still
<1>3. Proceeds(t, p, g)
  BY <1>2 DEF Proceeds
<1> QED BY <1>1, <1>2, <1>3 DEF Quiet

LEMMA StartQuiet ==
  ASSUME UseInv, NEW t \in Tasks, NEW k \in Keys,
         \/ \E op \in Ops[t] \cap {"bread", "block_write"} :
              (op = "block_write" <=> Dev(k) \in Raw) /\ Start(t, op, k)
         \/ "breada" \in Ops[t] /\ Dev(k) \notin Raw /\ \E ahead \in Keys : StartAhead(t, k, ahead)
  PROVE  Quiet(t)
<1>1. Types /\ Local(pc[t], f[t], bh, Ops[t]) /\ pc[t] = "idle" /\ f[t] \in Frame
  BY DEF UseInv, Locals, Start, StartAhead, At, Types
<1>2. bh' = bh /\ list' = list
  BY DEF Start, StartAhead, device
<1>3. PICK g \in Frame : Goto(t, "getblk", g) /\ Asked(g, Ops[t]) /\ g.first = NULL /\ g.i = 0
  <2>1. CASE \E op \in Ops[t] \cap {"bread", "block_write"} :
              (op = "block_write" <=> Dev(k) \in Raw) /\ Start(t, op, k)
    <3>1. PICK op \in {"bread", "block_write"} : (op = "block_write" <=> Dev(k) \in Raw) /\ Start(t, op, k)
      BY <2>1
    <3> DEFINE g == [NoFrame EXCEPT !.op = op, !.key = k]
    <3>2. g \in Frame /\ g.op = op /\ g.key = k /\ g.first = NULL /\ g.i = 0
      BY DEF NoFrame, Frame, Blocks, READ, WRITE
    <3>3. Goto(t, "getblk", g)
      BY <3>1 DEF Start
    <3> HIDE DEF g
    <3> QED BY <3>1, <3>2, <3>3 DEF Asked
  <2>2. CASE "breada" \in Ops[t] /\ Dev(k) \notin Raw /\ \E ahead \in Keys : StartAhead(t, k, ahead)
    <3>1. PICK ahead \in Keys : StartAhead(t, k, ahead)
      BY <2>2
    <3> DEFINE g == [NoFrame EXCEPT !.op = "breada", !.key = k, !.ahead = ahead]
    <3>2. g \in Frame /\ g.op = "breada" /\ g.key = k /\ g.first = NULL /\ g.i = 0 /\ g.ahead = ahead
      BY DEF NoFrame, Frame, Blocks, READ, WRITE
    <3>3. Goto(t, "getblk", g)
      BY <3>1 DEF StartAhead
    <3> HIDE DEF g
    <3> QED BY <2>2, <3>1, <3>2, <3>3 DEF Asked, StartAhead
  <2> QED BY <2>1, <2>2
<1>6. StepTo(t, "getblk", g)
  BY <1>1, <1>3, GotoIs DEF Labels
<1>7. Local("getblk", g, bh, Ops[t])
  BY <1>3 DEF Local, Asking, Filling, Using, Syncs
<1>8. f[t].first = NULL
  BY <1>1 DEF Local, Asking, Filling
<1>9. \A b \in Buffers : HoldsAt("getblk", g, b) <=> HoldsAt(pc[t], f[t], b)
  BY <1>1, <1>3, <1>8, FewTasks DEF HoldsAt, Filling
<1> QED BY <1>1, <1>2, <1>6, <1>7, <1>9, QuietSame DEF Busy

LEMMA StartSyncQuiet ==
  ASSUME UseInv, NEW t \in Tasks, NEW op \in {"sys_sync", "sync_dev"}, NEW d \in Devs,
         StartSync(t, op, d)
  PROVE  Quiet(t)
<1>1. Types /\ Local(pc[t], f[t], bh, Ops[t]) /\ pc[t] = "idle" /\ f[t] \in Frame
  BY DEF UseInv, Locals, StartSync, At, Types
<1> DEFINE fr == [NoFrame EXCEPT !.op = op, !.dev = d]
<1>2. bh' = bh /\ list' = list /\ SyncFrom(t, fr, 1)
  BY DEF StartSync, device
<1>3. d \in Nat
  BY KeysAre DEF Devs
<1>4. fr \in Frame /\ fr.key = NoKey /\ fr.first = NULL
  BY <1>3 DEF NoFrame, Frame, Blocks, READ, WRITE
<1> HIDE DEF fr
<1>5. Carried(fr, bh, Ops[t])
  BY <1>4 DEF Carried
<1>6. PICK p, g : /\ StepTo(t, p, g) /\ Local(p, g, bh, Ops[t]) /\ p \notin Busy \cup {"no_buffer"}
                  /\ \A b \in Buffers : HoldsAt(p, g, b) <=> fr.first = b
  BY <1>1, <1>2, <1>4, <1>5, SyncFromIs
<1>7. f[t].first = NULL
  BY <1>1 DEF Local, Asking, Filling
<1>8. \A b \in Buffers : HoldsAt(p, g, b) <=> HoldsAt(pc[t], f[t], b)
  BY <1>1, <1>4, <1>6, <1>7, FewTasks DEF HoldsAt, Filling
<1> QED BY <1>1, <1>2, <1>6, <1>8, QuietSame DEF Busy
-----------------------------------------------------------------------------
(* getblk() sleeps on buffer_wait: some user of a buffer does not. *)
LEMMA NoBufferStays ==
  ASSUME UseInv, NEW t \in Tasks, pc[t] = "getblk", Unused = {},
         StepTo(t, "no_buffer", f[t]), bh' = bh
  PROVE  BufferWaiterRemembered'
<1>1. Types /\ Counts /\ Locals
  BY DEF UseInv
<1>2. f \in [Tasks -> Frame] /\ pc \in [Tasks -> Labels]
  BY <1>1 DEF Types
<1>3. f' = f /\ pc'[t] = "no_buffer"
  BY <1>2 DEF StepTo
<1> SUFFICES ASSUME \A v \in Tasks, b \in Buffers : pc'[v] # "no_buffer" => ~HoldsAt(pc'[v], f[v], b)
             PROVE  FALSE
  BY <1>3 DEF BufferWaiterRemembered, Holds, HoldsAt, Filling
<1> DEFINE A == {u \in Tasks : "breada" \in Ops[u]}
<1>4. \A b \in Buffers : \E u \in A : f[u].first = b
  <2> TAKE b \in Buffers
  <2>1. Users(b) # {}
    <3>1. bh[b].count # 0
      BY DEF Unused
    <3> QED BY <1>1, <3>1, FS_EmptySet DEF Counts
  <2>2. PICK u \in Tasks : HoldsAt(pc[u], f[u], b)
    BY <2>1, HoldsIs DEF Users
  <2>3. u = t \/ pc[u] = "no_buffer"
    <3> SUFFICES ASSUME u # t, pc[u] # "no_buffer"
                 PROVE  FALSE
      OBVIOUS
    <3>1. pc'[u] = pc[u]
      BY DEF StepTo
    <3> QED BY <2>2, <3>1
  <2>4. f[u].first = b
    BY <2>2, <2>3 DEF HoldsAt, Filling
  <2>5. Local(pc[u], f[u], bh, Ops[u]) /\ pc[u] \in Asking
    BY <1>1, <2>3 DEF Locals, Asking
  <2>6. f[u].first # NULL
    BY <2>4, FewTasks
  <2>7. "breada" \in Ops[u]
    BY <2>5, <2>6 DEF Local, Asked
  <2> QED BY <2>4, <2>7
<1>5. IsFiniteSet(A)
  BY FewTasks, FS_Subset
<1> DEFINE B == {u \in A : f[u].first \in Buffers}
           h == [u \in B |-> f[u].first]
<1>6. IsFiniteSet(B) /\ Cardinality(B) =< Cardinality(A)
  BY <1>5, FS_Subset
<1>7. h \in Surjection(B, Buffers)
  BY <1>4 DEF Surjection
<1> HIDE DEF h, B
<1>8. Cardinality(Buffers) =< Cardinality(B)
  BY <1>6, <1>7, FS_Surjection
<1>9. Cardinality(A) \in Nat /\ Cardinality(B) \in Nat /\ Cardinality(Buffers) \in Nat
  BY <1>5, <1>6, BuffersFinite, FS_CardinalityType
<1>10. Cardinality(A) < Cardinality(Buffers)
  BY EnoughBuffers
<1> HIDE DEF A
<1> QED BY <1>6, <1>8, <1>9, <1>10

LEMMA GetblkQuiet ==
  ASSUME UseInv, NEW t \in Tasks, Getblk(t)
  PROVE  Quiet(t)
<1> DEFINE fr == f[t]
<1>1. Types /\ Local("getblk", fr, bh, Ops[t]) /\ pc[t] = "getblk" /\ fr \in Frame /\ list' = list
  BY DEF UseInv, Locals, Getblk, At, Types, device
<1>a. fr = f[t]
  OBVIOUS
<1> HIDE DEF fr
<1>2. /\ Asked(fr, Ops[t]) /\ fr.i = 0
      /\ fr.first # NULL => /\ fr.op = "breada" /\ fr.key \in Keys /\ fr.first \in Buffers
                            /\ bh[fr.first].key \in Keys \ {fr.key} /\ Dev(bh[fr.first].key) \notin Raw
  BY <1>1 DEF Local, Asking, Filling, Frame
<1>3. ASSUME NEW b \in find_buffer(fr.key), bh' = [bh EXCEPT ![b].count = @ + 1],
             Goto(t, "hashed", [fr EXCEPT !.bh = b])
      PROVE  Quiet(t)
  <2> DEFINE g == [fr EXCEPT !.bh = b]
  <2>1. b \in Buffers /\ bh[b].key = fr.key /\ bh[b].count \in Nat
    BY <1>1, <1>3 DEF find_buffer, Types, BufferHead
  <2>2. g \in Frame /\ g.bh = b /\ g.key = fr.key /\ g.first = fr.first /\ g.op = fr.op /\ g.i = 0
        /\ g.ahead = fr.ahead
    BY <1>1, <1>2, <2>1 DEF Frame
  <2> HIDE DEF g
  <2>3. StepTo(t, "hashed", g)
    BY <1>1, <1>3, <2>2, GotoIs DEF Labels, g
  <2>4. /\ bh' \in [Buffers -> BufferHead]
        /\ \A c \in Buffers : /\ bh'[c].key = bh[c].key /\ bh'[c].lock = bh[c].lock
                              /\ bh'[c].count = IF c = b THEN bh[b].count + 1 ELSE bh[c].count
    <3>1. bh' = [bh EXCEPT ![b].count = bh[b].count + 1] /\ bh[b].count + 1 \in Nat
      BY <1>1, <1>3, <2>1 DEF Types
    <3> QED BY <1>1, <2>1, <3>1, CountSet
  <2>5. Local("hashed", g, bh', Ops[t])
    BY <1>2, <2>1, <2>2, <2>4 DEF Local, Asked, Asking, Filling, Using, Syncs
  <2>6. b # fr.first
    BY <1>2, <2>1, FewTasks
  <2>7. \A c \in Buffers : /\ HoldsAt("hashed", g, c) <=> fr.first = c \/ c = b
                           /\ HoldsAt(pc[t], f[t], c) <=> fr.first = c
    BY <1>a, <1>1, <2>2 DEF HoldsAt, Filling
  <2>8. Counted(t, "hashed", g) /\ Still(t, "hashed", g)
    BY <1>1, <2>1, <2>4, <2>6, <2>7 DEF Counted, Still
  <2> QED BY <1>1, <2>3, <2>4, <2>5, <2>8 DEF Quiet, Proceeds, Busy
<1>4. ASSUME NEW b \in Victims, Goto(t, "victim", [fr EXCEPT !.bh = b]), bh' = bh
      PROVE  Quiet(t)
  <2> DEFINE g == [fr EXCEPT !.bh = b]
  <2>1. b \in Buffers
    BY <1>4 DEF Victims, Unused
  <2>2. g \in Frame /\ g.bh = b /\ g.key = fr.key /\ g.first = fr.first /\ g.op = fr.op /\ g.i = 0
        /\ g.ahead = fr.ahead
    BY <1>1, <1>2, <2>1 DEF Frame
  <2> HIDE DEF g
  <2>3. StepTo(t, "victim", g)
    BY <1>1, <1>4, <2>2, GotoIs DEF Labels, g
  <2>5. Local("victim", g, bh, Ops[t])
    BY <1>2, <2>1, <2>2 DEF Local, Asked, Asking, Filling, Using, Syncs
  <2>7. \A c \in Buffers : HoldsAt("victim", g, c) <=> HoldsAt(pc[t], f[t], c)
    BY <1>a, <1>1, <2>2 DEF HoldsAt, Filling
  <2> QED BY <1>1, <1>4, <2>3, <2>5, <2>7, QuietSame DEF Busy
<1>5. ASSUME Unused = {}, Yield(t, "no_buffer", fr), bh' = bh
      PROVE  Quiet(t)
  <2>1. StepTo(t, "no_buffer", fr)
    BY <1>1, <1>5, GotoIs DEF Labels
  <2>2. BufferWaiterRemembered'
    BY <1>a, <1>1, <1>5, <2>1, NoBufferStays
  <2>3. Local("no_buffer", fr, bh', Ops[t])
    BY <1>2, <1>5 DEF Local, Asking, Filling, Using, Syncs
  <2>4. Counted(t, "no_buffer", fr)
    BY <1>a, <1>1, <1>5 DEF Counted, HoldsAt, Filling
  <2>5. bh' \in [Buffers -> BufferHead] /\ \A b \in Buffers : bh'[b].lock = bh[b].lock
    BY <1>1, <1>5 DEF Types
  <2> QED BY <1>1, <2>1, <2>2, <2>3, <2>4, <2>5 DEF Quiet, Proceeds, Busy
<1> QED BY <1>a, <1>3, <1>4, <1>5 DEF Getblk

LEMMA HashedQuiet ==
  ASSUME UseInv, NEW t \in Tasks, Hashed(t)
  PROVE  Quiet(t)
<1> DEFINE fr == f[t]
<1>1. Types /\ Local("hashed", fr, bh, Ops[t]) /\ pc[t] = "hashed" /\ fr \in Frame /\ list' = list
  BY DEF UseInv, Locals, Hashed, At, Types, device
<1>2. bh[fr.bh].key = fr.key
  BY <1>1 DEF Local
<1>3. Goto(t, "got", fr) /\ bh' = bh
  BY <1>2 DEF Hashed
<1> HIDE DEF fr
<1>4. StepTo(t, "got", fr)
  BY <1>1, <1>3, GotoIs DEF Labels
<1>5. Local("got", fr, bh, Ops[t])
  BY <1>1 DEF Local, Asking, Filling, Using, Syncs
<1>6. \A c \in Buffers : HoldsAt("got", fr, c) <=> HoldsAt(pc[t], f[t], c)
  BY <1>1 DEF HoldsAt, Filling, fr
<1> QED BY <1>1, <1>3, <1>4, <1>5, <1>6, QuietSame DEF Busy

LEMMA VictimQuiet ==
  ASSUME UseInv, NEW t \in Tasks, Victim(t)
  PROVE  Quiet(t)
<1> DEFINE fr == f[t]
           b == fr.bh
<1>1. Types /\ Local("victim", fr, bh, Ops[t]) /\ pc[t] = "victim" /\ fr \in Frame /\ list' = list
  BY DEF UseInv, Locals, Victim, At, Types, device
<1>a. fr = f[t]
  OBVIOUS
<1>2. /\ Asked(fr, Ops[t]) /\ fr.i = 0 /\ b \in Buffers /\ fr.key \in Keys
      /\ fr.first # NULL => /\ fr.op = "breada" /\ fr.key \in Keys /\ fr.first \in Buffers
                            /\ bh[fr.first].key \in Keys \ {fr.key} /\ Dev(bh[fr.first].key) \notin Raw
  BY <1>1 DEF Local, Asked, Asking, Filling, Frame
<1>b. \/ Goto(t, "getblk", fr) /\ bh' = bh
      \/ SyncFrom(t, [fr EXCEPT !.dev = Dev(bh[b].key)], 1) /\ bh' = bh
      \/ ~TakenMeanwhile(b) /\ Claim(b, fr.key) /\ Goto(t, "got", fr)
  BY DEF Victim
<1> HIDE DEF fr
<1>3. CASE Goto(t, "getblk", fr) /\ bh' = bh
  <2>1. StepTo(t, "getblk", fr)
    BY <1>1, <1>3, GotoIs DEF Labels
  <2>2. Local("getblk", fr, bh, Ops[t])
    BY <1>1 DEF Local, Asking, Filling, Using, Syncs
  <2>3. \A c \in Buffers : HoldsAt("getblk", fr, c) <=> HoldsAt(pc[t], f[t], c)
    BY <1>a, <1>1 DEF HoldsAt, Filling
  <2> QED BY <1>1, <1>3, <2>1, <2>2, <2>3, QuietSame DEF Busy
<1>4. CASE SyncFrom(t, [fr EXCEPT !.dev = Dev(bh[b].key)], 1) /\ bh' = bh
  <2> DEFINE e == Dev(bh[b].key)
             g == [fr EXCEPT !.dev = e]
  <2>1. e \in Nat
    BY <1>1, <1>2, KeysAre DEF Types, BufferHead, Blocks, NoKey, Dev
  <2> HIDE DEF e
  <2>2. g \in Frame /\ g.bh = b /\ g.key = fr.key /\ g.first = fr.first /\ g.op = fr.op
        /\ g.ahead = fr.ahead
    BY <1>1, <2>1 DEF Frame
  <2>3. SyncFrom(t, g, 1)
    BY <1>4 DEF e
  <2> HIDE DEF g
  <2>4. Carried(g, bh, Ops[t])
    BY <1>2, <2>2 DEF Carried, Asked
  <2>5. PICK p, h : /\ StepTo(t, p, h) /\ Local(p, h, bh, Ops[t]) /\ p \notin Busy \cup {"no_buffer"}
                    /\ \A c \in Buffers : HoldsAt(p, h, c) <=> g.first = c
    BY <1>1, <2>2, <2>3, <2>4, SyncFromIs
  <2>6. \A c \in Buffers : HoldsAt(p, h, c) <=> HoldsAt(pc[t], f[t], c)
    BY <1>a, <1>1, <2>2, <2>5 DEF HoldsAt, Filling
  <2> QED BY <1>1, <1>4, <2>5, <2>6, QuietSame DEF Busy
<1>5. CASE ~TakenMeanwhile(b) /\ Claim(b, fr.key) /\ Goto(t, "got", fr)
  <2>1. StepTo(t, "got", fr)
    BY <1>1, <1>5, GotoIs DEF Labels
  <2>2. /\ bh' \in [Buffers -> BufferHead] /\ \A c \in Buffers : bh'[c].lock = bh[c].lock
        /\ \A c \in Buffers : c # b => bh'[c] = bh[c]
        /\ bh'[b].key = fr.key /\ bh'[b].count = 1
    BY <1>1, <1>2, <1>5, ClaimSet DEF Blocks
  <2>3. bh[b].count = 0
    BY <1>1, <1>2, <1>5 DEF TakenMeanwhile, Types, BufferHead
  <2>4. fr.first # b
    <3> SUFFICES ASSUME fr.first = b
                 PROVE  FALSE
      OBVIOUS
    <3>1. Holds(t, b)
      BY <1>a DEF Holds
    <3> QED BY <1>1, <1>2, <2>3, <3>1, HeldIsCounted DEF UseInv
  <2>5. Local("got", fr, bh', Ops[t])
    BY <1>2, <2>2, <2>4 DEF Local, Asking, Filling, Using, Syncs
  <2>6. \A c \in Buffers : /\ HoldsAt("got", fr, c) <=> fr.first = c \/ c = b
                           /\ HoldsAt(pc[t], f[t], c) <=> fr.first = c
    BY <1>a, <1>1 DEF HoldsAt, Filling
  <2>7. Counted(t, "got", fr) /\ Still(t, "got", fr)
    BY <1>1, <1>2, <2>2, <2>3, <2>4, <2>6 DEF Counted, Still
  <2> QED BY <1>1, <2>1, <2>2, <2>5, <2>7 DEF Quiet, Proceeds, Busy
<1> QED BY <1>b, <1>3, <1>4, <1>5

LEMMA RWIs ==
  ASSUME Types, NEW t \in Tasks, NEW fr \in Frame, NEW rw \in {READ, WRITE}, NEW rq \in Buffers,
         NEW ra \in BOOLEAN, ll_rw_block(t, fr, rw, rq, ra)
  PROVE  \E g \in Frame :
           /\ StepTo(t, "lock_buffer", g)
           /\ g.rw = rw /\ g.rq = rq /\ g.ra = ra /\ g.i = fr.i /\ g.key = fr.key
           /\ g.first = fr.first /\ g.op = fr.op /\ g.bh = fr.bh /\ g.ahead = fr.ahead
<1> DEFINE g == [fr EXCEPT !.rw = rw, !.rq = rq, !.ra = ra]
<1>1. g \in Frame /\ g.rw = rw /\ g.rq = rq /\ g.ra = ra /\ g.i = fr.i /\ g.key = fr.key
      /\ g.first = fr.first /\ g.op = fr.op /\ g.bh = fr.bh /\ g.ahead = fr.ahead
  BY DEF Frame
<1>2. Goto(t, "lock_buffer", g)
  BY DEF ll_rw_block
<1> HIDE DEF g
<1>3. StepTo(t, "lock_buffer", g)
  BY <1>1, <1>2, GotoIs DEF Labels
<1> QED BY <1>1, <1>3

LEMMA SyncWaitQuiet ==
  ASSUME UseInv, NEW t \in Tasks, SyncWait(t)
  PROVE  Quiet(t)
<1> DEFINE fr == f[t]
           b == SyncBuffer(fr.i)
<1>1. Types /\ Local("sync_wait", fr, bh, Ops[t]) /\ pc[t] = "sync_wait" /\ fr \in Frame
      /\ list' = list /\ bh' = bh
  BY DEF UseInv, Locals, SyncWait, At, Types, device
<1>a. fr = f[t]
  OBVIOUS
<1>b. ll_rw_block(t, fr, WRITE, b, FALSE) \/ SyncFrom(t, fr, fr.i + 1)
  BY DEF SyncWait
<1> HIDE DEF fr
<1>2. Carried(fr, bh, Ops[t]) /\ fr.i > 0 /\ fr.i \in Nat
  BY <1>1 DEF Local, Syncs, Carried, Frame
<1>c. b \in Buffers /\ fr.i + 1 \in Nat \ {0}
  BY <1>2, BuffersFinite
<1> HIDE DEF b
<1>3. ASSUME NEW ra \in BOOLEAN, ra = FALSE, ll_rw_block(t, fr, WRITE, b, ra)
      PROVE  Quiet(t)
  <2>1. PICK g \in Frame :
           /\ StepTo(t, "lock_buffer", g)
           /\ g.rw = WRITE /\ g.rq = b /\ g.ra = ra /\ g.i = fr.i /\ g.key = fr.key
           /\ g.first = fr.first /\ g.op = fr.op /\ g.bh = fr.bh /\ g.ahead = fr.ahead
    BY <1>1, <1>3, <1>c, RWIs
  <2>2. Local("lock_buffer", g, bh, Ops[t])
    BY <1>2, <1>3, <1>c, <2>1 DEF Local, Carried, Asked, Asking, Filling, Using, Syncs
  <2>3. \A c \in Buffers : HoldsAt("lock_buffer", g, c) <=> HoldsAt(pc[t], f[t], c)
    BY <1>a, <1>1, <1>2, <2>1 DEF HoldsAt, Filling
  <2> QED BY <1>1, <2>1, <2>2, <2>3, QuietSame DEF Busy
<1>4. CASE SyncFrom(t, fr, fr.i + 1)
  <2>5. PICK p, h : /\ StepTo(t, p, h) /\ Local(p, h, bh, Ops[t]) /\ p \notin Busy \cup {"no_buffer"}
                    /\ \A c \in Buffers : HoldsAt(p, h, c) <=> fr.first = c
    BY <1>1, <1>2, <1>c, <1>4, SyncFromIs
  <2>6. \A c \in Buffers : HoldsAt(p, h, c) <=> HoldsAt(pc[t], f[t], c)
    BY <1>a, <1>1, <2>5 DEF HoldsAt, Filling
  <2> QED BY <1>1, <2>5, <2>6, QuietSame DEF Busy
<1> QED BY <1>b, <1>3, <1>4

LEMMA HoldIs ==
  ASSUME Types, NEW t \in Tasks, NEW b \in Buffers, Hold(t, b)
  PROVE  \E g \in Frame : StepTo(t, "hold", g) /\ g.bh = b /\ g.op = f[t].op /\ g.first = NULL /\ g.i = 0
<1> DEFINE o == f[t].op
           g == [NoFrame EXCEPT !.op = o, !.bh = b]
<1>1. o \in {"none", "bread", "breada", "block_write", "sys_sync", "sync_dev"}
  BY DEF Types, Frame
<1>2. Yield(t, "hold", g)
  BY DEF Hold
<1> HIDE DEF o
<1>3. g \in Frame /\ g.bh = b /\ g.op = o /\ g.first = NULL /\ g.i = 0
  BY <1>1 DEF NoFrame, Frame, Blocks, READ, WRITE
<1> HIDE DEF g
<1>4. StepTo(t, "hold", g)
  BY <1>2, <1>3, GotoIs DEF Labels
<1> QED BY <1>3, <1>4 DEF o

LEMMA GotQuiet ==
  ASSUME UseInv, NEW t \in Tasks, Got(t)
  PROVE  Quiet(t)
<1> DEFINE fr == f[t]
           b == fr.bh
<1>1. Types /\ Local("got", fr, bh, Ops[t]) /\ pc[t] = "got" /\ fr \in Frame
      /\ list' = list /\ bh' = bh
  BY DEF UseInv, Locals, Got, At, Types, device
<1>a. fr = f[t]
  OBVIOUS
<1>2. /\ Asked(fr, Ops[t]) /\ fr.i = 0 /\ b \in Buffers /\ fr.key \in Keys /\ bh[b].key = fr.key
      /\ fr.first # NULL => /\ fr.op = "breada" /\ fr.key \in Keys /\ fr.first \in Buffers
                            /\ bh[fr.first].key \in Keys \ {fr.key} /\ Dev(bh[fr.first].key) \notin Raw
  BY <1>1 DEF Local, Asked, Asking, Filling, Frame
<1>b. fr.op \in {"bread", "breada", "block_write"}
  BY <1>2 DEF Asked
<1>c. \/ Hold(t, b) /\ fr.op # "breada"
      \/ ll_rw_block(t, fr, READ, b, FALSE) /\ fr.op # "block_write"
      \/ Goto(t, "ahead", fr) /\ fr.first = NULL /\ fr.op = "breada"
      \/ Goto(t, "ahead_done", fr) /\ fr.first # NULL
      \/ ll_rw_block(t, fr, READ, fr.first, TRUE) /\ fr.first # NULL
  BY <1>b DEF Got
<1> HIDE DEF fr
<1>3. CASE Hold(t, b) /\ fr.op # "breada"
  <2>1. PICK g \in Frame : StepTo(t, "hold", g) /\ g.bh = b /\ g.op = fr.op /\ g.first = NULL /\ g.i = 0
    BY <1>a, <1>1, <1>2, <1>3, HoldIs
  <2>2. Local("hold", g, bh, Ops[t])
    BY <1>2, <2>1 DEF Local, Asked, Asking, Filling, Using, Syncs
  <2>3. fr.first = NULL
    BY <1>2, <1>3
  <2>4. \A c \in Buffers : HoldsAt("hold", g, c) <=> HoldsAt(pc[t], f[t], c)
    BY <1>a, <1>1, <1>2, <2>1, <2>3 DEF HoldsAt, Filling
  <2> QED BY <1>1, <2>1, <2>2, <2>4, QuietSame DEF Busy
<1>4. ASSUME NEW rq \in Buffers, NEW ra \in BOOLEAN, rq \in {b, fr.first},
             ll_rw_block(t, fr, READ, rq, ra), fr.op # "block_write"
      PROVE  Quiet(t)
  <2>1. PICK g \in Frame :
           /\ StepTo(t, "lock_buffer", g)
           /\ g.rw = READ /\ g.rq = rq /\ g.ra = ra /\ g.i = fr.i /\ g.key = fr.key
           /\ g.first = fr.first /\ g.op = fr.op /\ g.bh = fr.bh /\ g.ahead = fr.ahead
    BY <1>1, <1>4, RWIs
  <2>2. Local("lock_buffer", g, bh, Ops[t])
    BY <1>2, <1>4, <2>1 DEF Local, Asked, Asking, Filling, Using, Syncs
  <2>3. \A c \in Buffers : HoldsAt("lock_buffer", g, c) <=> HoldsAt(pc[t], f[t], c)
    BY <1>a, <1>1, <1>2, <2>1 DEF HoldsAt, Filling
  <2> QED BY <1>1, <2>1, <2>2, <2>3, QuietSame DEF Busy
<1>5. ASSUME NEW p \in {"ahead", "ahead_done"}, Goto(t, p, fr),
             p = "ahead" => fr.op = "breada" /\ fr.first = NULL, p = "ahead_done" => fr.first # NULL
      PROVE  Quiet(t)
  <2>1. StepTo(t, p, fr)
    BY <1>1, <1>5, GotoIs DEF Labels
  <2>2. Local(p, fr, bh, Ops[t])
    BY <1>1, <1>2, <1>5 DEF Local, Asking, Filling, Using, Syncs
  <2>3. \A c \in Buffers : HoldsAt(p, fr, c) <=> HoldsAt(pc[t], f[t], c)
    BY <1>a, <1>1, <1>5 DEF HoldsAt, Filling
  <2> QED BY <1>1, <1>5, <2>1, <2>2, <2>3, QuietSame DEF Busy
<1> QED BY <1>c, <1>2, <1>3, <1>4, <1>5

LEMMA AheadQuiet ==
  ASSUME UseInv, NEW t \in Tasks, Ahead(t)
  PROVE  Quiet(t)
<1> DEFINE fr == f[t]
           g == [fr EXCEPT !.first = fr.bh, !.bh = NULL, !.key = fr.ahead]
<1>1. Types /\ Local("ahead", fr, bh, Ops[t]) /\ pc[t] = "ahead" /\ fr \in Frame
      /\ list' = list /\ bh' = bh /\ Goto(t, "getblk", g)
  BY DEF UseInv, Locals, Ahead, At, Types, device
<1>a. fr = f[t]
  OBVIOUS
<1> HIDE DEF fr
<1>2. /\ Asked(fr, Ops[t]) /\ fr.i = 0 /\ fr.bh \in Buffers /\ fr.key \in Keys /\ bh[fr.bh].key = fr.key
      /\ fr.first = NULL /\ fr.op = "breada"
  BY <1>1 DEF Local, Asked, Asking, Filling, Frame
<1>3. /\ g \in Frame /\ g.first = fr.bh /\ g.key = fr.ahead /\ g.i = 0 /\ g.op = fr.op
      /\ g.ahead = fr.ahead /\ g.bh = NULL
  BY <1>1, <1>2 DEF Frame
<1> HIDE DEF g
<1>4. StepTo(t, "getblk", g)
  BY <1>1, <1>3, GotoIs DEF Labels
<1>5. Asked(g, Ops[t])
  BY <1>2, <1>3, FewTasks DEF Asked
<1>6. Local("getblk", g, bh, Ops[t])
  BY <1>2, <1>3, <1>5 DEF Local, Asked, Asking, Filling, Using, Syncs
<1>7. \A c \in Buffers : HoldsAt("getblk", g, c) <=> HoldsAt(pc[t], f[t], c)
  BY <1>a, <1>1, <1>2, <1>3, FewTasks DEF HoldsAt, Filling
<1> QED BY <1>1, <1>4, <1>6, <1>7, QuietSame DEF Busy

LEMMA AheadDoneQuiet ==
  ASSUME UseInv, NEW t \in Tasks, AheadDone(t)
  PROVE  Quiet(t)
<1> DEFINE fr == f[t]
           b == fr.bh
           g == [fr EXCEPT !.bh = fr.first, !.first = NULL]
<1>1. Types /\ Local("ahead_done", fr, bh, Ops[t]) /\ pc[t] = "ahead_done" /\ fr \in Frame
      /\ list' = list /\ bh' = [bh EXCEPT ![b].count = @ - 1] /\ Goto(t, "wait_read", g)
  BY DEF UseInv, Locals, AheadDone, At, Types, device
<1>a. fr = f[t]
  OBVIOUS
<1> HIDE DEF fr
<1>2. /\ fr.i = 0 /\ fr.bh \in Buffers /\ bh[fr.bh].key = fr.key
      /\ fr.first # NULL /\ fr.op = "breada" /\ fr.first \in Buffers
      /\ bh[fr.first].key \in Keys \ {fr.key} /\ Dev(bh[fr.first].key) \notin Raw
  BY <1>1 DEF Local, Asked, Asking, Filling, Frame
<1>3. g \in Frame /\ g.bh = fr.first /\ g.first = NULL /\ g.i = 0 /\ g.op = "breada"
  BY <1>1, <1>2 DEF Frame
<1> HIDE DEF g
<1>4. StepTo(t, "wait_read", g)
  BY <1>1, <1>3, GotoIs DEF Labels
<1>5. bh[b].count > 0 /\ bh[b].count \in Nat
  <2>1. Holds(t, b)
    BY <1>a, <1>1 DEF Holds
  <2> QED BY <1>1, <1>2, <2>1, HeldIsCounted DEF UseInv, Types, BufferHead
<1>6. /\ bh' \in [Buffers -> BufferHead]
      /\ \A c \in Buffers : /\ bh'[c].key = bh[c].key /\ bh'[c].lock = bh[c].lock
                            /\ bh'[c].count = IF c = b THEN bh[b].count - 1 ELSE bh[c].count
  <2> DEFINE x == bh[b].count - 1
  <2>1. bh' = [bh EXCEPT ![b].count = x] /\ x \in Nat
    BY <1>1, <1>2, <1>5 DEF Types
  <2> HIDE DEF x
  <2>2. b \in Buffers
    BY <1>2
  <2> HIDE DEF b
  <2>3. \A c \in Buffers : /\ bh'[c].key = bh[c].key /\ bh'[c].lock = bh[c].lock
                           /\ bh'[c].count = IF c = b THEN x ELSE bh[c].count
    BY ZenonT(90), <1>1, <2>1, <2>2, CountSet
  <2> QED BY <1>1, <2>1, <2>2, <2>3, CountSet DEF x
<1>7. Local("wait_read", g, bh', Ops[t])
  BY <1>2, <1>3, <1>6 DEF Local, Asking, Filling, Using, Syncs
<1>8. \A c \in Buffers : /\ HoldsAt("wait_read", g, c) <=> c = fr.first
                         /\ HoldsAt(pc[t], f[t], c) <=> c = fr.first \/ c = b
  BY <1>a, <1>1, <1>3, FewTasks DEF HoldsAt, Filling
<1>9. Counted(t, "wait_read", g) /\ Still(t, "wait_read", g)
  BY <1>1, <1>2, <1>6, <1>8 DEF Counted, Still
<1> QED BY <1>1, <1>4, <1>6, <1>7, <1>9 DEF Quiet, Proceeds, Busy

LEMMA BrelseQuiet ==
  ASSUME UseInv, NEW t \in Tasks, pc[t] \in {"wait_read", "release"}, Brelse(t, f[t].bh), list' = list
  PROVE  Quiet(t)
<1> DEFINE fr == f[t]
           b == fr.bh
<1>1. Types /\ Local(pc[t], fr, bh, Ops[t]) /\ fr \in Frame
      /\ bh' = [bh EXCEPT ![b].count = @ - 1]
  BY DEF UseInv, Locals, At, Types, Brelse, Put
<1>a. fr = f[t]
  OBVIOUS
<1>b. StepTo(t, "idle", NoFrame)
  BY <1>1, BrelseIs
<1> HIDE DEF fr
<1>2. fr.i = 0 /\ b \in Buffers /\ fr.first = NULL
  BY <1>1 DEF Local, Asking, Filling, Using, Frame
<1>5. bh[b].count > 0 /\ bh[b].count \in Nat
  <2>1. Holds(t, b)
    BY <1>a, <1>1 DEF Holds
  <2> QED BY <1>1, <1>2, <2>1, HeldIsCounted DEF UseInv, Types, BufferHead
<1>6. /\ bh' \in [Buffers -> BufferHead]
      /\ \A c \in Buffers : /\ bh'[c].key = bh[c].key /\ bh'[c].lock = bh[c].lock
                            /\ bh'[c].count = IF c = b THEN bh[b].count - 1 ELSE bh[c].count
  <2> DEFINE x == bh[b].count - 1
  <2>1. bh' = [bh EXCEPT ![b].count = x] /\ x \in Nat
    BY <1>1, <1>2, <1>5 DEF Types
  <2> HIDE DEF x
  <2>2. b \in Buffers
    BY <1>2
  <2> HIDE DEF b
  <2>3. \A c \in Buffers : /\ bh'[c].key = bh[c].key /\ bh'[c].lock = bh[c].lock
                           /\ bh'[c].count = IF c = b THEN x ELSE bh[c].count
    BY ZenonT(90), <1>1, <2>1, <2>2, CountSet
  <2> QED BY <1>1, <2>1, <2>2, <2>3, CountSet DEF x
<1>7. Local("idle", NoFrame, bh', Ops[t])
  BY NoFrameIs DEF Local, Asking, Filling, Using, Syncs
<1>8. \A c \in Buffers : ~HoldsAt("idle", NoFrame, c) /\ (HoldsAt(pc[t], f[t], c) <=> c = b)
  BY <1>a, <1>1, <1>2, NoFrameIs, FewTasks DEF HoldsAt, Filling
<1>9. Counted(t, "idle", NoFrame)
  BY <1>1, <1>2, <1>6, <1>8 DEF Counted
<1>10. \A u \in Tasks : pc'[u] # "no_buffer"
  <2>1. pc' = [WakeBufferWait EXCEPT ![t] = "idle"]
    BY DEF Brelse
  <2>2. WakeBufferWait = [u \in Tasks |-> IF pc[u] = "no_buffer" THEN "getblk" ELSE pc[u]]
    BY DEF WakeBufferWait, Wake
  <2> QED BY <2>1, <2>2
<1>11. Still(t, "idle", NoFrame)
  BY <1>10 DEF Still
<1> QED BY <1>1, <1>b, <1>6, <1>7, <1>9, <1>11 DEF Quiet, Proceeds, Busy

LEMMA WaitReadQuiet ==
  ASSUME UseInv, NEW t \in Tasks, WaitRead(t)
  PROVE  Quiet(t)
<1> DEFINE fr == f[t]
           b == fr.bh
<1>1. Types /\ Local("wait_read", fr, bh, Ops[t]) /\ pc[t] = "wait_read" /\ fr \in Frame /\ list' = list
  BY DEF UseInv, Locals, WaitRead, At, Types, device
<1>a. fr = f[t]
  OBVIOUS
<1>b. (Hold(t, b) /\ bh' = bh) \/ Brelse(t, b)
  BY DEF WaitRead
<1> HIDE DEF fr
<1>2. /\ fr.i = 0 /\ b \in Buffers /\ fr.first = NULL /\ bh[b].key \in Keys
      /\ fr.op \in {"bread", "breada", "block_write"} /\ (fr.op = "block_write" <=> Dev(bh[b].key) \in Raw)
  BY <1>1 DEF Local, Asking, Filling, Using, Frame
<1>3. CASE Hold(t, b) /\ bh' = bh
  <2>1. PICK g \in Frame : StepTo(t, "hold", g) /\ g.bh = b /\ g.op = fr.op /\ g.first = NULL /\ g.i = 0
    BY <1>a, <1>1, <1>2, <1>3, HoldIs
  <2>2. Local("hold", g, bh, Ops[t])
    BY <1>2, <2>1 DEF Local, Asked, Asking, Filling, Using, Syncs
  <2>3. \A c \in Buffers : HoldsAt("hold", g, c) <=> HoldsAt(pc[t], f[t], c)
    BY <1>a, <1>1, <1>2, <2>1 DEF HoldsAt, Filling
  <2> QED BY <1>1, <1>3, <2>1, <2>2, <2>3, QuietSame DEF Busy
<1>4. CASE Brelse(t, b)
  BY <1>a, <1>1, <1>4, BrelseQuiet
<1> QED BY <1>b, <1>3, <1>4

LEMMA ReleaseQuiet ==
  ASSUME UseInv, NEW t \in Tasks, StartRelease(t) \/ Release(t)
  PROVE  Quiet(t)
<1>1. CASE StartRelease(t)
  <2>1. Types /\ Local("hold", f[t], bh, Ops[t]) /\ pc[t] = "hold" /\ f[t] \in Frame
        /\ list' = list /\ bh' = bh /\ Goto(t, "release", f[t])
    BY <1>1 DEF UseInv, Locals, StartRelease, At, Types, device
  <2>2. StepTo(t, "release", f[t])
    BY <2>1, GotoIs DEF Labels
  <2>3. Local("release", f[t], bh, Ops[t])
    BY <2>1 DEF Local, Asking, Filling, Using, Syncs
  <2>4. \A c \in Buffers : HoldsAt("release", f[t], c) <=> HoldsAt(pc[t], f[t], c)
    BY <2>1 DEF HoldsAt, Filling
  <2> QED BY <2>1, <2>2, <2>3, <2>4, QuietSame DEF Busy
<1>2. CASE Release(t)
  BY <1>2, BrelseQuiet DEF Release, At, device
<1> QED BY <1>1, <1>2
-----------------------------------------------------------------------------
(* A step of getblk(), breada(), block_write() alone marks no buffer dirty. *)
LEMMA NotDirtied ==
  ASSUME Shape, NEW b, NEW x,
         \/ bh' = [bh EXCEPT ![b].count = x]
         \/ bh' = [bh EXCEPT ![b].lock = x]
         \/ bh' = [bh EXCEPT ![b].dirt = FALSE]
         \/ bh' = [bh EXCEPT ![b].uptodate = x, ![b].lock = FALSE]
         \/ Claim(b, x)
         \/ bh' = bh
  PROVE  \A c \in Buffers : bh'[c].dirt => bh[c].dirt
<1>0. ASSUME NEW r, bh' = [c \in Buffers |-> IF c = b THEN r ELSE bh[c]],
             b \in Buffers /\ r.dirt => bh[b].dirt
      PROVE  \A c \in Buffers : bh'[c].dirt => bh[c].dirt
  BY <1>0
<1> b \in Buffers => bh[b] = Head5(bh[b])
  BY DEF Shape
<1>1. CASE bh' = [bh EXCEPT ![b].count = x]
  <2> DEFINE r == [bh[b] EXCEPT !.count = x]
  <2>1. bh' = [c \in Buffers |-> IF c = b THEN r ELSE bh[c]]
    BY <1>1 DEF Shape
  <2>2. b \in Buffers /\ r.dirt => bh[b].dirt
    BY DEF Head5
  <2> QED BY <1>0, <2>1, <2>2
<1>2. CASE bh' = [bh EXCEPT ![b].lock = x]
  <2> DEFINE r == [bh[b] EXCEPT !.lock = x]
  <2>1. bh' = [c \in Buffers |-> IF c = b THEN r ELSE bh[c]]
    BY <1>2 DEF Shape
  <2>2. b \in Buffers /\ r.dirt => bh[b].dirt
    BY DEF Head5
  <2> QED BY <1>0, <2>1, <2>2
<1>3. CASE bh' = [bh EXCEPT ![b].dirt = FALSE]
  <2> DEFINE r == [bh[b] EXCEPT !.dirt = FALSE]
  <2>1. bh' = [c \in Buffers |-> IF c = b THEN r ELSE bh[c]]
    BY <1>3 DEF Shape
  <2>2. b \in Buffers /\ r.dirt => bh[b].dirt
    BY DEF Head5
  <2> QED BY <1>0, <2>1, <2>2
<1>4. CASE bh' = [bh EXCEPT ![b].uptodate = x, ![b].lock = FALSE]
  <2> DEFINE q == [bh[b] EXCEPT !.uptodate = x]
             r == [q EXCEPT !.lock = FALSE]
  <2>1. bh' = [c \in Buffers |-> IF c = b THEN r ELSE bh[c]]
    BY <1>4 DEF Shape
  <2>2. b \in Buffers => q = Head5(q) /\ (q.dirt => bh[b].dirt)
    BY DEF Head5
  <2> HIDE DEF q
  <2>3. b \in Buffers /\ r.dirt => bh[b].dirt
    BY <2>2 DEF Head5
  <2> QED BY <1>0, <2>1, <2>3
<1>5. CASE Claim(b, x)
  <2> DEFINE r == [key |-> x, count |-> 1, dirt |-> FALSE, lock |-> bh[b].lock, uptodate |-> FALSE]
  <2>1. bh' = [c \in Buffers |-> IF c = b THEN r ELSE bh[c]]
    BY <1>5 DEF Shape, Claim
  <2> QED BY <1>0, <2>1
<1>6. CASE bh' = bh
  BY <1>6
<1> QED BY <1>1, <1>2, <1>3, <1>4, <1>5, <1>6

LEMMA StepDirt ==
  ASSUME Shape, [Next]_vars
  PROVE  \A c \in Buffers : bh'[c].dirt =>
           bh[c].dirt \/ \E t \in Tasks : Modify(t) /\ c = f[t].bh
<1> USE NotDirtied
<1>1. ASSUME NEW t \in Tasks, TaskStep(t)
      PROVE  \A c \in Buffers : bh'[c].dirt => bh[c].dirt \/ (Modify(t) /\ c = f[t].bh)
  <2>1. CASE Sleep(t)
    BY <2>1 DEF Sleep
  <2>2. CASE Getblk(t)
    BY <2>2 DEF Getblk
  <2>3. CASE Hashed(t)
    BY <2>3 DEF Hashed
  <2>4. CASE Victim(t)
    BY <2>4 DEF Victim
  <2>5. CASE SyncWait(t)
    BY <2>5 DEF SyncWait
  <2>6. CASE LockBuffer(t)
    BY <2>6 DEF LockBuffer
  <2>7. CASE FindRequest(t)
    BY <2>7 DEF FindRequest, Queued
  <2>8. CASE Got(t)
    BY <2>8 DEF Got
  <2>9. CASE Ahead(t)
    BY <2>9 DEF Ahead
  <2>10. CASE AheadDone(t)
    BY <2>10 DEF AheadDone
  <2>11. CASE WaitRead(t)
    BY <2>11 DEF WaitRead, Brelse, Put
  <2>12. CASE Modify(t)
    <3>1. bh' = [bh EXCEPT ![f[t].bh].dirt = TRUE]
      BY <2>12 DEF Modify
    <3>2. \A c \in Buffers : c # f[t].bh => bh'[c] = bh[c]
      BY <3>1 DEF Shape
    <3> QED BY <2>12, <3>2
  <2>13. CASE StartRelease(t)
    BY <2>13 DEF StartRelease
  <2>14. CASE Release(t)
    BY <2>14 DEF Release, Brelse, Put
  <2> QED BY <1>1, <2>1, <2>2, <2>3, <2>4, <2>5, <2>6, <2>7, <2>8, <2>9, <2>10, <2>11,
             <2>12, <2>13, <2>14 DEF TaskStep
<1>2. ASSUME NEW t \in Tasks, NEW op, NEW k, NEW ahead, NEW d,
             Start(t, op, k) \/ StartAhead(t, k, ahead) \/ StartSync(t, op, d)
      PROVE  \A c \in Buffers : bh'[c].dirt => bh[c].dirt
  BY <1>2 DEF Start, StartAhead, StartSync
<1>3. ASSUME NEW d \in Devs, Transfer(d)
      PROVE  \A c \in Buffers : bh'[c].dirt => bh[c].dirt
  BY <1>3 DEF Transfer
<1>4. ASSUME NEW d \in Devs, NEW uptodate \in BOOLEAN, end_request(d, uptodate)
      PROVE  \A c \in Buffers : bh'[c].dirt => bh[c].dirt
  BY <1>4 DEF end_request, Ended
<1>5. ASSUME UNCHANGED vars
      PROVE  \A c \in Buffers : bh'[c].dirt => bh[c].dirt
  BY <1>5 DEF vars
<1> QED BY <1>1, <1>2, <1>3, <1>4, <1>5 DEF Next

LEMMA StepDirtyUsed ==
  ASSUME UseInv, [Next]_vars
  PROVE  DirtyUsed'
<1>1. Types /\ Locals /\ DirtyUsed /\ Shape
  BY TypesShape DEF UseInv
<1> SUFFICES ASSUME NEW c \in Buffers, bh'[c].dirt
             PROVE  bh'[c].key \in Keys
  BY DEF DirtyUsed
<1>2. CASE bh[c].dirt
  BY <1>1, <1>2, StepKeys DEF SameKeys, Moves, DirtyUsed
<1>3. ASSUME NEW t \in Tasks, Modify(t), c = f[t].bh
      PROVE  bh'[c].key \in Keys
  <2>1. Local("hold", f[t], bh, Ops[t])
    BY <1>1, <1>3 DEF Locals, Modify, At
  <2>2. bh[c].key \in Keys
    BY <1>3, <2>1 DEF Local, Using
  <2>3. bh' = [bh EXCEPT ![c].dirt = TRUE]
    BY <1>3 DEF Modify
  <2> QED BY <1>1, <2>2, <2>3, DirtSet
<1> QED BY <1>1, <1>2, <1>3, StepDirt

LEMMA LockBufferUsed ==
  ASSUME UseInv, [Next]_vars, NEW t \in Tasks, LockBuffer(t)
  PROVE  Used
<1> DEFINE fr == f[t]
           b == fr.rq
<1>1. Types /\ Local("lock_buffer", fr, bh, Ops[t]) /\ pc[t] = "lock_buffer" /\ fr \in Frame
      /\ list' = list
  BY DEF UseInv, Locals, LockBuffer, At, Types, device
<1>a. fr = f[t]
  OBVIOUS
<1>b. \/ AfterRW(t, fr) /\ bh' = bh
      \/ /\ ~bh[b].lock /\ ~NothingToDo(b, fr.rw) /\ bh' = [bh EXCEPT ![b].lock = TRUE]
         /\ Goto(t, "find_request", fr)
  BY DEF LockBuffer
<1>3. CASE AfterRW(t, fr) /\ bh' = bh
  <2>1. pc[t] \in Filling /\ Local(pc[t], f[t], bh, Ops[t])
    BY <1>1 DEF Filling
  <2>2. PICK p, g : /\ StepTo(t, p, g) /\ Local(p, g, bh, Ops[t]) /\ p \notin Busy \cup {"no_buffer"}
                    /\ \A c \in Buffers : HoldsAt(p, g, c) <=> HoldsAt(pc[t], f[t], c)
    BY <1>1, <1>3, <2>1, AfterRWIs
  <2>3. Quiet(t)
    BY <1>1, <1>3, <2>2, QuietSame DEF Busy
  <2> QED BY <2>3, QuietUsed
<1> HIDE DEF fr
<1>4. CASE /\ ~bh[b].lock /\ ~NothingToDo(b, fr.rw) /\ bh' = [bh EXCEPT ![b].lock = TRUE]
           /\ Goto(t, "find_request", fr)
  <2>1. StepTo(t, "find_request", fr)
    BY <1>1, <1>4, GotoIs DEF Labels
  <2>2. b \in Buffers
    BY <1>1 DEF Local, Filling
  <2>3. /\ bh' \in [Buffers -> BufferHead]
        /\ \A c \in Buffers : /\ bh'[c].key = bh[c].key /\ bh'[c].count = bh[c].count
                              /\ bh'[c].lock = IF c = b THEN TRUE ELSE bh[c].lock
    BY <1>1, <1>4, <2>2, LockSet
  <2>4. Local("find_request", fr, bh, Ops[t])
    BY <1>1 DEF Local, Asking, Filling, Using, Syncs
  <2>5. Local("find_request", fr, bh', Ops[t])
    <3>1. "find_request" \in Labels /\ \A c \in Buffers : bh'[c].key = bh[c].key
      BY <2>3 DEF Labels
    <3> QED BY <1>1, <2>4, <3>1, LocalKept
  <2>6. \A c \in Buffers : HoldsAt("find_request", fr, c) <=> HoldsAt(pc[t], f[t], c)
    BY <1>a, <1>1 DEF HoldsAt, Filling
  <2>7. Counted(t, "find_request", fr) /\ Still(t, "find_request", fr)
    BY <1>1, <2>3, <2>6 DEF Counted, Still
  <2>8. bh[b].key \in Keys
    <3>1. CASE fr.i = 0
      <4>1. Asked(fr, Ops[t]) /\ fr.bh \in Buffers /\ bh[fr.bh].key = fr.key /\ b \in {fr.bh, fr.first}
            /\ (fr.first # NULL => bh[fr.first].key \in Keys)
        BY <1>1, <3>1 DEF Local, Filling
      <4> QED BY <2>2, <4>1, FewTasks DEF Asked
    <3>2. CASE fr.i # 0
      <4>1. fr.rw = WRITE
        BY <1>1, <3>2 DEF Local, Filling, Frame
      <4>2. bh[b].dirt
        BY <1>4, <4>1 DEF NothingToDo, READ, WRITE
      <4> QED BY <2>2, <4>2 DEF UseInv, DirtyUsed
    <3> QED BY <3>1, <3>2
  <2>9. Locks'
    <3>1. Locks /\ Locals
      BY DEF UseInv
    <3>2. f \in [Tasks -> Frame] /\ pc \in [Tasks -> Labels]
      BY <1>1 DEF Types
    <3>3. /\ f'[t] = fr /\ pc'[t] = "find_request"
          /\ \A u \in Tasks : u # t => (pc'[u] \in Busy <=> pc[u] \in Busy) /\ f'[u] = f[u]
      BY <2>1, <3>2 DEF StepTo, Busy
    <3>4. \A d \in Devs : \A n \in 1 .. Len(list[d]) : list[d][n].bh \in Buffers /\ list[d][n].bh # b
      BY <1>1, <1>4, <3>1, RequestIs DEF Locks
    <3>5. \A u \in Tasks : pc[u] \in Busy => f[u].rq \in Buffers /\ f[u].rq # b
      BY <1>4, <3>1 DEF Locals, Local, Busy, Filling, Locks
    <3>9. \A d \in Devs : \A n \in 1 .. Len(list'[d]) :
           /\ bh'[list'[d][n].bh].lock /\ BlockOf(list'[d][n]) = bh'[list'[d][n].bh].key
           /\ bh'[list'[d][n].bh].key \in Keys
      BY ZenonT(30), <1>1, <2>3, <3>1, <3>4 DEF Locks
    <3>10. \A d, e \in Devs : \A n \in 1 .. Len(list'[d]), k \in 1 .. Len(list'[e]) :
           list'[d][n].bh = list'[e][k].bh => d = e /\ n = k
      BY <1>1, <3>1 DEF Locks
    <3>11. \A u \in Tasks : pc'[u] \in Busy =>
           /\ bh'[f'[u].rq].lock /\ bh'[f'[u].rq].key \in Keys
           /\ \A d \in Devs : \A n \in 1 .. Len(list'[d]) : list'[d][n].bh # f'[u].rq
           /\ \A v \in Tasks : pc'[v] \in Busy /\ f'[v].rq = f'[u].rq => v = u
      <4> TAKE u \in Tasks
      <4> HAVE pc'[u] \in Busy
      <4>1. CASE u = t
        BY <1>1, <2>2, <2>3, <2>8, <3>3, <3>4, <3>5, <4>1
      <4>2. CASE u # t
        <5>1. pc[u] \in Busy /\ f'[u].rq = f[u].rq /\ f[u].rq \in Buffers /\ f[u].rq # b
          BY <3>3, <3>5, <4>2
        <5>2. /\ bh[f[u].rq].lock /\ bh[f[u].rq].key \in Keys
              /\ \A d \in Devs : \A n \in 1 .. Len(list[d]) : list[d][n].bh # f[u].rq
              /\ \A v \in Tasks : pc[v] \in Busy /\ f[v].rq = f[u].rq => v = u
          BY <3>1, <5>1 DEF Locks, Busy
        <5>3. bh'[f[u].rq].lock /\ bh'[f[u].rq].key \in Keys
          BY <2>3, <5>1, <5>2
        <5>4. \A v \in Tasks : pc'[v] \in Busy /\ f'[v].rq = f[u].rq => v = u
          BY <3>3, <5>1, <5>2
        <5> QED BY <1>1, <5>1, <5>2, <5>3, <5>4
      <4> QED BY <4>1, <4>2
    <3>12. \A c \in Buffers : bh'[c].lock =>
           \/ \E d \in Devs : \E n \in 1 .. Len(list'[d]) : list'[d][n].bh = c
           \/ \E u \in Tasks : pc'[u] \in Busy /\ f'[u].rq = c
      <4> TAKE c \in Buffers
      <4> HAVE bh'[c].lock
      <4>1. CASE c = b
        BY <3>3, <4>1 DEF Busy
      <4>2. CASE c # b
        <5>1. bh[c].lock
          BY <2>3, <4>2
        <5>2. (\E d \in Devs : \E n \in 1 .. Len(list[d]) : list[d][n].bh = c)
              \/ \E u \in Tasks : pc[u] \in Busy /\ f[u].rq = c
          BY <3>1, <5>1 DEF Locks, Requesting, Busy
        <5> QED BY <1>1, <3>3, <5>2, <1>1 DEF Busy
      <4> QED BY <4>1, <4>2
    <3> QED BY <3>9, <3>10, <3>11, <3>12 DEF Locks, Busy, Requesting, BlockOf
  <2>10. Locals' /\ f' \in [Tasks -> Frame] /\ Counts' /\ BufferWaiterRemembered'
    BY <2>1, <2>5, <2>7, StepLocals, StepCounts, StepWaiters
  <2>11. list' \in [Devs -> Seq(Requests)]
    BY <1>1 DEF Types
  <2> QED BY <2>1, <2>3, <2>9, <2>10, <2>11 DEF Used, StepTo
<1> QED BY <1>b, <1>3, <1>4
-----------------------------------------------------------------------------
(* The lists after add_request() and end_request(). *)
Inserted(M, L, k, e) ==
  /\ Len(M) = Len(L) + 1
  /\ \A i \in 1 .. (Len(L) + 1) :
       M[i] = IF i =< k THEN L[i] ELSE IF i = k + 1 THEN e ELSE L[i - 1]

LEMMA InsertAtIs ==
  ASSUME NEW S, NEW L \in Seq(S), NEW e \in S, NEW k \in 0 .. Len(L)
  PROVE  InsertAt(L, k + 1, e) \in Seq(S) /\ Inserted(InsertAt(L, k + 1, e), L, k, e)
<1> DEFINE A == SubSeq(L, 1, k)
           C == SubSeq(L, k + 1, Len(L))
           M == (A \o <<e>>) \o C
<1>1. /\ A \in Seq(S) /\ Len(A) = k /\ \A i \in 1 .. k : A[i] = L[i]
      /\ C \in Seq(S) /\ Len(C) = Len(L) - k
      /\ \A i \in 1 .. (Len(L) - k) : C[i] = L[k + i]
  OBVIOUS
<1>2. InsertAt(L, k + 1, e) = M
  <2>1. (k + 1) - 1 = k
    OBVIOUS
  <2> QED BY <2>1 DEF InsertAt
<1> HIDE DEF A, C
<1>3. /\ A \o <<e>> \in Seq(S) /\ Len(A \o <<e>>) = k + 1
      /\ \A i \in 1 .. (k + 1) : (A \o <<e>>)[i] = IF i =< k THEN L[i] ELSE e
  BY <1>1
<1> DEFINE B == A \o <<e>>
<1> HIDE DEF B
<1>4. /\ M \in Seq(S) /\ Len(M) = Len(L) + 1
      /\ \A i \in 1 .. (Len(L) + 1) :
           M[i] = IF i =< k + 1 THEN B[i] ELSE C[i - (k + 1)]
  BY <1>1, <1>3 DEF B
<1>5. \A i \in 1 .. (Len(L) + 1) :
        M[i] = IF i =< k THEN L[i] ELSE IF i = k + 1 THEN e ELSE L[i - 1]
  <2> HIDE DEF M
  <2> TAKE i \in 1 .. (Len(L) + 1)
  <2>1. CASE i =< k + 1
    <3>1. i \in 1 .. (k + 1) /\ (i =< k \/ i = k + 1) /\ ~(k + 1 =< k)
      BY <2>1
    <3>2. M[i] = B[i]
      BY <2>1, <1>4
    <3>3. B[i] = IF i =< k THEN L[i] ELSE e
      BY <3>1, <1>3 DEF B
    <3> QED BY <3>1, <3>2, <3>3
  <2>2. CASE i > k + 1
    <3>1. i - (k + 1) \in 1 .. (Len(L) - k)
      BY <2>2
    <3>2. C[i - (k + 1)] = L[k + (i - (k + 1))]
      BY <3>1, <1>1
    <3> QED BY <2>2, <3>1, <3>2, <1>4
  <2> QED BY <2>1, <2>2
<1> HIDE DEF M
<1> QED BY <1>2, <1>4, <1>5 DEF Inserted

(* add_request() does not overtake the request being served. *)
LEMMA AddRequestIs ==
  ASSUME NEW L \in Seq(Requests), NEW r \in Requests
  PROVE  \E k \in 0 .. Len(L) :
           /\ add_request(L, r) \in Seq(Requests) /\ Inserted(add_request(L, r), L, k, r)
           /\ L # <<>> => k > 0
<1> DEFINE T == {j \in 1..(Len(L) - 1) : /\ IN_ORDER(L[j], r) \/ ~IN_ORDER(L[j], L[j + 1])
                                         /\ IN_ORDER(r, L[j + 1])}
           k == IF T = {} THEN Len(L) ELSE Min(T)
<1>1. add_request(L, r) = InsertAt(L, k + 1, r)
  BY DEF add_request
<1>2. T \in SUBSET Nat /\ T \subseteq 1 .. Len(L)
  OBVIOUS
<1> HIDE DEF T
<1>3. T # {} => Min(T) \in T
  BY <1>2, NatHasLeast
<1>4. k \in 0 .. Len(L) /\ (L # <<>> => k > 0)
  <2>1. CASE T = {}
    BY <2>1
  <2>2. CASE T # {}
    <3>1. k \in 1 .. Len(L)
      BY <1>2, <1>3, <2>2
    <3> HIDE DEF k
    <3> QED BY <3>1
  <2> QED BY <2>1, <2>2
<1> HIDE DEF k
<1>5. InsertAt(L, k + 1, r) \in Seq(Requests) /\ Inserted(InsertAt(L, k + 1, r), L, k, r)
  BY <1>4, InsertAtIs
<1> QED BY <1>1, <1>4, <1>5

(* make_request() takes an entry of request[]. *)
LEMMA SlotIs ==
  ASSUME NEW used, NEW rw \in {READ, WRITE}, FreeSlots(used, rw) # {}
  PROVE  find_request(used, rw) \in 0 .. NR_REQUEST - 1
<1> DEFINE T == FreeSlots(used, rw)
           n == NR_REQUEST - 1
           D == {n - x : x \in T}
<1>1. Limit(rw) \in 1 .. NR_REQUEST /\ NR_REQUEST \in Nat
  BY NrRequestPositive DEF Limit, READ, WRITE
<1>2. n \in Nat /\ T \in SUBSET (0 .. n)
  BY <1>1 DEF FreeSlots
<1> HIDE DEF T, n
<1>3. D \in SUBSET Nat /\ D # {}
  <2>1. \A x \in T : n - x \in Nat /\ n - x \in D
    BY <1>2
  <2> QED BY <2>1 DEF T
<1>4. Min(D) \in D
  BY <1>3, NatHasLeast
<1>5. \A y \in D : Min(D) =< y
  <2>1. \E x \in D : \A y \in D : x =< y
    <3> DEFINE R == OpToRel(<, Nat)
    <3>1. PICK x \in D : \A y \in D : ~(<<y, x>> \in R)
      <4>1. IsWellFoundedOn(R, Nat)
        BY NatLessThanWellFounded
      <4> HIDE DEF R, D
      <4> QED BY <1>3, <4>1, WFMin
    <3>2. \A y \in D : ~(y < x)
      BY <1>3, <3>1 DEF OpToRel
    <3> HIDE DEF R, D
    <3> QED BY <1>3, <3>2
  <2> HIDE DEF D
  <2> QED BY <2>1 DEF Min
<1>6. PICK x \in T : Min(D) = n - x
  BY <1>4
<1>7. \A y \in T : x >= y
  <2> TAKE y \in T
  <2>1. n - y \in D
    OBVIOUS
  <2>2. n - x =< n - y
    BY <1>5, <1>6, <2>1
  <2> HIDE DEF D
  <2> QED BY <1>2, <2>2
<1> HIDE DEF D
<1>8. Max(T) \in T
  BY <1>7 DEF Max
<1> QED BY <1>2, <1>8 DEF find_request, T, n

(* The request r for b goes into the list of d and is the only one for b.  *)
NewRequest(d, k, r) ==
  /\ r \in Requests /\ k \in 0 .. Len(list[d]) /\ (list[d] # <<>> => k > 0)
  /\ list' \in [Devs -> Seq(Requests)]
  /\ Inserted(list'[d], list[d], k, r)
  /\ \A e \in Devs : e # d => list'[e] = list[e]

(* The entry of the old list that the n-th of the new one is. *)
Before(d, k, e, n) == IF e = d /\ n > k THEN n - 1 ELSE n

LEMMA NewRequestIs ==
  ASSUME Types, NEW d \in Devs, NEW k, NEW r, NewRequest(d, k, r)
  PROVE  /\ \A e \in Devs : \A n \in 1 .. Len(list'[e]) :
              \/ e = d /\ n = k + 1 /\ list'[e][n] = r
              \/ /\ ~(e = d /\ n = k + 1) /\ Before(d, k, e, n) \in 1 .. Len(list[e])
                 /\ list'[e][n] = list[e][Before(d, k, e, n)]
         /\ k + 1 \in 1 .. Len(list'[d])
         /\ \A e \in Devs : \A n \in 1 .. Len(list[e]) :
              \E j \in 1 .. Len(list'[e]) : list'[e][j] = list[e][n]
         /\ list[d] # <<>> => list'[d][1] = list[d][1]
         /\ list[d] = <<>> => k = 0
<1>1. list \in [Devs -> Seq(Requests)] /\ list[d] \in Seq(Requests) /\ Len(list[d]) \in Nat
  BY DEF Types
<1> DEFINE L == list[d]
           M == list'[d]
<1>2. Len(M) = Len(L) + 1 /\ k \in 0 .. Len(L) /\ (L # <<>> => k > 0) /\ L \in Seq(Requests)
  BY <1>1 DEF NewRequest, Inserted
<1>3. \A i \in 1 .. (Len(L) + 1) : M[i] = IF i =< k THEN L[i] ELSE IF i = k + 1 THEN r ELSE L[i - 1]
  BY DEF NewRequest, Inserted
<1>4. \A e \in Devs : e # d => list'[e] = list[e]
  BY DEF NewRequest
<1>a. L = list[d] /\ M = list'[d]
  OBVIOUS
<1> HIDE DEF L, M
<1>5. ASSUME NEW n \in 1 .. Len(M)
      PROVE  \/ n = k + 1 /\ M[n] = r
             \/ /\ n # k + 1 /\ Before(d, k, d, n) \in 1 .. Len(L)
                /\ M[n] = L[Before(d, k, d, n)]
  BY <1>2, <1>3 DEF Before
<1>6. ASSUME NEW n \in 1 .. Len(L)
      PROVE  \E j \in 1 .. Len(M) : M[j] = L[n]
  <2>1. CASE n =< k
    BY <1>2, <1>3, <2>1
  <2>2. CASE n > k
    <3>1. n + 1 \in 1 .. Len(M) /\ M[n + 1] = L[(n + 1) - 1] /\ (n + 1) - 1 = n
      BY <1>2, <1>3, <2>2
    <3> QED BY <3>1
  <2> QED BY <1>2, <2>1, <2>2
<1>7. L # <<>> => M[1] = L[1]
  BY <1>2, <1>3
<1>8. L = <<>> => k = 0
  BY <1>2
<1>9. k + 1 \in 1 .. Len(M)
  BY <1>2
<1>10. \A e \in Devs : \A n \in 1 .. Len(list'[e]) :
              \/ e = d /\ n = k + 1 /\ list'[e][n] = r
              \/ /\ ~(e = d /\ n = k + 1) /\ Before(d, k, e, n) \in 1 .. Len(list[e])
                 /\ list'[e][n] = list[e][Before(d, k, e, n)]
  <2> TAKE e \in Devs
  <2>1. CASE e = d
    BY <1>a, <1>5, <2>1
  <2>2. CASE e # d
    BY <1>4, <2>2 DEF Before
  <2> QED BY <2>1, <2>2
<1>11. \A e \in Devs : \A n \in 1 .. Len(list[e]) :
              \E j \in 1 .. Len(list'[e]) : list'[e][j] = list[e][n]
  <2> TAKE e \in Devs
  <2>1. CASE e = d
    BY <1>a, <1>6, <2>1
  <2>2. CASE e # d
    BY <1>4, <2>2
  <2> QED BY <2>1, <2>2
<1> QED BY <1>a, <1>7, <1>8, <1>9, <1>10, <1>11

LEMMA FindRequestFacts ==
  ASSUME UseInv, NEW t \in Tasks, FindRequest(t)
  PROVE  /\ pc[t] = "find_request" /\ f[t].rq \in Buffers /\ f[t].rw \in {READ, WRITE}
         /\ bh[f[t].rq].lock /\ bh[f[t].rq].key \in Keys /\ Dev(bh[f[t].rq].key) \in Devs
         /\ \A d \in Devs : \A n \in 1 .. Len(list[d]) : list[d][n].bh # f[t].rq
         /\ \A u \in Tasks : pc[u] \in Busy /\ f[u].rq = f[t].rq => u = t
         /\ \/ /\ bh' = [bh EXCEPT ![f[t].rq].dirt = FALSE] /\ AfterRW(t, f[t])
               /\ \E k, r : /\ NewRequest(Dev(bh[f[t].rq].key), k, r) /\ r.bh = f[t].rq /\ r.cmd = f[t].rw
                            /\ BlockOf(r) = bh[f[t].rq].key
            \/ bh' = [bh EXCEPT ![f[t].rq].lock = FALSE] /\ AfterRW(t, f[t]) /\ list' = list /\ f[t].ra
            \/ bh' = bh /\ Yield(t, "no_request", f[t]) /\ list' = list
<1> DEFINE fr == f[t]
           b == fr.rq
           d == Dev(bh[b].key)
<1>1. Types /\ Local("find_request", fr, bh, Ops[t]) /\ pc[t] = "find_request" /\ fr \in Frame /\ Locks
  BY DEF UseInv, Locals, FindRequest, At, Types
<1>2. b \in Buffers /\ fr.rw \in {READ, WRITE}
  BY <1>1 DEF Local, Filling, Frame
<1>3. /\ bh[b].lock /\ bh[b].key \in Keys
      /\ \A e \in Devs : \A n \in 1 .. Len(list[e]) : list[e][n].bh # b
      /\ \A u \in Tasks : pc[u] \in Busy /\ f[u].rq = b => u = t
  BY <1>1 DEF Locks, Busy
<1>4. d \in Devs /\ d \in Nat /\ bh[b].key[2] \in Nat /\ bh[b].key = <<d, bh[b].key[2]>>
  BY <1>3, KeysAre
<1> DEFINE k2 == bh[b].key[2]
           s == find_request(UsedSlots, fr.rw)
           r == [cmd |-> fr.rw, dev |-> d, sector |-> 2 * k2, bh |-> b, slot |-> s]
<1>5. ASSUME FreeSlots(UsedSlots, fr.rw) # {}, list' = [list EXCEPT ![d] = add_request(@, r)]
      PROVE  \E k : NewRequest(d, k, r) /\ r.bh = b /\ r.cmd = fr.rw /\ BlockOf(r) = bh[b].key
  <2>1. s \in 0 .. NR_REQUEST - 1
    BY <1>2, <1>5, SlotIs
  <2>2. 2 * k2 \in Nat /\ (2 * k2) \div 2 = k2
    BY <1>4
  <2> HIDE DEF s, k2, d
  <2>3. r \in Requests /\ r.bh = b /\ r.cmd = fr.rw /\ r.dev = d /\ r.sector = 2 * k2
    BY <1>2, <1>4, <2>1, <2>2 DEF Requests
  <2>4. BlockOf(r) = bh[b].key
    BY <1>4, <2>2, <2>3 DEF BlockOf, k2
  <2> HIDE DEF r
  <2>5. list \in [Devs -> Seq(Requests)] /\ list[d] \in Seq(Requests)
    BY <1>1, <1>4 DEF Types
  <2>6. PICK k \in 0 .. Len(list[d]) :
           /\ add_request(list[d], r) \in Seq(Requests) /\ Inserted(add_request(list[d], r), list[d], k, r)
           /\ list[d] # <<>> => k > 0
    BY <2>3, <2>5, AddRequestIs
  <2>7. list' \in [Devs -> Seq(Requests)] /\ list'[d] = add_request(list[d], r)
        /\ \A e \in Devs : e # d => list'[e] = list[e]
    BY <1>4, <1>5, <2>5, <2>6
  <2>8. NewRequest(d, k, r)
    BY <2>3, <2>6, <2>7 DEF NewRequest
  <2> QED BY <2>3, <2>4, <2>8
<1>6. \/ /\ FreeSlots(UsedSlots, fr.rw) # {} /\ list' = [list EXCEPT ![d] = add_request(@, r)]
         /\ bh' = [bh EXCEPT ![b].dirt = FALSE] /\ AfterRW(t, fr)
      \/ bh' = [bh EXCEPT ![b].lock = FALSE] /\ AfterRW(t, fr) /\ list' = list /\ fr.ra
      \/ bh' = bh /\ Yield(t, "no_request", fr) /\ list' = list
  BY DEF FindRequest, Queued
<1>a. fr = f[t]
  OBVIOUS
<1> HIDE DEF fr, r
<1> QED BY <1>a, <1>1, <1>2, <1>3, <1>4, <1>5, <1>6

LEMMA QueuedLocks ==
  ASSUME UseInv, NEW t \in Tasks, NEW b \in Buffers, NEW d \in Devs, NEW k, NEW r, NewRequest(d, k, r),
         pc[t] = "find_request", f[t].rq = b, r.bh = b, BlockOf(r) = bh[b].key,
         bh[b].lock, bh[b].key \in Keys,
         \A e \in Devs : \A n \in 1 .. Len(list[e]) : list[e][n].bh # b,
         \A u \in Tasks : pc[u] \in Busy /\ f[u].rq = b => u = t,
         \A c \in Buffers : bh'[c].key = bh[c].key /\ bh'[c].lock = bh[c].lock,
         pc'[t] \notin Busy,
         \A u \in Tasks : u # t => (pc'[u] \in Busy <=> pc[u] \in Busy) /\ f'[u] = f[u]
  PROVE  Locks'
<1>1. Types /\ Locks /\ Locals
  BY DEF UseInv
<1>2. /\ \A e \in Devs : \A n \in 1 .. Len(list'[e]) :
              \/ e = d /\ n = k + 1 /\ list'[e][n] = r
              \/ /\ ~(e = d /\ n = k + 1) /\ Before(d, k, e, n) \in 1 .. Len(list[e])
                 /\ list'[e][n] = list[e][Before(d, k, e, n)]
      /\ k + 1 \in 1 .. Len(list'[d])
      /\ \A e \in Devs : \A n \in 1 .. Len(list[e]) :
              \E j \in 1 .. Len(list'[e]) : list'[e][j] = list[e][n]
  BY <1>1, NewRequestIs
<1>a. k \in Nat
  BY DEF NewRequest
<1>3. \A e \in Devs : \A n \in 1 .. Len(list'[e]) :
        (e = d /\ n = k + 1 /\ list'[e][n] = r) \/ \E j \in 1 .. Len(list[e]) : list'[e][n] = list[e][j]
  <2> TAKE e \in Devs
  <2> TAKE n \in 1 .. Len(list'[e])
  <2> DEFINE o == Before(d, k, e, n)
  <2>1. \/ e = d /\ n = k + 1 /\ list'[e][n] = r
        \/ o \in 1 .. Len(list[e]) /\ list'[e][n] = list[e][o]
    BY <1>2
  <2> HIDE DEF o
  <2> QED BY <2>1
<1>7. \A e \in Devs : \A n \in 1 .. Len(list[e]) : list[e][n].bh \in Buffers
  BY <1>1, RequestIs
<1>8. \A u \in Tasks : pc[u] \in Busy => f[u].rq \in Buffers
  BY <1>1 DEF Locals, Local, Busy, Filling
<1>9. \A e \in Devs : \A n \in 1 .. Len(list'[e]) :
       /\ bh'[list'[e][n].bh].lock /\ BlockOf(list'[e][n]) = bh'[list'[e][n].bh].key
       /\ bh'[list'[e][n].bh].key \in Keys
  <2> TAKE e \in Devs
  <2> TAKE n \in 1 .. Len(list'[e])
  <2>1. CASE list'[e][n] = r
    BY <2>1
  <2>2. CASE \E j \in 1 .. Len(list[e]) : list'[e][n] = list[e][j]
    <3>1. PICK j \in 1 .. Len(list[e]) : list'[e][n] = list[e][j]
      BY <2>2
    <3>2. bh[list[e][j].bh].lock /\ BlockOf(list[e][j]) = bh[list[e][j].bh].key
          /\ bh[list[e][j].bh].key \in Keys /\ list[e][j].bh \in Buffers
      BY <1>1, <1>7 DEF Locks
    <3> QED BY <3>1, <3>2
  <2> QED BY <1>3, <2>1, <2>2
<1>10. \A d1, d2 \in Devs : \A n1 \in 1 .. Len(list'[d1]), n2 \in 1 .. Len(list'[d2]) :
       list'[d1][n1].bh = list'[d2][n2].bh => d1 = d2 /\ n1 = n2
  <2> TAKE d1, d2 \in Devs
  <2> TAKE n1 \in 1 .. Len(list'[d1]), n2 \in 1 .. Len(list'[d2])
  <2> HAVE list'[d1][n1].bh = list'[d2][n2].bh
  <2> DEFINE o1 == Before(d, k, d1, n1)
             o2 == Before(d, k, d2, n2)
  <2>0. /\ \/ d1 = d /\ n1 = k + 1 /\ list'[d1][n1] = r
           \/ ~(d1 = d /\ n1 = k + 1) /\ o1 \in 1 .. Len(list[d1]) /\ list'[d1][n1] = list[d1][o1]
        /\ \/ d2 = d /\ n2 = k + 1 /\ list'[d2][n2] = r
           \/ ~(d2 = d /\ n2 = k + 1) /\ o2 \in 1 .. Len(list[d2]) /\ list'[d2][n2] = list[d2][o2]
    BY <1>2
  <2> HIDE DEF o1, o2
  <2>1. CASE d1 = d /\ n1 = k + 1
    BY <2>0, <2>1
  <2>2. CASE d2 = d /\ n2 = k + 1
    BY <2>0, <2>2
  <2>3. CASE ~(d1 = d /\ n1 = k + 1) /\ ~(d2 = d /\ n2 = k + 1)
    <3>3. d1 = d2 /\ o1 = o2
      <4>1. \A e1, e2 \in Devs : \A m1 \in 1 .. Len(list[e1]), m2 \in 1 .. Len(list[e2]) :
              list[e1][m1].bh = list[e2][m2].bh => e1 = e2 /\ m1 = m2
        BY <1>1 DEF Locks
      <4>2. o1 \in 1 .. Len(list[d1]) /\ o2 \in 1 .. Len(list[d2]) /\ list[d1][o1].bh = list[d2][o2].bh
        BY <2>0, <2>3
      <4> QED BY <4>1, <4>2
    <3>4. n1 \in Nat /\ n2 \in Nat
      OBVIOUS
    <3> QED BY <1>a, <2>3, <3>3, <3>4 DEF o1, o2, Before
  <2> QED BY <2>1, <2>2, <2>3
<1>11. \A u \in Tasks : pc'[u] \in Busy =>
       /\ bh'[f'[u].rq].lock /\ bh'[f'[u].rq].key \in Keys
       /\ \A e \in Devs : \A n \in 1 .. Len(list'[e]) : list'[e][n].bh # f'[u].rq
       /\ \A v \in Tasks : pc'[v] \in Busy /\ f'[v].rq = f'[u].rq => v = u
  <2> TAKE u \in Tasks
  <2> HAVE pc'[u] \in Busy
  <2>1. u # t /\ pc[u] \in Busy /\ f'[u] = f[u] /\ f[u].rq \in Buffers /\ f[u].rq # b
    BY <1>8
  <2>2. /\ bh[f[u].rq].lock /\ bh[f[u].rq].key \in Keys
        /\ \A e \in Devs : \A n \in 1 .. Len(list[e]) : list[e][n].bh # f[u].rq
        /\ \A v \in Tasks : pc[v] \in Busy /\ f[v].rq = f[u].rq => v = u
    BY <1>1, <2>1 DEF Locks, Busy
  <2>3. bh'[f[u].rq].lock /\ bh'[f[u].rq].key \in Keys
    BY <2>1, <2>2
  <2>4. \A e \in Devs : \A n \in 1 .. Len(list'[e]) : list'[e][n].bh # f[u].rq
    BY <1>3, <2>1, <2>2
  <2>5. \A v \in Tasks : pc'[v] \in Busy /\ f'[v].rq = f[u].rq => v = u
    BY <2>1, <2>2
  <2> QED BY <2>1, <2>3, <2>4, <2>5
<1>12. \A c \in Buffers : bh'[c].lock =>
       \/ \E e \in Devs : \E n \in 1 .. Len(list'[e]) : list'[e][n].bh = c
       \/ \E u \in Tasks : pc'[u] \in Busy /\ f'[u].rq = c
  <2> TAKE c \in Buffers
  <2> HAVE bh'[c].lock
  <2>1. CASE c = b
    <3>1. list'[d][k + 1].bh = c
      BY <1>2, <2>1
    <3> QED BY <1>2, <3>1
  <2>2. CASE c # b
    <3>1. (\E e \in Devs : \E n \in 1 .. Len(list[e]) : list[e][n].bh = c)
          \/ \E u \in Tasks : pc[u] \in Busy /\ f[u].rq = c
      BY <1>1 DEF Locks, Requesting, Busy
    <3>2. CASE \E e \in Devs : \E n \in 1 .. Len(list[e]) : list[e][n].bh = c
      <4>1. PICK e \in Devs : \E n \in 1 .. Len(list[e]) : list[e][n].bh = c
        BY <3>2
      <4>2. PICK n \in 1 .. Len(list[e]) : list[e][n].bh = c
        BY <4>1
      <4>3. PICK j \in 1 .. Len(list'[e]) : list'[e][j] = list[e][n]
        BY <1>2
      <4> QED BY <4>2, <4>3
    <3>3. CASE \E u \in Tasks : pc[u] \in Busy /\ f[u].rq = c
      BY <2>2, <3>3
    <3> QED BY <3>1, <3>2, <3>3
  <2> QED BY <2>1, <2>2
<1> HIDE DEF BlockOf
<1> QED BY <1>9, <1>10, <1>11, <1>12 DEF Locks, Busy, Requesting, BlockOf

(* A read-ahead that found no free entry gives its lock back. *)
LEMMA DroppedLocks ==
  ASSUME UseInv, NEW t \in Tasks, NEW b \in Buffers, pc[t] = "find_request", f[t].rq = b, list' = list,
         \A e \in Devs : \A n \in 1 .. Len(list[e]) : list[e][n].bh # b,
         \A u \in Tasks : pc[u] \in Busy /\ f[u].rq = b => u = t,
         \A c \in Buffers : bh'[c].key = bh[c].key /\ bh'[c].lock = IF c = b THEN FALSE ELSE bh[c].lock,
         pc'[t] \notin Busy,
         \A u \in Tasks : u # t => (pc'[u] \in Busy <=> pc[u] \in Busy) /\ f'[u] = f[u]
  PROVE  Locks'
<1>1. Types /\ Locks /\ Locals
  BY DEF UseInv
<1>7. \A e \in Devs : \A n \in 1 .. Len(list[e]) : list[e][n].bh \in Buffers /\ list[e][n].bh # b
  BY <1>1, RequestIs
<1>8. \A u \in Tasks : pc[u] \in Busy => f[u].rq \in Buffers
  BY <1>1 DEF Locals, Local, Busy, Filling
<1>9. \A e \in Devs : \A n \in 1 .. Len(list'[e]) :
       /\ bh'[list'[e][n].bh].lock /\ BlockOf(list'[e][n]) = bh'[list'[e][n].bh].key
       /\ bh'[list'[e][n].bh].key \in Keys
  <2> TAKE e \in Devs
  <2> TAKE n \in 1 .. Len(list'[e])
  <2>1. bh[list[e][n].bh].lock /\ BlockOf(list[e][n]) = bh[list[e][n].bh].key
        /\ bh[list[e][n].bh].key \in Keys /\ list[e][n].bh \in Buffers /\ list[e][n].bh # b
    BY <1>1, <1>7 DEF Locks
  <2> QED BY <2>1
<1>10. \A d, e \in Devs : \A n \in 1 .. Len(list'[d]), k \in 1 .. Len(list'[e]) :
       list'[d][n].bh = list'[e][k].bh => d = e /\ n = k
  BY <1>1 DEF Locks
<1>11. \A u \in Tasks : pc'[u] \in Busy =>
       /\ bh'[f'[u].rq].lock /\ bh'[f'[u].rq].key \in Keys
       /\ \A e \in Devs : \A n \in 1 .. Len(list'[e]) : list'[e][n].bh # f'[u].rq
       /\ \A v \in Tasks : pc'[v] \in Busy /\ f'[v].rq = f'[u].rq => v = u
  <2> TAKE u \in Tasks
  <2> HAVE pc'[u] \in Busy
  <2>1. u # t /\ pc[u] \in Busy /\ f'[u] = f[u] /\ f[u].rq \in Buffers /\ f[u].rq # b
    BY <1>8
  <2>2. /\ bh[f[u].rq].lock /\ bh[f[u].rq].key \in Keys
        /\ \A e \in Devs : \A n \in 1 .. Len(list[e]) : list[e][n].bh # f[u].rq
        /\ \A v \in Tasks : pc[v] \in Busy /\ f[v].rq = f[u].rq => v = u
    BY <1>1, <2>1 DEF Locks, Busy
  <2>3. bh'[f[u].rq].lock /\ bh'[f[u].rq].key \in Keys
    BY <2>1, <2>2
  <2>5. \A v \in Tasks : pc'[v] \in Busy /\ f'[v].rq = f[u].rq => v = u
    BY <2>1, <2>2
  <2> QED BY <2>1, <2>2, <2>3, <2>5
<1>12. \A c \in Buffers : bh'[c].lock =>
       \/ \E e \in Devs : \E n \in 1 .. Len(list'[e]) : list'[e][n].bh = c
       \/ \E u \in Tasks : pc'[u] \in Busy /\ f'[u].rq = c
  <2> TAKE c \in Buffers
  <2> HAVE bh'[c].lock
  <2>1. c # b /\ bh[c].lock
    OBVIOUS
  <2>2. (\E e \in Devs : \E n \in 1 .. Len(list[e]) : list[e][n].bh = c)
        \/ \E u \in Tasks : pc[u] \in Busy /\ f[u].rq = c
    BY <1>1, <2>1 DEF Locks, Requesting, Busy
  <2> QED BY <2>1, <2>2
<1> QED BY <1>9, <1>10, <1>11, <1>12 DEF Locks, Busy, Requesting, BlockOf

LEMMA FindRequestUsed ==
  ASSUME UseInv, [Next]_vars, NEW t \in Tasks, FindRequest(t)
  PROVE  Used
<1> DEFINE b == f[t].rq
           d == Dev(bh[b].key)
<1>1. Types /\ Local(pc[t], f[t], bh, Ops[t]) /\ f \in [Tasks -> Frame] /\ pc \in [Tasks -> Labels]
      /\ f[t] \in Frame
  BY DEF UseInv, Locals, Types
<1>2. /\ pc[t] = "find_request" /\ b \in Buffers
      /\ bh[b].lock /\ bh[b].key \in Keys /\ d \in Devs
      /\ \A e \in Devs : \A n \in 1 .. Len(list[e]) : list[e][n].bh # b
      /\ \A u \in Tasks : pc[u] \in Busy /\ f[u].rq = b => u = t
  BY FindRequestFacts
<1>3. \/ /\ bh' = [bh EXCEPT ![b].dirt = FALSE] /\ AfterRW(t, f[t])
         /\ \E k, r : NewRequest(d, k, r) /\ r.bh = b /\ BlockOf(r) = bh[b].key
      \/ bh' = [bh EXCEPT ![b].lock = FALSE] /\ AfterRW(t, f[t]) /\ list' = list
      \/ bh' = bh /\ Yield(t, "no_request", f[t]) /\ list' = list
  BY FindRequestFacts
<1> HIDE DEF d
<1>4. ASSUME AfterRW(t, f[t]), bh' \in [Buffers -> BufferHead],
             \A c \in Buffers : bh'[c].key = bh[c].key /\ bh'[c].count = bh[c].count
      PROVE  /\ Locals' /\ Counts' /\ BufferWaiterRemembered' /\ pc' \in [Tasks -> Labels]
             /\ f' \in [Tasks -> Frame] /\ pc'[t] \notin Busy
             /\ \A u \in Tasks : u # t => (pc'[u] \in Busy <=> pc[u] \in Busy) /\ f'[u] = f[u]
  <2>1. pc[t] \in Filling
    BY <1>2 DEF Filling
  <2>2. PICK p, g : /\ StepTo(t, p, g) /\ Local(p, g, bh, Ops[t]) /\ p \notin Busy \cup {"no_buffer"}
                    /\ \A c \in Buffers : HoldsAt(p, g, c) <=> HoldsAt(pc[t], f[t], c)
    BY <1>1, <1>4, <2>1, AfterRWIs
  <2>3. p \in Labels /\ g \in Frame
    BY <2>2 DEF StepTo
  <2>4. Local(p, g, bh', Ops[t])
    BY <1>4, <2>2, <2>3, LocalKept
  <2>5. Counted(t, p, g) /\ Still(t, p, g)
    BY <1>2, <1>4, <2>2 DEF Counted, Still
  <2>6. Locals' /\ f' \in [Tasks -> Frame] /\ Counts' /\ BufferWaiterRemembered'
    BY <2>2, <2>4, <2>5, StepLocals, StepCounts, StepWaiters
  <2>7. /\ pc'[t] = p /\ pc' \in [Tasks -> Labels]
        /\ \A u \in Tasks : u # t => (pc'[u] \in Busy <=> pc[u] \in Busy) /\ f'[u] = f[u]
    BY <1>1, <2>2 DEF StepTo, Busy
  <2> QED BY <2>2, <2>6, <2>7
<1>5. ASSUME bh' = [bh EXCEPT ![b].dirt = FALSE], AfterRW(t, f[t]),
             NEW k, NEW r, NewRequest(d, k, r), r.bh = b, BlockOf(r) = bh[b].key
      PROVE  Used
  <2>1. /\ bh' \in [Buffers -> BufferHead]
        /\ \A c \in Buffers : bh'[c].key = bh[c].key /\ bh'[c].count = bh[c].count /\ bh'[c].lock = bh[c].lock
    BY ZenonT(30), <1>1, <1>2, <1>5, DirtSet
  <2>2. /\ Locals' /\ Counts' /\ BufferWaiterRemembered' /\ pc' \in [Tasks -> Labels]
        /\ f' \in [Tasks -> Frame] /\ pc'[t] \notin Busy
        /\ \A u \in Tasks : u # t => (pc'[u] \in Busy <=> pc[u] \in Busy) /\ f'[u] = f[u]
    BY <1>4, <1>5, <2>1
  <2>3. Locks'
    BY SMTT(30), <1>2, <1>5, <2>1, <2>2, QueuedLocks
  <2> QED BY <1>5, <2>1, <2>2, <2>3 DEF Used, NewRequest
<1>6. CASE bh' = [bh EXCEPT ![b].lock = FALSE] /\ AfterRW(t, f[t]) /\ list' = list
  <2>1. /\ bh' \in [Buffers -> BufferHead]
        /\ \A c \in Buffers : /\ bh'[c].key = bh[c].key /\ bh'[c].count = bh[c].count
                              /\ bh'[c].lock = IF c = b THEN FALSE ELSE bh[c].lock
    BY <1>1, <1>2, <1>6, LockSet
  <2>2. /\ Locals' /\ Counts' /\ BufferWaiterRemembered' /\ pc' \in [Tasks -> Labels]
        /\ f' \in [Tasks -> Frame] /\ pc'[t] \notin Busy
        /\ \A u \in Tasks : u # t => (pc'[u] \in Busy <=> pc[u] \in Busy) /\ f'[u] = f[u]
    BY <1>4, <1>6, <2>1
  <2>3. Locks'
    BY ZenonT(30), <1>2, <1>6, <2>1, <2>2, DroppedLocks
  <2> QED BY <1>1, <1>6, <2>1, <2>2, <2>3 DEF Used, Types
<1>7. CASE bh' = bh /\ Yield(t, "no_request", f[t]) /\ list' = list
  <2>1. StepTo(t, "no_request", f[t])
    BY <1>1, <1>7, GotoIs DEF Labels
  <2>2. Local("no_request", f[t], bh', Ops[t])
    BY <1>1, <1>2, <1>7 DEF Local, Asking, Filling, Using, Syncs
  <2>3. Counted(t, "no_request", f[t]) /\ Still(t, "no_request", f[t])
    BY <1>2, <1>7 DEF Counted, Still, HoldsAt, Filling
  <2>4. Locals' /\ f' \in [Tasks -> Frame] /\ Counts' /\ BufferWaiterRemembered'
    BY <2>1, <2>2, <2>3, StepLocals, StepCounts, StepWaiters
  <2>5. /\ pc'[t] = "no_request" /\ pc' \in [Tasks -> Labels] /\ f' = f
        /\ \A u \in Tasks : u # t => (pc'[u] \in Busy <=> pc[u] \in Busy)
    BY <1>1, <2>1 DEF StepTo, Busy
  <2>6. \A u \in Tasks : (pc'[u] \in Busy <=> pc[u] \in Busy) /\ (pc'[u] \in Busy => f'[u] = f[u])
    BY <1>2, <2>5 DEF Busy
  <2>7. Locks'
    BY <1>7, <2>6, LocksKept
  <2> QED BY <1>1, <1>7, <2>4, <2>5, <2>7 DEF Used, Types
<1> QED BY <1>3, <1>5, <1>6, <1>7

(* b_uptodate is the drive's answer. *)
Answered(b, ok) == \A c \in Buffers : bh'[c].uptodate = IF c = b THEN ok ELSE bh[c].uptodate

LEMMA EndRequestFacts ==
  ASSUME UseInv, NEW d \in Devs, NEW ok \in BOOLEAN, end_request(d, ok)
  PROVE  /\ 1 \in 1 .. Len(list[d]) /\ list[d][1].bh \in Buffers
         /\ bh' \in [Buffers -> BufferHead]
         /\ \A c \in Buffers : /\ bh'[c].key = bh[c].key /\ bh'[c].count = bh[c].count
                               /\ bh'[c].dirt = bh[c].dirt
                               /\ bh'[c].lock = IF c = list[d][1].bh THEN FALSE ELSE bh[c].lock
         /\ Answered(list[d][1].bh, ok)
         /\ list' \in [Devs -> Seq(Requests)] /\ Len(list'[d]) = Len(list[d]) - 1 /\ Len(list[d]) \in Nat
         /\ \A e \in Devs : e # d => list'[e] = list[e]
         /\ \A n \in 1 .. Len(list'[d]) : n + 1 \in 1 .. Len(list[d]) /\ list'[d][n] = list[d][n + 1]
         /\ \A n \in 1 .. Len(list[d]) : n # 1 => n - 1 \in 1 .. Len(list'[d]) /\ list'[d][n - 1] = list[d][n]
<1>1. Types
  BY DEF UseInv
<1>2. list \in [Devs -> Seq(Requests)] /\ list[d] \in Seq(Requests) /\ list[d] # <<>>
  BY <1>1 DEF Types, end_request
<1>3. 1 \in 1 .. Len(list[d]) /\ Head(list[d]) = list[d][1] /\ Len(list[d]) \in Nat
  BY <1>2
<1>4. list[d][1].bh \in Buffers
  BY <1>1, <1>3, RequestIs
<1>5. bh' = Ended(list[d][1].bh, ok) /\ list' = [list EXCEPT ![d] = Tail(list[d])]
  BY <1>2, <1>3 DEF end_request
<1>6. list'[d] = Tail(list[d]) /\ list' \in [Devs -> Seq(Requests)]
  BY <1>2, <1>5
<1>7. Len(Tail(list[d])) = Len(list[d]) - 1 /\ \A n \in 1 .. Len(Tail(list[d])) : Tail(list[d])[n] = list[d][n + 1]
  BY <1>2
<1>8. \A n \in 1 .. Len(list'[d]) : n + 1 \in 1 .. Len(list[d]) /\ list'[d][n] = list[d][n + 1]
  BY <1>3, <1>6, <1>7
<1>9. \A n \in 1 .. Len(list[d]) : n # 1 => n - 1 \in 1 .. Len(list'[d]) /\ list'[d][n - 1] = list[d][n]
  <2> TAKE n \in 1 .. Len(list[d])
  <2> HAVE n # 1
  <2>1. n - 1 \in 1 .. Len(list'[d]) /\ (n - 1) + 1 = n
    BY <1>3, <1>6, <1>7
  <2> QED BY <1>8, <2>1
<1>10. /\ bh' \in [Buffers -> BufferHead]
       /\ \A c \in Buffers : /\ bh'[c].key = bh[c].key /\ bh'[c].count = bh[c].count
                             /\ bh'[c].dirt = bh[c].dirt
                             /\ bh'[c].uptodate = IF c = list[d][1].bh THEN ok ELSE bh[c].uptodate
                             /\ bh'[c].lock = IF c = list[d][1].bh THEN FALSE ELSE bh[c].lock
  <2> DEFINE b == list[d][1].bh
  <2>1. b \in Buffers /\ bh' = Ended(b, ok)
    BY <1>4, <1>5
  <2> HIDE DEF b
  <2>2. /\ bh' \in [Buffers -> BufferHead]
        /\ \A c \in Buffers : /\ bh'[c].key = bh[c].key /\ bh'[c].count = bh[c].count
                              /\ bh'[c].dirt = bh[c].dirt
                              /\ bh'[c].uptodate = IF c = b THEN ok ELSE bh[c].uptodate
                              /\ bh'[c].lock = IF c = b THEN FALSE ELSE bh[c].lock
    BY <1>1, <2>1, EndedSet
  <2> QED BY <2>2 DEF b
<1>11. Answered(list[d][1].bh, ok)
  BY <1>10 DEF Answered
<1> QED BY <1>2, <1>3, <1>4, <1>5, <1>6, <1>7, <1>8, <1>9, <1>10, <1>11

LEMMA EndLocks ==
  ASSUME UseInv, NEW d \in Devs, NEW ok \in BOOLEAN, end_request(d, ok)
  PROVE  Locks'
<1> DEFINE b == list[d][1].bh
<1>1. Types /\ Locks /\ Locals
  BY DEF UseInv
<1>2. /\ 1 \in 1 .. Len(list[d]) /\ b \in Buffers
      /\ \A e \in Devs : e # d => list'[e] = list[e]
      /\ \A n \in 1 .. Len(list'[d]) : n + 1 \in 1 .. Len(list[d]) /\ list'[d][n] = list[d][n + 1]
      /\ \A n \in 1 .. Len(list[d]) : n # 1 => n - 1 \in 1 .. Len(list'[d]) /\ list'[d][n - 1] = list[d][n]
  BY EndRequestFacts
<1>3. \A c \in Buffers : bh'[c].key = bh[c].key /\ bh'[c].lock = IF c = b THEN FALSE ELSE bh[c].lock
  BY EndRequestFacts
<1>4. f' = f /\ \A u \in Tasks : pc'[u] \in Busy <=> pc[u] \in Busy
  BY DEF end_request, Wake, Busy
<1> HIDE DEF b
<1>5. \A d1, d2 \in Devs : \A n1 \in 1 .. Len(list[d1]), n2 \in 1 .. Len(list[d2]) :
       list[d1][n1].bh = list[d2][n2].bh => d1 = d2 /\ n1 = n2
  BY <1>1 DEF Locks
<1> DEFINE Old(e, n) == IF e = d THEN n + 1 ELSE n
<1>6. \A e \in Devs : \A n \in 1 .. Len(list'[e]) :
        /\ Old(e, n) \in 1 .. Len(list[e]) /\ list'[e][n] = list[e][Old(e, n)]
        /\ list[e][Old(e, n)].bh # b /\ list[e][Old(e, n)].bh \in Buffers
  <2> TAKE e \in Devs
  <2> TAKE n \in 1 .. Len(list'[e])
  <2>1. Old(e, n) \in 1 .. Len(list[e]) /\ list'[e][n] = list[e][Old(e, n)] /\ ~(e = d /\ Old(e, n) = 1)
    BY <1>2
  <2> DEFINE o == Old(e, n)
  <2> HIDE DEF o
  <2>2. o \in 1 .. Len(list[e]) /\ ~(e = d /\ o = 1)
    BY <2>1 DEF o
  <2>3. list[e][o].bh # b /\ list[e][o].bh \in Buffers
    BY <1>1, <1>2, <1>5, <2>2, RequestIs DEF b
  <2> QED BY <2>1, <2>3 DEF o
<1> HIDE DEF Old
<1>8. \A u \in Tasks : pc[u] \in Busy => f[u].rq \in Buffers /\ f[u].rq # b
  <2>1. \A u \in Tasks : pc[u] \in Busy => f[u].rq \in Buffers
    BY <1>1 DEF Locals, Local, Busy, Filling
  <2>2. \A u \in Tasks : pc[u] \in Busy => \A e \in Devs : \A n \in 1 .. Len(list[e]) : list[e][n].bh # f[u].rq
    BY <1>1 DEF Locks, Busy
  <2> QED BY <1>2, <2>1, <2>2 DEF b
<1>9. \A e \in Devs : \A n \in 1 .. Len(list'[e]) :
       /\ bh'[list'[e][n].bh].lock /\ BlockOf(list'[e][n]) = bh'[list'[e][n].bh].key
       /\ bh'[list'[e][n].bh].key \in Keys
  <2> TAKE e \in Devs
  <2> TAKE n \in 1 .. Len(list'[e])
  <2> DEFINE o == Old(e, n)
  <2>1. o \in 1 .. Len(list[e]) /\ list'[e][n] = list[e][o] /\ list[e][o].bh # b /\ list[e][o].bh \in Buffers
    BY <1>6
  <2> HIDE DEF o
  <2>2. bh[list[e][o].bh].lock /\ BlockOf(list[e][o]) = bh[list[e][o].bh].key
        /\ bh[list[e][o].bh].key \in Keys
    BY <1>1, <2>1 DEF Locks
  <2> QED BY <1>3, <2>1, <2>2
<1>10. \A d1, d2 \in Devs : \A n1 \in 1 .. Len(list'[d1]), n2 \in 1 .. Len(list'[d2]) :
       list'[d1][n1].bh = list'[d2][n2].bh => d1 = d2 /\ n1 = n2
  <2> TAKE d1, d2 \in Devs
  <2> TAKE n1 \in 1 .. Len(list'[d1]), n2 \in 1 .. Len(list'[d2])
  <2> HAVE list'[d1][n1].bh = list'[d2][n2].bh
  <2> DEFINE o1 == Old(d1, n1)
             o2 == Old(d2, n2)
  <2>1. /\ o1 \in 1 .. Len(list[d1]) /\ list'[d1][n1] = list[d1][o1]
        /\ o2 \in 1 .. Len(list[d2]) /\ list'[d2][n2] = list[d2][o2]
    BY <1>6
  <2> HIDE DEF o1, o2
  <2>2. d1 = d2 /\ o1 = o2
    BY <1>5, <2>1
  <2>3. n1 \in Nat /\ n2 \in Nat
    OBVIOUS
  <2> QED BY <2>2, <2>3 DEF o1, o2, Old
<1>11. \A u \in Tasks : pc'[u] \in Busy =>
       /\ bh'[f'[u].rq].lock /\ bh'[f'[u].rq].key \in Keys
       /\ \A e \in Devs : \A n \in 1 .. Len(list'[e]) : list'[e][n].bh # f'[u].rq
       /\ \A v \in Tasks : pc'[v] \in Busy /\ f'[v].rq = f'[u].rq => v = u
  <2> TAKE u \in Tasks
  <2> HAVE pc'[u] \in Busy
  <2>1. pc[u] \in Busy /\ f'[u] = f[u] /\ f[u].rq \in Buffers /\ f[u].rq # b
    BY <1>4, <1>8
  <2>2. /\ bh[f[u].rq].lock /\ bh[f[u].rq].key \in Keys
        /\ \A e \in Devs : \A n \in 1 .. Len(list[e]) : list[e][n].bh # f[u].rq
        /\ \A v \in Tasks : pc[v] \in Busy /\ f[v].rq = f[u].rq => v = u
    BY <1>1, <2>1 DEF Locks, Busy
  <2>3. bh'[f[u].rq].lock /\ bh'[f[u].rq].key \in Keys
    BY <1>3, <2>1, <2>2
  <2>4. \A e \in Devs : \A n \in 1 .. Len(list'[e]) : list'[e][n].bh # f[u].rq
    BY <1>6, <2>2
  <2>5. \A v \in Tasks : pc'[v] \in Busy /\ f'[v].rq = f[u].rq => v = u
    BY <1>4, <2>2
  <2> QED BY <2>1, <2>3, <2>4, <2>5
<1>12. \A c \in Buffers : bh'[c].lock =>
       \/ \E e \in Devs : \E n \in 1 .. Len(list'[e]) : list'[e][n].bh = c
       \/ \E u \in Tasks : pc'[u] \in Busy /\ f'[u].rq = c
  <2> TAKE c \in Buffers
  <2> HAVE bh'[c].lock
  <2>1. c # b /\ bh[c].lock
    BY <1>3
  <2>2. (\E e \in Devs : \E n \in 1 .. Len(list[e]) : list[e][n].bh = c)
        \/ \E u \in Tasks : pc[u] \in Busy /\ f[u].rq = c
    BY <1>1, <2>1 DEF Locks, Requesting, Busy
  <2>3. CASE \E e \in Devs : \E n \in 1 .. Len(list[e]) : list[e][n].bh = c
    <3>1. PICK e \in Devs : \E n \in 1 .. Len(list[e]) : list[e][n].bh = c
      BY <2>3
    <3>2. PICK n \in 1 .. Len(list[e]) : list[e][n].bh = c
      BY <3>1
    <3>3. CASE e = d
      <4>1. n # 1
        BY <2>1, <3>2, <3>3 DEF b
      <4>2. n - 1 \in 1 .. Len(list'[d]) /\ list'[d][n - 1] = list[d][n]
        BY <1>2, <3>3, <4>1
      <4> QED BY <3>2, <3>3, <4>2
    <3>4. CASE e # d
      BY <1>2, <3>2, <3>4
    <3> QED BY <3>3, <3>4
  <2>4. CASE \E u \in Tasks : pc[u] \in Busy /\ f[u].rq = c
    BY <1>4, <2>4
  <2> QED BY <2>2, <2>3, <2>4
<1> QED BY <1>9, <1>10, <1>11, <1>12 DEF Locks, Busy, Requesting, BlockOf

LEMMA EndUsed ==
  ASSUME UseInv, NEW d \in Devs, NEW ok \in BOOLEAN, end_request(d, ok)
  PROVE  Used
<1>1. Types /\ Locals /\ Counts /\ BufferWaiterRemembered
  BY DEF UseInv
<1>2. /\ bh' \in [Buffers -> BufferHead]
      /\ \A c \in Buffers : bh'[c].key = bh[c].key /\ bh'[c].count = bh[c].count
  BY EndRequestFacts
<1>3. /\ f' = f /\ pc' = [u \in Tasks |-> IF pc[u] = "no_request" THEN "find_request" ELSE pc[u]]
      /\ pc \in [Tasks -> Labels] /\ f \in [Tasks -> Frame]
  BY <1>1 DEF end_request, Wake, Types
<1>4. pc' \in [Tasks -> Labels]
  BY <1>3 DEF Labels
<1>5. Locals'
  <2> SUFFICES ASSUME NEW u \in Tasks
               PROVE  Local(pc'[u], f[u], bh', Ops[u])
    BY <1>3 DEF Locals
  <2>1. Local(pc[u], f[u], bh, Ops[u]) /\ pc[u] \in Labels /\ f[u] \in Frame
    BY <1>1, <1>3 DEF Locals
  <2>2. Local(pc[u], f[u], bh', Ops[u])
    BY <1>2, <2>1, LocalKept
  <2> QED BY <1>3, <2>2, LocalWoken
<1>6. \A u \in Tasks, b \in Buffers : HoldsAt(pc'[u], f'[u], b) <=> HoldsAt(pc[u], f[u], b)
  BY <1>3 DEF HoldsAt, Filling
<1>7. Counts'
  <2> SUFFICES ASSUME NEW b \in Buffers
               PROVE  bh'[b].count = Cardinality({u \in Tasks : HoldsAt(pc'[u], f'[u], b)})
    BY DEF Counts, Users, Holds, HoldsAt, Filling
  <2>1. {u \in Tasks : HoldsAt(pc'[u], f'[u], b)} = Users(b)
    BY <1>6, HoldsIs DEF Users
  <2> QED BY <1>1, <1>2, <2>1 DEF Counts
<1>8. BufferWaiterRemembered'
  <2> SUFFICES ASSUME NEW u \in Tasks, pc'[u] = "no_buffer"
               PROVE  \E v \in Tasks, b \in Buffers : pc'[v] # "no_buffer" /\ HoldsAt(pc'[v], f'[v], b)
    BY DEF BufferWaiterRemembered, Holds, HoldsAt, Filling
  <2>1. pc[u] = "no_buffer"
    BY <1>3
  <2>2. PICK v \in Tasks, b \in Buffers : pc[v] # "no_buffer" /\ HoldsAt(pc[v], f[v], b)
    BY <1>1, <2>1, HoldsIs DEF BufferWaiterRemembered
  <2> QED BY <1>3, <1>6, <2>2
<1> QED BY <1>2, <1>3, <1>4, <1>5, <1>7, <1>8, EndRequestFacts, EndLocks DEF Used
-----------------------------------------------------------------------------
LEMMA StepUsed ==
  ASSUME UseInv, [Next]_vars
  PROVE  Used
<1>1. ASSUME NEW t \in Tasks, TaskStep(t)
      PROVE  Used
  <2>1. CASE Sleep(t)
    BY <2>1, SleepUsed
  <2>2. CASE Getblk(t)
    BY <2>2, GetblkQuiet, QuietUsed
  <2>3. CASE Hashed(t)
    BY <2>3, HashedQuiet, QuietUsed
  <2>4. CASE Victim(t)
    BY <2>4, VictimQuiet, QuietUsed
  <2>5. CASE SyncWait(t)
    BY <2>5, SyncWaitQuiet, QuietUsed
  <2>6. CASE LockBuffer(t)
    BY <2>6, LockBufferUsed
  <2>7. CASE FindRequest(t)
    BY <2>7, FindRequestUsed
  <2>8. CASE Got(t)
    BY <2>8, GotQuiet, QuietUsed
  <2>9. CASE Ahead(t)
    BY <2>9, AheadQuiet, QuietUsed
  <2>10. CASE AheadDone(t)
    BY <2>10, AheadDoneQuiet, QuietUsed
  <2>11. CASE WaitRead(t)
    BY <2>11, WaitReadQuiet, QuietUsed
  <2>12. CASE Modify(t)
    BY <2>12, ModifyUsed
  <2>13. CASE StartRelease(t) \/ Release(t)
    BY <2>13, ReleaseQuiet, QuietUsed
  <2> QED BY <1>1, <2>1, <2>2, <2>3, <2>4, <2>5, <2>6, <2>7, <2>8, <2>9, <2>10, <2>11,
             <2>12, <2>13 DEF TaskStep
<1>2. ASSUME NEW t \in Tasks, NEW k \in Keys,
             \/ \E op \in Ops[t] \cap {"bread", "block_write"} :
                  (op = "block_write" <=> Dev(k) \in Raw) /\ Start(t, op, k)
             \/ "breada" \in Ops[t] /\ Dev(k) \notin Raw /\ \E ahead \in Keys : StartAhead(t, k, ahead)
      PROVE  Used
  BY <1>2, StartQuiet, QuietUsed
<1>3. ASSUME NEW t \in Tasks, NEW op \in Ops[t] \cap {"sys_sync", "sync_dev"}, NEW d \in Devs,
             StartSync(t, op, d)
      PROVE  Used
  BY <1>3, StartSyncQuiet, QuietUsed
<1>4. ASSUME NEW d \in Devs, Transfer(d)
      PROVE  Used
  BY <1>4, TransferUsed
<1>5. ASSUME NEW d \in Devs, NEW ok \in BOOLEAN, end_request(d, ok)
      PROVE  Used
  BY <1>5, EndUsed
<1>6. CASE UNCHANGED vars
  BY <1>6, IdleUsed DEF vars, UseInv, Types
<1> QED BY <1>1, <1>2, <1>3, <1>4, <1>5, <1>6 DEF Next

(* What the steps do to the contents of blocks. *)
LEMMA StepContents ==
  ASSUME [Next]_vars
  PROVE  \/ UNCHANGED <<data, disk, latest, moved>>
         \/ \E t \in Tasks : Modify(t)
         \/ \E d \in Devs : Transfer(d)
         \/ \E d \in Devs, ok \in BOOLEAN : end_request(d, ok)
<1>1. ASSUME NEW t \in Tasks, TaskStep(t)
      PROVE  UNCHANGED <<data, disk, latest, moved>> \/ Modify(t)
  BY <1>1 DEF TaskStep, Sleep, Getblk, Hashed, Victim, SyncWait, LockBuffer, FindRequest, Got, Ahead,
              AheadDone, WaitRead, StartRelease, Release, device
<1>2. ASSUME NEW t \in Tasks, NEW op, NEW k, NEW ahead, NEW d,
             Start(t, op, k) \/ StartAhead(t, k, ahead) \/ StartSync(t, op, d)
      PROVE  UNCHANGED <<data, disk, latest, moved>>
  BY <1>2 DEF Start, StartAhead, StartSync, device
<1>3. CASE UNCHANGED vars
  BY <1>3 DEF vars
<1> QED BY <1>1, <1>2, <1>3 DEF Next

LEMMA StepUseInv == UseInv /\ [Next]_vars => UseInv'
<1> SUFFICES ASSUME UseInv, [Next]_vars
             PROVE  UseInv'
  OBVIOUS
<1>1. Types /\ NoAlias /\ Locals /\ Locks
  BY DEF UseInv
<1>2. Used /\ NoAlias' /\ DirtyUsed'
  BY <1>1, StepUsed, StepNoAlias, StepDirtyUsed, TypesShape
<1> DEFINE V == /\ data' \in [Buffers -> Int] /\ disk' \in [Keys -> Int] /\ latest' \in [Keys -> Int]
                /\ moved' \in [Devs -> BOOLEAN]
<1>3. data \in [Buffers -> Int] /\ disk \in [Keys -> Int] /\ latest \in [Keys -> Int]
      /\ moved \in [Devs -> BOOLEAN]
  BY <1>1 DEF Types
<1>4. ASSUME UNCHANGED <<data, disk, latest, moved>>
      PROVE  V
  BY <1>3, <1>4
<1>5. ASSUME NEW t \in Tasks, Modify(t)
      PROVE  V
  <2>1. f[t].bh \in Buffers /\ bh[f[t].bh].key \in Keys
    BY <1>1, <1>5 DEF Locals, Local, Using, Modify, At
  <2> DEFINE k == bh[f[t].bh].key
             new == IF latest[k] < MaxVersion THEN latest[k] + 1 ELSE 0
  <2>2. new \in Int
    BY <1>3, <2>1
  <2>3. latest' = [latest EXCEPT ![k] = new] /\ data' = [data EXCEPT ![f[t].bh] = new]
        /\ UNCHANGED <<disk, moved>>
    BY <1>5 DEF Modify, device
  <2> HIDE DEF new
  <2> QED BY <1>3, <2>1, <2>2, <2>3
<1>6. ASSUME NEW d \in Devs, Transfer(d)
      PROVE  V
  <2> DEFINE r == Head(list[d])
  <2>1. list[d] \in Seq(Requests) /\ list[d] # <<>>
    BY <1>1, <1>6 DEF Types, Transfer
  <2>2. 1 \in 1 .. Len(list[d]) /\ r = list[d][1]
    BY <2>1
  <2>3. r.bh \in Buffers /\ BlockOf(r) \in Keys
    BY <1>1, <2>2, RequestIs DEF Locks
  <2>4. \/ data' = [data EXCEPT ![r.bh] = disk[BlockOf(r)]] /\ UNCHANGED disk
        \/ disk' = [disk EXCEPT ![BlockOf(r)] = data[r.bh]] /\ UNCHANGED data
    BY <1>6 DEF Transfer
  <2>5. UNCHANGED latest /\ moved' = [moved EXCEPT ![d] = TRUE]
    BY <1>6 DEF Transfer
  <2> HIDE DEF r
  <2> QED BY <1>3, <2>3, <2>4, <2>5
<1>7. ASSUME NEW d \in Devs, NEW ok \in BOOLEAN, end_request(d, ok)
      PROVE  V
  BY <1>3, <1>7 DEF end_request
<1>8. V
  BY <1>4, <1>5, <1>6, <1>7, <1>3, StepContents
<1>9. Types'
  BY <1>2, <1>8 DEF Used, Types
<1> QED BY <1>2, <1>9 DEF Used, UseInv

LEMMA InitUseInv == Init => UseInv
<1> SUFFICES ASSUME Init
             PROVE  UseInv
  OBVIOUS
<1>1. Types
  BY NoFrameIs DEF Init, Types, BufferHead, Blocks, Labels, Requests
<1>2. \A t \in Tasks : pc[t] = "idle" /\ f[t] = NoFrame
  BY DEF Init
<1>3. Locals
  BY <1>2, NoFrameIs DEF Locals, Local, Asking, Filling, Using, Syncs
<1>4. Counts
  <2> SUFFICES ASSUME NEW b \in Buffers
               PROVE  bh[b].count = Cardinality(Users(b))
    BY DEF Counts
  <2>1. \A t \in Tasks : ~HoldsAt(pc[t], f[t], b)
    BY <1>2, NoFrameIs, FewTasks DEF HoldsAt, Filling
  <2>2. Users(b) = {}
    BY <2>1, HoldsIs DEF Users
  <2> QED BY <2>2, FS_EmptySet DEF Init
<1>5. Locks
  BY <1>2 DEF Init, Locks
<1>6. DirtyUsed /\ BufferWaiterRemembered
  BY <1>2 DEF Init, DirtyUsed, BufferWaiterRemembered
<1> QED BY <1>1, <1>3, <1>4, <1>5, <1>6, InitShape DEF UseInv

(* One request at most for a buffer, and its place is within the bound of  *)
(* Queue().                                                                *)
LEMMA QueueIs ==
  ASSUME UseInv, NEW b \in Buffers
  PROVE  Queue(b) = {q \in Devs \X Nat : q[2] \in 1 .. Len(list[q[1]]) /\ list[q[1]][q[2]].bh = b}
<1>1. Types /\ Locks
  BY DEF UseInv
<1>2. IsFiniteSet(Buffers) /\ Cardinality(Buffers) \in Nat
  BY BuffersFinite, FS_CardinalityType
<1>3. ASSUME NEW d \in Devs
      PROVE  /\ list[d] \in Seq(Requests) /\ DOMAIN list[d] = 1 .. Len(list[d])
             /\ Len(list[d]) \in Nat /\ Len(list[d]) =< Cardinality(Buffers)
  <2>1. list[d] \in Seq(Requests)
    BY <1>1 DEF Types
  <2> DEFINE h == [n \in 1 .. Len(list[d]) |-> list[d][n].bh]
  <2>2. h \in [1 .. Len(list[d]) -> Buffers]
    BY <1>1, RequestIs
  <2>3. \A n, m \in 1 .. Len(list[d]) : h[n] = h[m] => n = m
    BY <1>1 DEF Locks
  <2>4. h \in Injection(1 .. Len(list[d]), Buffers)
    BY <2>2, <2>3 DEF Injection, IsInjective
  <2> HIDE DEF h
  <2>5. Len(list[d]) \in Nat
    BY <2>1
  <2>6. Cardinality(1 .. Len(list[d])) =< Cardinality(Buffers)
    BY <1>2, <2>4, FS_Injection
  <2>7. Cardinality(1 .. Len(list[d])) = Len(list[d])
    <3>1. Cardinality(1 .. Len(list[d])) = IF 1 > Len(list[d]) THEN 0 ELSE Len(list[d]) - 1 + 1
      BY SMTT(30), <2>5, FS_Interval
    <3> QED BY <2>5, <3>1
  <2> QED BY <2>1, <2>5, <2>6, <2>7
<1> QED BY <1>2, <1>3 DEF Queue

LEMMA UseInvLocks == UseInv => LockHasOwner
<1> SUFFICES ASSUME UseInv, NEW b \in Buffers
             PROVE  /\ Cardinality(Queue(b)) + Cardinality({t \in Tasks : Requesting(t, b)})
                         = IF bh[b].lock THEN 1 ELSE 0
                    /\ \A q \in Queue(b) : BlockOf(list[q[1]][q[2]]) = bh[b].key
  BY DEF LockHasOwner
<1>1. Types /\ Locks /\ bh[b].lock \in BOOLEAN
  BY DEF UseInv, Types, BufferHead
<1> DEFINE Q == Queue(b)
           R == {t \in Tasks : Requesting(t, b)}
<1>2. \A q \in Q : /\ q[1] \in Devs /\ q[2] \in 1 .. Len(list[q[1]]) /\ list[q[1]][q[2]].bh = b
                   /\ q = <<q[1], q[2]>>
  BY QueueIs
<1>3. \A d \in Devs : \A n \in 1 .. Len(list[d]) : list[d][n].bh = b => <<d, n>> \in Q
  BY QueueIs
<1> HIDE DEF Q
<1>4. \A q \in Q : BlockOf(list[q[1]][q[2]]) = bh[b].key /\ bh[b].lock
  BY <1>1, <1>2 DEF Locks
<1>5. \A q, s \in Q : q = s
  <2> TAKE q, s \in Q
  <2>1. q[1] = s[1] /\ q[2] = s[2]
    BY <1>1, <1>2 DEF Locks
  <2> QED BY <1>2, <2>1
<1>6. \A t \in R : bh[b].lock /\ Q = {}
  BY <1>1, <1>2 DEF Requesting, Locks
<1>7. \A t, u \in R : t = u
  BY <1>1 DEF Requesting, Locks
<1>8. bh[b].lock => Q # {} \/ R # {}
  BY <1>1, <1>3 DEF Locks
<1>9. Cardinality({}) = 0 /\ \A x : Cardinality({x}) = 1
  BY FS_EmptySet, FS_Singleton
<1> HIDE DEF R
<1>10. CASE ~bh[b].lock
  <2>1. Q = {} /\ R = {}
    BY <1>4, <1>6, <1>10
  <2> QED BY <1>9, <1>10, <2>1 DEF Q, R
<1>11. CASE bh[b].lock /\ Q # {}
  <2>1. PICK q : Q = {q}
    BY <1>5, <1>11
  <2>2. R = {}
    BY <1>6, <1>11
  <2>3. Cardinality(Q) = 1 /\ Cardinality(R) = 0
    BY <1>9, <2>1, <2>2
  <2> QED BY <1>4, <1>11, <2>3 DEF Q, R
<1>12. CASE bh[b].lock /\ Q = {}
  <2>0. PICK t : t \in R
    BY <1>8, <1>12
  <2>1. R = {t}
    BY <1>7, <2>0
  <2>3. Cardinality(Q) = 0 /\ Cardinality(R) = 1
    BY <1>9, <1>12, <2>1
  <2> QED BY <1>4, <1>12, <2>3 DEF Q, R
<1> QED BY <1>10, <1>11, <1>12, <1>1

LEMMA UsesInvariant == Spec => []UseInv
BY InitUseInv, StepUseInv, PTL DEF Spec

(* b_count counts the tasks that will give the buffer back, so brelse()    *)
(* never frees a free buffer (buffer.c:258).                               *)
THEOREM CountsAreUsers == Spec => []CountIsUsers
<1>1. UseInv => CountIsUsers
  BY DEF UseInv, Counts, Users, CountIsUsers
<1> QED BY <1>1, UsesInvariant, PTL

(* A locked buffer has exactly one request, queued or about to be, and it  *)
(* is for the buffer's block (blk.h:127-136).                              *)
THEOREM LocksAreOwned == Spec => []LockHasOwner
BY UseInvLocks, UsesInvariant, PTL

(* Somebody who will call brelse() remains for the sleepers on buffer_wait *)
(* (buffer.c:222), if breada() cannot hold every buffer.                   *)
THEOREM BufferWaitersWoken == Spec => []BufferWaiterRemembered
<1>1. UseInv => BufferWaiterRemembered
  BY DEF UseInv
<1> QED BY <1>1, UsesInvariant, PTL
-----------------------------------------------------------------------------
(* The contents of the blocks. *)
SameMarks == \A c \in Buffers : /\ bh'[c].key = bh[c].key /\ bh'[c].dirt = bh[c].dirt
                                /\ bh'[c].uptodate = bh[c].uptodate

LEMMA CountOrLock ==
  ASSUME Shape, NEW b, NEW x,
         bh' = [bh EXCEPT ![b].count = x] \/ bh' = [bh EXCEPT ![b].lock = x] \/ bh' = bh
  PROVE  SameMarks
<1>0. ASSUME NEW r, bh' = [c \in Buffers |-> IF c = b THEN r ELSE bh[c]],
             b \in Buffers => r.key = bh[b].key /\ r.dirt = bh[b].dirt /\ r.uptodate = bh[b].uptodate
      PROVE  SameMarks
  BY <1>0 DEF SameMarks
<1> b \in Buffers => bh[b] = Head5(bh[b])
  BY DEF Shape
<1>1. CASE bh' = [bh EXCEPT ![b].count = x]
  <2> DEFINE r == [bh[b] EXCEPT !.count = x]
  <2>1. bh' = [c \in Buffers |-> IF c = b THEN r ELSE bh[c]]
    BY <1>1 DEF Shape
  <2>2. b \in Buffers => r.key = bh[b].key /\ r.dirt = bh[b].dirt /\ r.uptodate = bh[b].uptodate
    BY DEF Head5
  <2> QED BY <1>0, <2>1, <2>2
<1>2. CASE bh' = [bh EXCEPT ![b].lock = x]
  <2> DEFINE r == [bh[b] EXCEPT !.lock = x]
  <2>1. bh' = [c \in Buffers |-> IF c = b THEN r ELSE bh[c]]
    BY <1>2 DEF Shape
  <2>2. b \in Buffers => r.key = bh[b].key /\ r.dirt = bh[b].dirt /\ r.uptodate = bh[b].uptodate
    BY DEF Head5
  <2> QED BY <1>0, <2>1, <2>2
<1>3. CASE bh' = bh
  BY <1>3 DEF SameMarks
<1> QED BY <1>1, <1>2, <1>3

LEMMA RequestHas ==
  ASSUME UseInv, NEW d \in Devs, NEW n \in 1 .. Len(list[d])
  PROVE  /\ list[d][n].bh \in Buffers /\ list[d][n].cmd \in {READ, WRITE}
         /\ bh[list[d][n].bh].lock /\ bh[list[d][n].bh].key \in Keys
         /\ BlockOf(list[d][n]) = bh[list[d][n].bh].key
BY RequestIs DEF UseInv, Locks

LEMMA OneRequest ==
  ASSUME UseInv, NEW d \in Devs, NEW e \in Devs, NEW n \in 1 .. Len(list[d]), NEW k \in 1 .. Len(list[e]),
         list[d][n].bh = list[e][k].bh
  PROVE  d = e /\ n = k
BY DEF UseInv, Locks

LEMMA BusyHas ==
  ASSUME UseInv, NEW t \in Tasks, pc[t] \in Busy
  PROVE  /\ f[t].rq \in Buffers /\ bh[f[t].rq].lock
         /\ \A d \in Devs : \A n \in 1 .. Len(list[d]) : list[d][n].bh # f[t].rq
         /\ \A u \in Tasks : pc[u] \in Busy /\ f[u].rq = f[t].rq => u = t
<1>1. Local(pc[t], f[t], bh, Ops[t])
  BY DEF UseInv, Locals
<1>2. f[t].rq \in Buffers
  BY <1>1 DEF Local, Filling, Busy
<1> QED BY <1>2 DEF UseInv, Locks, Busy

LEMMA HoldHas ==
  ASSUME UseInv, NEW t \in Tasks, pc[t] \in {"hold", "release"}
  PROVE  /\ f[t].bh \in Buffers /\ bh[f[t].bh].key \in Keys /\ Holds(t, f[t].bh)
         /\ f[t].op \in {"bread", "breada", "block_write"}
         /\ f[t].op = "block_write" <=> Dev(bh[f[t].bh].key) \in Raw
<1>1. Local(pc[t], f[t], bh, Ops[t])
  BY DEF UseInv, Locals
<1> QED BY <1>1 DEF Local, Using, Holds

(* Where the step left t; whom it woke goes on in getblk(). *)
Went(t, p, g) ==
  /\ pc'[t] = p /\ f'[t] = g
  /\ \A u \in Tasks : u # t => f'[u] = f[u] /\ (pc'[u] = pc[u] \/ pc'[u] = "getblk")

LEMMA GotoWent ==
  ASSUME Types, NEW t \in Tasks, NEW p, NEW g, Goto(t, p, g) \/ Yield(t, p, g)
  PROVE  Went(t, p, g)
BY DEF Types, Goto, Yield, Went

LEMMA BrelseWent ==
  ASSUME Types, NEW t \in Tasks, NEW b, Brelse(t, b)
  PROVE  Went(t, "idle", NoFrame)
<1>1. pc' = [WakeBufferWait EXCEPT ![t] = "idle"] /\ f' = [f EXCEPT ![t] = NoFrame]
  BY DEF Brelse
<1>2. WakeBufferWait = [u \in Tasks |-> IF pc[u] = "no_buffer" THEN "getblk" ELSE pc[u]]
  BY DEF WakeBufferWait, Wake
<1> QED BY <1>1, <1>2 DEF Types, Went

LEMMA SyncWent ==
  ASSUME Types, NEW t \in Tasks, NEW fr, NEW from, SyncFrom(t, fr, from)
  PROVE  \E p \in {"sync_wait", "victim", "idle"} : \E g : Went(t, p, g)
BY GotoWent DEF SyncFrom

LEMMA AfterRWWent ==
  ASSUME Types, NEW t \in Tasks, NEW fr, AfterRW(t, fr)
  PROVE  \E p \in {"sync_wait", "victim", "idle", "wait_read", "ahead", "ahead_done"} : \E g : Went(t, p, g)
<1>1. CASE fr.i > 0
  BY <1>1, SyncWent DEF AfterRW
<1>2. CASE ~(fr.i > 0)
  <2> DEFINE g == [fr EXCEPT !.rq = NULL, !.rw = READ, !.ra = FALSE]
             p == IF fr.op = "bread" THEN "wait_read" ELSE IF fr.first = NULL THEN "ahead" ELSE "ahead_done"
  <2>1. Goto(t, p, g)
    BY <1>2 DEF AfterRW
  <2> HIDE DEF g
  <2>2. p \in {"sync_wait", "victim", "idle", "wait_read", "ahead", "ahead_done"}
    OBVIOUS
  <2> HIDE DEF p
  <2> QED BY <2>1, <2>2, GotoWent
<1> QED BY <1>1, <1>2

(* A buffer that is handed out has been read, or is overwritten. *)
Ready(t, p, g) ==
  p \in {"hold", "release"} =>
    \/ pc[t] \in {"hold", "release"} /\ g = f[t]
    \/ g.op # "block_write" => g.bh \in Buffers /\ bh[g.bh].uptodate

LEMMA NeutralStep ==
  ASSUME UseInv, DataInv, NEW t \in Tasks, NEW p, NEW g, Went(t, p, g), p \notin Busy, Ready(t, p, g),
         SameMarks, UNCHANGED <<list, moved, data, disk, latest>>
  PROVE  DataInv'
<1>1. Fresh /\ Marks /\ Kept /\ Transfers /\ Wanted /\ Filled
  BY DEF DataInv
<1>2. \A u \in Tasks : pc'[u] \in Busy => pc[u] \in Busy /\ f'[u] = f[u]
  BY DEF Went, Busy
<1>3. \A b : Writing(b)' <=> Writing(b)
  BY DEF Writing
<1>4. Fresh' /\ Marks' /\ Kept'
  BY <1>1, <1>3 DEF Fresh, Marks, Kept, SameMarks
<1>5. Transfers'
  <2>1. \A d \in Devs : \A n \in 1 .. Len(list[d]) : list[d][n].bh \in Buffers
    BY RequestHas
  <2>2. ASSUME NEW d \in Devs, NEW n \in 1 .. Len(list[d]), list[d][n].cmd = READ
        PROVE  Reading(list[d][n], n = 1 /\ moved[d])'
    <3>1. Reading(list[d][n], n = 1 /\ moved[d]) /\ list[d][n].bh \in Buffers
      BY <1>1, <2>1, <2>2 DEF Transfers
    <3> QED BY <3>1 DEF Reading, SameMarks
  <2>3. ASSUME NEW d \in Devs, moved[d]
        PROVE  /\ list[d] # <<>> /\ 1 \in 1 .. Len(list[d])
               /\ list[d][1].cmd = WRITE /\ ~bh[list[d][1].bh].dirt
                    => disk[bh[list[d][1].bh].key] = latest[bh[list[d][1].bh].key]
    <3>1. list[d] # <<>> /\ list[d] \in Seq(Requests)
      BY <1>1, <2>3 DEF Transfers, UseInv, Types
    <3> QED BY <1>1, <2>3, <3>1 DEF Transfers
  <2>4. ASSUME NEW d \in Devs, moved[d]
        PROVE  list[d][1].cmd = WRITE /\ ~bh'[list[d][1].bh].dirt
                    => disk[bh'[list[d][1].bh].key] = latest[bh'[list[d][1].bh].key]
    BY <2>1, <2>3, <2>4 DEF SameMarks
  <2> QED BY <2>2, <2>3, <2>4 DEF Transfers
<1>6. Wanted'
  <2> SUFFICES ASSUME NEW u \in Tasks, pc'[u] \in Busy
               PROVE  IF f'[u].rw = READ
                      THEN ~bh'[f'[u].rq].uptodate /\ ~bh'[f'[u].rq].dirt /\ Dev(bh'[f'[u].rq].key) \notin Raw
                      ELSE bh'[f'[u].rq].dirt
    BY DEF Wanted, Busy, Dev
  <2>1. pc[u] \in Busy /\ f'[u] = f[u] /\ f[u].rq \in Buffers
    BY <1>2, BusyHas
  <2>2. IF f[u].rw = READ
        THEN ~bh[f[u].rq].uptodate /\ ~bh[f[u].rq].dirt /\ Dev(bh[f[u].rq].key) \notin Raw
        ELSE bh[f[u].rq].dirt
    BY <1>1, <2>1 DEF Wanted, Busy
  <2> QED BY <2>1, <2>2 DEF SameMarks
<1>7. Filled'
  <2> SUFFICES ASSUME NEW u \in Tasks, pc'[u] \in {"hold", "release"}, f'[u].op # "block_write"
               PROVE  bh'[f'[u].bh].uptodate
    BY DEF Filled
  <2>1. CASE pc[u] \in {"hold", "release"} /\ f'[u] = f[u]
    <3>1. f[u].bh \in Buffers /\ bh[f[u].bh].uptodate
      BY <1>1, <2>1, HoldHas DEF Filled
    <3> QED BY <2>1, <3>1 DEF SameMarks
  <2>2. CASE ~(pc[u] \in {"hold", "release"} /\ f'[u] = f[u])
    <3>1. u = t
      BY <2>2 DEF Went
    <3>2. g.bh \in Buffers /\ bh[g.bh].uptodate /\ f'[u] = g
      BY <2>2, <3>1 DEF Went, Ready
    <3> QED BY <3>2 DEF SameMarks
  <2> QED BY <2>1, <2>2
<1> QED BY <1>4, <1>5, <1>6, <1>7 DEF DataInv

(* The steps of tasks that neither mark, queue nor take a buffer. *)
LEMMA TaskNeutral ==
  ASSUME UseInv, DataInv, NEW t \in Tasks,
         \/ Sleep(t) \/ Getblk(t) \/ Hashed(t) \/ SyncWait(t) \/ Got(t) \/ Ahead(t) \/ AheadDone(t)
         \/ WaitRead(t) \/ StartRelease(t) \/ Release(t)
         \/ \E op, k : Start(t, op, k)
         \/ \E k, ahead : StartAhead(t, k, ahead)
         \/ \E op, d : StartSync(t, op, d)
  PROVE  DataInv'
<1>1. Types /\ Shape
  BY TypesShape DEF UseInv
<1>2. UNCHANGED <<list, moved, data, disk, latest>>
  BY DEF Sleep, Getblk, Hashed, SyncWait, Got, Ahead, AheadDone, WaitRead, StartRelease, Release,
         Start, StartAhead, StartSync, device
<1>3. SameMarks
  BY <1>1, CountOrLock DEF Sleep, Getblk, Hashed, SyncWait, Got, Ahead, AheadDone, WaitRead,
         StartRelease, Release, Brelse, Put, Start, StartAhead, StartSync
<1>4. \E p, g : Went(t, p, g) /\ p \notin Busy /\ Ready(t, p, g)
  <2>0. ASSUME NEW p \in {"getblk", "hashed", "victim", "no_buffer", "got", "sync_wait", "lock_buffer",
                          "ahead", "ahead_done", "wait_read", "idle"}, NEW g, Went(t, p, g)
        PROVE  Went(t, p, g) /\ p \notin Busy /\ Ready(t, p, g)
    BY <2>0 DEF Busy, Ready
  <2>1. CASE Sleep(t)
    <3>1. Went(t, pc[t], f[t]) /\ pc[t] \notin Busy
      BY <2>1 DEF Sleep, Went, Awaited, Busy
    <3> QED BY <3>1 DEF Ready
  <2>2. CASE Getblk(t)
    BY <1>1, <2>0, <2>2, GotoWent DEF Getblk
  <2>3. CASE Hashed(t)
    BY <1>1, <2>0, <2>3, GotoWent DEF Hashed
  <2>5. CASE SyncWait(t)
    BY <1>1, <2>0, <2>5, GotoWent, SyncWent DEF SyncWait, ll_rw_block
  <2>6. CASE Ahead(t)
    BY <1>1, <2>0, <2>6, GotoWent DEF Ahead
  <2>7. CASE AheadDone(t)
    BY <1>1, <2>0, <2>7, GotoWent DEF AheadDone
  <2>8. CASE Release(t)
    BY <1>1, <2>0, <2>8, BrelseWent DEF Release
  <2>9. CASE StartRelease(t)
    <3>1. Went(t, "release", f[t]) /\ pc[t] = "hold"
      BY <1>1, <2>9, GotoWent DEF StartRelease, At
    <3> QED BY <3>1 DEF Ready, Busy
  <2>10. CASE \E op, k : Start(t, op, k)
    BY <1>1, <2>0, <2>10, GotoWent DEF Start
  <2>11. CASE \E k, ahead : StartAhead(t, k, ahead)
    BY <1>1, <2>0, <2>11, GotoWent DEF StartAhead
  <2>12. CASE \E op, d : StartSync(t, op, d)
    BY <1>1, <2>0, <2>12, SyncWent DEF StartSync
  <2>13. ASSUME NEW b \in Buffers, Hold(t, b), f[t].op # "block_write" => bh[b].uptodate
         PROVE  \E p, g : Went(t, p, g) /\ p \notin Busy /\ Ready(t, p, g)
    <3>1. PICK g \in Frame : StepTo(t, "hold", g) /\ g.bh = b /\ g.op = f[t].op
      BY <1>1, <2>13, HoldIs
    <3>2. Went(t, "hold", g)
      BY <1>1, <3>1 DEF StepTo, Went, Types
    <3> QED BY <2>13, <3>1, <3>2 DEF Ready, Busy
  <2>14. CASE WaitRead(t)
    <3>1. f[t].bh \in Buffers
      BY <2>14 DEF UseInv, Locals, Local, Using, WaitRead, At
    <3> QED BY <1>1, <2>0, <2>13, <2>14, <3>1, BrelseWent DEF WaitRead
  <2>15. CASE Got(t)
    <3>1. Local("got", f[t], bh, Ops[t])
      BY <2>15 DEF UseInv, Locals, Got, At
    <3>2. f[t].bh \in Buffers /\ f[t].op \in {"bread", "breada", "block_write"}
      BY <3>1 DEF Local, Asking, Asked
    <3>3. \/ Hold(t, f[t].bh) /\ (f[t].op # "block_write" => bh[f[t].bh].uptodate)
          \/ Goto(t, "ahead", f[t])
          \/ Goto(t, "ahead_done", f[t])
          \/ \E b, ra : ll_rw_block(t, f[t], READ, b, ra)
      BY <2>15, <3>2 DEF Got
    <3> QED BY <1>1, <2>0, <2>13, <3>2, <3>3, GotoWent DEF ll_rw_block
  <2> QED BY <2>1, <2>2, <2>3, <2>5, <2>6, <2>7, <2>8, <2>9, <2>10, <2>11, <2>12, <2>14, <2>15
<1> QED BY <1>2, <1>3, <1>4, NeutralStep

(* getblk() takes a buffer: what it held is on the disk, and so is what    *)
(* was written into the block it will hold.                                *)
LEMMA ClaimData ==
  ASSUME UseInv, DataInv, NEW t \in Tasks, NEW b \in Buffers, NEW k \in Keys,
         ~TakenMeanwhile(b), ~MustSync(b), ~AddedMeanwhile(k), Settled(b), Claim(b, k),
         Goto(t, "got", f[t]), UNCHANGED <<list, moved, data, disk, latest>>
  PROVE  DataInv'
<1>1. Fresh /\ Marks /\ Kept /\ Transfers /\ Wanted /\ Filled
  BY DEF DataInv
<1>2. Types /\ Counts
  BY DEF UseInv
<1>3. /\ \A c \in Buffers : c # b => bh'[c] = bh[c]
      /\ bh'[b].key = k /\ ~bh'[b].dirt /\ ~bh'[b].uptodate
  BY <1>2, ClaimSet DEF Blocks
<1>4. ~bh[b].dirt /\ ~bh[b].lock /\ ~(bh[b].count > 0) /\ \A c \in Buffers : bh[c].key # k
  BY DEF TakenMeanwhile, MustSync, AddedMeanwhile, Settled, find_buffer
<1>5. \A d \in Devs : \A n \in 1 .. Len(list[d]) : list[d][n].bh \in Buffers /\ list[d][n].bh # b
  BY <1>4, RequestHas
<1>6. ~Writing(b) /\ \A c : Writing(c)' <=> Writing(c)
  BY <1>5 DEF Writing
<1>7. Fresh' /\ Marks'
  <2>1. \A c \in Buffers : c = b \/ bh'[c] = bh[c]
    BY <1>3
  <2>2. Fresh'
    BY <1>1, <1>3, <1>6, <2>1 DEF Fresh
  <2>3. Marks'
    BY <1>1, <1>3, <2>1 DEF Marks
  <2> QED BY <2>2, <2>3
<1>8. Kept'
  BY <1>1, <1>3, <1>4, <1>6 DEF Kept
<1>9. Transfers'
  <2>2. ASSUME NEW d \in Devs, NEW n \in 1 .. Len(list[d]), list[d][n].cmd = READ
        PROVE  Reading(list[d][n], n = 1 /\ moved[d])'
    <3>1. Reading(list[d][n], n = 1 /\ moved[d]) /\ bh'[list[d][n].bh] = bh[list[d][n].bh]
      BY <1>1, <1>3, <1>5, <2>2 DEF Transfers
    <3> QED BY <3>1 DEF Reading
  <2>3. ASSUME NEW d \in Devs, moved[d]
        PROVE  list[d] # <<>> /\ bh'[list[d][1].bh] = bh[list[d][1].bh]
    <3>1. list[d] # <<>> /\ list[d] \in Seq(Requests)
      BY <1>1, <1>2, <2>3 DEF Transfers, Types
    <3>2. 1 \in 1 .. Len(list[d])
      BY <3>1
    <3> QED BY <1>3, <1>5, <3>1, <3>2
  <2> QED BY <1>1, <2>2, <2>3 DEF Transfers
<1>10. /\ pc'[t] = "got" /\ f' = f /\ \A u \in Tasks : u # t => pc'[u] = pc[u]
  BY <1>2 DEF Types, Goto
<1>11. Wanted'
  <2>1. \A u \in Tasks : pc'[u] \in Busy => pc[u] \in Busy /\ f[u].rq \in Buffers /\ f[u].rq # b
    BY <1>4, <1>10, BusyHas DEF Busy
  <2>2. \A u \in Tasks : pc'[u] \in Busy => pc[u] \in Busy /\ bh'[f[u].rq] = bh[f[u].rq]
    BY <1>3, <2>1
  <2> QED BY <1>1, <1>10, <2>2 DEF Wanted, Busy
<1>12. Filled'
  <2>1. ASSUME NEW u \in Tasks, pc'[u] \in {"hold", "release"}
        PROVE  pc[u] \in {"hold", "release"} /\ bh'[f[u].bh] = bh[f[u].bh]
    <3>1. pc[u] \in {"hold", "release"}
      BY <1>10, <2>1
    <3>2. f[u].bh \in Buffers /\ Holds(u, f[u].bh)
      BY <3>1, HoldHas
    <3>3. bh[f[u].bh].count > 0
      BY <1>2, <3>2, HeldIsCounted
    <3> QED BY <1>3, <1>4, <3>1, <3>2, <3>3
  <2> QED BY <1>1, <1>10, <2>1 DEF Filled
<1> QED BY <1>7, <1>8, <1>9, <1>11, <1>12 DEF DataInv

LEMMA VictimData ==
  ASSUME UseInv, DataInv, NEW t \in Tasks, Victim(t)
  PROVE  DataInv'
<1>1. Types /\ Shape /\ Local("victim", f[t], bh, Ops[t])
  BY TypesShape DEF UseInv, Victim, At, Locals
<1>2. UNCHANGED <<list, moved, data, disk, latest>>
  BY DEF Victim, device
<1>3. f[t].bh \in Buffers /\ f[t].key \in Keys
  BY <1>1 DEF Local, Asking, Asked
<1>4. CASE bh' = bh /\ (Goto(t, "getblk", f[t]) \/ \E fr : SyncFrom(t, fr, 1))
  <2>1. PICK p, g : p \in {"getblk", "sync_wait", "victim", "idle"} /\ Went(t, p, g)
    BY <1>1, <1>4, GotoWent, SyncWent
  <2>2. p \notin Busy /\ Ready(t, p, g) /\ SameMarks
    BY <1>1, <1>4, <2>1, CountOrLock DEF Busy, Ready
  <2> QED BY <1>2, <2>1, <2>2, NeutralStep
<1>5. CASE /\ ~TakenMeanwhile(f[t].bh) /\ ~MustSync(f[t].bh) /\ ~AddedMeanwhile(f[t].key)
           /\ Settled(f[t].bh) /\ Claim(f[t].bh, f[t].key) /\ Goto(t, "got", f[t])
  BY <1>2, <1>3, <1>5, ClaimData
<1> QED BY <1>4, <1>5 DEF Victim

LEMMA LockBufferData ==
  ASSUME UseInv, DataInv, NEW t \in Tasks, LockBuffer(t)
  PROVE  DataInv'
<1> DEFINE fr == f[t]
           b == fr.rq
<1>1. Types /\ Shape /\ Local("lock_buffer", fr, bh, Ops[t]) /\ fr \in Frame
  BY TypesShape DEF UseInv, LockBuffer, At, Locals, Types
<1>2. UNCHANGED <<list, moved, data, disk, latest>>
  BY DEF LockBuffer, device
<1>3. CASE bh' = bh /\ AfterRW(t, fr)
  <2>1. PICK p, g : p \in {"sync_wait", "victim", "idle", "wait_read", "ahead", "ahead_done"} /\ Went(t, p, g)
    BY <1>1, <1>3, AfterRWWent
  <2>2. p \notin Busy /\ Ready(t, p, g) /\ SameMarks
    BY <1>1, <1>3, <2>1, CountOrLock DEF Busy, Ready
  <2> QED BY <1>2, <2>1, <2>2, NeutralStep
<1>a. fr = f[t]
  OBVIOUS
<1>4. ASSUME ~NothingToDo(b, fr.rw), bh' = [bh EXCEPT ![b].lock = TRUE], Goto(t, "find_request", fr)
      PROVE  DataInv'
  <2> HIDE DEF fr
  <2>1. SameMarks
    BY <1>1, <1>4, CountOrLock
  <2>2. pc'[t] = "find_request" /\ f' = f /\ \A u \in Tasks : u # t => pc'[u] = pc[u]
    BY <1>a, <1>1, <1>4 DEF Types, Goto
  <2>3. Fresh /\ Marks /\ Kept /\ Transfers /\ Wanted /\ Filled
    BY DEF DataInv
  <2>4. \A c : Writing(c)' <=> Writing(c)
    BY <1>2 DEF Writing
  <2>5. Fresh' /\ Marks' /\ Kept'
    BY <1>2, <2>1, <2>3, <2>4 DEF Fresh, Marks, Kept, SameMarks
  <2>6. Transfers'
    <3>1. \A d \in Devs : \A n \in 1 .. Len(list[d]) : list[d][n].bh \in Buffers
      BY RequestHas
    <3>2. ASSUME NEW d \in Devs, NEW n \in 1 .. Len(list[d]), list[d][n].cmd = READ
          PROVE  Reading(list[d][n], n = 1 /\ moved[d])'
      <4>1. Reading(list[d][n], n = 1 /\ moved[d]) /\ list[d][n].bh \in Buffers
        BY <2>3, <3>1, <3>2 DEF Transfers
      <4> QED BY <1>2, <2>1, <4>1 DEF Reading, SameMarks
    <3>3. ASSUME NEW d \in Devs, moved[d]
          PROVE  /\ list[d] # <<>> /\ bh'[list[d][1].bh].key = bh[list[d][1].bh].key
                 /\ bh'[list[d][1].bh].dirt = bh[list[d][1].bh].dirt
      <4>1. list[d] # <<>> /\ list[d] \in Seq(Requests)
        BY <1>1, <2>3, <3>3 DEF Transfers, Types
      <4>2. list[d][1].bh \in Buffers
        BY <3>1, <4>1
      <4> QED BY <2>1, <4>1, <4>2 DEF SameMarks
    <3> QED BY <1>2, <2>3, <3>2, <3>3 DEF Transfers
  <2>7. Filled'
    <3>1. \A u \in Tasks : pc'[u] \in {"hold", "release"} => pc[u] \in {"hold", "release"} /\ f[u].bh \in Buffers
      BY <2>2, HoldHas
    <3> QED BY <2>1, <2>2, <2>3, <3>1 DEF Filled, SameMarks
  <2>8. b \in Buffers /\ fr.rw \in {READ, WRITE}
    BY <1>1 DEF Local, Filling, Frame
  <2>9. IF fr.rw = READ THEN ~bh[b].uptodate /\ ~bh[b].dirt /\ Dev(bh[b].key) \notin Raw
        ELSE bh[b].dirt
    <3>1. CASE fr.rw = READ
      <4>1. ~bh[b].uptodate
        BY <1>4, <3>1 DEF NothingToDo
      <4>2. fr.i = 0
        BY <1>1, <3>1 DEF Local, Filling, Frame, READ, WRITE
      <4>3. /\ Asked(fr, Ops[t]) /\ fr.op # "block_write" /\ fr.bh \in Buffers /\ bh[fr.bh].key = fr.key
            /\ b \in {fr.bh, fr.first} /\ (fr.first # NULL => Dev(bh[fr.first].key) \notin Raw)
        BY <1>1, <4>2 DEF Local, Filling
      <4>4. Dev(bh[b].key) \notin Raw
        BY <2>8, <4>3, FewTasks DEF Asked
      <4>5. ~bh[b].dirt
        BY <2>3, <2>8, <4>1, <4>4 DEF Marks
      <4> QED BY <3>1, <4>1, <4>4, <4>5
    <3>2. CASE fr.rw = WRITE
      BY <1>4, <3>2 DEF NothingToDo, READ, WRITE
    <3> QED BY <2>8, <3>1, <3>2
  <2>10. Wanted'
    <3>1. \A u \in Tasks : pc'[u] \in Busy => f[u].rq \in Buffers /\
            IF f[u].rw = READ THEN ~bh[f[u].rq].uptodate /\ ~bh[f[u].rq].dirt /\ Dev(bh[f[u].rq].key) \notin Raw
            ELSE bh[f[u].rq].dirt
      <4> TAKE u \in Tasks
      <4> HAVE pc'[u] \in Busy
      <4>1. CASE u = t
        BY <1>a, <2>8, <2>9, <4>1
      <4>2. CASE u # t
        BY <2>2, <2>3, <4>2, BusyHas DEF Wanted, Busy
      <4> QED BY <4>1, <4>2
    <3> QED BY <2>1, <2>2, <3>1 DEF Wanted, Busy, SameMarks
  <2> QED BY <2>5, <2>6, <2>7, <2>10 DEF DataInv
<1> QED BY <1>3, <1>4 DEF LockBuffer

(* A buffer that a task may write is in no read request. *)
LEMMA HeldNotRead ==
  ASSUME UseInv, DataInv, NEW t \in Tasks, pc[t] \in {"hold", "release"}
  PROVE  /\ Dev(bh[f[t].bh].key) \notin Raw => bh[f[t].bh].uptodate
         /\ \A d \in Devs : \A n \in 1 .. Len(list[d]) :
              list[d][n].bh = f[t].bh => list[d][n].cmd = WRITE
         /\ \A u \in Tasks : pc[u] \in Busy /\ f[u].rq = f[t].bh => f[u].rw # READ
<1>1. Filled /\ Transfers /\ Wanted
  BY DEF DataInv
<1>2. Dev(bh[f[t].bh].key) \notin Raw => bh[f[t].bh].uptodate
  BY <1>1, HoldHas DEF Filled
<1>3. ASSUME NEW d \in Devs, NEW n \in 1 .. Len(list[d]), list[d][n].bh = f[t].bh
      PROVE  list[d][n].cmd = WRITE
  <2>1. list[d][n].cmd = READ => ~bh[f[t].bh].uptodate /\ Dev(bh[f[t].bh].key) \notin Raw
    BY <1>1, <1>3 DEF Transfers, Reading
  <2> QED BY <1>2, <2>1, RequestHas
<1>4. ASSUME NEW u \in Tasks, pc[u] \in Busy, f[u].rq = f[t].bh
      PROVE  f[u].rw # READ
  BY <1>1, <1>2, <1>4 DEF Wanted, Busy
<1> QED BY <1>2, <1>3, <1>4

LEMMA ModifyData ==
  ASSUME UseInv, DataInv, NEW t \in Tasks, Modify(t)
  PROVE  DataInv'
<1> DEFINE b == f[t].bh
           k == bh[b].key
           new == IF latest[k] < MaxVersion THEN latest[k] + 1 ELSE 0
<1>1. Types /\ NoAlias /\ pc[t] = "hold"
  BY DEF UseInv, Modify, At
<1>2. b \in Buffers /\ k \in Keys
  BY <1>1, HoldHas
<1>3. /\ Dev(k) \notin Raw => bh[b].uptodate
      /\ \A d \in Devs : \A n \in 1 .. Len(list[d]) : list[d][n].bh = b => list[d][n].cmd = WRITE
      /\ \A u \in Tasks : pc[u] \in Busy /\ f[u].rq = b => f[u].rw # READ
  BY <1>1, HeldNotRead
<1>4. /\ latest' = [latest EXCEPT ![k] = new] /\ data' = [data EXCEPT ![b] = new]
      /\ bh' = [bh EXCEPT ![b].dirt = TRUE] /\ UNCHANGED <<list, moved, disk, pc, f>>
  BY DEF Modify, device
<1>5. data \in [Buffers -> Int] /\ latest \in [Keys -> Int]
  BY <1>1 DEF Types
<1>b. b = f[t].bh
  OBVIOUS
<1> HIDE DEF b, new
<1>6. /\ latest'[k] = new /\ data'[b] = new
      /\ \A j \in Keys : j # k => latest'[j] = latest[j]
      /\ \A c \in Buffers : c # b => data'[c] = data[c]
  BY <1>2, <1>4, <1>5
<1>7. \A c \in Buffers : /\ bh'[c].key = bh[c].key /\ bh'[c].uptodate = bh[c].uptodate
                         /\ bh'[c].dirt = IF c = b THEN TRUE ELSE bh[c].dirt
  BY <1>1, <1>2, <1>4, DirtSet
<1>8. \A c \in Buffers : bh[c].key \in Keys /\ c # b => bh[c].key # k
  BY <1>1, <1>2, KeysAre DEF NoAlias
<1>9. Fresh /\ Marks /\ Kept /\ Transfers /\ Wanted /\ Filled
  BY DEF DataInv
<1>10. \A c : Writing(c)' <=> Writing(c)
  BY <1>4 DEF Writing
<1>11. Fresh'
  <2> SUFFICES ASSUME NEW c \in Buffers, bh'[c].key \in Keys, bh'[c].dirt \/ bh'[c].uptodate \/ Writing(c)
               PROVE  data'[c] = latest'[bh'[c].key]
    BY <1>10 DEF Fresh
  <2>1. CASE c = b
    BY <1>6, <1>7, <2>1
  <2>2. CASE c # b
    <3>1. bh[c].key \in Keys /\ bh[c].key # k /\ (bh[c].dirt \/ bh[c].uptodate \/ Writing(c))
      BY <1>7, <1>8, <2>2
    <3>2. data[c] = latest[bh[c].key]
      BY <1>9, <3>1 DEF Fresh
    <3> QED BY <1>6, <1>7, <2>2, <3>1, <3>2
  <2> QED BY <2>1, <2>2
<1>12. Marks'
  <2> SUFFICES ASSUME NEW c \in Buffers, bh'[c].dirt
               PROVE  bh'[c].key \in Keys /\ (Dev(bh'[c].key) \notin Raw => bh'[c].uptodate)
    BY DEF Marks, Dev
  <2>1. CASE c = b
    BY <1>2, <1>3, <1>7, <2>1
  <2>2. CASE c # b
    BY <1>7, <1>9, <2>2 DEF Marks
  <2> QED BY <2>1, <2>2
<1>13. Kept'
  <2> SUFFICES ASSUME NEW j \in Keys
               PROVE  disk[j] = latest'[j] \/ \E c \in Buffers : bh'[c].key = j /\ (bh'[c].dirt \/ Writing(c))
    BY <1>4, <1>10 DEF Kept
  <2>1. CASE j = k
    BY <1>2, <1>7, <2>1
  <2>2. CASE j # k
    <3>1. disk[j] = latest[j] \/ \E c \in Buffers : bh[c].key = j /\ (bh[c].dirt \/ Writing(c))
      BY <1>9 DEF Kept
    <3>2. latest'[j] = latest[j]
      BY <1>6, <2>2
    <3> HIDE DEF k
    <3> QED BY <1>7, <3>1, <3>2
  <2> QED BY <2>1, <2>2
<1>14. Transfers'
  <2>2. ASSUME NEW d \in Devs, NEW n \in 1 .. Len(list[d]), list[d][n].cmd = READ
        PROVE  Reading(list[d][n], n = 1 /\ moved[d])'
    <3> DEFINE c == list[d][n].bh
    <3>1. Reading(list[d][n], n = 1 /\ moved[d]) /\ c \in Buffers /\ bh[c].key \in Keys
      BY <1>9, <2>2, RequestHas DEF Transfers
    <3>2. c # b
      BY <1>3, <2>2 DEF READ, WRITE
    <3>3. bh'[c].key = bh[c].key /\ bh'[c].uptodate = bh[c].uptodate /\ bh'[c].dirt = bh[c].dirt
          /\ data'[c] = data[c] /\ latest'[bh[c].key] = latest[bh[c].key]
      BY <1>6, <1>7, <1>8, <3>1, <3>2
    <3> QED BY <1>4, <3>1, <3>3 DEF Reading, Dev
  <2>3. ASSUME NEW d \in Devs, moved[d]
        PROVE  /\ list[d] # <<>>
               /\ list[d][1].cmd = WRITE /\ ~bh'[list[d][1].bh].dirt
                    => disk[bh'[list[d][1].bh].key] = latest'[bh'[list[d][1].bh].key]
    <3> DEFINE c == list[d][1].bh
    <3>1. list[d] # <<>> /\ list[d] \in Seq(Requests)
      BY <1>1, <1>9, <2>3 DEF Transfers, Types
    <3>2. c \in Buffers /\ bh[c].key \in Keys
      <4>1. 1 \in 1 .. Len(list[d])
        BY <3>1
      <4> QED BY <4>1, RequestHas
    <3>3. list[d][1].cmd = WRITE /\ ~bh[c].dirt => disk[bh[c].key] = latest[bh[c].key]
      BY <1>9, <2>3 DEF Transfers
    <3> HIDE DEF c
    <3>4. list[d][1].cmd = WRITE /\ ~bh'[c].dirt => disk[bh'[c].key] = latest'[bh'[c].key]
      <4> SUFFICES ASSUME list[d][1].cmd = WRITE, ~bh'[c].dirt
                   PROVE  disk[bh'[c].key] = latest'[bh'[c].key]
        OBVIOUS
      <4>1. c # b /\ ~bh[c].dirt /\ bh'[c].key = bh[c].key
        BY <1>7, <3>2
      <4>2. latest'[bh[c].key] = latest[bh[c].key]
        BY <1>6, <1>8, <3>2, <4>1
      <4> QED BY <3>3, <4>1, <4>2
    <3> QED BY <3>1, <3>4 DEF c
  <2> QED BY <1>4, <2>2, <2>3 DEF Transfers
<1>15. Wanted'
  <2> SUFFICES ASSUME NEW u \in Tasks, pc[u] \in Busy
               PROVE  IF f[u].rw = READ
                      THEN ~bh'[f[u].rq].uptodate /\ ~bh'[f[u].rq].dirt /\ Dev(bh'[f[u].rq].key) \notin Raw
                      ELSE bh'[f[u].rq].dirt
    BY <1>4 DEF Wanted, Busy, Dev
  <2>1. f[u].rq \in Buffers
    BY BusyHas
  <2>2. IF f[u].rw = READ THEN ~bh[f[u].rq].uptodate /\ ~bh[f[u].rq].dirt /\ Dev(bh[f[u].rq].key) \notin Raw
        ELSE bh[f[u].rq].dirt
    BY <1>9 DEF Wanted, Busy
  <2> QED BY <1>3, <1>7, <2>1, <2>2
<1>16. Filled'
  <2>1. \A u \in Tasks : pc[u] \in {"hold", "release"} => f[u].bh \in Buffers
    BY HoldHas
  <2> QED BY <1>4, <1>7, <1>9, <2>1 DEF Filled
<1> QED BY <1>11, <1>12, <1>13, <1>14, <1>15, <1>16 DEF DataInv

(* A request enters a list: add_request() clears b_dirt, and a write       *)
(* request takes the place of the mark.                                    *)
LEMMA QueuedData ==
  ASSUME UseInv, DataInv, NEW t \in Tasks, NEW b \in Buffers, NEW d \in Devs, NEW k, NEW r, NewRequest(d, k, r),
         pc[t] \in Busy, f[t].rq = b, r.bh = b, r.cmd = f[t].rw, f[t].rw \in {READ, WRITE},
         bh[b].key \in Keys, bh' = [bh EXCEPT ![b].dirt = FALSE],
         NEW p, NEW g, Went(t, p, g), p \notin Busy, p \notin {"hold", "release"},
         UNCHANGED <<moved, data, disk, latest>>
  PROVE  DataInv'
<1>1. Types /\ Fresh /\ Marks /\ Kept /\ Transfers /\ Wanted /\ Filled
  BY DEF UseInv, DataInv
<1>2. \A c \in Buffers : /\ bh'[c].key = bh[c].key /\ bh'[c].uptodate = bh[c].uptodate
                         /\ bh'[c].dirt = IF c = b THEN FALSE ELSE bh[c].dirt
  BY <1>1, DirtSet
<1>3. /\ \A e \in Devs : \A n \in 1 .. Len(list[e]) : list[e][n].bh # b
      /\ \A u \in Tasks : pc[u] \in Busy /\ f[u].rq = b => u = t
  BY BusyHas
<1>4. IF f[t].rw = READ THEN ~bh[b].uptodate /\ ~bh[b].dirt /\ Dev(bh[b].key) \notin Raw ELSE bh[b].dirt
  BY <1>1 DEF Wanted, Busy
<1>5. /\ \A e \in Devs : \A n \in 1 .. Len(list'[e]) :
           \/ e = d /\ n = k + 1 /\ list'[e][n] = r
           \/ /\ ~(e = d /\ n = k + 1) /\ Before(d, k, e, n) \in 1 .. Len(list[e])
              /\ list'[e][n] = list[e][Before(d, k, e, n)]
      /\ k + 1 \in 1 .. Len(list'[d])
      /\ \A e \in Devs : \A n \in 1 .. Len(list[e]) : \E j \in 1 .. Len(list'[e]) : list'[e][j] = list[e][n]
      /\ list[d] # <<>> => list'[d][1] = list[d][1]
      /\ list[d] = <<>> => k = 0
  BY <1>1, NewRequestIs
<1>a. list'[d][k + 1] = r
  <2>1. k \in 0 .. Len(list[d]) /\ Inserted(list'[d], list[d], k, r) /\ list[d] \in Seq(Requests)
    BY <1>1 DEF NewRequest, Types
  <2> QED BY <2>1 DEF Inserted
<1>6. ~Writing(b)
  BY <1>3 DEF Writing
<1>7. ASSUME NEW c, Writing(c)'
      PROVE  Writing(c) \/ (c = b /\ f[t].rw = WRITE)
  <2>0. PICK e \in Devs : \E n \in 1 .. Len(list'[e]) : list'[e][n].bh = c /\ list'[e][n].cmd = WRITE
    BY <1>7 DEF Writing
  <2>1. PICK n \in 1 .. Len(list'[e]) : list'[e][n].bh = c /\ list'[e][n].cmd = WRITE
    BY <2>0
  <2>2. CASE list'[e][n] = r
    BY <2>1, <2>2
  <2>3. CASE Before(d, k, e, n) \in 1 .. Len(list[e]) /\ list'[e][n] = list[e][Before(d, k, e, n)]
    BY <2>1, <2>3 DEF Writing
  <2> QED BY <1>5, <2>2, <2>3
<1>8. ASSUME NEW c, Writing(c)
      PROVE  Writing(c)'
  <2>0. PICK e \in Devs : \E n \in 1 .. Len(list[e]) : list[e][n].bh = c /\ list[e][n].cmd = WRITE
    BY <1>8 DEF Writing
  <2>1. PICK n \in 1 .. Len(list[e]) : list[e][n].bh = c /\ list[e][n].cmd = WRITE
    BY <2>0
  <2>2. PICK j \in 1 .. Len(list'[e]) : list'[e][j] = list[e][n]
    BY <1>5
  <2> QED BY <2>1, <2>2 DEF Writing
<1>9. f[t].rw = WRITE => Writing(b)'
  BY <1>5, <1>a DEF Writing
<1>10. Fresh'
  <2> SUFFICES ASSUME NEW c \in Buffers, bh'[c].key \in Keys, bh'[c].dirt \/ bh'[c].uptodate \/ Writing(c)'
               PROVE  data[c] = latest[bh'[c].key]
    BY DEF Fresh
  <2>1. bh[c].dirt \/ bh[c].uptodate \/ Writing(c)
    BY <1>2, <1>4, <1>7 DEF READ, WRITE
  <2> QED BY <1>1, <1>2, <2>1 DEF Fresh
<1>11. Marks'
  <2> SUFFICES ASSUME NEW c \in Buffers, bh'[c].dirt
               PROVE  bh'[c].key \in Keys /\ (Dev(bh'[c].key) \notin Raw => bh'[c].uptodate)
    BY DEF Marks, Dev
  <2> QED BY <1>1, <1>2 DEF Marks
<1>12. Kept'
  <2> SUFFICES ASSUME NEW j \in Keys
               PROVE  disk[j] = latest[j] \/ \E c \in Buffers : bh'[c].key = j /\ (bh'[c].dirt \/ Writing(c)')
    BY DEF Kept
  <2>1. CASE disk[j] = latest[j]
    BY <2>1
  <2>2. ASSUME NEW c \in Buffers, bh[c].key = j, bh[c].dirt \/ Writing(c)
        PROVE  bh'[c].key = j /\ (bh'[c].dirt \/ Writing(c)')
    <3>1. CASE c = b
      BY <1>2, <1>4, <1>6, <1>9, <2>2, <3>1
    <3>2. CASE c # b
      BY <1>2, <1>8, <2>2, <3>2
    <3> QED BY <3>1, <3>2
  <2> QED BY <1>1, <2>1, <2>2 DEF Kept
<1>13. Transfers'
  <2>1. ASSUME NEW e \in Devs, NEW n \in 1 .. Len(list'[e]), list'[e][n].cmd = READ
        PROVE  Reading(list[e][n], n = 1 /\ moved[e])'
    <3>1. CASE e = d /\ n = k + 1 /\ list'[e][n] = r
      <4>1. n = 1 => ~moved[d]
        <5>1. k \in 0 .. Len(list[d]) /\ (list[d] # <<>> => k > 0)
          BY DEF NewRequest
        <5> QED BY <1>1, <3>1, <5>1 DEF Transfers, Types
      <4>2. ~bh'[b].uptodate /\ ~bh'[b].dirt /\ Dev(bh'[b].key) \notin Raw
        BY <1>2, <1>4, <2>1, <3>1
      <4> QED BY <3>1, <4>1, <4>2 DEF Reading, Dev
    <3>2. CASE /\ ~(e = d /\ n = k + 1) /\ Before(d, k, e, n) \in 1 .. Len(list[e])
               /\ list'[e][n] = list[e][Before(d, k, e, n)]
      <4> DEFINE m == Before(d, k, e, n)
                 c == list[e][m].bh
      <4>1. m \in 1 .. Len(list[e]) /\ list[e][m].cmd = READ
        BY <2>1, <3>2
      <4>2. n = 1 => m = 1
        <5>1. k \in 0 .. Len(list[d])
          BY DEF NewRequest
        <5> QED BY <3>2, <5>1 DEF Before
      <4> HIDE DEF m
      <4>3. Reading(list[e][m], m = 1 /\ moved[e]) /\ c \in Buffers /\ c # b
        BY <1>1, <1>3, <4>1, RequestHas DEF Transfers
      <4>4. bh'[c].key = bh[c].key /\ bh'[c].uptodate = bh[c].uptodate /\ bh'[c].dirt = bh[c].dirt
        BY <1>2, <4>3
      <4>5. list'[e][n] = list[e][m]
        BY <3>2 DEF m
      <4> QED BY <4>2, <4>3, <4>4, <4>5 DEF Reading, Dev
    <3> QED BY <1>5, <3>1, <3>2
  <2>2. ASSUME NEW e \in Devs, moved[e]
        PROVE  /\ list'[e] # <<>>
               /\ list'[e][1].cmd = WRITE /\ ~bh'[list'[e][1].bh].dirt
                    => disk[bh'[list'[e][1].bh].key] = latest[bh'[list'[e][1].bh].key]
    <3> DEFINE c == list[e][1].bh
    <3>1. list[e] # <<>> /\ list[e] \in Seq(Requests)
      BY <1>1, <2>2 DEF Transfers, Types
    <3>2. 1 \in 1 .. Len(list[e])
      BY <3>1
    <3>3. list'[e] # <<>> /\ list'[e][1] = list[e][1]
      <4>1. CASE e = d
        BY <1>5, <3>1, <4>1 DEF NewRequest
      <4>2. CASE e # d
        BY <3>1, <4>2 DEF NewRequest
      <4> QED BY <4>1, <4>2
    <3>4. c \in Buffers /\ c # b
      BY <1>3, <3>2, RequestHas
    <3>5. list[e][1].cmd = WRITE /\ ~bh[c].dirt => disk[bh[c].key] = latest[bh[c].key]
      BY <1>1, <2>2 DEF Transfers
    <3> QED BY <1>2, <3>3, <3>4, <3>5
  <2> QED BY <2>1, <2>2 DEF Transfers
<1>14. Wanted'
  <2> SUFFICES ASSUME NEW u \in Tasks, pc'[u] \in Busy
               PROVE  IF f'[u].rw = READ
                      THEN ~bh'[f'[u].rq].uptodate /\ ~bh'[f'[u].rq].dirt /\ Dev(bh'[f'[u].rq].key) \notin Raw
                      ELSE bh'[f'[u].rq].dirt
    BY DEF Wanted, Busy, Dev
  <2>1. u # t /\ pc[u] \in Busy /\ f'[u] = f[u]
    BY DEF Went, Busy
  <2>2. f[u].rq \in Buffers /\ f[u].rq # b
    BY <1>3, <2>1, BusyHas
  <2>3. IF f[u].rw = READ
        THEN ~bh[f[u].rq].uptodate /\ ~bh[f[u].rq].dirt /\ Dev(bh[f[u].rq].key) \notin Raw
        ELSE bh[f[u].rq].dirt
    BY <1>1, <2>1 DEF Wanted, Busy
  <2> QED BY <1>2, <2>1, <2>2, <2>3
<1>15. Filled'
  <2> SUFFICES ASSUME NEW u \in Tasks, pc'[u] \in {"hold", "release"}, f'[u].op # "block_write"
               PROVE  bh'[f'[u].bh].uptodate
    BY DEF Filled
  <2>1. pc[u] \in {"hold", "release"} /\ f'[u] = f[u]
    BY DEF Went
  <2>2. f[u].bh \in Buffers /\ bh[f[u].bh].uptodate
    BY <1>1, <2>1, HoldHas DEF Filled
  <2> QED BY <1>2, <2>1, <2>2
<1> QED BY <1>10, <1>11, <1>12, <1>13, <1>14, <1>15 DEF DataInv

LEMMA FindRequestData ==
  ASSUME UseInv, DataInv, NEW t \in Tasks, FindRequest(t)
  PROVE  DataInv'
<1> DEFINE b == f[t].rq
           d == Dev(bh[b].key)
<1>1. Types /\ Shape /\ UNCHANGED <<moved, data, disk, latest>>
  BY TypesShape DEF UseInv, FindRequest
<1>2. /\ pc[t] = "find_request" /\ b \in Buffers /\ f[t].rw \in {READ, WRITE}
      /\ bh[b].key \in Keys /\ d \in Devs
  BY FindRequestFacts
<1>3. \/ /\ bh' = [bh EXCEPT ![b].dirt = FALSE] /\ AfterRW(t, f[t])
         /\ \E k, r : NewRequest(d, k, r) /\ r.bh = b /\ r.cmd = f[t].rw
      \/ bh' = [bh EXCEPT ![b].lock = FALSE] /\ AfterRW(t, f[t]) /\ list' = list
      \/ bh' = bh /\ Yield(t, "no_request", f[t]) /\ list' = list
  BY FindRequestFacts
<1>b. b = f[t].rq
  OBVIOUS
<1> HIDE DEF b, d
<1>4. ASSUME AfterRW(t, f[t])
      PROVE  \E p, g : Went(t, p, g) /\ p \notin Busy /\ p \notin {"hold", "release"} /\ Ready(t, p, g)
  <2>1. PICK p, g : p \in {"sync_wait", "victim", "idle", "wait_read", "ahead", "ahead_done"} /\ Went(t, p, g)
    BY <1>1, <1>4, AfterRWWent
  <2> QED BY <2>1 DEF Busy, Ready
<1>5. ASSUME bh' = [bh EXCEPT ![b].dirt = FALSE], AfterRW(t, f[t]),
             NEW k, NEW r, NewRequest(d, k, r), r.bh = b, r.cmd = f[t].rw
      PROVE  DataInv'
  <2>1. PICK p, g : Went(t, p, g) /\ p \notin Busy /\ p \notin {"hold", "release"}
    BY <1>4, <1>5
  <2>2. pc[t] \in Busy
    BY <1>2 DEF Busy
  <2> QED BY <1>b, <1>1, <1>2, <1>5, <2>1, <2>2, QueuedData
<1>6. CASE bh' = [bh EXCEPT ![b].lock = FALSE] /\ AfterRW(t, f[t]) /\ list' = list
  <2>1. PICK p, g : Went(t, p, g) /\ p \notin Busy /\ Ready(t, p, g)
    BY <1>4, <1>6
  <2>2. SameMarks
    BY <1>1, <1>6, CountOrLock
  <2> QED BY <1>1, <1>6, <2>1, <2>2, NeutralStep
<1>7. CASE bh' = bh /\ Yield(t, "no_request", f[t]) /\ list' = list
  <2>1. /\ f' = f /\ pc'[t] = "no_request" /\ \A u \in Tasks : u # t => pc'[u] = pc[u]
    BY <1>1, <1>7 DEF Yield, Types
  <2>2. Fresh /\ Marks /\ Kept /\ Transfers /\ Wanted /\ Filled
    BY DEF DataInv
  <2>3. Fresh' /\ Marks' /\ Kept'
    BY <1>1, <1>7, <2>2 DEF Fresh, Marks, Kept, Writing
  <2>4. Transfers'
    BY <1>1, <1>7, <2>2 DEF Transfers, Reading
  <2>5. Wanted' /\ Filled'
    BY <1>2, <1>7, <2>1, <2>2 DEF Wanted, Filled
  <2> QED BY <2>3, <2>4, <2>5 DEF DataInv
<1> QED BY <1>3, <1>5, <1>6, <1>7

(* The current request of a device. *)
LEMMA CurrentIs ==
  ASSUME UseInv, NEW d \in Devs, list[d] # <<>>
  PROVE  1 \in 1 .. Len(list[d]) /\ Head(list[d]) = list[d][1]
<1>1. list[d] \in Seq(Requests)
  BY DEF UseInv, Types
<1> QED BY <1>1

LEMMA WritingIs ==
  ASSUME UseInv, NEW d \in Devs, NEW n \in 1 .. Len(list[d]), Writing(list[d][n].bh)
  PROVE  list[d][n].cmd = WRITE
<1>1. PICK e \in Devs : \E m \in 1 .. Len(list[e]) : list[e][m].bh = list[d][n].bh /\ list[e][m].cmd = WRITE
  BY DEF Writing
<1>2. PICK m \in 1 .. Len(list[e]) : list[e][m].bh = list[d][n].bh /\ list[e][m].cmd = WRITE
  BY <1>1
<1>3. e = d /\ m = n
  BY <1>2, OneRequest
<1> QED BY <1>2, <1>3

(* The device moves the data of a request: what it reads is what was       *)
(* written last, and so is what it writes.                                 *)
LEMMA TransferData ==
  ASSUME UseInv, DataInv, NEW d \in Devs, Transfer(d)
  PROVE  DataInv'
<1> DEFINE r == list[d][1]
           b == r.bh
           k == bh[b].key
<1>1. Types /\ NoAlias /\ Fresh /\ Marks /\ Kept /\ Transfers /\ Wanted /\ Filled
  BY DEF UseInv, DataInv
<1>2. list[d] # <<>> /\ UNCHANGED <<bh, list, latest, pc, f>>
  BY DEF Transfer
<1>3. 1 \in 1 .. Len(list[d]) /\ Head(list[d]) = r
  BY <1>2, CurrentIs
<1>4. b \in Buffers /\ r.cmd \in {READ, WRITE} /\ k \in Keys /\ BlockOf(r) = k
  BY <1>3, RequestHas
<1>5. /\ moved' = [moved EXCEPT ![d] = TRUE]
      /\ IF r.cmd = READ
         THEN data' = [data EXCEPT ![b] = disk[k]] /\ disk' = disk
         ELSE disk' = [disk EXCEPT ![k] = data[b]] /\ data' = data
  BY <1>3, <1>4 DEF Transfer
<1>6. data \in [Buffers -> Int] /\ disk \in [Keys -> Int] /\ moved \in [Devs -> BOOLEAN]
  BY <1>1 DEF Types
<1>7. moved'[d] = TRUE /\ \A e \in Devs : e # d => moved'[e] = moved[e]
  BY <1>5, <1>6
<1>8. \A c : Writing(c)' <=> Writing(c)
  BY <1>2 DEF Writing
<1>9. r.cmd = READ => disk[k] = latest[k]
  <2> SUFFICES ASSUME r.cmd = READ, disk[k] # latest[k]
               PROVE  FALSE
    OBVIOUS
  <2>1. PICK c \in Buffers : bh[c].key = k /\ (bh[c].dirt \/ Writing(c))
    BY <1>1, <1>4 DEF Kept
  <2>2. c = b
    BY <1>1, <1>4, <2>1, KeysAre DEF NoAlias
  <2>3. ~bh[b].dirt
    BY <1>1, <1>3 DEF Transfers, Reading
  <2>4. ~Writing(b)
    BY <1>3, WritingIs DEF READ, WRITE
  <2> QED BY <2>1, <2>2, <2>3, <2>4
<1>10. r.cmd = WRITE => data[b] = latest[k]
  <2>1. r.cmd = WRITE => Writing(b)
    BY <1>3 DEF Writing
  <2> QED BY <1>1, <1>4, <2>1 DEF Fresh
<1>11. \A n \in 1 .. Len(list[d]) : n # 1 => list[d][n].bh # b
  BY <1>3, OneRequest
<1>12. \A e \in Devs : \A n \in 1 .. Len(list[e]) : e # d => list[e][n].bh # b
  BY <1>3, OneRequest
<1>r. r = list[d][1]
  OBVIOUS
<1>b. b = r.bh
  OBVIOUS
<1>k. k = bh[b].key
  OBVIOUS
<1> HIDE DEF r, b, k
<1>13. \A j \in Keys : disk[j] = latest[j] => disk'[j] = latest[j]
  BY <1>4, <1>5, <1>6, <1>10
<1>14. r.cmd = WRITE => disk'[k] = latest[k]
  BY <1>4, <1>5, <1>6, <1>10 DEF READ, WRITE
<1>15. /\ \A c \in Buffers : c # b => data'[c] = data[c]
       /\ r.cmd = READ => data'[b] = latest[k]
       /\ r.cmd = WRITE => data'[b] = data[b]
  BY <1>4, <1>5, <1>6, <1>9 DEF READ, WRITE
<1>16. Fresh'
  <2> SUFFICES ASSUME NEW c \in Buffers, bh[c].key \in Keys, bh[c].dirt \/ bh[c].uptodate \/ Writing(c)
               PROVE  data'[c] = latest[bh[c].key]
    BY <1>2, <1>8 DEF Fresh
  <2>1. data[c] = latest[bh[c].key]
    BY <1>1 DEF Fresh
  <2>2. CASE c = b
    BY <1>k, <1>4, <1>15, <2>1, <2>2
  <2>3. CASE c # b
    BY <1>15, <2>1, <2>3
  <2> QED BY <2>2, <2>3
<1>17. Marks' /\ Wanted' /\ Filled'
  BY <1>1, <1>2 DEF Marks, Wanted, Filled
<1>18. Kept'
  BY <1>1, <1>2, <1>8, <1>13 DEF Kept
<1>19. Transfers'
  <2>1. ASSUME NEW e \in Devs, NEW n \in 1 .. Len(list[e]), list[e][n].cmd = READ
        PROVE  Reading(list[e][n], n = 1 /\ moved[e])'
    <3>1. Reading(list[e][n], n = 1 /\ moved[e]) /\ list[e][n].bh \in Buffers
      BY <1>1, <2>1, RequestHas DEF Transfers
    <3>2. CASE e = d /\ n = 1
      <4>1. data'[list[e][n].bh] = latest[bh[list[e][n].bh].key]
        BY <1>r, <1>b, <1>k, <1>15, <2>1, <3>2
      <4> QED BY <1>2, <3>1, <4>1 DEF Reading
    <3>3. CASE ~(e = d /\ n = 1)
      <4>1. list[e][n].bh # b
        BY <1>11, <1>12, <3>3
      <4>2. data'[list[e][n].bh] = data[list[e][n].bh]
        BY <1>15, <3>1, <4>1
      <4>3. n = 1 /\ moved'[e] => n = 1 /\ moved[e]
        BY <1>7, <3>3
      <4> QED BY <1>2, <3>1, <4>2, <4>3 DEF Reading
    <3> QED BY <3>2, <3>3
  <2>2. ASSUME NEW e \in Devs, moved'[e]
        PROVE  /\ list[e] # <<>>
               /\ list[e][1].cmd = WRITE /\ ~bh[list[e][1].bh].dirt
                    => disk'[bh[list[e][1].bh].key] = latest[bh[list[e][1].bh].key]
    <3>1. CASE e = d
      BY <1>r, <1>b, <1>k, <1>2, <1>14, <3>1
    <3>2. CASE e # d
      <4>1. /\ list[e] # <<>>
            /\ list[e][1].cmd = WRITE /\ ~bh[list[e][1].bh].dirt
                    => disk[bh[list[e][1].bh].key] = latest[bh[list[e][1].bh].key]
        BY <1>1, <1>7, <2>2, <3>2 DEF Transfers
      <4>2. bh[list[e][1].bh].key \in Keys
        BY <4>1, CurrentIs, RequestHas
      <4> QED BY <1>13, <4>1, <4>2
    <3> QED BY <3>1, <3>2
  <2> QED BY <1>2, <2>1, <2>2 DEF Transfers
<1> QED BY <1>16, <1>17, <1>18, <1>19 DEF DataInv

(* A request ends: a read that succeeded has filled the buffer, a write    *)
(* the disk.                                                               *)
LEMMA EndData ==
  ASSUME Errors \subseteq {READ}, UseInv, DataInv, NEW d \in Devs, NEW ok \in BOOLEAN, end_request(d, ok)
  PROVE  DataInv'
<1> DEFINE r == list[d][1]
           b == r.bh
           k == bh[b].key
<1>1. Types /\ Fresh /\ Marks /\ Kept /\ Transfers /\ Wanted /\ Filled
  BY DEF UseInv, DataInv
<1>2. list[d] # <<>> /\ UNCHANGED <<data, disk, latest, f>> /\ moved' = [moved EXCEPT ![d] = FALSE]
      /\ pc' = Wake(pc, "no_request", "find_request")
  BY DEF end_request
<1>3. 1 \in 1 .. Len(list[d]) /\ Head(list[d]) = r
  BY <1>2, CurrentIs
<1>4. b \in Buffers /\ r.cmd \in {READ, WRITE} /\ k \in Keys
  BY <1>3, RequestHas
<1>5. (ok => moved[d]) /\ (~ok => r.cmd = READ)
  BY <1>3 DEF end_request
<1>6. /\ \A c \in Buffers : /\ bh'[c].key = bh[c].key /\ bh'[c].dirt = bh[c].dirt
                            /\ bh'[c].uptodate = IF c = b THEN ok ELSE bh[c].uptodate
      /\ Len(list'[d]) = Len(list[d]) - 1 /\ Len(list[d]) \in Nat
      /\ \A e \in Devs : e # d => list'[e] = list[e]
      /\ \A n \in 1 .. Len(list'[d]) : n + 1 \in 1 .. Len(list[d]) /\ list'[d][n] = list[d][n + 1]
      /\ \A n \in 1 .. Len(list[d]) : n # 1 => n - 1 \in 1 .. Len(list'[d]) /\ list'[d][n - 1] = list[d][n]
  <2>a. \A c \in Buffers : bh'[c].key = bh[c].key /\ bh'[c].dirt = bh[c].dirt
    BY EndRequestFacts
  <2>b. Answered(b, ok)
    BY EndRequestFacts
  <2>1. \A c \in Buffers : /\ bh'[c].key = bh[c].key /\ bh'[c].dirt = bh[c].dirt
                          /\ bh'[c].uptodate = IF c = b THEN ok ELSE bh[c].uptodate
    BY <2>a, <2>b DEF Answered
  <2>2. /\ Len(list'[d]) = Len(list[d]) - 1 /\ Len(list[d]) \in Nat
        /\ \A e \in Devs : e # d => list'[e] = list[e]
    BY EndRequestFacts
  <2>3. \A n \in 1 .. Len(list'[d]) : n + 1 \in 1 .. Len(list[d]) /\ list'[d][n] = list[d][n + 1]
    BY EndRequestFacts
  <2>4. \A n \in 1 .. Len(list[d]) : n # 1 => n - 1 \in 1 .. Len(list'[d]) /\ list'[d][n - 1] = list[d][n]
    BY EndRequestFacts
  <2> QED BY <2>1, <2>2, <2>3, <2>4
<1>7. moved'[d] = FALSE /\ \A e \in Devs : e # d => moved'[e] = moved[e]
  BY <1>1, <1>2 DEF Types
<1>8. \A u \in Tasks : (pc'[u] \in Busy <=> pc[u] \in Busy) /\ (pc'[u] \notin Busy => pc'[u] = pc[u])
  BY <1>1, <1>2 DEF Types, Wake, Busy
<1>9. /\ \A n \in 1 .. Len(list[d]) : n # 1 => list[d][n].bh # b
      /\ \A e \in Devs : \A n \in 1 .. Len(list[e]) : e # d => list[e][n].bh # b
  BY <1>3, OneRequest
<1>10. r.cmd = READ => ~bh[b].dirt /\ (moved[d] => data[b] = latest[k])
  BY <1>1, <1>3 DEF Transfers, Reading
<1>11. r.cmd = WRITE => /\ Writing(b)
                        /\ moved[d] /\ ~bh[b].dirt => disk[k] = latest[k]
  BY <1>1, <1>3 DEF Transfers, Writing
<1>12. Writing(b) => r.cmd = WRITE
  BY <1>3, WritingIs
<1>r. r = list[d][1] /\ b = r.bh /\ k = bh[b].key
  OBVIOUS
<1> HIDE DEF r, b, k
(* The requests that remain. *)
<1>13. ASSUME NEW e \in Devs, NEW n \in 1 .. Len(list'[e])
       PROVE  \E m \in 1 .. Len(list[e]) : /\ list'[e][n] = list[e][m] /\ list[e][m].bh # b
                                           /\ n = 1 /\ moved'[e] => m = 1 /\ moved[e]
  <2>1. CASE e = d
    <3>1. n + 1 \in 1 .. Len(list[d]) /\ list'[d][n] = list[d][n + 1] /\ n + 1 # 1
      BY <1>6, <2>1
    <3> QED BY <1>7, <1>9, <2>1, <3>1
  <2>2. CASE e # d
    BY <1>6, <1>7, <1>9, <2>2
  <2> QED BY <2>1, <2>2
<1>14. ASSUME NEW c, Writing(c)'
       PROVE  Writing(c) /\ c # b
  <2>1. PICK e \in Devs : \E n \in 1 .. Len(list'[e]) : list'[e][n].bh = c /\ list'[e][n].cmd = WRITE
    BY <1>14 DEF Writing
  <2>2. PICK n \in 1 .. Len(list'[e]) : list'[e][n].bh = c /\ list'[e][n].cmd = WRITE
    BY <2>1
  <2>3. PICK m \in 1 .. Len(list[e]) : list'[e][n] = list[e][m] /\ list[e][m].bh # b
    BY <1>13
  <2> QED BY <2>2, <2>3 DEF Writing
<1>15. ASSUME NEW c, Writing(c), c # b
       PROVE  Writing(c)'
  <2>1. PICK e \in Devs : \E n \in 1 .. Len(list[e]) : list[e][n].bh = c /\ list[e][n].cmd = WRITE
    BY <1>15 DEF Writing
  <2>2. PICK n \in 1 .. Len(list[e]) : list[e][n].bh = c /\ list[e][n].cmd = WRITE
    BY <2>1
  <2>3. \E j \in 1 .. Len(list'[e]) : list'[e][j] = list[e][n]
    <3>1. CASE e = d
      <4>1. n # 1
        BY <1>r, <1>15, <2>2, <3>1
      <4> QED BY <1>6, <3>1, <4>1
    <3>2. CASE e # d
      BY <1>6, <3>2
    <3> QED BY <3>1, <3>2
  <2> QED BY <2>2, <2>3 DEF Writing
<1>16. Fresh'
  <2> SUFFICES ASSUME NEW c \in Buffers, bh'[c].key \in Keys, bh'[c].dirt \/ bh'[c].uptodate \/ Writing(c)'
               PROVE  data[c] = latest[bh'[c].key]
    BY <1>2 DEF Fresh
  <2>1. CASE c # b
    <3>1. bh[c].key \in Keys /\ (bh[c].dirt \/ bh[c].uptodate \/ Writing(c))
      BY <1>6, <1>14, <2>1
    <3> QED BY <1>1, <1>6, <3>1 DEF Fresh
  <2>2. CASE c = b
    <3>1. bh[b].dirt \/ Writing(b) \/ (ok /\ r.cmd = READ)
      BY <1>4, <1>6, <1>11, <1>14, <2>2
    <3>2. data[b] = latest[k]
      BY <1>r, <1>1, <1>4, <1>5, <1>10, <3>1 DEF Fresh
    <3> QED BY <1>r, <1>4, <1>6, <2>2, <3>2
  <2> QED BY <2>1, <2>2
<1>17. Marks'
  <2> SUFFICES ASSUME NEW c \in Buffers, bh'[c].dirt
               PROVE  bh'[c].key \in Keys /\ (Dev(bh'[c].key) \notin Raw => bh'[c].uptodate)
    BY DEF Marks, Dev
  <2>1. bh[c].dirt /\ (c = b => ok)
    BY <1>5, <1>6, <1>10
  <2> QED BY <1>1, <1>6, <2>1 DEF Marks
<1>18. Kept'
  <2> SUFFICES ASSUME NEW j \in Keys, disk[j] # latest[j]
               PROVE  \E c \in Buffers : bh'[c].key = j /\ (bh'[c].dirt \/ Writing(c)')
    BY <1>2 DEF Kept
  <2>1. PICK c \in Buffers : bh[c].key = j /\ (bh[c].dirt \/ Writing(c))
    BY <1>1 DEF Kept
  <2>2. CASE bh[c].dirt
    BY <1>6, <2>1, <2>2
  <2>3. CASE ~bh[c].dirt
    <3>1. c # b
      <4> SUFFICES ASSUME c = b
                   PROVE  FALSE
        OBVIOUS
      <4>1. r.cmd = WRITE /\ k = j /\ ~bh[b].dirt
        BY <1>r, <1>12, <2>1, <2>3
      <4>2. moved[d]
        BY <1>5, <4>1 DEF READ, WRITE
      <4> QED BY <1>11, <4>1, <4>2
    <3>2. Writing(c)'
      BY <1>15, <2>1, <2>3, <3>1
    <3> QED BY <1>6, <2>1, <3>2
  <2> QED BY <2>2, <2>3
<1>19. Transfers'
  <2>1. ASSUME NEW e \in Devs, NEW n \in 1 .. Len(list'[e]), list'[e][n].cmd = READ
        PROVE  Reading(list[e][n], n = 1 /\ moved[e])'
    <3>1. PICK m \in 1 .. Len(list[e]) : /\ list'[e][n] = list[e][m] /\ list[e][m].bh # b
                                         /\ n = 1 /\ moved'[e] => m = 1 /\ moved[e]
      BY <1>13
    <3>2. Reading(list[e][m], m = 1 /\ moved[e]) /\ list[e][m].bh \in Buffers
      BY <1>1, <2>1, <3>1, RequestHas DEF Transfers
    <3> DEFINE c == list[e][m].bh
    <3>3. bh'[c].key = bh[c].key /\ bh'[c].uptodate = bh[c].uptodate /\ bh'[c].dirt = bh[c].dirt
      BY <1>6, <3>1, <3>2
    <3> QED BY <1>2, <3>1, <3>2, <3>3 DEF Reading, Dev
  <2>2. ASSUME NEW e \in Devs, moved'[e]
        PROVE  /\ list'[e] # <<>>
               /\ list'[e][1].cmd = WRITE /\ ~bh'[list'[e][1].bh].dirt
                    => disk[bh'[list'[e][1].bh].key] = latest[bh'[list'[e][1].bh].key]
    <3>1. e # d /\ list'[e] = list[e] /\ moved[e]
      BY <1>6, <1>7, <2>2
    <3> DEFINE c == list[e][1].bh
    <3>2. /\ list[e] # <<>>
          /\ list[e][1].cmd = WRITE /\ ~bh[c].dirt => disk[bh[c].key] = latest[bh[c].key]
      BY <1>1, <3>1 DEF Transfers
    <3>3. c \in Buffers
      BY <3>2, CurrentIs, RequestHas
    <3>4. bh'[c].key = bh[c].key /\ bh'[c].dirt = bh[c].dirt
      BY <1>6, <3>3
    <3> QED BY <3>1, <3>2, <3>4
  <2> QED BY <1>2, <2>1, <2>2 DEF Transfers
<1>20. Wanted'
  <2> SUFFICES ASSUME NEW u \in Tasks, pc'[u] \in Busy
               PROVE  IF f[u].rw = READ
                      THEN ~bh'[f[u].rq].uptodate /\ ~bh'[f[u].rq].dirt /\ Dev(bh'[f[u].rq].key) \notin Raw
                      ELSE bh'[f[u].rq].dirt
    BY <1>2 DEF Wanted, Busy, Dev
  <2>1. pc[u] \in Busy
    BY <1>8
  <2>2. f[u].rq \in Buffers /\ f[u].rq # b
    BY <1>r, <1>3, <2>1, BusyHas
  <2>3. IF f[u].rw = READ
        THEN ~bh[f[u].rq].uptodate /\ ~bh[f[u].rq].dirt /\ Dev(bh[f[u].rq].key) \notin Raw
        ELSE bh[f[u].rq].dirt
    BY <1>1, <2>1 DEF Wanted, Busy
  <2> QED BY <1>6, <2>2, <2>3
<1>21. Filled'
  <2> SUFFICES ASSUME NEW u \in Tasks, pc'[u] \in {"hold", "release"}, f[u].op # "block_write"
               PROVE  bh'[f[u].bh].uptodate
    BY <1>2 DEF Filled
  <2>1. pc[u] \in {"hold", "release"}
    BY <1>8 DEF Busy
  <2>2. f[u].bh \in Buffers /\ bh[f[u].bh].uptodate
    BY <1>1, <2>1, HoldHas DEF Filled
  <2>3. f[u].bh = b => r.cmd = WRITE
    BY <1>r, <1>3, <2>1, HeldNotRead
  <2>4. f[u].bh = b => ok
    BY <1>5, <2>3 DEF READ, WRITE
  <2> QED BY <1>6, <2>2, <2>4
<1> QED BY <1>16, <1>17, <1>18, <1>19, <1>20, <1>21 DEF DataInv

LEMMA StepDataInv == Errors \subseteq {READ} /\ UseInv /\ DataInv /\ [Next]_vars => DataInv'
<1> SUFFICES ASSUME Errors \subseteq {READ}, UseInv, DataInv, [Next]_vars
             PROVE  DataInv'
  OBVIOUS
<1>1. ASSUME NEW t \in Tasks, TaskStep(t)
      PROVE  DataInv'
  BY <1>1, TaskNeutral, VictimData, LockBufferData, FindRequestData, ModifyData DEF TaskStep
<1>2. ASSUME NEW t \in Tasks, NEW op, NEW k, Start(t, op, k)
      PROVE  DataInv'
  BY <1>2, TaskNeutral
<1>3. ASSUME NEW t \in Tasks, NEW k, NEW ahead, StartAhead(t, k, ahead)
      PROVE  DataInv'
  BY <1>3, TaskNeutral
<1>4. ASSUME NEW t \in Tasks, NEW op, NEW d, StartSync(t, op, d)
      PROVE  DataInv'
  BY <1>4, TaskNeutral
<1>5. ASSUME NEW d \in Devs, Transfer(d)
      PROVE  DataInv'
  BY <1>5, TransferData
<1>6. ASSUME NEW d \in Devs, NEW ok \in BOOLEAN, end_request(d, ok)
      PROVE  DataInv'
  BY <1>6, EndData
<1>7. CASE UNCHANGED vars
  <2>1. Fresh /\ Marks /\ Kept /\ Transfers /\ Wanted /\ Filled
    BY DEF DataInv
  <2>2. Fresh' /\ Marks' /\ Kept'
    BY <1>7, <2>1 DEF Fresh, Marks, Kept, Writing, vars
  <2>3. Transfers' /\ Wanted' /\ Filled'
    BY <1>7, <2>1 DEF Transfers, Reading, Wanted, Filled, vars
  <2> QED BY <2>2, <2>3 DEF DataInv
<1> QED BY <1>1, <1>2, <1>3, <1>4, <1>5, <1>6, <1>7 DEF Next

LEMMA InitDataInv == Init => DataInv
<1> SUFFICES ASSUME Init
             PROVE  DataInv
  OBVIOUS
<1>1. \A b \in Buffers : bh[b].key = NoKey /\ ~bh[b].dirt /\ ~bh[b].uptodate
  BY DEF Init
<1>2. \A d \in Devs : list[d] = <<>> /\ moved[d] = FALSE /\ Len(list[d]) = 0
  BY DEF Init
<1>3. \A t \in Tasks : pc[t] = "idle"
  BY DEF Init
<1>4. \A b : ~Writing(b)
  BY <1>2 DEF Writing
<1>5. Fresh /\ Marks
  BY <1>1, <1>4 DEF Fresh, Marks
<1>6. Kept
  BY DEF Init, Kept
<1>7. Transfers
  BY <1>2 DEF Transfers
<1>8. Wanted /\ Filled
  BY <1>3 DEF Wanted, Filled
<1> QED BY <1>5, <1>6, <1>7, <1>8 DEF DataInv

LEMMA DataInvariant ==
  ASSUME Errors \subseteq {READ}
  PROVE  Spec => [](UseInv /\ DataInv)
<1>1. Init => UseInv /\ DataInv
  BY InitUseInv, InitDataInv
<1>2. UseInv /\ DataInv /\ [Next]_vars => (UseInv /\ DataInv)'
  BY StepUseInv, StepDataInv
<1> QED BY <1>1, <1>2, PTL DEF Spec

(* If the device fails no write, what a task wrote into a block is on the  *)
(* disk, or in its buffer, marked dirty or in a write request: the mark    *)
(* add_request() removes (ll_rw_blk.c:71) is not lost before the data are. *)
THEOREM NothingWrittenIsLost ==
  ASSUME Errors \subseteq {READ}
  PROVE  Spec => []NoLostWrite
<1>1. UseInv /\ DataInv => NoLostWrite
  <2> SUFFICES ASSUME UseInv, DataInv, NEW k \in Keys, disk[k] # latest[k]
               PROVE  \E b \in find_buffer(k) :
                        /\ data[b] = latest[k]
                        /\ \/ bh[b].dirt
                           \/ \E q \in Queue(b) : list[q[1]][q[2]].cmd = WRITE
    BY DEF NoLostWrite
  <2>1. PICK b \in Buffers : bh[b].key = k /\ (bh[b].dirt \/ Writing(b))
    BY DEF DataInv, Kept
  <2>2. data[b] = latest[k] /\ b \in find_buffer(k)
    BY <2>1 DEF DataInv, Fresh, find_buffer
  <2>3. Writing(b) => \E q \in Queue(b) : list[q[1]][q[2]].cmd = WRITE
    <3> SUFFICES ASSUME NEW d \in Devs, NEW n \in 1 .. Len(list[d]), list[d][n].bh = b, list[d][n].cmd = WRITE
                 PROVE  \E q \in Queue(b) : list[q[1]][q[2]].cmd = WRITE
      BY DEF Writing
    <3>1. <<d, n>> \in Queue(b)
      BY QueueIs
    <3> QED BY <3>1
  <2> QED BY <2>1, <2>2, <2>3
<1> QED BY <1>1, DataInvariant, PTL

(* If the device fails no write, bread() and breada() return a buffer that *)
(* holds what was last written into the block (buffer.c:263-265), however  *)
(* the readers, writers, syncs and interrupts interleave.                  *)
THEOREM ReadersSeeTheLatest ==
  ASSUME Errors \subseteq {READ}
  PROVE  Spec => []BreadReturnsLatest
<1>1. UseInv /\ DataInv => BreadReturnsLatest
  <2> SUFFICES ASSUME UseInv, DataInv, NEW t \in Tasks, pc[t] = "hold", f[t].op \in {"bread", "breada"}
               PROVE  data[f[t].bh] = latest[bh[f[t].bh].key]
    BY DEF BreadReturnsLatest
  <2>1. f[t].bh \in Buffers /\ bh[f[t].bh].key \in Keys
    BY HoldHas
  <2>2. bh[f[t].bh].uptodate
    BY DEF DataInv, Filled
  <2> QED BY <2>1, <2>2 DEF DataInv, Fresh
<1> QED BY <1>1, DataInvariant, PTL
=============================================================================
