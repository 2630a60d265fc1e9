------------------------------ MODULE FileData ------------------------------
(***************************************************************************)
(* The data of regular files: sys_read(), sys_write() and sys_lseek(),     *)
(* file_read() and file_write(), _bmap() with its indirect blocks,         *)
(* new_block(), free_block() and truncate().                               *)
(*                                                                         *)
(* Each task has a file of its own; they share the device.  A step runs to *)
(* the next sleep, in bread(), getblk() or get_hash_table().  The buffer   *)
(* cache is what BufferCache shows it to be, so a block has its last       *)
(* contents whenever it is read.  A block has Words words: bytes of data   *)
(* or numbers of blocks; a task writes its own number.                     *)
(***************************************************************************)
EXTENDS Integers, Sequences, FiniteSets, FiniteSetsExt, SequencesExt

CONSTANTS Tasks,        \* positive numbers
          Ops,          \* Ops[t]: the calls t makes
          Words,        \* BLOCK_SIZE, and the numbers in an indirect block
          Direct,       \* direct zones of an inode (7)
          Blocks,       \* numbers of the data zones
          Offsets,      \* where sys_lseek() goes
          Counts,       \* how many bytes a call asks for
          Limit,        \* Limit[t]: bound on the size of its file
          IOErrors      \* which bread()s may fail: "data"; "table", "hole" for
                        \* an indirect block that is to be written, read

MaxBlock == Direct + Words + Words * Words - 1

ASSUME Constants ==
  /\ Tasks \subseteq Nat \ {0} /\ Words \in Nat \ {0} /\ Direct \in Nat \ {0}
  /\ Blocks \subseteq Nat \ {0} /\ Offsets \subseteq Nat /\ Counts \subseteq Nat \ {0}
  /\ \A t \in Tasks : Limit[t] \in 0 .. (MaxBlock + 1) * Words

VARIABLES zmap,    \* the blocks whose bit is set
          store,   \* their contents
          inode,   \* i_zone[] and i_size
          pos,     \* f_pos
          written, \* history: what each file's bytes should be
          pc, f,
          panic

vars == <<zmap, store, inode, pos, written, pc, f, panic>>
device == <<zmap, store, inode>>

IND == Direct
DIND == Direct + 1
Zones == 0 .. DIND
Zero == [k \in 0 .. Words - 1 |-> 0]
Old == [k \in 0 .. Words - 1 |-> -1]    \* what a free block has in it

NoFrame == [op |-> "", at |-> 0, path |-> <<>>, b |-> 0, pos |-> 0, left |-> 0, todo |-> <<>>]

Init ==
  /\ zmap = {}
  /\ store = [b \in Blocks |-> Old]
  /\ inode = [t \in Tasks |-> [zone |-> [z \in Zones |-> 0], size |-> 0]]
  /\ pos = [t \in Tasks |-> 0]
  /\ written = [t \in Tasks |-> [p \in 0 .. Limit[t] - 1 |-> 0]]
  /\ pc = [t \in Tasks |-> "idle"]
  /\ f = [t \in Tasks |-> NoFrame]
  /\ panic = FALSE
-----------------------------------------------------------------------------
At(t, where) == pc[t] = where /\ ~panic
Goto(t, where, fr) == pc' = [pc EXCEPT ![t] = where] /\ f' = [f EXCEPT ![t] = fr]

(* The places _bmap() goes through for a block of the file: a zone of the  *)
(* inode, then words of indirect blocks.                                   *)
bmap_path(block) ==
  LET b == block - Direct
      c == b - Words IN
  IF b < 0 THEN <<block>> ELSE IF c < 0 THEN <<IND, b>> ELSE <<DIND, c \div Words, c % Words>>

(* The word _bmap() has reached, in the inode (at = 0) or in a block.      *)
Word(t) == IF f[t].at = 0 THEN inode[t].zone[Head(f[t].path)]
           ELSE store[f[t].at][Head(f[t].path)]

(* With the number b in that word: down one level, or _bmap() returns it.  *)
Descend(t, b) ==
  IF Len(f[t].path) = 1 THEN Goto(t, "data", [f[t] EXCEPT !.at = 0, !.path = <<>>, !.b = b])
  ELSE Goto(t, "bmap_read", [f[t] EXCEPT !.b = b])

(* _bmap() returns 0: a hole for file_read(), the end for file_write().    *)
NoBlock(t) ==
  IF f[t].op = "read" THEN Goto(t, "data", [f[t] EXCEPT !.at = 0, !.path = <<>>, !.b = 0])
  ELSE Goto(t, "done", f[t])

StartBmap(t, fr) == Goto(t, "bmap", [fr EXCEPT !.at = 0, !.path = bmap_path(fr.pos \div Words), !.b = 0])

(* A bug of new_block(): the bit is not set. *)
set_bit_not(b) == zmap
set_bit(b) == zmap \cup {b}

(* One level of _bmap(), up to a new_block() or bread() that may sleep. *)
Bmap(t) ==
  LET none == Blocks \ zmap IN
  /\ At(t, "bmap")
  /\ \/ Word(t) # 0 /\ Descend(t, Word(t)) /\ UNCHANGED zmap
     \/ /\ Word(t) = 0 /\ f[t].op # "read" /\ none # {}
        /\ zmap' = set_bit(Min(none))
        /\ Goto(t, "new_block", [f[t] EXCEPT !.b = Min(none)])
     \/ Word(t) = 0 /\ (f[t].op = "read" \/ none = {}) /\ NoBlock(t) /\ UNCHANGED zmap
  /\ UNCHANGED <<store, inode, pos, written, panic>>

(* The end of new_block() after getblk(), and the number goes to its word. *)
NewBlock(t) ==
  LET b == f[t].b
      cleared == [store EXCEPT ![b] = Zero]
      w == Head(f[t].path) IN
  /\ At(t, "new_block")
  /\ IF f[t].at = 0
     THEN store' = cleared /\ inode' = [inode EXCEPT ![t].zone[w] = b]
     ELSE store' = [cleared EXCEPT ![f[t].at][w] = b] /\ UNCHANGED inode
  /\ Descend(t, b)
  /\ UNCHANGED <<zmap, pos, written, panic>>

(* bread() of an indirect block. *)
BmapRead(t) ==
  /\ At(t, "bmap_read")
  /\ \/ Goto(t, "bmap", [f[t] EXCEPT !.at = f[t].b, !.path = Tail(@), !.b = 0])
     \/ (IF f[t].op = "read" THEN "hole" ELSE "table") \in IOErrors /\ NoBlock(t)
  /\ UNCHANGED <<device, pos, written, panic>>
-----------------------------------------------------------------------------
(* Bytes of this block that the call moves. *)
chars(t) == Min({Words - (f[t].pos % Words), f[t].left})
Moved(t) == f[t].pos .. f[t].pos + chars(t) - 1

(* A bug: what is written goes to the start of the block. *)
Copied_start(t) == [k \in 0 .. Words - 1 |-> IF k < chars(t) THEN t ELSE store[f[t].b][k]]

Copied(t) == [k \in 0 .. Words - 1 |->
                IF \E p \in Moved(t) : p % Words = k THEN t ELSE store[f[t].b][k]]

Further(t) == [f[t] EXCEPT !.pos = @ + chars(t), !.left = @ - chars(t)]
Loop(t) == IF f[t].left > chars(t) THEN StartBmap(t, Further(t)) ELSE Goto(t, "done", Further(t))

(* file_write() after bread() of the block. *)
WriteData(t) ==
  /\ At(t, "data") /\ f[t].op # "read"
  /\ \/ /\ store' = [store EXCEPT ![f[t].b] = Copied(t)]
        /\ inode' = [inode EXCEPT ![t].size = Max({@, f[t].pos + chars(t)})]
        /\ written' = [written EXCEPT ![t] = [p \in DOMAIN @ |-> IF p \in Moved(t) THEN t ELSE @[p]]]
        /\ Loop(t)
     \/ "data" \in IOErrors /\ Goto(t, "done", f[t]) /\ UNCHANGED <<store, inode, written>>
  /\ UNCHANGED <<zmap, pos, panic>>

(* file_read() after bread(), or in a hole; f_pos moves with each block.   *)
ReadData(t) ==
  /\ At(t, "data") /\ f[t].op = "read"
  /\ \/ pos' = [pos EXCEPT ![t] = @ + chars(t)] /\ Loop(t)
     \/ "data" \in IOErrors /\ f[t].b # 0 /\ Goto(t, "done", f[t]) /\ UNCHANGED pos
  /\ UNCHANGED <<device, written, panic>>

(* The call returns; file_write() sets f_pos only now. *)
Done(t) ==
  /\ At(t, "done")
  /\ pos' = IF f[t].op = "write" THEN [pos EXCEPT ![t] = f[t].pos] ELSE pos
  /\ Goto(t, "idle", NoFrame)
  /\ UNCHANGED <<device, written, panic>>

sys_lseek(t, offset) ==
  /\ At(t, "idle") /\ "lseek" \in Ops[t] /\ pos[t] # offset
  /\ pos' = [pos EXCEPT ![t] = offset]
  /\ UNCHANGED <<device, written, pc, f, panic>>

(* sys_read() cuts the count at the end of the file. *)
sys_read(t, count) ==
  LET n == Min({count, inode[t].size - pos[t]}) IN
  /\ At(t, "idle") /\ "read" \in Ops[t] /\ n > 0
  /\ StartBmap(t, [NoFrame EXCEPT !.op = "read", !.pos = pos[t], !.left = n])
  /\ UNCHANGED <<device, pos, written, panic>>

(* sys_write(), to a file opened with O_APPEND or without.  _bmap() would *)
(* panic beyond MaxBlock, which Limit excludes.                            *)
sys_write(t, op, count) ==
  LET p == IF op = "append" THEN inode[t].size ELSE pos[t] IN
  /\ At(t, "idle") /\ op \in Ops[t] /\ p + count =< Limit[t]
  /\ StartBmap(t, [NoFrame EXCEPT !.op = op, !.pos = p, !.left = count])
  /\ UNCHANGED <<device, pos, written, panic>>
-----------------------------------------------------------------------------
Nonzero(ns) == SelectSeq(ns, LAMBDA b : b # 0)
Table(b) == IF b = 0 THEN <<>> ELSE [k \in 1 .. Words |-> store[b][k - 1]]

(* The blocks truncate() frees, in its order: direct ones, free_ind() and  *)
(* free_dind(), each table after what is in it.                            *)
ind_blocks(b) == Nonzero(Append(Table(b), b))

(* A bug: free_dind() frees the tables but not what is in them. *)
dind_blocks_flat(b) == ind_blocks(b)
dind_blocks(b) == FlattenSeq([k \in DOMAIN Table(b) |-> ind_blocks(Table(b)[k])]) \o Nonzero(<<b>>)

(* open() with O_TRUNC, or the last iput() of a deleted file. *)
truncate(t) ==
  LET z == inode[t].zone IN
  /\ At(t, "idle") /\ \E i \in Zones : z[i] # 0
  /\ Goto(t, "truncate", [NoFrame EXCEPT !.op = "truncate",
                            !.todo = Nonzero([i \in 1 .. Direct |-> z[i - 1]])
                                     \o ind_blocks(z[IND]) \o dind_blocks(z[DIND])])
  /\ UNCHANGED <<device, pos, written, panic>>

(* free_block() after get_hash_table(): the buffer is in nobody's use. *)
free_block(t) ==
  LET b == Head(f[t].todo) IN
  /\ At(t, "truncate") /\ f[t].todo # <<>>
  /\ panic' = (b \notin zmap)
  /\ zmap' = zmap \ {b}
  /\ store' = [store EXCEPT ![b] = Old]
  /\ inode' = [inode EXCEPT ![t].zone = [i \in Zones |-> IF i < Direct /\ @[i] = b THEN 0 ELSE @[i]]]
  /\ Goto(t, "truncate", [f[t] EXCEPT !.todo = Tail(@)])
  /\ UNCHANGED <<pos, written>>

Truncated(t) ==
  /\ At(t, "truncate") /\ f[t].todo = <<>>
  /\ inode' = [inode EXCEPT ![t] = [zone |-> [i \in Zones |-> 0], size |-> 0]]
  /\ written' = [written EXCEPT ![t] = [p \in DOMAIN @ |-> 0]]
  /\ Goto(t, "idle", NoFrame)
  /\ UNCHANGED <<zmap, store, pos, panic>>

Next ==
  \E t \in Tasks :
    \/ \E n \in Offsets : sys_lseek(t, n)
    \/ \E n \in Counts : sys_read(t, n) \/ \E op \in {"write", "append"} : sys_write(t, op, n)
    \/ Bmap(t) \/ NewBlock(t) \/ BmapRead(t) \/ WriteData(t) \/ ReadData(t) \/ Done(t)
    \/ truncate(t) \/ free_block(t) \/ Truncated(t)

Spec == Init /\ [][Next]_vars
-----------------------------------------------------------------------------
(* What file_read() gives back is what file_write() put there, or zero in  *)
(* a hole, wherever in the tree of indirect blocks the byte is and         *)
(* whosever the block was before, with I/O errors and a full disk.         *)
ReadIsWritten ==
  \A t \in Tasks : At(t, "data") /\ f[t].op = "read" =>
    \A p \in Moved(t) : (IF f[t].b = 0 THEN 0 ELSE store[f[t].b][p % Words]) = written[t][p]

(* The words that hold block b; truncate() has only to free its list. *)
Tables(t) ==
  LET z == inode[t].zone
      second == IF z[DIND] = 0 THEN {} ELSE {store[z[DIND]][k] : k \in 0 .. Words - 1} IN
  ({z[IND], z[DIND]} \cup second) \ {0}
Holders(t, b) ==
  IF pc[t] = "truncate" THEN Cardinality({i \in DOMAIN f[t].todo : f[t].todo[i] = b})
  ELSE Cardinality({i \in Zones : inode[t].zone[i] = b})
       + Cardinality({<<x, k>> \in Tables(t) \X (0 .. Words - 1) : store[x][k] = b})
InFlight(b) == \E t \in Tasks : pc[t] = "new_block" /\ f[t].b = b

(* No two words of any inode or table hold the same block, and no word     *)
(* holds a block whose bit is clear, although new_block() sleeps between   *)
(* the bit and the word; free_block() always finds the bit it clears set   *)
(* (the panic of bitmap.c:70).                                             *)
OneOwner ==
  /\ ~panic
  /\ \A b \in Blocks : LET n == MapThenSumSet(LAMBDA t : Holders(t, b), Tasks) IN
       n =< 1 /\ (n = 1 => b \in zmap)

(* Every block whose bit is set is in a file or on its way there: a write  *)
(* that ends early for want of blocks, and truncate(), lose none.          *)
NoLostBlock ==
  \A b \in zmap : InFlight(b) \/ \E t \in Tasks : Holders(t, b) > 0
=============================================================================
