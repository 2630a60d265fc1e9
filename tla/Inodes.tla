------------------------------- MODULE Inodes -------------------------------
(***************************************************************************)
(* fs/inode.c, the inode half of fs/bitmap.c, and mounting in fs/super.c:  *)
(* the table of inodes in memory, their counts and locks, reading, writing *)
(* and freeing them.                                                       *)
(*                                                                         *)
(* As in BufferCache a task inside the kernel keeps the processor (cpu)    *)
(* until it sleeps: on the lock of an inode or of the super block, or in   *)
(* bread().  An inode's contents are a bit that every change flips; the    *)
(* block it is stored in is read and written without error.  There are the *)
(* root device and one that can be mounted on MountNum.  The inodes of     *)
(* block devices are not in the model, but the sync_dev() that iput() does *)
(* for them is: in mount and umount, and as a sync by itself.  truncate()  *)
(* is one sleep here (see FileData).  A panic() stops everything.          *)
(***************************************************************************)
EXTENDS Integers, FiniteSets

CONSTANTS Tasks, NULL,
          Entries,     \* inode_table[]
          Nums,        \* inode numbers of the root device
          MountNum,    \* the directory the other device is mounted on
          Private,     \* Private[t]: numbers nobody but t looks up
          Ops          \* Ops[t]: what the task does

ASSUME Constants ==
  /\ IsFiniteSet(Tasks) /\ Entries # {} /\ NULL \notin Tasks \cup Entries
  /\ Nums \subseteq Nat \ {0} /\ MountNum \in Nums
  /\ Private \in [Tasks -> SUBSET (Nums \ {MountNum})]
  /\ \A t, u \in Tasks : t # u => Private[t] \cap Private[u] = {}
  /\ Ops \in [Tasks -> SUBSET {"lookup", "create", "unlink", "mount", "umount", "sync"}]

ROOT_DEV == 1
OtherDev == 2
ROOT_INO == 1
Keys == ({ROOT_DEV} \X Nums) \cup {<<OtherDev, ROOT_INO>>}
NoKey == <<0, 0>>

VARIABLES inode,   \* inode_table
          imap,    \* numbers of the root device whose bit is set
          disk,    \* the inodes on the disks
          sb,      \* super_block[]: the entry for the other device
          latest,  \* history: the last contents of each inode
          pc, f, cpu,
          panic

vars == <<inode, imap, disk, sb, latest, pc, f, cpu, panic>>
kernel == <<inode, imap, disk, sb, latest>>

Contents == [data : BOOLEAN, nlinks : 0 .. 1]
Blank == [key |-> NoKey, count |-> 0, dirt |-> FALSE, lock |-> FALSE, mount |-> FALSE,
          c |-> [data |-> FALSE, nlinks |-> 0]]
NoFrame == [op |-> "", key |-> NoKey, empty |-> NULL, e |-> NULL, ret |-> "",
            back |-> "", left |-> {}, block |-> NoKey]

Init ==
  /\ inode = [e \in Entries |-> Blank]
  /\ imap = {MountNum}
  /\ disk = [k \in Keys |-> [data |-> FALSE, nlinks |-> 1]]
  /\ sb = [dev |-> 0, lock |-> FALSE, imount |-> NULL]
  /\ latest = disk
  /\ pc = [t \in Tasks |-> "idle"]
  /\ f = [t \in Tasks |-> NoFrame]
  /\ cpu = NULL
  /\ panic = FALSE
-----------------------------------------------------------------------------
At(t, where) == pc[t] = where /\ cpu \in {t, NULL} /\ ~panic
Goto(t, where, fr) ==
  /\ pc' = [pc EXCEPT ![t] = where] /\ f' = [f EXCEPT ![t] = fr]
  /\ cpu' = t /\ UNCHANGED panic
Yield(t, where, fr) ==
  /\ pc' = [pc EXCEPT ![t] = where] /\ f' = [f EXCEPT ![t] = fr]
  /\ cpu' = NULL /\ UNCHANGED panic
Panic == panic' = TRUE /\ UNCHANGED <<kernel, pc, f, cpu>>

(* The inode whose lock t waits for, in wait_on_inode() and lock_inode(). *)
Awaited(t) ==
  CASE pc[t] = "empty_wait" -> f[t].empty
    [] pc[t] \in {"found", "put", "repeat", "write", "sync"} -> f[t].e
    [] OTHER -> NULL
AwaitsSuper(t) == pc[t] \in {"read_super", "umount", "put_super"}

Sleep(t) ==
  /\ cpu = t /\ ~panic
  /\ \/ AwaitsSuper(t) /\ sb.lock
     \/ Awaited(t) # NULL /\ inode[Awaited(t)].lock
  /\ cpu' = NULL
  /\ UNCHANGED <<kernel, pc, f, panic>>

get_super(dev) == dev # 0 /\ (dev = ROOT_DEV \/ sb.dev = dev)
-----------------------------------------------------------------------------
(* write_inode(e), after which the caller goes on at ret with a wait for   *)
(* the lock: lock_inode(), nothing to do, no device, or bread().           *)
write_inode(t, e, ret) == Goto(t, "write", [f[t] EXCEPT !.e = e, !.ret = ret])

StartWrite(t) ==
  LET e == f[t].e IN
  /\ At(t, "write")
  /\ ~inode[e].lock
  /\ \/ /\ ~inode[e].dirt \/ inode[e].key = NoKey
        /\ Goto(t, f[t].ret, [f[t] EXCEPT !.ret = ""])
        /\ UNCHANGED kernel
     \/ /\ inode[e].dirt /\ inode[e].key # NoKey /\ get_super(inode[e].key[1])
        /\ inode' = [inode EXCEPT ![e].lock = TRUE]
        /\ Yield(t, "write_io", [f[t] EXCEPT !.block = inode[e].key])
        /\ UNCHANGED <<imap, disk, sb, latest>>
     \/ /\ inode[e].dirt /\ inode[e].key # NoKey /\ ~get_super(inode[e].key[1])
        /\ Panic

Written(e) == [inode EXCEPT ![e].dirt = FALSE, ![e].lock = FALSE]

(* The inode of the block bread() returned that t overwrites: by i_num, so *)
(* another one (NoKey: none of the model's) if the entry was freed since.  *)
Slot(t) ==
  IF inode[f[t].e].key = f[t].block THEN {f[t].block}
  ELSE {NoKey} \cup {k \in Keys : k[1] = f[t].block[1]}

EndWrite(t) ==
  LET e == f[t].e IN
  /\ At(t, "write_io")
  /\ \E s \in Slot(t) : disk' = [k \in Keys |-> IF k = s THEN inode[e].c ELSE disk[k]]
  /\ inode' = Written(e)
  /\ Goto(t, f[t].ret, [f[t] EXCEPT !.ret = "", !.block = NoKey])
  /\ UNCHANGED <<imap, sb, latest>>
-----------------------------------------------------------------------------
Unused == {e \in Entries : inode[e].count = 0}
Clean == {e \in Unused : ~inode[e].dirt /\ ~inode[e].lock}

(* get_empty_inode(): the loop from last_inode, whose position is left open. *)
GetEmpty(t) ==
  /\ At(t, "empty")
  /\ \/ /\ Unused = {}
        /\ Panic
     \/ /\ \E e \in (IF Clean # {} THEN Clean ELSE Unused) :
             Goto(t, "empty_wait", [f[t] EXCEPT !.empty = e])
        /\ UNCHANGED kernel

(* After wait_on_inode(): write it, look again if it is used now, or take it. *)
EmptyWait(t) ==
  LET e == f[t].empty IN
  /\ At(t, "empty_wait")
  /\ ~inode[e].lock
  /\ \/ inode[e].dirt /\ write_inode(t, e, "empty_wait") /\ UNCHANGED kernel
     \/ ~inode[e].dirt /\ inode[e].count > 0 /\ Goto(t, "empty", f[t]) /\ UNCHANGED kernel
     \/ /\ ~inode[e].dirt /\ inode[e].count = 0
        /\ inode' = [inode EXCEPT ![e] = [Blank EXCEPT !.count = 1]]
        /\ Goto(t, IF f[t].op = "create" THEN "bit" ELSE "scan", f[t])
        /\ UNCHANGED <<imap, disk, sb, latest>>

(* Bugs of iget(): no look into the table, no second look after the wait. *)
InTable_none(k) == {}
StillIt_always(e, k) == TRUE
InTable(k) == {e \in Entries : inode[e].key = k}
StillIt(e, k) == inode[e].key = k

(* iget(): look for the inode; if it is not there use the empty one.       *)
Scan(t) ==
  LET k == f[t].key
      e == f[t].empty IN
  /\ At(t, "scan")
  /\ \/ \E g \in InTable(k) : Goto(t, "found", [f[t] EXCEPT !.e = g]) /\ UNCHANGED kernel
     \/ /\ InTable(k) = {} /\ get_super(k[1])
        /\ inode' = [inode EXCEPT ![e].key = k, ![e].lock = TRUE]
        /\ Yield(t, "read", [f[t] EXCEPT !.e = e, !.empty = NULL])
        /\ UNCHANGED <<imap, disk, sb, latest>>
     \/ InTable(k) = {} /\ ~get_super(k[1]) /\ Panic

(* The caller has the inode e. *)
Hold(t, e) == Goto(t, "hold", [NoFrame EXCEPT !.op = f[t].op, !.e = e])

(* read_inode() after bread(). *)
Read(t) ==
  LET e == f[t].e IN
  /\ At(t, "read")
  /\ inode' = [inode EXCEPT ![e].c = disk[inode[e].key], ![e].lock = FALSE]
  /\ Hold(t, e)
  /\ UNCHANGED <<imap, disk, sb, latest>>

(* iget() after wait_on_inode(): another inode now; a directory something  *)
(* is mounted on; or ours, and the empty one is given back.                *)
Found(t) ==
  LET e == f[t].e
      up == [inode EXCEPT ![e].count = @ + 1] IN
  /\ At(t, "found")
  /\ ~inode[e].lock
  /\ \/ ~StillIt(e, f[t].key) /\ Goto(t, "scan", f[t]) /\ UNCHANGED inode
     \/ /\ StillIt(e, f[t].key) /\ inode[e].mount /\ sb.imount = e
        /\ inode' = up
        /\ Goto(t, "put", [f[t] EXCEPT !.back = "cross"])
     \/ /\ StillIt(e, f[t].key) /\ ~(inode[e].mount /\ sb.imount = e)
        /\ inode' = [up EXCEPT ![f[t].empty].count = @ - 1]
        /\ Hold(t, e)
  /\ UNCHANGED <<imap, disk, sb, latest>>

(* ... after its iput(inode): on with the root of the mounted device. *)
Cross(t) ==
  /\ At(t, "cross")
  /\ Goto(t, "scan", [f[t] EXCEPT !.key = <<sb.dev, ROOT_INO>>])
  /\ UNCHANGED kernel
-----------------------------------------------------------------------------
iput(t, e, back) == Goto(t, "put", [f[t] EXCEPT !.e = e, !.back = back])

(* A bug of iput(): the use is not given back. *)
Down_not(e) == inode

Down(e) == [inode EXCEPT ![e].count = @ - 1]
Back(t) ==
  IF f[t].back = "idle" THEN Yield(t, "idle", NoFrame)
  ELSE Goto(t, f[t].back, [f[t] EXCEPT !.e = NULL, !.back = ""])

MustWrite(e) == inode[e].dirt

(* iput() from `repeat:'. *)
PutRepeat(t, e) ==
  \/ /\ inode[e].count > 1
     /\ inode' = Down(e)
     /\ Back(t)
     /\ UNCHANGED <<imap, disk, sb, latest>>
  \/ /\ inode[e].count =< 1 /\ inode[e].c.nlinks = 0
     /\ Yield(t, "truncate", f[t])
     /\ UNCHANGED kernel
  \/ /\ inode[e].count =< 1 /\ inode[e].c.nlinks > 0 /\ MustWrite(e)
     /\ Goto(t, "write", [f[t] EXCEPT !.ret = "repeat"])
     /\ UNCHANGED kernel
  \/ /\ inode[e].count =< 1 /\ inode[e].c.nlinks > 0 /\ ~MustWrite(e)
     /\ inode' = Down(e)
     /\ Back(t)
     /\ UNCHANGED <<imap, disk, sb, latest>>

(* iput() after its first wait_on_inode(). *)
Put(t) ==
  LET e == f[t].e IN
  /\ At(t, "put")
  /\ ~inode[e].lock
  /\ \/ inode[e].count = 0 /\ Panic
     \/ /\ inode[e].count > 0 /\ inode[e].key = NoKey
        /\ inode' = Down(e)
        /\ Back(t)
        /\ UNCHANGED <<imap, disk, sb, latest>>
     \/ inode[e].count > 0 /\ inode[e].key # NoKey /\ PutRepeat(t, e)

(* ... and after a write_inode(): once more. *)
Repeat(t) ==
  /\ At(t, "repeat")
  /\ ~inode[f[t].e].lock
  /\ PutRepeat(t, f[t].e)

(* free_inode(), after truncate(). *)
free_inode(t) ==
  LET e == f[t].e IN
  /\ At(t, "truncate")
  /\ \/ inode[e].count > 1 /\ Panic
     \/ /\ inode[e].count =< 1
        /\ imap' = imap \ {inode[e].key[2]}
        /\ inode' = [inode EXCEPT ![e] = Blank]
        /\ Back(t)
        /\ UNCHANGED <<disk, sb, latest>>

(* new_inode(), after get_empty_inode(): the first free bit, or none. *)
new_inode(t) ==
  LET e == f[t].empty
      zero == Nums \ imap
      n == CHOOSE x \in zero : \A y \in zero : x =< y
      c == [data |-> FALSE, nlinks |-> 1] IN
  /\ At(t, "bit")
  /\ \/ zero = {} /\ iput(t, e, "idle") /\ UNCHANGED kernel
     \/ /\ zero # {}
        /\ imap' = imap \cup {n}
        /\ inode' = [inode EXCEPT ![e].key = <<ROOT_DEV, n>>, ![e].dirt = TRUE, ![e].c = c]
        /\ latest' = [latest EXCEPT ![<<ROOT_DEV, n>>] = c]
        /\ Hold(t, e)
        /\ UNCHANGED <<disk, sb>>

(* sync_inodes(): entry by entry.  sync_dev() may sleep for buffers before *)
(* and after it.                                                           *)
sync_inodes(t, op) == Yield(t, "sync", [NoFrame EXCEPT !.op = op, !.left = Entries,
                                                       !.e = CHOOSE e \in Entries : TRUE])

EndSync(t) == IF f[t].op = "sync" THEN Yield(t, "idle", NoFrame)
              ELSE Yield(t, "synced", [NoFrame EXCEPT !.op = f[t].op])

Sync(t) ==
  LET e == f[t].e
      rest == f[t].left \ {e}
      next == IF rest = {} THEN NULL ELSE CHOOSE g \in rest : TRUE IN
  /\ At(t, "sync")
  /\ ~inode[e].lock
  /\ IF inode[e].dirt THEN write_inode(t, e, "sync")
     ELSE IF rest = {} THEN EndSync(t)
     ELSE Goto(t, "sync", [f[t] EXCEPT !.e = next, !.left = rest])
  /\ UNCHANGED kernel
-----------------------------------------------------------------------------
(* sys_mount() and sys_umount() after iput() of the device's inode, which  *)
(* has synced: on with the directory, or the super block.                  *)
DevicePut(t) ==
  /\ At(t, "synced")
  /\ IF f[t].op = "mount"
     THEN Goto(t, "empty", [f[t] EXCEPT !.key = <<ROOT_DEV, MountNum>>])
     ELSE Goto(t, "umount", f[t])
  /\ UNCHANGED kernel

(* sys_mount(): with the directory in hand, read_super(). *)
StartMount(t) ==
  LET e == f[t].e IN
  /\ At(t, "hold") /\ f[t].op = "mount"
  /\ IF inode[e].count # 1 \/ inode[e].key[2] = ROOT_INO THEN iput(t, e, "idle")
     ELSE Goto(t, "read_super", f[t])
  /\ UNCHANGED kernel

(* A free entry that an unmount still has locked gets its s_dev before the *)
(* wait for the lock (super.c:117-123); here after it.                     *)
ReadSuper(t) ==
  /\ At(t, "read_super")
  /\ ~sb.lock
  /\ \/ sb.dev = OtherDev /\ Goto(t, "mount", f[t]) /\ UNCHANGED sb
     \/ /\ sb.dev = 0
        /\ sb' = [sb EXCEPT !.dev = OtherDev, !.lock = TRUE, !.imount = NULL]
        /\ Yield(t, "super_io", f[t])
  /\ UNCHANGED <<inode, imap, disk, latest>>

SuperRead(t) ==
  /\ At(t, "super_io")
  /\ \/ sb' = [sb EXCEPT !.lock = FALSE] /\ Goto(t, "mount", f[t])
     \/ sb' = [sb EXCEPT !.dev = 0, !.lock = FALSE] /\ iput(t, f[t].e, "idle")
  /\ UNCHANGED <<inode, imap, disk, latest>>

EndMount(t) ==
  LET e == f[t].e IN
  /\ At(t, "mount")
  /\ IF sb.imount # NULL \/ inode[e].mount
     THEN iput(t, e, "idle") /\ UNCHANGED <<sb, inode>>
     ELSE /\ sb' = [sb EXCEPT !.imount = e]
          /\ inode' = [inode EXCEPT ![e].mount = TRUE, ![e].dirt = TRUE]
          /\ Yield(t, "idle", NoFrame)
  /\ UNCHANGED <<imap, disk, latest>>

Busy == \E e \in Entries : inode[e].key[1] = OtherDev /\ inode[e].count > 0

Unmarked(e) == [inode EXCEPT ![e].mount = FALSE]

(* sys_umount() up to its iput(sb->s_imount), which may sleep. *)
Umount(t) ==
  /\ At(t, "umount")
  /\ ~sb.lock
  /\ IF sb.dev # OtherDev \/ sb.imount = NULL \/ Busy
     THEN Yield(t, "idle", NoFrame) /\ UNCHANGED inode
     ELSE /\ inode' = Unmarked(sb.imount)
          /\ iput(t, sb.imount, "put_super")
  /\ UNCHANGED <<imap, disk, sb, latest>>

(* ... its s_imount = NULL, and put_super(), which may sleep in brelse(). *)
PutSuper(t) ==
  /\ At(t, "put_super")
  /\ ~sb.lock
  /\ sb' = [dev |-> 0, lock |-> TRUE, imount |-> NULL]
  /\ Yield(t, "super_freed", f[t])
  /\ UNCHANGED <<inode, imap, disk, latest>>

(* ... and sync_dev(). *)
SuperFreed(t) ==
  /\ At(t, "super_freed")
  /\ sb' = [sb EXCEPT !.lock = FALSE]
  /\ sync_inodes(t, "sync")
  /\ UNCHANGED <<inode, imap, disk, latest>>
-----------------------------------------------------------------------------
(* What the tasks do: look up a name and use the inode, create a file;     *)
(* mount and unmount, which begin with iput() of the device's inode; sync, *)
(* or iput() of a block device's inode that somebody has opened.           *)
Start(t, op, k) ==
  /\ At(t, "idle")
  /\ op \in Ops[t]
  /\ CASE op = "lookup" -> /\ k[1] = ROOT_DEV /\ k[2] \in imap \cap ({MountNum} \cup Private[t])
                           /\ latest[k].nlinks = 1
                           /\ Goto(t, "empty", [NoFrame EXCEPT !.op = op, !.key = k])
       [] op = "create" -> /\ k = NoKey
                           /\ Private[t] # {}
                           /\ Goto(t, "empty", [NoFrame EXCEPT !.op = op])
       [] OTHER -> k = NoKey /\ sync_inodes(t, op)
  /\ UNCHANGED kernel

Using(t) == At(t, "hold") /\ f[t].op \in {"lookup", "create"}

(* The holder changes the inode and marks it: chmod, a write, ... *)
Modify(t) ==
  LET e == f[t].e IN
  /\ Using(t)
  /\ inode' = [inode EXCEPT ![e].c.data = ~@, ![e].dirt = TRUE]
  /\ latest' = [latest EXCEPT ![inode[e].key].data = ~@]
  /\ UNCHANGED <<imap, disk, sb, pc, f, panic>>
  /\ cpu' = NULL

(* sys_unlink() of a file nobody else looks up. *)
Unlink(t) ==
  LET e == f[t].e IN
  /\ Using(t) /\ "unlink" \in Ops[t]
  /\ inode[e].key \in {ROOT_DEV} \X Private[t]
  /\ inode[e].c.nlinks = 1
  /\ inode' = [inode EXCEPT ![e].c.nlinks = 0, ![e].dirt = TRUE]
  /\ latest' = [latest EXCEPT ![inode[e].key].nlinks = 0]
  /\ UNCHANGED <<imap, disk, sb, pc, f, panic>>
  /\ cpu' = NULL

Release(t) ==
  /\ Using(t)
  /\ iput(t, f[t].e, "idle")
  /\ UNCHANGED kernel

TaskStep(t) ==
  \/ Sleep(t) \/ StartWrite(t) \/ EndWrite(t) \/ GetEmpty(t) \/ EmptyWait(t) \/ Scan(t)
  \/ Read(t) \/ Found(t) \/ Cross(t) \/ Put(t) \/ Repeat(t) \/ free_inode(t) \/ new_inode(t)
  \/ Sync(t) \/ DevicePut(t) \/ StartMount(t) \/ ReadSuper(t) \/ SuperRead(t) \/ EndMount(t)
  \/ Umount(t) \/ PutSuper(t) \/ SuperFreed(t) \/ Modify(t) \/ Unlink(t) \/ Release(t)

Next ==
  \E t \in Tasks : \/ TaskStep(t)
                    \/ \E op \in Ops[t] \ {"unlink"}, k \in Keys \cup {NoKey} : Start(t, op, k)

Spec == Init /\ [][Next]_vars
-----------------------------------------------------------------------------
TypeOK ==
  /\ inode \in [Entries -> [key : Keys \cup {NoKey}, count : 0 .. 2 * Cardinality(Tasks) + 1,
                            dirt : BOOLEAN, lock : BOOLEAN, mount : BOOLEAN, c : Contents]]
  /\ imap \subseteq Nums
  /\ cpu \in Tasks \cup {NULL}

(* iget() looks through the table, sleeps and looks again (inode.c:244):   *)
(* an inode of a disk is in the table at most once.                        *)
OneInodePerNumber ==
  \A e, g \in Entries : inode[e].key = inode[g].key /\ inode[e].key # NoKey => e = g

(* What t uses: HasInode, an inode it works with or gives back by iput(); *)
(* HasEmpty, the entry iget() and new_inode() got from get_empty_inode();  *)
(* and, where t unmounts, the use the mounted device had of its directory. *)
InPut(t) == pc[t] \in {"put", "repeat", "truncate"}
            \/ (pc[t] \in {"write", "write_io"} /\ f[t].ret = "repeat")
HasInode(t, e) ==
  f[t].e = e /\ (InPut(t) \/ pc[t] \in {"read", "hold", "read_super", "super_io", "mount"})
HasEmpty(t, e) ==
  /\ f[t].empty = e
  /\ pc[t] \in {"bit", "scan", "found", "cross"} \/ (InPut(t) /\ f[t].back = "cross")
Unmounts(t) == pc[t] = "put_super" \/ (f[t].back = "put_super" /\ InPut(t))
Mounted(e) == sb.imount = e /\ ~\E t \in Tasks : Unmounts(t)

(* Every i_count++ and iput() of inode.c and super.c is paired although    *)
(* tasks sleep in between: a count is the number of tasks that have the    *)
(* inode, and one for a mounted device until its umount begins iput().     *)
CountIsUsers ==
  \A e \in Entries :
    inode[e].count = Cardinality({t \in Tasks : HasInode(t, e)})
                     + Cardinality({t \in Tasks : HasEmpty(t, e)})
                     + (IF Mounted(e) THEN 1 ELSE 0)

(* get_empty_inode() reuses an entry only after write_inode(), and the     *)
(* i_dirt mark write_inode() removes (inode.c:335) is for what it copied:  *)
(* an inode's last contents are on the disk, or in the table and marked.   *)
NoLostInode ==
  \A k \in Keys :
    \/ disk[k] = latest[k]
    \/ k[1] = ROOT_DEV /\ k[2] \notin imap
    \/ \E e \in Entries : inode[e].key = k /\ inode[e].dirt /\ inode[e].c = latest[k]
=============================================================================
