------------------------------- MODULE Namei --------------------------------
(***************************************************************************)
(* fs/namei.c and the calls of fs/open.c, fs/fcntl.c, kernel/fork.c and    *)
(* kernel/exit.c on open files: directory entries, link counts, and the    *)
(* references that path names, current directories and open files keep.    *)
(*                                                                         *)
(* A step runs to the next call that may sleep: bread() in find_entry()    *)
(* and add_entry(), iget(), new_inode(), brelse(), iput().  An inode is    *)
(* known by its number; what the table of inodes does is in Inodes, and    *)
(* iput() here is what it promises; the iput()s of a call in a row are one *)
(* step.  Directories fit in one block, are well formed and read without   *)
(* errors (empty_dir()'s warnings do not come up), nothing is mounted, and *)
(* the tasks are the superuser.                                            *)
(*                                                                         *)
(* The tasks may use the same names.  namei.c has races then, which it     *)
(* does not handle: fs.raced tells that one has happened, and the model    *)
(* goes no further (Races).                                                *)
(***************************************************************************)
EXTENDS Integers, Sequences, FiniteSets, FiniteSetsExt, SequencesExt

CONSTANTS Tasks, Init1,   \* the tasks, and the one that is there at first
          NInodes,        \* inodes of the device
          MaxEntries,     \* entries of a directory, "." and ".." included
          NR_OPEN, NR_FILE,
          Paths,          \* Paths[t]: the path names t uses
          Ops             \* Ops[t]: the system calls t makes

ASSUME Constants ==
  /\ Init1 \in Tasks /\ NInodes \in Nat \ {0} /\ MaxEntries >= 2
  /\ NR_OPEN \in Nat \ {0} /\ NR_FILE \in Nat \ {0}
  /\ \A t \in Tasks : \A p \in Paths[t] : p # <<>> /\ p # <<"/">>

ROOT_INO == 1
Inodes == 1 .. NInodes
Files == 1 .. NR_FILE
Fds == 1 .. NR_OPEN

VARIABLES fs,     \* the inodes; panic: a block was freed twice; raced: history
          buf,    \* b_count of the directories' blocks
          pwd,    \* current->pwd, 0 for a task that is not there
          filp,   \* current->filp[]
          file,   \* file_table[]
          pc, f

vars == <<fs, buf, pwd, filp, file, pc, f>>
open_files == <<filp, file>>

Entry(nm, n) == [name |-> nm, inode |-> n]
FreeInode == [kind |-> "free", nlinks |-> 0, count |-> 0, zone |-> "none", ents |-> <<>>]
NoFile == [count |-> 0, inode |-> 0]
NoFrame == [op |-> "", path |-> <<>>, dir |-> 0, de |-> 0, nr |-> 0, inode |-> 0, old |-> 0,
            fd |-> 0]

(* mount_root(): four uses of the root inode. *)
Init ==
  /\ fs = [ino |-> [n \in Inodes |->
                      IF n # ROOT_INO THEN FreeInode
                      ELSE [kind |-> "dir", nlinks |-> 2, count |-> 4, zone |-> "used",
                            ents |-> <<Entry(".", n), Entry("..", n)>>]],
           panic |-> FALSE, raced |-> FALSE]
  /\ buf = [n \in Inodes |-> 0]
  /\ pwd = [t \in Tasks |-> IF t = Init1 THEN ROOT_INO ELSE 0]
  /\ filp = [t \in Tasks |-> [fd \in Fds |-> 0]]
  /\ file = [x \in Files |-> NoFile]
  /\ pc = [t \in Tasks |-> "idle"]
  /\ f = [t \in Tasks |-> NoFrame]
-----------------------------------------------------------------------------
At(t, where) == pc[t] = where /\ ~fs.panic /\ ~fs.raced
Goto(t, where, fr) == pc' = [pc EXCEPT ![t] = where] /\ f' = [f EXCEPT ![t] = fr]

iget(s, n) == [s EXCEPT !.ino[n].count = @ + 1]

(* Races.  A call reads a number from an entry, sleeps and takes the inode *)
(* (namei.c:247-251, 320-324, 392-398): it may have been freed meanwhile.  *)
Awaited(n) == \E t \in Tasks : pc[t] \in {"walk_iget", "iget"} /\ f[t].nr = n

(* truncate() frees the block of a directory, which the bitmap must have. *)
iput(s, n) ==
  IF s.ino[n].count > 1 \/ s.ino[n].nlinks > 0
  THEN [s EXCEPT !.ino[n].count = @ - 1]
  ELSE [s EXCEPT !.ino[n] = FreeInode, !.panic = s.ino[n].zone = "freed",
                 !.raced = @ \/ Awaited(n)]

(* A bug: only the first of the references is given back. *)
iputs_first(s, ns) == iput(s, ns[1])
iputs(s, ns) == FoldLeft(iput, s, ns)

(* Or it is a directory that rmdir has found unused (624) and removes.     *)
BeingRemoved(n) ==
  \E t \in Tasks : pc[t] \in {"empty_dir", "removed"} /\ f[t].op = "rmdir" /\ f[t].nr = n

(* unlink and rmdir clear the entry they found before they slept (650,     *)
(* 710): somebody else may have cleared it, and another again used it.     *)
Changed(t) ==
  fs.ino[f[t].dir].ents[f[t].de] # Entry(Last(f[t].path), f[t].nr)

(* unlink takes off a link that sys_link() has not counted yet (713, 773). *)
Uncounted(t, n) == f[t].op = "unlink" /\ fs.ino[n].nlinks = 0

Raced(s, race) == [s EXCEPT !.raced = @ \/ race]

IsDir(n) == fs.ino[n].kind = "dir"

(* permission() never grants a deleted file, even to the superuser. *)
permission(n) == fs.ino[n].nlinks > 0

(* find_entry(): ".." in the root is ".". *)
find_entry(d, name) ==
  LET nm == IF name = ".." /\ d = ROOT_INO THEN "." ELSE name
      e == fs.ino[d].ents
      m == {i \in DOMAIN e : e[i].inode # 0 /\ e[i].name = nm} IN
  IF m = {} THEN 0 ELSE Min(m)

(* A bug: the last entry is taken for a free one. *)
FreeEntry_last(e) == Len(e)

(* add_entry(): the first free entry, or one more; 0 if there is no room. *)
FreeEntry(e) ==
  LET none == {i \in DOMAIN e : e[i].inode = 0} IN
  IF none # {} THEN Min(none) ELSE IF Len(e) < MaxEntries THEN Len(e) + 1 ELSE 0

add_entry(e, name, n) ==
  IF FreeEntry(e) > Len(e) THEN Append(e, Entry(name, n))
  ELSE [e EXCEPT ![FreeEntry(e)] = Entry(name, n)]

Creates == {"creat", "mknod", "mkdir"}
Removes == {"unlink", "rmdir"}
Named == {"open", "stat", "chdir"}

(* sys_open() gives back the descriptor and the file it had reserved. *)
Unreserve(t) ==
  IF f[t].fd = 0 THEN UNCHANGED open_files
  ELSE /\ file' = [file EXCEPT ![filp[t][f[t].fd]] = NoFile]
       /\ filp' = [filp EXCEPT ![t][f[t].fd] = 0]

(* The call ends with an error, after iput() of ns. *)
Fail(t, ns) ==
  /\ fs' = iputs(fs, ns)
  /\ Unreserve(t)
  /\ Goto(t, "idle", NoFrame)
  /\ UNCHANGED pwd

Refs(ns) == SelectSeq(ns, LAMBDA n : n # 0)
-----------------------------------------------------------------------------
(* dir_namei(): the name after the last '/'. *)
basename(t) == Last(f[t].path)

(* Where get_dir() starts. *)
StartDir(t, p) == IF Head(p) = "/" THEN ROOT_INO ELSE pwd[t]
Relative(p) == IF Head(p) = "/" THEN Tail(p) ELSE p

(* A call starts with get_dir() of its first path; sys_open() with a       *)
(* descriptor and a file.                                                  *)
Begin(t, op, p) ==
  LET fd == {x \in Fds : filp[t][x] = 0}
      x == {y \in Files : file[y].count = 0} IN
  /\ At(t, "idle") /\ pwd[t] # 0
  /\ op \in Ops[t] \cap (Creates \cup Removes \cup Named \cup {"link"})
  /\ IF op \in {"open", "creat"}
     THEN /\ fd # {} /\ x # {}
          /\ filp' = [filp EXCEPT ![t][Min(fd)] = Min(x)]
          /\ file' = [file EXCEPT ![Min(x)].count = 1]
     ELSE UNCHANGED open_files
  /\ fs' = iget(fs, StartDir(t, p))
  /\ Goto(t, "walk", [NoFrame EXCEPT !.op = op, !.path = Relative(p), !.dir = StartDir(t, p),
                                     !.fd = IF op \in {"open", "creat"} THEN Min(fd) ELSE 0])
  /\ UNCHANGED <<buf, pwd>>

(* get_dir()'s loop before it sleeps in find_entry(); with the last name   *)
(* left, the call's own test of the directory.                             *)
Walk(t) ==
  LET d == f[t].dir IN
  /\ At(t, "walk")
  /\ IF ~IsDir(d) \/ ~permission(d) THEN Fail(t, Refs(<<d, f[t].old>>))
     ELSE /\ Goto(t, IF Len(f[t].path) > 1 THEN "walk_find" ELSE "find", f[t])
          /\ UNCHANGED <<fs, pwd, open_files>>
  /\ UNCHANGED buf

WalkFind(t) ==
  LET d == f[t].dir
      i == find_entry(d, Head(f[t].path)) IN
  /\ At(t, "walk_find")
  /\ IF i = 0 THEN Fail(t, Refs(<<d, f[t].old>>))
     ELSE /\ fs' = iput(fs, d)
          /\ Goto(t, "walk_iget", [f[t] EXCEPT !.path = Tail(@), !.dir = 0,
                                               !.nr = fs.ino[d].ents[i].inode])
          /\ UNCHANGED <<pwd, open_files>>
  /\ UNCHANGED buf

WalkIget(t) ==
  /\ At(t, "walk_iget")
  /\ fs' = Raced(iget(fs, f[t].nr), BeingRemoved(f[t].nr))
  /\ Goto(t, "walk", [f[t] EXCEPT !.dir = f[t].nr, !.nr = 0])
  /\ UNCHANGED <<buf, pwd, open_files>>
-----------------------------------------------------------------------------
(* What open_namei(), namei() and sys_link() do with the inode of a name.  *)
Got(t, n, s) ==
  /\ CASE f[t].op = "link" /\ s.ino[n].kind # "dir" ->
            /\ \E p \in Paths[t] :
                 /\ Goto(t, "walk", [NoFrame EXCEPT !.op = "link", !.path = Relative(p),
                                                    !.old = n, !.dir = StartDir(t, p)])
                 /\ fs' = iget(s, StartDir(t, p))
            /\ UNCHANGED <<pwd, open_files>>
       [] f[t].op = "chdir" /\ s.ino[n].kind = "dir" ->
            /\ fs' = iput(s, pwd[t])
            /\ pwd' = [pwd EXCEPT ![t] = n]
            /\ Goto(t, "idle", NoFrame)
            /\ UNCHANGED open_files
       [] f[t].op \in {"open", "creat"} /\ permission(n) /\ ~(IsDir(n) /\ f[t].op = "creat") ->
            /\ fs' = s
            /\ file' = [file EXCEPT ![filp[t][f[t].fd]].inode = n]
            /\ Goto(t, "idle", NoFrame)
            /\ UNCHANGED <<filp, pwd>>
       [] OTHER ->   \* a stat, or an error
            /\ fs' = iput(s, n)
            /\ Unreserve(t)
            /\ Goto(t, "idle", NoFrame)
            /\ UNCHANGED pwd
  /\ UNCHANGED buf

(* find_entry() of the last name.  namei() and open_namei() go on with the *)
(* number, unlink and rmdir keep the entry and its buffer, the others need *)
(* that there is none.  After a '/' at the end of the path there is no     *)
(* last name: namei() and open_namei() take the directory itself.          *)
Find(t) ==
  LET d == f[t].dir
      op == f[t].op
      i == find_entry(d, basename(t)) IN
  /\ At(t, "find")
  /\ \/ /\ basename(t) = "" /\ (op \in Named \/ (op = "link" /\ f[t].old = 0))
        /\ Got(t, d, fs)
     \/ /\ basename(t) = "" /\ (op \in Creates \cup Removes \/ (op = "link" /\ f[t].old # 0))
        /\ Fail(t, Refs(<<d, f[t].old>>))
        /\ UNCHANGED buf
     \/ /\ i # 0 /\ op \in Removes
        /\ buf' = [buf EXCEPT ![d] = @ + 1]
        /\ Goto(t, "iget", [f[t] EXCEPT !.de = i, !.nr = fs.ino[d].ents[i].inode])
        /\ UNCHANGED <<fs, pwd, open_files>>
     \/ /\ i # 0 /\ (op \in Named \cup {"creat"} \/ (op = "link" /\ f[t].old = 0))
        /\ fs' = iput(fs, d)
        /\ Goto(t, "iget", [f[t] EXCEPT !.dir = 0, !.nr = fs.ino[d].ents[i].inode])
        /\ UNCHANGED <<buf, pwd, open_files>>
     \/ /\ i = 0 /\ basename(t) # "" /\ op \in Creates /\ (op = "creat" => permission(d))
        /\ Goto(t, "new", f[t])
        /\ UNCHANGED <<fs, buf, pwd, open_files>>
     \/ /\ i = 0 /\ basename(t) # "" /\ op = "link" /\ f[t].old # 0
        /\ Goto(t, "add", f[t])
        /\ UNCHANGED <<fs, buf, pwd, open_files>>
     \/ /\ basename(t) # ""
        /\ IF i = 0 THEN \/ op \in Named \cup Removes \/ (op = "link" /\ f[t].old = 0)
                         \/ op = "creat" /\ ~permission(d)
                    ELSE op \in {"mknod", "mkdir"} \/ (op = "link" /\ f[t].old # 0)
        /\ Fail(t, Refs(<<d, f[t].old>>))
        /\ UNCHANGED buf

Iget(t) ==
  /\ At(t, "iget") /\ f[t].op \notin Removes
  /\ Got(t, f[t].nr, Raced(iget(fs, f[t].nr), BeingRemoved(f[t].nr)))

(* new_inode(): the first free one. *)
New(t) ==
  LET none == {n \in Inodes : fs.ino[n].kind = "free"} IN
  /\ At(t, "new")
  /\ IF none = {} THEN Fail(t, <<f[t].dir>>)
     ELSE /\ fs' = [fs EXCEPT !.ino[Min(none)] = [FreeInode EXCEPT !.kind = "file", !.nlinks = 1,
                                                                   !.count = 1]]
          /\ Goto(t, IF f[t].op = "mkdir" THEN "block" ELSE "add",
                  [f[t] EXCEPT !.inode = Min(none)])
          /\ UNCHANGED <<pwd, open_files>>
  /\ UNCHANGED buf

(* sys_mkdir(): new_block(), its two entries; or no block, or one that     *)
(* cannot be read, and which is no directory's yet.                        *)
Mkdir(t) ==
  LET d == f[t].dir
      n == f[t].inode IN
  /\ At(t, "block")
  /\ \/ /\ fs' = [fs EXCEPT !.ino[n] = [@ EXCEPT !.kind = "dir", !.nlinks = 2, !.zone = "used",
                                           !.ents = <<Entry(".", n), Entry("..", d)>>]]
        /\ Goto(t, "add", f[t])
        /\ UNCHANGED <<pwd, open_files>>
     \/ /\ fs' = iputs([fs EXCEPT !.ino[n].nlinks = 0], <<d, n>>)
        /\ Goto(t, "idle", NoFrame)
        /\ UNCHANGED <<pwd, open_files>>
  /\ UNCHANGED buf

(* What the calls do to the new inode if there is no room for its entry:   *)
(* sys_mkdir() also frees the block, which iput() will free again.         *)
Unlinked(t, s, n) ==
  IF f[t].op = "mkdir" THEN [s EXCEPT !.ino[n] = [@ EXCEPT !.nlinks = 0, !.zone = "freed"]]
  ELSE [s EXCEPT !.ino[n].nlinks = 0]

(* add_entry() and the number, without sleep in between; then brelse(). *)
Add(t) ==
  LET d == f[t].dir
      n == IF f[t].op = "link" THEN f[t].old ELSE f[t].inode
      s == [fs EXCEPT !.ino[d].ents = add_entry(@, basename(t), n)] IN
  /\ At(t, "add")
  /\ IF FreeEntry(fs.ino[d].ents) = 0
     THEN /\ fs' = iputs(IF f[t].op = "link" THEN fs ELSE Unlinked(t, fs, n), <<d, n>>)
          /\ Unreserve(t)
          /\ Goto(t, "idle", NoFrame)
          /\ UNCHANGED <<buf, pwd>>
     ELSE /\ fs' = IF f[t].op = "mkdir" THEN [s EXCEPT !.ino[d].nlinks = @ + 1] ELSE s
          /\ buf' = [buf EXCEPT ![d] = @ + 1]
          /\ Goto(t, "added", f[t])
          /\ UNCHANGED <<pwd, open_files>>

(* ... after brelse(): sys_link() counts the link only now. *)
Added(t) ==
  LET d == f[t].dir
      n == f[t].inode
      o == f[t].old IN
  /\ At(t, "added")
  /\ buf' = [buf EXCEPT ![d] = @ - 1]
  /\ CASE f[t].op = "creat" -> /\ fs' = iput(fs, d)
                               /\ file' = [file EXCEPT ![filp[t][f[t].fd]].inode = n]
                               /\ UNCHANGED filp
       [] f[t].op = "link" -> /\ fs' = iputs([fs EXCEPT !.ino[o].nlinks = @ + 1], <<d, o>>)
                              /\ UNCHANGED open_files
       [] OTHER -> fs' = iputs(fs, <<d, n>>) /\ UNCHANGED open_files
  /\ Goto(t, "idle", NoFrame)
  /\ UNCHANGED pwd
-----------------------------------------------------------------------------
(* The end of an unlink or rmdir that fails with the entry in hand. *)
FailRemove(t, s) ==
  /\ fs' = iputs(s, <<f[t].nr, f[t].dir>>)
  /\ buf' = [buf EXCEPT ![f[t].dir] = @ - 1]
  /\ Goto(t, "idle", NoFrame)

(* The entry is cleared; brelse() follows. *)
Clear(t, s) ==
  /\ fs' = Raced([s EXCEPT !.ino[f[t].dir].ents[f[t].de] = Entry("", 0)],
                 Changed(t) \/ Uncounted(t, f[t].nr))
  /\ Goto(t, "removed", f[t])
  /\ UNCHANGED buf

(* A bug: a directory that somebody uses is removed. *)
InUse_never(s, n) == FALSE
InUse(s, n) == s.ino[n].count > 1

(* sys_unlink() and sys_rmdir() after iget(). *)
IgetRemove(t) ==
  LET n == f[t].nr
      s == Raced(iget(fs, n), BeingRemoved(n)) IN
  /\ At(t, "iget") /\ f[t].op \in Removes
  /\ \/ f[t].op = "unlink" /\ IsDir(n) /\ FailRemove(t, s)
     \/ f[t].op = "unlink" /\ ~IsDir(n) /\ Clear(t, [s EXCEPT !.ino[n].nlinks = Max({@, 1})])
     \/ f[t].op = "rmdir" /\ (InUse(s, n) \/ n = f[t].dir \/ ~IsDir(n)) /\ FailRemove(t, s)
     \/ /\ f[t].op = "rmdir" /\ ~InUse(s, n) /\ n # f[t].dir /\ IsDir(n)
        /\ fs' = s
        /\ Goto(t, "empty_dir", f[t])
        /\ UNCHANGED buf
  /\ UNCHANGED <<pwd, open_files>>

(* ... empty_dir(), which has slept in bread(). *)
empty_dir(n) == \A i \in DOMAIN fs.ino[n].ents : i > 2 => fs.ino[n].ents[i].inode = 0
EmptyDir(t) ==
  /\ At(t, "empty_dir")
  /\ IF empty_dir(f[t].nr) THEN Clear(t, fs) ELSE FailRemove(t, fs)
  /\ UNCHANGED <<pwd, open_files>>

(* A bug of sys_rmdir(): the parent keeps the link of "..". *)
LinkGone_parent(t, s, d, n) == [s EXCEPT !.ino[n].nlinks = IF f[t].op = "rmdir" THEN 0 ELSE @ - 1]

LinkGone(t, s, d, n) ==
  IF f[t].op = "rmdir" THEN [s EXCEPT !.ino[n].nlinks = 0, !.ino[d].nlinks = @ - 1]
  ELSE [s EXCEPT !.ino[n].nlinks = (@ + 255) % 256]   \* an unsigned char

Removed(t) ==
  /\ At(t, "removed")
  /\ FailRemove(t, Raced(LinkGone(t, fs, f[t].dir, f[t].nr), Uncounted(t, f[t].nr)))
  /\ UNCHANGED <<pwd, open_files>>
-----------------------------------------------------------------------------
(* sys_close() of a descriptor for file x, and its iput(). *)
CloseFile(s, x) == IF s.file[x].count > 1 THEN [s EXCEPT !.file[x].count = @ - 1]
                   ELSE [fs |-> iput(s.fs, s.file[x].inode),
                         file |-> [s.file EXCEPT ![x] = NoFile]]

sys_close(t, fd) ==
  LET s == CloseFile([fs |-> fs, file |-> file], filp[t][fd]) IN
  /\ At(t, "idle") /\ "close" \in Ops[t]
  /\ filp[t][fd] # 0
  /\ filp' = [filp EXCEPT ![t][fd] = 0]
  /\ fs' = s.fs /\ file' = s.file
  /\ UNCHANGED <<buf, pwd, pc, f>>

(* dupfd() *)
dup(t, fd) ==
  LET none == {x \in Fds : filp[t][x] = 0} IN
  /\ At(t, "idle") /\ "dup" \in Ops[t]
  /\ filp[t][fd] # 0 /\ none # {}
  /\ filp' = [filp EXCEPT ![t][Min(none)] = filp[t][fd]]
  /\ file' = [file EXCEPT ![filp[t][fd]].count = @ + 1]
  /\ UNCHANGED <<fs, buf, pwd, pc, f>>

Opened(t, x) == Cardinality({fd \in Fds : filp[t][fd] = x})

(* copy_process(): the child shares the files and the directories. *)
Fork(t, u) ==
  /\ At(t, "idle") /\ "fork" \in Ops[t] /\ pwd[t] # 0
  /\ pwd[u] = 0
  /\ filp' = [filp EXCEPT ![u] = filp[t]]
  /\ file' = [x \in Files |-> [file[x] EXCEPT !.count = @ + Opened(t, x)]]
  /\ pwd' = [pwd EXCEPT ![u] = pwd[t]]
  /\ fs' = iget(iget(fs, pwd[t]), ROOT_INO)
  /\ UNCHANGED <<buf, pc, f>>

(* do_exit() *)
Exit(t) ==
  LET open == SelectSeq([fd \in Fds |-> filp[t][fd]], LAMBDA x : x # 0)
      s == FoldLeft(CloseFile, [fs |-> fs, file |-> file], open) IN
  /\ At(t, "idle") /\ "exit" \in Ops[t] /\ pwd[t] # 0
  /\ filp' = [filp EXCEPT ![t] = [fd \in Fds |-> 0]]
  /\ file' = s.file
  /\ fs' = iputs(s.fs, <<pwd[t], ROOT_INO>>)
  /\ pwd' = [pwd EXCEPT ![t] = 0]
  /\ UNCHANGED <<buf, pc, f>>

Next ==
  \E t \in Tasks :
    \/ \E op \in Ops[t], p \in Paths[t] : Begin(t, op, p)
    \/ Walk(t) \/ WalkFind(t) \/ WalkIget(t) \/ Find(t) \/ Iget(t) \/ New(t) \/ Mkdir(t)
    \/ Add(t) \/ Added(t) \/ IgetRemove(t) \/ EmptyDir(t) \/ Removed(t)
    \/ \E fd \in Fds : sys_close(t, fd) \/ dup(t, fd)
    \/ \E u \in Tasks : Fork(t, u)
    \/ Exit(t)

Spec == Init /\ [][Next]_vars
-----------------------------------------------------------------------------
One(b) == IF b THEN 1 ELSE 0

(* The inodes' users: path walks, calls, current directories and open      *)
(* files.  Two more are the super block's; a file that is being opened has *)
(* no inode yet.                                                           *)
Opening(x) == \E t \in Tasks : f[t].fd # 0 /\ filp[t][f[t].fd] = x
InodeUsers(n) ==
    MapThenSumSet(LAMBDA t : One(f[t].dir = n) + One(f[t].inode = n) + One(f[t].old = n)
                             + One(pwd[t] = n) + One(n = ROOT_INO /\ pwd[t] # 0)
                             + One(pc[t] \in {"empty_dir", "removed"} /\ f[t].nr = n), Tasks)
  + Cardinality({x \in Files : file[x].count > 0 /\ ~Opening(x) /\ file[x].inode = n})
  + 2 * One(n = ROOT_INO)

(* The calls that sleep with a directory's block in hand. *)
BlockUsers(d) ==
  Cardinality({t \in Tasks : f[t].dir = d /\ pc[t] \in {"iget", "empty_dir", "removed", "added"}})

(* Every reference a call takes is given back once, over fork and exit and *)
(* on the failing paths of namei.c, open.c and fcntl.c (those of a damaged *)
(* directory excepted): i_count is the number of an inode's users, f_count *)
(* of a file's descriptors (one that is being opened is reserved), b_count *)
(* of those who hold a directory's block.                                  *)
RefsBalanced ==
  ~fs.panic /\ ~fs.raced =>
    /\ \A n \in Inodes : fs.ino[n].count = InodeUsers(n) /\ buf[n] = BlockUsers(n)
    /\ \A x \in Files : file[x].count = MapThenSumSet(LAMBDA t : Opened(t, x), Tasks)

(* The entries, of all directories, that name inode n. *)
Links(n) == MapThenSumSet(LAMBDA d : Cardinality({i \in DOMAIN fs.ino[d].ents :
                                                    fs.ino[d].ents[i].inode = n}), Inodes)

(* How far i_nlinks is behind while a call sleeps between the entry and    *)
(* the count.                                                              *)
Behind(t, n) ==
    One(pc[t] \in {"add", "block"} /\ f[t].inode = n)
  + One(pc[t] = "removed" /\ f[t].nr = n)
  - One(pc[t] = "added" /\ f[t].old = n)
  - One(pc[t] = "add" /\ f[t].op = "mkdir" /\ f[t].dir = n)

(* i_nlinks counts the entries of an inode, "." and ".." included, through *)
(* creat, link, unlink, mkdir and rmdir of the same names that sleep       *)
(* between the directory and the inode, and fail halfway; up to the first  *)
(* race the code does not handle.                                          *)
LinksCountEntries ==
  ~fs.panic /\ ~fs.raced =>
  \A n \in Inodes : fs.ino[n].nlinks =
                       Links(n) + MapThenSumSet(LAMBDA t : Behind(t, n), Tasks)

(* No inode is left allocated without a name or a user, and no entry or    *)
(* open file is left with an inode that has been freed; up to that race.   *)
NoneLostNoneDangling ==
  ~fs.panic /\ ~fs.raced =>
  \A n \in Inodes : fs.ino[n].kind = "free" <=> Links(n) = 0 /\ fs.ino[n].count = 0

(* add_entry() leaves the entry free until its caller has filled it        *)
(* (namei.c:161-163): no step overwrites a live entry, and only the unlink *)
(* or rmdir that found it clears one (up to the first race).               *)
EntriesSurvive ==
  [][\A d \in Inodes : \A i \in DOMAIN fs.ino[d].ents :
       LET e == fs.ino[d].ents[i] IN
       e.inode # 0 /\ fs'.ino[d].kind = "dir" /\ ~fs'.raced =>
         \/ fs'.ino[d].ents[i] = e
         \/ \E t \in Tasks : f[t].op \in Removes /\ f[t].dir = d /\ f[t].de = i
                            /\ Entry(basename(t), f[t].nr) = e]_vars
=============================================================================
