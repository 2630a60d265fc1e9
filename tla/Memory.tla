------------------------------- MODULE Memory -------------------------------
(***************************************************************************)
(* mm/memory.c with its callers in fork.c, exit.c and the page-fault       *)
(* handlers: page frames counted in mem_map[], page tables, copy on write  *)
(* after fork(), demand loading and sharing of pages of an executable.     *)
(*                                                                         *)
(* Each action is one kernel entry up to the next point where the kernel   *)
(* may run another task.  do_no_page() sleeps in bread_page() while it     *)
(* holds a page that is in no table yet.  A fault handler returns to the   *)
(* faulting instruction, which is executed again later: the timer may let  *)
(* other tasks run in between, so the fault and the write are two actions. *)
(*                                                                         *)
(* Frames are the pages between LOW_MEM and HIGH_MEMORY.  The sharing of   *)
(* the kernel's own pages by the first fork() is not modelled.             *)
(***************************************************************************)
EXTENDS Integers, FiniteSets, FiniteSetsExt, Functions

CONSTANTS Procs,        \* task slots, as numbers: share_page() scans them downwards
          Frames,       \* page frames, as numbers: get_free_page() takes the highest
          Dirs,         \* directory entries of a task's 64 MB, as numbers
          Addrs,        \* pages of a task's address space
          DirOf,        \* DirOf[a]: the directory entry a page belongs to
          FileBacked,   \* the pages below end_data, loaded from the executable
          ArgPage,      \* where execve() puts the arguments, the top of the space
          MayExec,      \* the tasks that may execve() the (one) executable
          CloseOnExec,  \* whether they have descriptors marked close-on-exec
          Syscalls      \* whether system calls write into user memory

ASSUME Constants ==
  /\ Procs \subseteq Nat \ {0} /\ Frames \subseteq Nat \ {0} /\ Dirs \subseteq Nat
  /\ Procs # {} /\ Frames # {}
  /\ IsFiniteSet(Procs) /\ IsFiniteSet(Frames) /\ IsFiniteSet(Dirs) /\ IsFiniteSet(Addrs)
  /\ Addrs \subseteq Nat \ {0} /\ DirOf \in [Addrs -> Dirs] /\ FileBacked \subseteq Addrs
  /\ MayExec \subseteq Procs /\ ArgPage \in Addrs \ FileBacked  \* exec.c:300: at most 48 of 64 MB
  /\ CloseOnExec \in BOOLEAN /\ Syscalls \in BOOLEAN

None == 0                                        \* an entry without the present bit
NoPage == [page |-> None, rw |-> FALSE, dirty |-> FALSE]
Init1 == CHOOSE p \in Procs : \A q \in Procs : p =< q   \* the first task

VARIABLES m,        \* m.map: mem_map, m.dir: page directory, m.pte: page tables
          mem,      \* the contents of the frames
          task,     \* task[p]: the frame of its task structure, or None
          mode,     \* "none", "user", "zombie"; in a system call that writes to
                    \* user memory: "syscall"; in bread_page() for a fault of
                    \* the user or of that call: "user_load", "syscall_load";
                    \* in execve(): "exec", "close"
          at,       \* the page a loading task or a system call is about
          held,     \* a frame the task has taken that is in no table yet
          exe,      \* whether current->executable is the executable
          view,     \* history: what each task must find in its pages
          stale     \* history: the pages of the executable, by task, that
                    \* may look clean although they are not as in the file,
                    \* come from such a page, or were shared when the kernel
                    \* wrote into them

vars == <<m, mem, task, mode, at, held, exe, view, stale>>

(* Contents: a page of zeros, of the executable, or last written by task p. *)
Zero == 0
File == -1

Init ==
  /\ m = [map |-> [x \in Frames |-> IF x = Max(Frames) THEN 1 ELSE 0],
          dir |-> [p \in Procs |-> [d \in Dirs |-> None]],
          pte |-> [p \in Procs |-> [a \in Addrs |-> NoPage]]]
  /\ mem = [x \in Frames |-> Zero]
  /\ task = [p \in Procs |-> IF p = Init1 THEN Max(Frames) ELSE None]
  /\ mode = [p \in Procs |-> IF p = Init1 THEN "user" ELSE "none"]
  /\ at = [p \in Procs |-> None]
  /\ held = [p \in Procs |-> None]
  /\ exe = [p \in Procs |-> FALSE]
  /\ view = [p \in Procs |-> [a \in Addrs |-> Zero]]
  /\ stale = {}
-----------------------------------------------------------------------------
Present(e) == e.page # None
FreeFrames(mm) == {x \in Frames : mm.map[x] = 0}

(* get_free_page(): the highest free page; the caller checks that there is *)
(* one.  Take(mm, x) marks it used; its contents become zeros.             *)
get_free_page(mm) == Max(FreeFrames(mm))
Take(mm, x) == [mm EXCEPT !.map[x] = 1]

(* free_page() *)
FreePage(mm, x) == [mm EXCEPT !.map[x] = @ - 1]

Count(S) == Cardinality(S)

(* Bugs: free_page_tables() forgets the tables; copy_page_tables() leaves  *)
(* the parent's pages writable.                                            *)
free_page_tables_leak(mm, p) ==
  [map |-> [x \in Frames |-> mm.map[x] - Count({a \in Addrs : mm.pte[p][a].page = x})],
   dir |-> [mm.dir EXCEPT ![p] = [d \in Dirs |-> None]],
   pte |-> [mm.pte EXCEPT ![p] = [a \in Addrs |-> NoPage]]]

copy_dirs_writable(mm, p, c, dirs, tables) ==
  LET copied == {a \in Addrs : DirOf[a] \in dirs /\ Present(mm.pte[p][a])} IN
  [map |-> [x \in Frames |->
              mm.map[x] + Count({a \in copied : mm.pte[p][a].page = x})
                        + Count({d \in dirs : tables[d] = x})],
   dir |-> [mm.dir EXCEPT ![c] = [d \in Dirs |-> IF d \in dirs THEN tables[d] ELSE None]],
   pte |-> [mm.pte EXCEPT
              ![c] = [a \in Addrs |-> IF a \in copied
                                      THEN [mm.pte[p][a] EXCEPT !.rw = FALSE] ELSE NoPage]]]

(* free_page_tables(): every present page and every table of task p. *)
free_page_tables(mm, p) ==
  [map |-> [x \in Frames |-> mm.map[x] - Count({a \in Addrs : mm.pte[p][a].page = x})
                                       - Count({d \in Dirs : mm.dir[p][d] = x})],
   dir |-> [mm.dir EXCEPT ![p] = [d \in Dirs |-> None]],
   pte |-> [mm.pte EXCEPT ![p] = [a \in Addrs |-> NoPage]]]

(* The loop of copy_page_tables() over the directory entries dirs, whose   *)
(* new tables are given: the pages are write-protected in both tasks and   *)
(* counted once more.                                                      *)
copy_dirs(mm, p, c, dirs, tables) ==
  LET copied == {a \in Addrs : DirOf[a] \in dirs /\ Present(mm.pte[p][a])} IN
  [map |-> [x \in Frames |->
              mm.map[x] + Count({a \in copied : mm.pte[p][a].page = x})
                        + Count({d \in dirs : tables[d] = x})],
   dir |-> [mm.dir EXCEPT ![c] = [d \in Dirs |-> IF d \in dirs THEN tables[d] ELSE None]],
   pte |-> [mm.pte EXCEPT
              ![p] = [a \in Addrs |-> IF a \in copied
                                      THEN [@[a] EXCEPT !.rw = FALSE] ELSE @[a]],
              ![c] = [a \in Addrs |-> IF a \in copied
                                      THEN [mm.pte[p][a] EXCEPT !.rw = FALSE] ELSE NoPage]]]

(* copy_page_tables() goes through the entries from of the page directory  *)
(* in order and takes the highest free page for each: dirs are those it    *)
(* copied, all of them unless it ran out of pages, tables the pages.       *)
TakesTables(mm, from, dirs, tables) ==
  /\ \A d \in dirs, e \in from : e < d => e \in dirs
  /\ \A d, e \in dirs : d < e => tables[d] > tables[e]
  /\ \A d \in dirs, x \in FreeFrames(mm) : x > tables[d] => x \in Range(tables)
  /\ dirs = from \/ Range(tables) = FreeFrames(mm)

(* put_page(), with a new table if there is none; CanPut says whether that *)
(* one can be had.                                                         *)
CanPut(mm, p, a) == mm.dir[p][DirOf[a]] # None \/ FreeFrames(mm) # {}
WithTable(mm, p, a) ==
  IF mm.dir[p][DirOf[a]] # None THEN mm
  ELSE [Take(mm, get_free_page(mm)) EXCEPT !.dir[p][DirOf[a]] = get_free_page(mm)]
put_page(mm, p, a, x) ==
  [WithTable(mm, p, a) EXCEPT !.pte[p][a] = [page |-> x, rw |-> TRUE, dirty |-> FALSE]]
-----------------------------------------------------------------------------
(* copy_process(): the task page, then the memory.  When that runs out of  *)
(* pages half-way copy_mem() undoes the copy and the task page is freed.   *)
Fork(p, c) ==
  /\ mode[p] = "user"
  /\ mode[c] = "none"
  /\ FreeFrames(m) # {}
  /\ LET x    == get_free_page(m)
         mm   == Take(m, x)
         from == {d \in Dirs : m.dir[p][d] # None}
     IN  \E dirs \in SUBSET from : \E tables \in [dirs -> FreeFrames(mm)] :
           /\ TakesTables(mm, from, dirs, tables)
           /\ \/ /\ dirs = from
                 /\ m' = copy_dirs(mm, p, c, dirs, tables)
                 /\ task' = [task EXCEPT ![c] = x]
                 /\ mode' = [mode EXCEPT ![c] = "user"]
                 /\ exe' = [exe EXCEPT ![c] = exe[p]]
                 /\ view' = [view EXCEPT ![c] = view[p]]
                 /\ stale' = stale \cup {<<c, a>> : a \in {b \in Addrs : <<p, b>> \in stale}}
              \/ /\ dirs # from
                 /\ m' = FreePage(free_page_tables(copy_dirs(mm, p, c, dirs, tables), c), x)
                 /\ UNCHANGED <<task, mode, exe, view, stale>>
  /\ UNCHANGED <<mem, at, held>>

(* The contents of a free page do not matter, since get_free_page() clears *)
(* it; they are kept zero.                                                 *)
Cleared(mm) == [x \in Frames |-> IF mm.map[x] = 0 THEN Zero ELSE mem[x]]

Without(p) == {s \in stale : s[1] # p}

(* do_exit(), also from oom(): mm is the memory when it is called.  init   *)
(* does not die (a bound of the model).                                    *)
DoExit(mm, p) ==
  /\ p # Init1
  /\ m' = free_page_tables(mm, p)
  /\ mem' = Cleared(m')
  /\ mode' = [mode EXCEPT ![p] = "zombie"]
  /\ exe' = [exe EXCEPT ![p] = FALSE]
  /\ held' = [held EXCEPT ![p] = None]
  /\ at' = [at EXCEPT ![p] = None]
  /\ view' = [view EXCEPT ![p] = [a \in Addrs |-> Zero]]
  /\ stale' = Without(p)

Exit(p) ==
  /\ mode[p] = "user"
  /\ DoExit(m, p)
  /\ UNCHANGED task

(* sys_waitpid() in the parent: release(). *)
Release(p) ==
  /\ mode[p] = "zombie"
  /\ m' = FreePage(m, task[p])
  /\ task' = [task EXCEPT ![p] = None]
  /\ mem' = Cleared(m')
  /\ mode' = [mode EXCEPT ![p] = "none"]
  /\ UNCHANGED <<at, held, exe, view, stale>>

(* do_execve() up to its point of no return: copy_strings() copies the     *)
(* arguments into a new page; without one the call fails and changes       *)
(* nothing.  The caller's code and strings are in memory.                  *)
StartExec(p) ==
  /\ mode[p] = "user"
  /\ p \in MayExec
  /\ \E a \in Addrs : Present(m.pte[p][a])
  /\ FreeFrames(m) # {}
  /\ m' = Take(m, get_free_page(m))
  /\ held' = [held EXCEPT ![p] = get_free_page(m)]
  /\ mem' = [mem EXCEPT ![get_free_page(m)] = p]
  /\ mode' = [mode EXCEPT ![p] = "exec"]
  /\ UNCHANGED <<task, at, exe, view, stale>>

(* exec_error1, exec_error2: the argument page is given back. *)
ExecError(p) ==
  /\ mode[p] = "exec"
  /\ m' = FreePage(m, held[p])
  /\ mem' = Cleared(m')
  /\ held' = [held EXCEPT ![p] = None]
  /\ mode' = [mode EXCEPT ![p] = "user"]
  /\ UNCHANGED <<task, at, exe, view, stale>>

(* current->executable = inode, then sys_close() of the descriptors marked *)
(* close-on-exec, which may sleep; the old pages are still there.          *)
SetExecutable(p) ==
  /\ mode[p] = "exec"
  /\ CloseOnExec
  /\ exe' = [exe EXCEPT ![p] = TRUE]
  /\ mode' = [mode EXCEPT ![p] = "close"]
  /\ stale' = IF exe[p] THEN stale ELSE stale \cup ({p} \X FileBacked)
  /\ UNCHANGED <<m, mem, task, at, held, view>>

(* The rest: the old pages are freed, change_ldt() puts the argument page  *)
(* and ignores a failure.  The pages of the executable come with faults.   *)
EndExec(p) ==
  LET mm == free_page_tables(m, p) IN
  /\ mode[p] = (IF CloseOnExec THEN "close" ELSE "exec")
  /\ m' = IF CanPut(mm, p, ArgPage) THEN put_page(mm, p, ArgPage, held[p]) ELSE mm
  /\ mem' = Cleared(m')
  /\ exe' = [exe EXCEPT ![p] = TRUE]
  /\ held' = [held EXCEPT ![p] = None]
  /\ mode' = [mode EXCEPT ![p] = "user"]
  /\ view' = [view EXCEPT ![p] = [a \in Addrs |-> IF a = ArgPage THEN p
                                                 ELSE IF a \in FileBacked THEN File ELSE Zero]]
  /\ stale' = Without(p)
  /\ UNCHANGED <<task, at>>
-----------------------------------------------------------------------------
(* un_wp_page(): make it writable if nobody else has it, else take a copy. *)
(* The copy is entered with flags 7: without the dirty bit.                *)
un_wp_page(mm, p, a) ==
  LET old == mm.pte[p][a].page
      new == get_free_page(mm)
  IN  IF mm.map[old] = 1 THEN [mm EXCEPT !.pte[p][a].rw = TRUE]
      ELSE [Take(mm, new) EXCEPT
              !.map[old] = @ - 1,
              !.pte[p][a] = [page |-> new, rw |-> TRUE, dirty |-> FALSE]]

NeedsCopy(p, a) == m.map[m.pte[p][a].page] # 1

(* The effect of un_wp_page() on a page that is present and not writable;  *)
(* without a free page the task dies in oom().                             *)
UnWp(p, a, next, about) ==
  /\ Present(m.pte[p][a]) /\ ~m.pte[p][a].rw
  /\ \/ /\ NeedsCopy(p, a) => FreeFrames(m) # {}
        /\ m' = un_wp_page(m, p, a)
        /\ mem' = IF NeedsCopy(p, a)
                  THEN [mem EXCEPT ![get_free_page(m)] = mem[m.pte[p][a].page]] ELSE mem
        /\ mode' = [mode EXCEPT ![p] = next]
        /\ at' = [at EXCEPT ![p] = about]
        /\ stale' = IF NeedsCopy(p, a) /\ m.pte[p][a].dirty /\ a \in FileBacked
                    THEN stale \cup {<<p, a>>} ELSE stale
        /\ UNCHANGED <<held, exe, view>>
     \/ /\ NeedsCopy(p, a) /\ FreeFrames(m) = {}
        /\ DoExit(m, p)

(* do_wp_page(): a user write hit a write-protected page. *)
WpFault(p, a) ==
  /\ mode[p] = "user"
  /\ UnWp(p, a, "user", None)
  /\ UNCHANGED task

(* A user write that succeeds; the processor sets the dirty bit. *)
Write(p, a) ==
  /\ mode[p] = "user"
  /\ Present(m.pte[p][a]) /\ m.pte[p][a].rw
  /\ mem' = [mem EXCEPT ![m.pte[p][a].page] = p]
  /\ m' = [m EXCEPT !.pte[p][a].dirty = TRUE]
  /\ view' = [view EXCEPT ![p][a] = p]
  /\ stale' = stale \ {<<p, a>>}
  /\ UNCHANGED <<task, mode, at, held, exe>>
-----------------------------------------------------------------------------
InKernelOrUser(p, a) == mode[p] = "user" \/ (mode[p] = "syscall" /\ at[p] = a)

(* do_no_page() for a page that is not in the file: get_empty_page(). *)
EmptyPage(p, a) ==
  /\ InKernelOrUser(p, a)
  /\ ~Present(m.pte[p][a])
  /\ ~exe[p] \/ a \notin FileBacked
  /\ LET got == FreeFrames(m) # {}
         x == get_free_page(m)
     IN  \/ /\ got /\ CanPut(Take(m, x), p, a)
            /\ m' = put_page(Take(m, x), p, a, x)
            /\ mem' = [mem EXCEPT ![x] = Zero]
            /\ UNCHANGED <<mode, exe, held, at, view, stale>>
         \/ /\ ~(got /\ CanPut(Take(m, x), p, a))
            /\ DoExit(m, p)
  /\ UNCHANGED task

(* The tasks try_to_share() accepts: their page is present and clean. *)
Sharers(p, a) ==
  {q \in Procs \ {p} : exe[q] /\ Present(m.pte[q][a]) /\ ~m.pte[q][a].dirty}

(* A bug: the page stays writable in the task it is taken from. *)
try_to_share_writable(mm, p, a, q) ==
  LET w == WithTable(mm, p, a)
      e == w.pte[q][a]
  IN  [w EXCEPT !.pte[p][a] = [e EXCEPT !.rw = FALSE], !.map[e.page] = @ + 1]

try_to_share(mm, p, a, q) ==
  LET w == WithTable(mm, p, a)
      e == [w.pte[q][a] EXCEPT !.rw = FALSE]
  IN  [w EXCEPT !.pte[q][a] = e, !.pte[p][a] = e, !.map[e.page] = @ + 1]

(* do_no_page(): share_page() finds another task that runs the executable. *)
SharePage(p, a) ==
  /\ InKernelOrUser(p, a)
  /\ ~Present(m.pte[p][a])
  /\ exe[p] /\ a \in FileBacked
  /\ Sharers(p, a) # {}
  /\ \/ /\ CanPut(m, p, a)
        /\ m' = try_to_share(m, p, a, Max(Sharers(p, a)))
        /\ stale' = IF <<Max(Sharers(p, a)), a>> \in stale
                    THEN stale \cup {<<p, a>>} ELSE stale
        /\ UNCHANGED <<mem, mode, exe, held, at, view>>
     \/ /\ ~CanPut(m, p, a)
        /\ DoExit(m, p)
  /\ UNCHANGED task

(* do_no_page(): nobody to share with; get a page and read it in. *)
StartLoad(p, a) ==
  /\ InKernelOrUser(p, a)
  /\ ~Present(m.pte[p][a])
  /\ exe[p] /\ a \in FileBacked
  /\ Sharers(p, a) = {}
  /\ \/ /\ FreeFrames(m) # {}
        /\ m' = Take(m, get_free_page(m))
        /\ held' = [held EXCEPT ![p] = get_free_page(m)]
        /\ mode' = [mode EXCEPT ![p] = IF @ = "user" THEN "user_load" ELSE "syscall_load"]
        /\ at' = [at EXCEPT ![p] = a]
        /\ UNCHANGED <<mem, exe, view, stale>>
     \/ /\ FreeFrames(m) = {}
        /\ DoExit(m, p)
  /\ UNCHANGED task

(* do_no_page() after bread_page(). *)
EndLoad(p) ==
  /\ mode[p] \in {"user_load", "syscall_load"}
  /\ \/ /\ CanPut(m, p, at[p])
        /\ m' = put_page(m, p, at[p], held[p])
        /\ mem' = [mem EXCEPT ![held[p]] = File]
        /\ held' = [held EXCEPT ![p] = None]
        /\ mode' = [mode EXCEPT ![p] = IF @ = "user_load" THEN "user" ELSE "syscall"]
        /\ at' = [at EXCEPT ![p] = IF mode[p] = "user_load" THEN None ELSE @]
        /\ UNCHANGED <<exe, view, stale>>
     \/ /\ ~CanPut(m, p, at[p])
        /\ DoExit(FreePage(m, held[p]), p)
  /\ UNCHANGED task
-----------------------------------------------------------------------------
(* A system call that will write to user memory: verify_area() calls       *)
(* write_verify() for the page, then the call may sleep.                   *)
VerifyArea(p, a) ==
  /\ Syscalls
  /\ mode[p] = "user"
  /\ \/ UnWp(p, a, "syscall", a)
     \/ /\ ~Present(m.pte[p][a]) \/ m.pte[p][a].rw
        /\ mode' = [mode EXCEPT ![p] = "syscall"]
        /\ at' = [at EXCEPT ![p] = a]
        /\ UNCHANGED <<m, mem, held, exe, view, stale>>
  /\ UNCHANGED task

(* put_fs_byte() by the kernel: the processor does not look at the         *)
(* write-protection of a page in supervisor mode.                          *)
PutFsByte(p) ==
  LET e == m.pte[p][at[p]] IN
  /\ mode[p] = "syscall"
  /\ Present(e)
  /\ mem' = [mem EXCEPT ![e.page] = p]
  /\ m' = [m EXCEPT !.pte[p][at[p]].dirty = TRUE]
  /\ view' = [view EXCEPT ![p][at[p]] = p]
  /\ stale' = (stale \ {<<p, at[p]>>})
              \cup {<<q, at[p]>> : q \in {r \in Procs \ {p} : /\ at[p] \in FileBacked
                                                            /\ m.pte[r][at[p]].page = e.page}}
  /\ mode' = [mode EXCEPT ![p] = "user"]
  /\ at' = [at EXCEPT ![p] = None]
  /\ UNCHANGED <<task, held, exe>>

Next ==
  \/ \E p, c \in Procs : Fork(p, c)
  \/ \E p \in Procs : Exit(p) \/ Release(p) \/ EndLoad(p) \/ PutFsByte(p)
                    \/ StartExec(p) \/ ExecError(p) \/ SetExecutable(p) \/ EndExec(p)
  \/ \E p \in Procs, a \in Addrs :
       \/ WpFault(p, a) \/ Write(p, a) \/ EmptyPage(p, a)
       \/ SharePage(p, a) \/ StartLoad(p, a) \/ VerifyArea(p, a)

Spec == Init /\ [][Next]_vars
-----------------------------------------------------------------------------
TypeOK ==
  /\ m.map \in [Frames -> Nat]
  /\ m.dir \in [Procs -> [Dirs -> Frames \cup {None}]]
  /\ m.pte \in [Procs -> [Addrs -> [page : Frames \cup {None}, rw : BOOLEAN, dirty : BOOLEAN]]]
  /\ mem \in [Frames -> Procs \cup {Zero, File}]
  /\ task \in [Procs -> Frames \cup {None}]
  /\ held \in [Procs -> Frames \cup {None}]
  /\ mode \in [Procs -> {"none", "user", "user_load", "syscall", "syscall_load",
                       "exec", "close", "zombie"}]

(* What uses frame x: task structures, page tables, pages, pages being     *)
(* read in.                                                                *)
Uses(x) ==
  {<<"task", p>> : p \in {q \in Procs : task[q] = x}}
  \cup {<<"dir", r[1], r[2]>> : r \in {s \in Procs \X Dirs : m.dir[s[1]][s[2]] = x}}
  \cup {<<"pte", r[1], r[2]>> : r \in {s \in Procs \X Addrs : m.pte[s[1]][s[2]].page = x}}
  \cup {<<"held", p>> : p \in {q \in Procs : held[q] = x}}

(* mem_map[] is exact: it counts every use of a page and nothing else, so  *)
(* no page leaks, none is given out twice and free_page() never panics     *)
(* with "trying to free free page" (memory.c:98); the undoing of a fork()  *)
(* that ran out of pages half-way included.                                *)
MapCountsUses == \A x \in Frames : m.map[x] = Cardinality(Uses(x))

(* A page that some task may write is that task's alone. *)
WritableIsPrivate ==
  \A p \in Procs, a \in Addrs :
    m.pte[p][a].rw => m.map[m.pte[p][a].page] = 1

(* What task p finds in page a is what it wrote there itself, inherited    *)
(* from its parent or has from its executable.                             *)
FindsOwn(p, a) ==
  Present(m.pte[p][a]) => mem[m.pte[p][a].page] = view[p][a]

(* memory.c:240-243, "when users try to write to a shared page.  It is     *)
(* done by copying the page to a new address": no task ever sees what      *)
(* another one wrote, by system calls, too, and though the fault and the   *)
(* retried write are not atomic: not in its bss, heap and stack, and in    *)
(* its text and initialized data only in a page that is stale, by one of   *)
(* the three ways listed there.                                            *)
CopyOnWrite ==
  \A p \in Procs, a \in Addrs : <<p, a>> \notin stale => FindsOwn(p, a)

(* The same without the exception.  try_to_share() is to share a page "if  *)
(* it is clean" between tasks that "share the same executable"             *)
(* (memory.c:284-290), so all of them find what is in the file.            *)
Isolation ==
  \A p \in Procs, a \in Addrs : FindsOwn(p, a)
=============================================================================
