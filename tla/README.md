# A TLA+ development for Linux 0.11

The modules in this directory model the parts of the kernel under
`src/linux-0.11/` whose correctness depends on interleavings: tasks that sleep in
the middle of an operation, interrupts that come between two statements, faults
that sleep while they hold a page, drives that fail. Paths below are relative to
`src/linux-0.11/`.

## 1. The system

Linux 0.11 is a non-preemptive kernel for one processor. A task inside the kernel
runs until it calls `schedule()`, usually from `sleep_on()`; only interrupts come
in between, except where the code has `cli()`. In user mode the timer switches
tasks at any instruction. Everything that is hard in this code follows from those
two facts: what was tested before a sleep must be tested again after it, and what
an interrupt handler shares with a task must be safe between any two statements.

| Component | State | Operations | Interacts with | Hard behaviour | What makes it correct |
|---|---|---|---|---|---|
| Wait queues (`kernel/sched.c`) | `*p`, `tmp` in the sleepers' frames, `state` | `sleep_on`, `wake_up`, the lock loops of buffers, inodes, super blocks | everything | the queue exists only on the stacks; one wakeup for many sleepers | nobody is forgotten, nobody woken after leaving |
| Interruptible sleep (`kernel/sched.c`) | the same | `interruptible_sleep_on` | terminals, signals, exit | tasks leave from the middle of the queue | `*p` never stale |
| Scheduler, processes, signals (`kernel/sched.c`, `fork.c`, `exit.c`, `signal.c`, `sys.c`) | `task[]`, counters, pids, signal sets | `schedule`, fork, exit, waitpid, kill, pause, alarm, masks, sessions and groups | everything | exits that sleep half-way, a signal just before a sleep, pids that wrap | every task has a living father, a waiter is told, runnable tasks run, killed ones end |
| Timers (`kernel/sched.c`) | a delta list | `add_timer`, `do_timer` | floppy driver | functions add timers inside the loop | never early, all fire |
| Request queue (`kernel/blk_drv/ll_rw_blk.c`, `blk.h`) | `request[]`, one list per device | `make_request`, `add_request`, `end_request` | buffer cache, drivers | interrupt against task; full table; requests dropped in a row; the elevator | no waiter lost, no request starved |
| Hard disk and floppy drivers (`kernel/blk_drv/hd.c`, `floppy.c`) | `do_hd`, `do_floppy`, `reset`, `recalibrate`, the request's `errors` | the strategy routines and the interrupt handlers | request queue, timers | an error, a retry, a reset in the middle of a block | each transfer is for the head of the list and goes where that stands; every request ends |
| Buffer cache (`fs/buffer.c`) | buffer heads, hash table, free list | `getblk`, `bread`, `breada`, `brelse`, `sync_dev`, `sys_sync` | request queue, every file system operation | up to three sleeps inside `getblk`; errors; no free buffer | one buffer per block, no write lost, counts exact |
| Inode table and mounting (`fs/inode.c`, `super.c`) | `inode_table[]`, locks, counts, one mounted device | `iget`, `iput`, `get_empty_inode`, `new_inode`, `free_inode`, `sync_inodes`, mount, umount | buffer cache, bitmaps | an inode is found, slept for, and is another one then | one entry per inode, counts exact, no change lost |
| File data and block bitmap (`fs/inode.c`, `bitmap.c`, `truncate.c`, `file_dev.c`) | `i_zone[]`, indirect blocks, bits, `f_pos` | `_bmap`, `new_block`, `free_block`, `truncate`, read, write, lseek | buffer cache | the device fills, reads fail, half-way through a tree | reads return what was written; a block has one owner; none is lost |
| Directories and open files (`fs/namei.c`, `open.c`, `fcntl.c`) | entries, link counts, references, descriptors | creat, open, mknod, mkdir, rmdir, unlink, link, chdir, stat, dup, close, fork, exit | inode table | many failing paths, each with references to give back; entries used after a sleep | references, links and entries agree |
| Memory (`mm/memory.c`, `kernel/fork.c`, `kernel/exit.c`, `fs/exec.c`) | `mem_map[]`, page directory, page tables | fork, exit, exec, copy on write, demand loading, sharing | buffer cache, scheduler | out of memory half-way; a fault sleeping with a page in hand; stale checks | counts exact, stores private |
| Pipes (`fs/pipe.c`) | head, tail, page, `i_count`, `i_wait` | read, write, close | wait queues, files | readers and writers on one queue, wrap-around, closing | a FIFO channel; nobody hangs |
| Terminals (`kernel/chr_drv/`) | three character queues | line discipline, interrupts | interruptible sleep, signals | readers interrupted by signals | only the sleeping readers are modelled |

`PROJECT.json` lists every component, modelled or not, and the hazards: the places
in the code where a test would hardly reach, each with the properties that look
there or the reason why none does.

## 2. Modules

| Module | Models | Variables and actions |
|---|---|---|
| `SleepOn` | `sleep_on()`/`wake_up()` around one lock byte | `state`, `tmp`, `wait` (`*p`), `lock`; `WaitOn`, `LockOn`, `Resume` (a return of `schedule()`), `Unlock` |
| `SleepOnProofs`, `InterruptibleProofs`, `DrivesProofs`, `BufferCacheProofs`, `InodesProofs`, `MemoryProofs`, `PipeProofs`, `ProcessProofs` | the theorems about `SleepOn`, `InterruptibleSleep`, `MCDrives` with its components, `BufferCache`, `Inodes`, `Memory`, `Pipe`, `Process` and their proofs (section 4) | |
| `InterruptibleSleep` | `interruptible_sleep_on()` under `tty_read()` | as above plus `chars`, `signal`; `tty_read`, `Again`, `Leave`, `Input`, `Signal`, `Handle`, `do_exit`, `release`, `schedule` |
| `Process` | the task table, the scheduler and the process calls | `task` (the structures), `current`, `last_pid`, `shell` (init's variable); `Schedule`, one action per system call, `Kernel` for what a task does after a sleep, `Tick`, `Idle`, `Wake` |
| `Timers` | the timer list | `add_timer`, `Tick`, `Expire`, `EndOfTick` |
| `BlkRequest` | pure: `IN_ORDER`, where `add_request()` inserts, which slot `make_request()` takes | |
| `RequestQueue` | one device's requests, tasks against the interrupt | `list`, `pc` (where each block's task is), `rw`; `make_request`, `SleepForRequest`, `Repeat`, `end_request` |
| `HardDisk` | `hd.c` behind that queue | `do_hd`, `drive` (the command under way), `errors`, `done`, `reset`, `recalibrate`, `strategy`; one action per branch of `do_hd_request()` and per outcome of each interrupt |
| `Floppy` | `floppy.c` behind that queue | `do_floppy`, `fd_errors`, `fd_reset`, `fd_recalibrate`, `current_track` and `at` (where the driver takes the heads to be, and where they are); the same kinds of action |
| `MCDrives` | composition: the queue with one of the two drivers, chosen by `major` | |
| `BufferCache` | `fs/buffer.c` over `ll_rw_block()` with the request lists of `BlkRequest` | buffer heads, data versions, request lists, disk; one action per stretch between two points where something else may run |
| `Inodes` | the inode table, the inode bitmap, mounting | `inode`, `imap`, `disk`, `sb`; `StartWrite`/`EndWrite` (`write_inode`), `GetEmpty`/`EmptyWait`, `Scan`/`Read`/`Found`/`Cross` (`iget`), `Put`/`Repeat`/`free_inode` (`iput`), `new_inode`, `sync_inodes`/`Sync`, `DevicePut` (mount and umount after `iput()` of the device's inode) and the other steps of these |
| `FileData` | the data of regular files and the block bitmap | `zmap`, `store`, `inode`, `pos`; the levels of `_bmap()`, `new_block`, `WriteData`, `ReadData`, `truncate`, `free_block` |
| `Namei` | path names, directory entries, links, descriptors | `fs` (inodes and entries), `buf`, `pwd`, `filp`, `file`; `Begin`, `Walk*` (`get_dir`), `Find`, `Iget`, then one action per call up to its next sleep; `fs.raced` ends the model (section 5) |
| `Memory` | frames, tables, tasks | `Fork`, `Exit`, `Release`, `StartExec`/`ExecError`/`SetExecutable`/`EndExec`, `WpFault`, `Write`, `EmptyPage`, `SharePage`, `StartLoad`/`EndLoad`, `VerifyArea`/`PutFsByte` |
| `Channel` | what a pipe promises: a bounded FIFO | `Send`, `Receive` |
| `Pipe` | `read_pipe()`, `write_pipe()`, closing; implements `Channel` | `Call`, `Blocked`, `ReadChunk`, `WriteChunk`, `Done`, `Close` |
| `MCBufferCache`, `MCInodes`, `MCNamei`, `MCFileData`, `MCMemory`, `MCInterruptible`, `MCProcess` | constants and symmetry for TLC; the other runs check the modules themselves | |

How the modules rest on each other. `SleepOn` justifies an abstraction the others
use: a sleeper of a lock or of a wait queue is a task that goes on, in any order,
once the queue has been woken. `RequestQueue` takes a drive to be something that
ends the first request of its list; `MCDrives` shows that `HardDisk` and `Floppy`
are that (`DrivesQueue`: the composition implements `RequestQueue!FairSpec`).
`BufferCache` shows that a block read has its last contents and that a buffer in
hand stays what it is; `Inodes` and `FileData` take a block to be just that.
`Inodes` shows that there is one entry per inode and that counts are exact;
`Namei` therefore knows an inode by its number. `Pipe` implements `Channel`.

In `BufferCache`, `Inodes`, `FileData`, `Namei` and `Pipe`, `pc[t]` names the place in the code where
the task is, `f[t]` holds its local variables, and a step runs from one sleep to
the next; `cpu` in the first two is the task that is not preempted. In `Process`
the scheduler is itself modelled, so `current` is a variable of the code.

Data are abstracted to what the properties tell apart. The contents of a block in
`BufferCache` are a version number, of an inode in `Inodes` a bit that every change
flips and the link count, of a file in `FileData` the number of the task that wrote
the byte. The hash chains and the free list of the cache are sets, so which of
several equally good buffers `getblk()` takes is left open, and `breada()` has one
ahead block; the position of `get_empty_inode()`'s search is left open too. In
`Memory` a page's contents name who wrote it last; `view` is what each task must
find. `latest`, `written`, `view` and the pipe's `sent` are history variables, and so are
`ended`, `moved`, `stale` and `fs.raced`: they record that a thing has happened which the
code does not handle, and the properties that except it say so.

The operators whose names extend another one (`wake_up_keeps`, `Orphaned_silent`,
`Sector_first`, ...) are plausible bugs; the properties are known to notice them.

## 3. Runs

| Run | Instance | Shows |
|---|---|---|
| `sleep_on` | 4 tasks | no orphan, no stale `tmp`, every sleeper wakes however deep in the chain |
| `drives` | 4 blocks, 3 slots (2 for writes); a disk of 3 sectors × 2 heads with a partition of 8 sectors, or a floppy of as many; the last block lies past the end of either | the list stays a sweep, waiters are remembered (unless dropped requests emptied the list), transfers go where the head of the list stands, the drivers implement the queue, every request is served |
| `buffer_cache` | 2 tasks, 2 buffers, 2 blocks of a file system and one of a raw device, 2 slots, `bread`, `breada`, `block_write`, `sync_dev`, `sys_sync`, read errors | one buffer per block, no lost write, reads are current, counts, locks and identities right, nobody forgotten on `buffer_wait` |
| `inodes` | 2 tasks, 3 entries, 2 inodes of the root device and the root of another; one task does everything, the other looks up | one entry per inode, exact counts, no change lost |
| `file_data` | 2 tasks with a file each, 4 blocks, 1 direct zone, 2 words per block, read errors | reads return what was written, no block has two owners, none is lost |
| `namei` | 2 related processes that use the same names and directory, 3 inodes, 4 entries per directory, 2 descriptors, 2 files | up to the first race `namei.c` does not handle, references, link counts and entries agree, entries survive other calls |
| `memory` | 2 tasks, 8 frames, 2 tables, exec, sharing, system calls | `mem_map[]` is exact, writable means private, a store changes one task's page, stale pages of the executable excepted |
| `pipe` | 2 readers, 2 writers, ring of 4, 8 bytes, calls of up to 4 bytes | refinement of `Channel`, justified sleeps, true end of file, closing is noticed |
| `interruptible` | 3 tasks, 2 characters | the head of the queue is never stale |
| `timers` | 3 functions, delays up to 3, 4 calls | never early, late only by what was added after it, all fire |
| `process` | init and 2 slots, pids up to 4, 4 forks, all calls, all arguments of `waitpid()` | every task has a living father, no sleeper in `waitpid()` misses a dead child |
| `process_live` | init and 2 slots, forks without bound, `exit`, `kill`, `pause`, `waitpid` | unless forks go on for ever, a runnable task runs, and SIGKILL ends a task wherever it sleeps |

Each property has a mutant in `PROJECT.json`: a plausible bug in the code it is
about, under which TLC finds it violated.

### Bounds

All bounds are constants.

* `BufferCache`: `MaxVersion` = 1, but versions wrap around: a block's contents alternate
  between two, so that a second write, during the transfer of the first, makes a difference
  again. Three blocks over two buffers make every block replaceable, and two
  tasks that hold both buffers make `getblk()` sleep on `buffer_wait`. One task reads ahead
  and syncs, the other reads and writes a device. With
  `NR_REQUEST` = 2 writes have one slot, so the table is full often. `Raw` are the
  devices written by `block_write()`, `Errors` the commands that may fail: with read
  errors only, since a failed write loses the data by design.
* `RequestQueue`, `HardDisk`, `Floppy`: in `make_request()`'s window between the
  scan and the sleep at most one request is served, since a drive needs milliseconds for the
  next one; but any number is dropped, since the strategy routines end the requests for blocks
  past the end of the device at once. `nr_sects` = 8 leaves the last block outside. `FdBlocks`
  are one block on each of two tracks and that one. `MaxStuck` bounds the failures the floppy
  driver does not count (section 5); counted ones go up to the drivers' own limits.
* `Inodes`: three entries for three inodes and two users of `get_empty_inode()`,
  so entries are reused and sometimes none is free. `Private` are the numbers only one
  task looks up, and unlinks; `Ops` says what each task does: the first one everything, the
  second one lookups, because a second task that syncs, mounts or unmounts beside one that
  frees inodes breaks the properties (section 5). Mount and umount begin with the `sync_dev()`
  that `iput()` of the device's inode calls (`fs/inode.c:171`); the operation `sync` stands for
  `iput()` of any other opened block special file, too.
* `FileData`: with one direct zone and two words per block, calls at offsets 1 and
  6 reach the direct, the indirect and the double indirect part of the tree; four blocks do not hold
  both files, so `new_block()` fails at every level. `Limit` bounds the sizes;
  `IOErrors` says which reads may fail: those of an indirect block that is only read
  (`"hole"`) would make `file_read()` return zeros and are left out.
* `Namei`: three inodes run out; `MaxEntries` is the capacity of a directory's block.
  `Paths` give both tasks the name of one directory; one makes, enters and removes it, and
  files in it, the other one, which may have it as current directory, does the same. `Ops`
  divide the calls so that each of them meets `unlink` and `rmdir` of the same name.
* `Memory`: with eight frames fork, fault, share and exec each succeed somewhere
  and run out of memory somewhere else; with fewer, sharing a page never succeeds.
  The arguments of `execve()` take one page (`ArgPage`), and `CloseOnExec` says whether
  the call may sleep in `sys_close()` before the old pages are freed.
* `Pipe`: the bytes go round the ring twice. `Timers`: `MaxAdds` = 4 lets a timer
  function add a timer while two others wait.
* `Process`: `MaxPid` = 4 with `MaxForks` = 4 makes `last_pid` wrap around while old
  tasks are there. `MaxSets` bounds the calls that set masks, handlers, alarms,
  sessions and groups, `MaxAlarm` the ticks an alarm is ahead, `WaitFor` are the arguments
  of `waitpid()`. In `process_live` forks are not bounded (`CountForks` = FALSE).
  `Priority` = 1 leaves counters of 0 and 1: a runnable task with none waits behind the
  tasks that have one, which new children and those recharged in their sleep do.

### Fairness

* `SleepOn`: the holder of a lock unlocks (every request ends, every inode read
  returns), and a runnable task runs, which `process_live` shows of the scheduler as long as
  forks do not go on for ever.
* `MCDrives`: a drive answers every command, with success or an error; the code of
  a strategy routine, and a task on its way into `sleep_on()`, goes on. That a request
  then ends is checked, not assumed.
* `Pipe`: strong fairness of each task; it must be strong because one task's
  stretch disables the others.
* `Timers`: the clock interrupt keeps coming.
* `Process`: the clock ticks, the kernel's code goes on, disks answer (`Wake`), and
  init's program, which is in `init/main.c`, gets to its next call: strong fairness,
  because ticks may come between. Nothing is assumed of the user's programs: they may
  compute for ever, which is what `RunnableRuns` is about.

Deadlock checking is off where the system may stop: both pipe ends closed, all
terminal readers dead, no more timers added, where the code ends in
a `panic()` (`inodes`, `namei`; section 5, or no inode left), and after a race in `namei`.

## 4. Proofs

The theorems hold for every value of the constants that satisfies the ASSUMEs of the
modules. In each proofs module the invariant is a conjunction of named parts, there is
one lemma per action, and the last theorems read the checked properties off the
invariant. `PROJECT.json` lists the theorems.

| Module | Theorems | Invariant |
|---|---|---|
| `SleepOnProofs` | `QueueInvariant`, `NoLostWakeup` (`NoOrphan`), `NoStaleSaved` (`SavedAsleep`) | `QueueInv` |
| `InterruptibleProofs` | `HeadNeverStale` (`HeadIsInside`) | `HeadInv` |
| `DrivesProofs` | `DriversImplementQueue`, `AlwaysOneSweep` (`OneSweep`), `RequestersWoken` (`NoStrandedRequester`), `DiskMovesRightSectors` (`RightSectors`), `FloppyOnRightTrack` (`RightTrack`) | `DrivesInv` |
| `BufferCacheProofs` | `OneBufferPerBlock` (`NoAlias`), `BusyBuffersKept` (`BusyKeepsBlock`), `CountsAreUsers` (`CountIsUsers`), `LocksAreOwned` (`LockHasOwner`), `BufferWaitersWoken` (`BufferWaiterRemembered`), `NothingWrittenIsLost` (`NoLostWrite`), `ReadersSeeTheLatest` (`BreadReturnsLatest`) | `Shape`, `UseInv`, `DataInv` |
| `InodesProofs` | `InodeOnce` (`OneInodePerNumber`), `CountsAreUses` (`CountIsUsers`), `NoInodeLost` (`NoLostInode`), `InodesTyped` (`TypeOK`), `InodesSafe` (the first three) | `IInv`, `Origins` |
| `MemoryProofs` | `MemoryInvariant`, `MapIsExact` (`MapCountsUses`), `WritablePagesArePrivate` (`WritableIsPrivate`), `NobodySeesAnothersWrites` (`CopyOnWrite`), `OnlyFilePagesAreStale` | `MemInv` |
| `PipeProofs` | `PipeImplementsChannel` (`IsChannel`), `NobodySleepsForNothing` (`SleepIsJustified`), `EofOnlyAtEnd` (`EofIsTrue`) | `PipeInv` |
| `ProcessProofs` | `ProcessInvariant`, `NobodyIsOrphaned` (`FatherLives`), `NoDeathIsMissed` (`WaiterIsTold`) | `ProcInv` |

* **Wait queues.** `NoOrphan` alone is not inductive: it has to be known that the saved
  tasks are asleep (`SavedAsleep`), that `*p` is asleep (`HeadAsleep`) and above all that
  no task has two wakers (`OneWaker`) — otherwise a resumed task could wake one that
  another frame still points at. `OutsideUnreferenced` (a task outside `sleep_on()` is in
  nobody's `tmp`) is the lemma all actions use. In `interruptible_sleep_on()` only the head
  can be relied on, which with the types is inductive by itself.
* **Drivers.** The queue first: one request per block (`OncePerBlock`), so different
  requests have different sectors, `IN_ORDER` is total on the list, and an
  `add_request()` cannot open a third sweep (`OneDescent`); a task on its way into
  `sleep_on()` has a request before it unless some were dropped in its window
  (`SomeoneWakes`), because at most one of the two or more before it was served there. Then every step of a driver is a
  step of the queue or none, which is the refinement's safety part. `HdInv` ties the
  command under way, `do_hd` and the sectors done to the head of the list. `FdInv` says
  that outside a reset or recalibration the driver knows the track or knows that it does
  not; it needs `FdTracks`, that 255 is no track of the floppy and both sectors of a block
  are on one track, true of all formats in `floppy_type[]`.
* **Buffer cache.** One buffer per block needs only the shape of the buffer heads:
  `FlagsOnly` says that counting, marking, locking and unlocking move no block,
  `ClaimMoves` that the end of `getblk()`, under the conditions tested after its last sleep,
  moves one unused, clean, unlocked buffer to a block that has none. `UseInv` adds what
  the local variables of a task stand for at each place (`Locals`), and that a lock belongs to
  exactly one request, in a list or about to be made (`Locks`). `DataInv` says where the
  last contents of a block are: in a buffer that is dirty, up to date or being written
  (`Fresh`), and unless one of these is there, on the disk (`Kept`); `Transfers` covers the
  moment between the transfer and `end_request()`. The two theorems about data have the
  hypothesis `Errors \subseteq {READ}`, since a failed write is dropped by design.
  `EnoughBuffers` excludes the deadlock in which every buffer is held by a `breada()` that
  waits for another; the kernel has far more buffers than tasks.
* **Inode table.** `Task(t)` says what a task relies on at each place: the entry from
  `get_empty_inode()` is still blank and counted once (`Fresh`), what `iget()` is asked
  for has a name and so is not being freed (`Named`), an inode that is read or written is
  locked, one that is truncated has no link and one use, the mount point someone crosses
  keeps its device. `Entry(e)` says that an unused entry is neither locked nor dirty, that
  `i_mount` is the super block's `s_imount`, and that outside a read the contents are
  the last ones. No two tasks read or write one entry (`OneIO`) or hold the super block
  (`OneInSuper`), and the places where the code never sleeps are those of the running
  task (`Running`). The three properties need each other and all of this. What a change of
  an entry may do to other tasks is `Harmless`; `EntryStep` and `SuperStep` are the two
  lemmas most actions use. Four theorems have two hypotheses about the behaviour, because the
  code excludes neither situation (section 5): `WriteAndFreeApart`, no inode is freed
  while another task writes it, and `OneUnmounter`, one task at a time is in the `iput()` of
  `sys_umount()`. `InodesSafe` has none: if at most one task unmounts, and no task runs
  `sync_inodes()`, by sync, mount or umount, while another may free inodes (`OpsApart`, which
  the instance of the run satisfies, as do any tasks of which none syncs, mounts or
  unmounts), both follow from where the tasks' frames and inodes come from (`Origins`).
* **Memory.** `Sound` is stated of a memory, of the task pages and of the held pages as
  values, with one more page that is taken and in no place yet, because fork and the
  faults call several functions of `memory.c` in one step: `TakeSound`, `FreeSound`,
  `PutSound`, `TableSound`, `UnWpSound`, `ShareSound`, `ClearIs` and `CopyIs` are about one
  function each, and the actions chain them. Exact counts alone are not inductive. A page
  that may be written, a page table and a held page have one use (`Alone`), present pages
  are in a table (`InTables`), and a shared page is at the same address in all its tasks
  (`SameAddress`), without which sharing could put a page of a task's data under an
  address of the file. `Modes` says what a sleeping task may rely on: a loading task's
  entry is still absent, a page `verify_area()` made writable still is if it is not of the
  file. `AllSeen` is `CopyOnWrite` of bss, heap and stack, with absent pages counted as
  zeros. For the pages of the executable `FileSeen` adds that a page without the dirty bit is as
  in the file, which is what `try_to_share()` relies on; `stale` has those of which this is not
  so (section 5), and what was shared or inherited from them, and only such pages
  (`OnlyFilePagesAreStale`). `UsesCounted` turns
  the set of tagged uses in the property into the sum of the four counts.
* **Pipes.** `RingInv`: the bytes from `tail` on are those with the numbers `received` + 1
  to `sent`. The refinement mapping reads the channel from the ring; the work is the
  arithmetic of `& (PAGE_SIZE-1)` when a chunk ends at the ring's end.
* **Processes.** `Family` has unique pids though `last_pid` wraps, `init` alive with
  nothing but SIGCHLD pending, and a father that has not begun to exit for all others. A
  task that sleeps in `waitpid()` with a dead child its argument means has SIGCHLD pending or
  blocked, for a group if nobody was moved (`Told`). `Kept` is one lemma for the many calls that touch neither.

The assumptions are those of the code's configuration (`NULL` is no task, tables and
sets are finite, at least two request slots, more pids than slots, the geometry of the
drives), and the ones of the model named in sections 3 and 6, in particular that no task
is preempted in the kernel.

Only model-checked: liveness, because fairness and ENABLED are beyond the prover
(`SleeperWakes`, `EveryRequestServed` and the fairness in `DrivesQueue`, `CloseIsNoticed`,
`EveryTimerFires`, `RunnableRuns`, `KillIsFinal`); `Timers`, whose delta list makes every
property a sum over a sequence; `FileData`, whose trees are walked by induction; and
`Namei`. What `RECURSIVE` operators and folds compute is beyond the provers too; no module has a
RECURSIVE operator.

## 5. Where the code does something else

The models follow the code. In these places it does not do what its comments, or
what one would, expect; where a statement is named, TLC refutes it in the
instance of the run of its module, or in the one that is named. No run does that again:
the statements stay in the modules as definitions.

* `RequestQueue!WaitsForRequests`, a task that waits for a request does so while requests are in use
  (`ll_rw_blk.c:24`): between the scan of `make_request()` and its `sleep_on()` an interrupt may
  end the head of the list, and `do_hd_request()` (`hd.c:301-307`) or `do_fd_request()`
  (`floppy.c:436-439`) then ends every request behind it that is for a block past the end of the
  device, by `goto repeat`. The list is empty, all wakeups came too early, and the task sleeps until
  somebody else makes a request and that one ends. `NoStrandedRequester` excepts windows with
  dropped requests (`ended`).
* `Memory!Isolation`, a task finds in its memory what it put there: `un_wp_page()`
  makes a copy without the dirty bit (`mm/memory.c:235`), and until the write is
  retried `try_to_share()` takes the page for an unchanged page of the file; and
  `do_execve()` sets `current->executable` before it sleeps in `sys_close()` and frees
  the old pages (`fs/exec.c:321`), so another task shares the old program's page as the new one's.
* `InterruptibleSleep!ZombieStaysDead`: the `tmp` saved in `interruptible_sleep_on()` may be a
  task that has left, and died; it is set running again (`kernel/sched.c:185`).
* `block_write()` of a whole block leaves `b_uptodate` clear (`fs/block_dev.c:28`), so
  a `bread()` before the next sync reads the old block over it. `BufferCache` keeps
  devices that are written raw apart from the ones read (`Raw`).
* `sys_mkdir()` that finds no room for the entry frees its block twice, and
  `free_block()` panics (`fs/namei.c`, `bitmap.c:70`); `panic` is an outcome in `Namei`.
* `namei.c` has no locks on directories. Where two tasks use the same names, four things happen
  that it does not handle; `fs.raced` tells that one has, nothing more happens in the model then,
  and the four properties of `Namei` hold up to it. Without any one of the four conditions
  TLC finds a property violated.
  - A call reads a number from an entry, sleeps in `brelse()` or `iput()`, and calls `iget()`
    (lines 263-267, 320-324, 392-398); another one unlinks it meanwhile, and the inode is freed, or is another file
    (`Awaited`).
  - `sys_rmdir()` tests `i_count` (624) and then sleeps in `empty_dir()` and `brelse()`; another
    task enters the directory, and makes files in what is removed (`BeingRemoved`).
  - `sys_unlink()` and `sys_rmdir()` clear the entry they found before they slept in `iget()` (650, 710); it
    may have been cleared, and used again for another file, so the count of one inode
    and the entry of another go (`Changed`).
  - `sys_link()` counts the link after `brelse()` (773); an unlink of the new name before that takes
    off a link not yet counted (713), and one of both names frees an inode in use (`Uncounted`).

  Two calls that create the same name may both find that it is not there, sleep in `new_inode()`, and
  make two entries of it; no property is about that.
* `sys_umount()` looks for busy inodes once (`fs/super.c:187`). A task that sleeps in
  `iget()` on its way across the mount point then finds no super block; the panic
  is an outcome in `Inodes`.
* `free_inode()` clears an entry together with its `i_lock` (`fs/bitmap.c:133`) and does
  not look whether the `sync_inodes()` of another task sleeps in `bread()` to write it, which may
  have begun during `truncate()`. The writer goes on with `i_num` = 0, or with the inode the
  entry has been reused for: it overwrites another slot of the block and removes `i_dirt` and
  `i_lock` (`fs/inode.c:330`). `Slot` is what it hits. With `sync`, `mount` or `umount` in the `Ops`
  of the second task `NoLostInode` fails: all of them, and every `iput()` of an opened block
  special file, run `sync_dev()` and with it `sync_inodes()` (`fs/inode.c:171-174`, `fs/buffer.c:72`).
* `read_super()` sets `s_dev` before it waits for the lock of a free super block
  (`fs/super.c:117-123`); `ReadSuper` does so after the wait.
* `s_imount` is still set while `sys_umount()` sleeps in `iput(sb->s_imount)`
  (`fs/super.c:191`). A second `sys_umount()` passes all tests and gives the same use
  back: "iput: trying to free free inode". With `umount` in the `Ops` of the second task
  `CountIsUsers` fails.
* Two writers of one file may each allocate the same block of it in `_bmap()`, and
  one is lost (`fs/inode.c:83`); in `FileData` each task has a file of its own.
* `bad_rw_intr()` and `bad_flp_intr()` look at `CURRENT->errors` after `end_request()`
  (`hd.c:246`), which is the next request or a null pointer. The floppy driver, after the
  last request was given up, resets the controller with an empty list; a request made
  meanwhile starts a second chain of handlers. `FdTask` excludes it.
* A failing recalibration of the floppy, and a controller that takes no bytes, lead to
  another reset without an error being counted (`floppy.c:346`): without `MaxStuck`
  `EveryRequestServed` does not hold.
* A retry of the second sector of a partition's last block fails the test
  `block+2 > nr_sects` (`hd.c:304`) and ends the request with an error. `drive_busy()`
  compares with `i == READY_STAT | SEEK_STAT` (`hd.c:211`), which is always true.
* The last `else` of `sys_kill()` belongs to the `if` before it (`kernel/exit.c:73`):
  for `pid` < -1 nothing is sent. `Killed` in `Process` is what the code does.
* `Process!WaiterIsAlwaysTold`: a task in `waitpid()` with the argument 0, or one below -1, waits
  for the children in a group (`kernel/exit.c:158-163`). While it sleeps, another task of its session
  may move it, or a child of it, with `sys_setpgid()` (`kernel/sys.c:195`), dead children
  included: one whose SIGCHLD is spent is then in the group, and the task sleeps on. That
  takes four tasks and two calls of `sys_setpgid()`; TLC refutes it with `NR_TASKS` = 5, `MaxPid` = 5,
  `MaxForks` = 3 and `MaxSets` = 2, more than the run has.
  `WaiterIsTold` speaks of these arguments as long as nobody was moved (`moved`), and of a
  pid and -1 always.
* `schedule()` recharges the counters only when every runnable task has used up its own
  (`kernel/sched.c:124-140`). A child starts with a full counter that nobody gives up for it, so as
  long as tasks fork and their children exit before they have used it up, a task whose counter is 0 never runs. `RunnableRuns`
  and `KillIsFinal` except forks that go on for ever; without that TLC refutes both.
* A read may wait behind writes (`blk.h:36`); `breada()` asks for its first block again
  instead of the ahead block (`buffer.c:336`); what `verify_area()` checked may no longer
  hold when the kernel writes (`fork.c:34`), because a sleep is between them: a page of the
  executable may be shared by then, and two tasks see what the kernel writes (`stale`). Bss,
  heap and stack are shared only when the task itself forks, which it cannot while it is in that call.

## 6. Not modelled

Faults while the kernel copies to or from user memory in pipes, files and
`copy_strings()` (hazards); a lost interrupt of the hard disk, which the code does not
survive; the floppy's motor timers, drive selection and disk changes with
`invalidate_buffers()` and `invalidate_inodes()`; `sys_setup()`; the pointers of the
hash and free lists; mount points and read errors inside `namei.c`, permissions of
ordinary users; stopped tasks, `sa_mask`, user ids, times; the first fork's
sharing of kernel pages; the line discipline, console and keyboard; the RAM disk;
`lib/malloc.c`; header checks and `#!` of `execve()`; boot code and the image
builder, which run once, sequentially, on the bare machine or on the host.

Smaller omissions, in modules that model the rest. A timer function runs with interrupts on, so
a clock tick could nest in `do_timer()`'s loop; `Timers` lets the next tick come after it. The
index with which `read_pipe()` and `write_pipe()` copy a chunk (`fs/pipe.c:31-35`) is taken to be right; `Pipe` moves
the chunk. `empty_dir()` on a damaged directory returns with its buffer held (`fs/namei.c:551-560`);
directories are well formed in `Namei`. Several `iput()`s in a row are one step there. The
`setsid()` of the shell that init starts (`init/main.c:196`) is part of its fork. Reads and writes ahead,
which give up on a locked buffer or a full table (`ll_rw_blk.c:95-102`, `125-128`), are in `BufferCache` and not in
`RequestQueue`. The inodes of the block devices themselves, whose `iput()` syncs, are not in
`Inodes`. A `result()` or `output_byte()` that times out sets `reset` in `Floppy`, whatever the
controller was doing.

## 7. Plan

1. Proofs: `OneOwner` of `FileData`, which needs an induction over the trees of blocks;
   `RefsBalanced` of `Namei`.
2. Terminals: the three queues, canonical mode, `sleep_if_full`.
3. `sys_pipe()`, `lib/malloc.c` as an allocator, `mktime` against a reference, motor timers.
4. A variant of `Pipe` and of `FileData` whose copies may fault and sleep.
