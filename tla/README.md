# Models of the CSCI-5103 operating-system projects

TLA+ specifications of the core of this repository, the TLC configurations that
check them on small instances, and TLAPS proofs for every instance. Paths below
are relative to the repository root.

## The system and its parts

The repository holds four independent programs.

**project_1, a first thread library.** State: a ready queue, a finished queue, a
join queue, a pool of ids and one running thread. Operations: create, join,
yield, exit, suspend, resume, and a SIGVTALRM scheduler. Hard: the queues are
read before interrupts are disabled (join, resume), only the first joiner is
woken, and queue entries are addresses of stack variables.

**project_2, threads with priorities, locks, condition variables.**
`uthread.cpp` keeps a table of threads, three ready queues, blocked, join and
finished queues, and two sets and a map for boosting preempted lock holders.
`Lock.cpp` and `CondVar.cpp` build a monitor with Hoare semantics on the
library's internal calls (`switchThreads`, `switchToThread`, `addToReady`).
`SpinLock.cpp`, `async_io.cpp` and `main.cpp` (producer/consumer) are clients.
Hard: a timer signal preempts wherever interrupts are enabled, also between a
check and the call's body; a call that switches threads continues much later;
pointers and ids outlive threads.

**project_3, virtual memory in signal handlers.** `page_table.cpp` keeps a frame
and protection bits per page, `coremap.cpp` a page, a load time and use and dirty
flags per frame, `main.cpp` the policies' own books. The SIGSEGV handler loads,
evicts and upgrades pages; for the custom policy a SIGVTALRM clock revokes
permissions to learn what is used. Hard: four descriptions of residency must
agree, a first store must be trapped to know a page is dirty, and the clock
interleaves with faults and retried accesses.

**project_4, a file system with an inode cache.** `fs.c` keeps free maps of blocks
and inodes rebuilt at mount, `cache.c` an LRU list of inodes with dirty flags,
`disk.c` an array of blocks, `shell.c` the command loop. Hard: write-back
ordering, leaving without unmounting, full disks, holes in files, and paths that
bypass the cache.

| component | correct when | module |
|---|---|---|
| paging handlers, policies, page table, disk | the program sees plain memory; every access ends | `VirtualMemory`, `FlatMemory` |
| thread library of project_2 | each thread is in one place, no join or thread is lost | `UThread` |
| lock and condition variables | one holder, Hoare order, no lost wake-up, boosts even out | `Monitor` |
| producer/consumer demo | its asserts hold, no thread is lost, the buffer is a queue | `BoundedBuffer`, `BoundedQueue` |
| inode cache | an inode that differs from the disk's is marked dirty | `InodeCache` |
| file system, disk, shell | files keep their contents, blocks have one owner, the disk mounts again after any end | `FileSystem`, `FileStore` |
| thread library of project_1 | a thread is queued once, a finished one never runs, a join finds its thread, a freed id is unused | `UThreadOne` |
| spin lock, asynchronous I/O | exclusion, progress | none |

`PROJECT.json` lists every component with its status, and the hazards of all four
programs at the line where each bites, with the properties that are about it or a
note saying why there is none.

## Modules

### VirtualMemory and FlatMemory (project_3)

`FlatMemory` is the promise: an array of pages, a current access, the result of
the last load. `VirtualMemory` is the code. `Start` begins any load or store (the
test programs `sort`, `scan`, `focus` are instances of it), `Perform` is the
hardware executing an access whose page has the permission, `Fault` is the whole
SIGSEGV handler, `timer_handler` the whole SIGVTALRM handler. Both handlers run
with the other signal masked (`sigfillset` in `page_table_create`,
`disableInterrupts` in the custom handler), so each is one step. `Fault` splits as
the code does: `Resident` (`is_page_in_memory`, then `set_perms`) and
`NotResident` (evict if `disk_reads >= nframes`, read, set the entry, assign the
core map entry, update the policy's books). `rand()` is a choice among all frames.
Assertions are transitions to `status = "aborted"`. A page's contents are one
value; `disk` starts with arbitrary contents, as the disk file is not truncated
away. Entries of `page_mapping` that the code leaves uninitialised are `NoFrame`;
no handler reads one.

The refinement mapping `Contents` gives a page its frame's contents while a frame
holds it and its disk block's otherwise.

### UThread (project_2)

A library call runs with SIGVTALRM blocked and is one action up to the point where
it switches threads. The rest of the call is a second action taken when the
thread is switched to (`context[t]` is the saved context): `uthread_join_resumed`,
`resumed`. Where a call reads the thread table before `disableInterrupts`, the
read is an action of its own (`uthread_create_check`, `uthread_suspend_check`,
`uthread_resume_count`, `uthread_resume_find`, `uthread_priority_check`) and
`timeHandler` may switch threads in between; `call[t]` remembers what the thread
has read. The main thread's exit deletes the TCBs with interrupts enabled and is
two actions for the same reason.

A deleted TCB is `Freed` where a pointer to it survives (the boosting sets, a
priority call past its look-up). `_threads[tid]` of a missing id adds a null TCB
to the table (`null_tcbs`). A failed assertion, an exception, a use of a freed or
null TCB and an advance of an invalidated iterator stop the process with their
name in `proc`. `boosting_logic` advances an iterator it has erased: the model
allows every subset and order of the boosted threads such a loop can produce, and
the crash. `TCB::_state` and the quantum counters are written but decide nothing
and are left out. Calls that return -1 without a change of state are not steps.

`Calls[t]` says which calls the code of thread `t` makes: it describes the client,
which the library does not restrict. The loops over the join queue and over a
boosting set are functions of the number of rounds done (`moveFromJoinToReady`,
`boosting_logic`), and `StartQueue` is the order in which the initial workers were
created.

### Monitor (project_2)

`Monitor` extends `UThread` with a lock and condition variables; `ThreadStep` is
any step of the library, so the timer preempts clients everywhere. `wait` with a
pending hand-back puts the thread on the ready queue while it is also in the
condition's queue; `wait_unlocked` is its return from `_unlock`, after which it
blocks. `inside` is the client's view: the threads between a return with the lock
and the next call that gives it up. The client follows the usual discipline
(unlock, wait, signal, broadcast only inside; no exit or join inside).
`NestedSignals` says whether a woken thread may signal before it unlocks. The code
allows it, but a signal that then finds a waiting thread overwrites the lock's one
`nextThreadToWakeUp`, and the first signaller is never run again: the runs of
`Monitor` exclude it. `BoundedBuffer` has it `TRUE`.

### BoundedBuffer and BoundedQueue (project_2/main.cpp)

`BoundedQueue` is the promise: a queue of bounded length. `BoundedBuffer` is the
demo on top of `Monitor`: each producer and consumer has a program counter and
goes through lock, test (and wait), asserts and buffer update, signal, unlock; the
timer may switch threads between any two of these. The main thread joins the first
producer and stays there. A woken producer does signal before it unlocks; that
this is harmless (no consumer waits when a producer did) is what `NoThreadLost`
and the deadlock check of the run show. `produced_count` and `consumed_count` grow
for ever and are kept as their difference, all the asserts look at. Items are the
producers' ids, as in the code.

### UThreadOne (project_1)

One ready queue; a thread's `state` decides whether `switchThreads` queues it
again. What a call does between `disableInterrupts` and `enableInterrupts` is one
action; searches before it are actions of their own (`uthread_create_check`,
`uthread_join_check`, `uthread_suspend_check`, `uthread_resume_check`), and a yield
at the end of join, exit and suspend is two (`getcontext`, `switched_out`), because
the timer may fire between `getcontext` and `disableInterrupts`: its handler saves
its own context over the one just saved, and when the interrupted switch completes
the saved context lies on a frame that is gone. `context` records this, and
switching to such a thread stops the process (`proc = "stale_context"`).

The client: every thread yields and suspends itself, and workers end; `Calls[t]` says
which threads also create, join, suspend and resume, so that a worker may manage others
as the tests do (in test 5 of `test_cases.cpp` a worker suspends another one). Threads
share out their work: two are never in calls about the same thread, except that it may
suspend itself and that `SharedJoins` lets two join it. `ResumeJoining` says whether a thread may be resumed
while it waits in the join queue. Both break a promise of the library; the first has a
run of its own. A join that finds no thread when it comes back may free a live
thread's id, or stop the process (`proc = "null_result"`) if its caller asked for the
result; a create whose check has been overtaken takes the front of an empty pool
(`"empty_pool"`). Ids are `1 .. LastTid`.

### InodeCache, FileSystem and FileStore (project_4)

`FileStore` is the promise: a map from inode numbers to contents; when the process
ends with the disk mounted, or mounts it again, a prefix of every file remains.

`InodeCache` holds the disk's inode table and the cache in one record `store`; each
function of `cache.c` is an operator from the store to the store. `head` and `tail`
are the ends of the sequence `lru`. `is_dirty` of a new node is whatever `malloc`
returned: both values. `current_size` is kept apart from the length of the list,
because `remove_if_present` does not lower it. With capacity 0 the inode belongs to
the caller and `set_dirty` saves it.

`FileSystem` has an action per shell command. The shell is sequential, so a command
is one step, except `copyin`: `do_copyin` opens the source file, `fs_write_begin`,
`write_block` (one round of the loop of `fs_write`, `create_new_data_block`
included) and `fs_write_end` repeat per buffer, and the process may be killed
between them. `end_of_input` leaves without unmounting, `quit` unmounts and
`disk_close` ends the process; `main` starts it again, with any cache size, on the
same disk. Blocks are functions from word positions to words, which are data or
pointers as in `union fs_block`; a source file repeats one fresh word. The inode a
write works on is in `job.inode` until `fs_write_end`: the code changes the cached
inode through a pointer, and nothing looks at it in between. `mounts` and `copies`
are history: the first makes a mount a visible step of `FileStore`.

`StrayNames` says whether commands may name inode numbers that have no file. Numbers
in the last inode block, which `inode_load` refuses, may always be named.

## Runs

| run | instance | states | shows |
|---|---|---|---|
| VMPaging | 3 pages, 2 frames, 2 values, 3 policies, loads start while `disk_reads < 5` | 940,512 | type, no assertion fails, residency agrees, no lost write, clock sees uses, fifo order, refinement of `FlatMemory` |
| VMLiveness | 3 pages, 2 frames, 1 value, 10 loads | 120,732 | every access completes |
| UThreadLifecycle | main and 2 workers, all library calls | 1,116,879 | each thread in one place, right queue, no lost join, meaning of the assertion in `switchThreads` |
| MonitorHoare | 4 threads of 3 priorities, 2 condition variables | 2,406,891 | exclusion, conservation of the lock, no lost thread or wake-up, Hoare order; queues match priorities, boosts are accounted for |
| MonitorLiveness | 3 threads, 1 condition variable, workers that end and are joined and created | 15,292 | locks are granted, signallers and signalled return, ready threads run, joins complete |
| BoundedBuffer | 2 producers, 2 consumers, main, buffer of 2, deadlock checked | 4,739,107 | the demo's asserts, no lost thread, refinement of `BoundedQueue` |
| UThreadOne | main and 3 workers, main and a worker make all calls, ids reused | 5,618,977 | queued once, finished threads never run, joins find their thread, freed ids are referred to by nothing |
| FSFiles | 10 blocks (7 for data), 2 usable inodes, 1 direct and 2 indirect pointers, cache of 0, 1 or 2, 2 copyins | 67,881 | block ownership, recoverable disk, write-back, refinement of `FileStore` |

Runs expected to find a violation, each the subject of a finding in
`PROJECT.json`:

- UThreadStaleLookup: a thread joined between a call's look-up and its body leaves
  the call with a null or deleted TCB;
- MonitorInversion: a lock holder preempted when nothing better was ready is never
  enrolled for boosting, and a middle-priority thread keeps it out for ever
  (`InversionResolved` excuses a holder that is suspended, which is the client's doing);
- UThreadOneTwoJoins: `uthread_exit` wakes the first of two threads that wait for the
  ending one, the second never;
- FSStaleCreate: a getsize or delete of a free inode number leaves the invalid
  inode in the cache; `fs_create` writes past the cache, and the new file cannot be
  read or deleted until the inode is evicted.

The models reach more weaknesses that no run is devoted to. project_2: two creators
can exceed the thread limit; of two joiners of one thread the second fails the
assertion of `uthread_join`; a signal by a woken thread loses its signaller
(`NestedSignals = TRUE` with any client); the timer can fire after the main thread
has deleted the TCBs (`proc = "freed_running"`); boosting data outlives its thread
(`Freed` in the sets, `numBoosts` of a reused id). project_1: a thread
that ends between the search and the masked part of a join leaves its joiner in the join
queue for ever; a thread resumed out of its join (`ResumeJoining = TRUE`) goes on before
the thread it waits for has ended; two creators pass the check on the pool with one id
left (`"empty_pool"`); a context is overwritten by the timer (`"stale_context"`). project_4: the inodes of the last
inode block are unusable, so `fs_create` fails early; after deletions `get_inode`
can return an inode it has just freed (`"freed_inode"`); `fs_debug` after an unmount
walks a freed list (`"freed_cache"`); a second mount drops dirty inodes; a write
beyond the maximal file size indexes past the pointer block (`"overrun"`). Where a
process stops, the properties say nothing of what follows.

**Bounds.** Three pages in two frames is the least in which a victim is neither
the page being loaded nor the only other one; five loads reach evictions of clean
and dirty pages, reloads of evicted pages and every policy branch but
`isTooOld`, which needs `4 * nframes` loads after a page and is reached with the
ten of VMLiveness. `MaxReads` stops new accesses, never a handler. `MaxNotUsed`
stops a counter that is only compared with 1. Two workers next to the main thread
suffice for every check-then-act race (one acts between the other's check and
body). In UThreadOne two threads manage a third and a fourth, so that one of them can
be suspended, resumed, end or have its id used again while the other is inside a call.
Four monitor threads give a broadcast two sleepers, a caller and an outsider
competing for the lock; with one GREEN, one ORANGE and two RED threads a holder is
boosted more than once, two are enrolled at a time, and the RED ones preempt each
other. MonitorLiveness has threads of one priority. A buffer of two with two threads of each kind fills,
empties and wraps while a second producer or consumer waits for the lock or for
the condition. In FSFiles a file of five words needs its direct block, the indirect
block and two blocks behind it, so two files do not fit in the seven data blocks;
seven words exceed the largest file; a buffer of three does not divide a block, so
writes start inside blocks. `MaxCopies` bounds the copyins: the second meets what
the first left, cut short, evicted or killed. Symmetry is not used: thread ids are
ordered by `getNextId`, pages by load times, blocks by `find_free_block`.

CHECK_DEADLOCK is off because the systems may stop: the program exits, the process
dies for want of a ready thread, a bound is reached, or all threads wait. Producers
and consumers never stop, so BoundedBuffer checks deadlock.

**Fairness.** The kernel restarts a faulting instruction and delivers its signal:
weak fairness of `Fault`. The clock may revoke a permission between the handler
and the retry, but a tick needs a period of processor time, so not for ever:
strong fairness of `Perform` and of the store upgrade. The virtual timer fires
while a thread computes and a switched-to thread continues: weak fairness of
`timeHandler` and of the continuations. Nothing is assumed of library calls,
except in `MonitorFairness` that a thread which is scheduled again and again
inside the lock eventually unlocks, and one scheduled again and again inside
`uthread_create` finishes it: client critical sections are finite. The liveness of
BoundedBuffer and UThreadOne is not checked.

Each property of a passing run has a mutant in `PROJECT.json`: an operator next to
the one it replaces, changed as a plausible mistake would, under which TLC finds
the property violated.

## Proofs

The theorems hold for every value of the constants that satisfies the named `ASSUME`
of the component's module (`VMAssumption`, `NoAccessAssumption`,
`UThreadAssumption`, `MonitorAssumption`, `BoundedBufferAssumption` and those of
`UThreadOne` and `FileSystem`): sizes are positive, start threads and policies are
among those that exist, marks such as `Null` are no ids, and `NoFile` is no contents
of a file. A theorem with a further hypothesis says so in its `ASSUME`. No property
of a run is inductive as it stands; each proof module states the inductive invariant
it needs, conjunct by conjunct, and proves `Init => Inv`, `Inv /\ [Next]_vars =>
Inv'` with a lemma per action, and `Inv => property`.

| module | inductive invariant | properties proved |
|---|---|---|
| `VirtualMemoryProofs` | `PagingInv` | the invariants of VMPaging and the refinement of `FlatMemory` |
| `UThreadOneProofs` | `ThreadInv` | `TypeOK`, `ReadyOnce`, `FinishedNeverRuns`, `JoinFindsThread`, `FreedIdUnused` |
| `UThreadProofs` | `UInv` | `TypeOK`, `EachThreadInOnePlace`, `ReadyMatchesPriority`, `NoLostJoin`, `NoReadyOnlyWhenAllWait` |
| `MonitorProofs` | `LockInv`, `BoostInv` | `MonitorTypeOK`, `MutualExclusion`, `BoostsAccountedFor` |
| `MonitorHoareProofs` | `HoareInv`, `StuckInv` | `FreeLockIsUnwanted`, `NoThreadLost`, `LockHasOneHolder`, `StuckOnlyWhenAllWait`, `OwedInOrder` |
| `BoundedBufferProofs` | `BufferInv` | `BufferTypeOK`, `AssertsHold`, `NoThreadLost` and the refinement of `BoundedQueue` |
| `FileSystemProofs` | `FSInv`, `StoreInv` | `TypeOK`, `BlocksOwnedOnce`, `DiskRecoverable`, `CleanInodeMatchesDisk` and the refinement of `FileStore` |
| `QueueLemmas` | | lemmas about sequences and loops that the others cite |

**Paging.** `PagingInv` adds: frames are handed out in order and never given back
(`FramesHandedOut`), so a victim exists when memory is full; the page table maps a
held page to its holder and every page taken for resident is held
(`HolderIsMapped`, `ResidentIsHeld`, `HeldIsResident`), so no page is ever in two
frames; protection bits agree with the dirty flag (`BitsMatchDirty`), so a store to
a clean page faults; load times lie in the past (`LoadTimesPast`), so pushing a
frame keeps the fifo queue ordered. `Load`, the one step that changes everything,
has a lemma per part of the invariant. For the refinement, `Load` and the clock
leave `Contents` alone because the victim is clean or written back, and `Perform` is
a read or a write of it.

**Threads of project_1.** The theorems are for clients in which two threads do not
join the same one and nobody is resumed out of its join (`Disciplined`); which threads
make which calls is left open. `ThreadInv` says where a thread may be by its state: an
unused id is in the pool once (`TableInv`); a thread in the ready queue is READY and not
running, and a running thread that is BLOCKed is inside its yield (`SchedulerInv`); a
call in progress is about a thread in the table, and no other call is (`CallInv`), so the
id is not freed under it; only a thread in its exit has ended (`ExitInv`); a thread about
to be resumed is still blocked, and not by a join (`ResumeInv`); a join that is past its
block is in the join queue or its thread has ended (`JoinInv`). The scheduler pops
finished threads until it meets another one; `RunnableQueue` says what that leaves.

**Threads of project_2.** `UInv` says that the ready, blocked, join and finished
queues and the running thread share no thread and together hold all, that each
ready queue has a thread at most once and only threads of its priority, and that
only a priority call can hold a deleted TCB. Every call is first shown to be one of
a few abstract steps of the scheduler (`Scheduled`: nothing moves, a thread is
created, reaped, moved between ready and blocked, the processor is switched, the
process dies), and the invariant is proved for those. `MonitorProofs` uses the same
lemma for the steps the library takes under the lock. The two loops of the library
(waking joiners, boosting) are recursive functions of the round; `LoopRuns` and
`LoopInvariant` of `QueueLemmas` show that such a function exists and that what
every round keeps holds at the end, from the fact that a set of numbers has a least
element. Nothing is assumed of the client: `Calls` is any set of calls per thread.

**The lock.** `LockInv` describes the lock as a token. `Holders` are the threads
inside, those made ready to return from `lock()` or `wait()` with the lock, and the
running one on its way out of such a call; `Token` says there is none when `value`
is 0 and exactly one when it is 1. This is inductive only together with where the
threads of the lock's queue and of the condition variables are (`Places`): a thread
that handed the lock back in `wait()` is in the ready queue and in the condition's
queue at once, and may even be switched to while it still is. Mutual exclusion
follows without any condition on nested signals: what a nested signal breaks is not
exclusion but the promise to its predecessor.

**Hand-off.** `HoareInv` adds what is promised, for clients in which a woken thread
does not signal before it unlocks or waits (`NestedSignals = FALSE`, as in the
runs): at most one condition variable has threads to wake, those that waited for it
and last the caller (`InTurn`); a woken thread that has been passed the lock finds
somebody to wake and any other thread finds nobody (`Owes`); the next thread is
named only while a thread is inside. `WokenFindsNext`, that `wait()` never takes the
front of an empty wake-up order, `LockHasOneHolder`, `FreeLockIsUnwanted`,
`NoThreadLost` and `OwedInOrder` follow. `OwedInOrder` is about steps: a signal or a
broadcast makes the first waiting thread run, and the others in the order of their queue
and last the caller are owed the lock (`HandsOver`); while somebody is owed it, a step
leaves the lock where it is and is owed, or gives it to the first of them
(`HonoursOwed`). Its proof uses the invariant on both sides of a step: `HolderKnown`
identifies the one holder before and after, so that a thread which newly has the lock
can only be the one the step hands it to. `OnlyWaitersGetStuck` needs in addition that
threads block in the monitor only (`BlockInMonitorOnly`): a suspended or joining
thread may well hold the lock the others wait for.

**Boosting.** `BoostsAreUndone` is for clients that leave priorities alone and create
no threads (`PrioritiesLeftAlone`; `numBoosts` outlives a thread and a new thread
with its id inherits the count). Two facts make it inductive. Every yield leaves the
low set empty: only the running thread is ever enrolled there, and the loop cannot
skip the only thread of a set. And no thread of the medium set is RED, so each
boost that is counted raises a priority; a thread in both sets is raised twice at
most, and is then in neither. Both hold for every order and subset in which the
loop with the invalidated iterator may visit the sets.

**The file system.** `FSInv` relates three views of a file: the inode on the disk,
the cached inode and the inode a running copyin works on (`Live` is the newest). The
disk's inode is an older one of the same file (`Within`), every pointer of it leads
to a block of that file (`Sound`), no block is used twice by the live inodes
(`Once`), and the block map of a mounted disk is exactly what they use. A crash at any
point leaves the older inodes, which are still sound. All of it is proved for
shells that name only inode numbers of files (`StrayNames = FALSE`): with stray
numbers the violation of FSStaleCreate is possible, and `NumbersAreFiles`
(the numbers in use are those of valid inodes) shows that nothing else leads to it.

**What a file holds.** `StoreInv` adds to `FSInv` what the refinement of `FileStore`
needs (`SizeInv`): every word up to the size of a file has a block, in the live inode
and in the disk's older one; the disk's inode is never the longer one and is valid
when the live one is; and a copyin writes at most at the end of the file, so a short
write leaves no hole for the next one to jump over. Then `fs_read` of the whole file
delivers every word (`FilesAreContents`): a block pointer of 0, at which it would stop,
is never met. The lemmas follow the operations: a file's words depend on its own
blocks only (`OtherWords`, from `Once`), a round of `fs_write` splices its words into
them (`WrittenWords`), and what the disk has is a prefix of what memory has
(`OlderWords`), because blocks are written at once and only the inode waits in the
cache. So each command maps to the same command on the map of contents, a mount after
an unmount leaves every file alone, and the end of a process with the disk mounted, or
a second mount of it, leaves a prefix of each. The hypothesis is again
`StrayNames = FALSE`.

**Producers and consumers.** In the demo a woken thread does signal before it unlocks,
so the theorems on the hand-off do not apply as they stand. What they need is only that
such a signal finds nobody: `MonitorHoareProofs` proves its step lemmas under that
condition (`SignalsInTurn`), and both the clients with `NestedSignals = FALSE` and
the demo meet it. For the demo it rests on the buffer. `Stocked` says that producers
wait only with a full buffer and consumers only with an empty one, but for the one slot
or item that a thread on its way (signalling, or woken and not yet at work) has
spoken for; so the two sides never wait at once (`OneSideWaits`), and a thread woken
for a slot finds one although it does not test again. `SignalsCross` says that whoever
is owed the lock is in a `signal()` to the other side and that its own side has nobody
waiting until it has the lock back. `Flagged` ties `in_critical_section` to
the one thread of the role between its asserts and `unlock()`: the flag outlives the
signal, during which the thread is out of the lock, and no thread of the same role gets
in meanwhile. `Fits` relates the program counter to the call a thread was switched out
of, and `Ring` ties `head`, `tail`, `item_count` and the counters together, from which
the refinement of `BoundedQueue` follows by arithmetic modulo the size of the buffer.
`DemoUsesMonitor` shows that the demo is one of the clients `MonitorSpec` allows.

Only model-checked:

- all liveness (`AccessCompletes`, `LockGranted`, `NotifiedReturn`, `ReadyRuns`,
  `JoinCompletes`), as the proof system does not handle fairness;
- what the recursive functions compute beyond what a round preserves, which would
  take induction over data.

Every invariant, action property and refinement that a passing run checks is stated by
a theorem. The violations are counterexamples, which TLC finds and no theorem
states.

## Not modelled

- Contents below page granularity, failing system calls and allocations, printing,
  statistics, reports and benchmarks; TCB stacks and contexts beyond where a thread
  continues; several locks at once.
- `SpinLock`: one loop around an atomic flag, which has no state but the flag; its
  livelock with priorities needs no model. `async_io`: a loop of `uthread_yield`
  around a request whose end is the kernel's choice.
- More frames than pages: the frames beyond the backing file are never handed out
  because frames are given out in order and a page has at most one. This is a
  counting argument.
- project_1: two threads that suspend or resume the same one at once, or join one that
  another is suspending or resuming; joins of the main thread, of the caller and of ids
  that do not exist (they block for ever); `uthread_exit` of the main
  thread, which does not end the program as `uthread.h:29` says.
- project_4: negative inode numbers (the code indexes before its arrays), reads and
  writes at offsets the shell never uses (a hole in a file can only arise there),
  and a kill between the block writes of one format, delete, unmount or round of
  `fs_write`.

## Plan

1. Done: every module of the table above with its runs, and the proofs of
   `VirtualMemory`, `UThreadOne`, `UThread`, `Monitor`, `BoundedBuffer` and
   `FileSystem` with the three refinements.
2. What could follow: clients of project_1 in which several threads suspend and resume
   the same one; a process killed between the block writes of one operation of
   project_4; several locks.
