# A TLA+ development for Gramine

Gramine runs unmodified Linux applications on a small library OS (LibOS) over a
platform adaptation layer (PAL), on plain Linux or inside an SGX enclave. An
application that forks becomes several host processes, each with its own LibOS;
what POSIX shares between processes (pids, file locks, synchronized objects,
exit notifications) the LibOS instances keep consistent by messages. That is
where a model checker has most to say, and where this development started, with
the **sync engine** and the **file locks**. It goes on with what processes owe
each other (ids, answers to requests, news of a child's death), how the threads
of one process wait for each other (read-write lock, futex), and what a process
keeps for its threads (async worker, memory bookkeeping).

Sections: 1 inventory, 2 plan, 3 modules and code, 4 runs, 5 bounds,
6 fairness, 7 proofs, 8 only model-checked, 9 findings, 10 not modelled.

## 1. Inventory

Paths are relative to the repository; `libos/src` has about 37 000 lines,
`pal/src` about 36 000, `common` about 10 000.

| part | state | operations | hard behaviour | what makes it correct |
|---|---|---|---|---|
| sync engine, client (`libos/src/sync/libos_sync_client.c`) | per handle: phase, three state fields, `used`, data, event | `sync_lock`, `sync_unlock`, `sync_destroy`, shutdown, three message handlers | the user thread and the IPC worker change one handle; requests cross on the way | exclusion, latest data, no assert reached, locks granted, closes end |
| sync engine, server (`.../libos_sync_server.c`, in the leader) | handles with lists of leases, data | three handlers, `process_handle`, disconnect callback | requests of several clients at different stages; client killed | the same, and a clean exit never looks like a crash |
| file locks (`libos/src/fs/libos_fs_lock.c`, `libos/src/ipc/libos_ipc_fs_lock.c`) | leader: list of locks and of pending requests per file; others: one flag per file | set (wait or not), get, clear on exit | splitting and merging of ranges; requests answered later by another thread; failures half-way | no conflicting locks, no lost wake-up, answers are true, exit leaves nothing |
| fcntl, flock (`libos/src/sys/libos_fcntl.c`) | none | conversion of arguments | signed offsets into unsigned ranges | exact range or the right error |
| IPC (`libos/src/ipc/libos_ipc.c`, `libos_ipc_worker.c`) | outgoing connections, waiters by sequence number, incoming streams | send, send and wait, response, disconnect | response against disconnect; late response; failing callback ends the process | each request answered exactly once |
| ID ranges (`libos/src/ipc/libos_ipc_pid.c`, `libos/src/bookkeep/libos_pid.c`) | leader: ranges with owners; process: current and used ranges | allocate, move to child, release, find owner | two copies that are split independently; failed clone | copies agree, an id has one owner, none is used twice |
| child exit and wait (`libos/src/bookkeep/libos_process.c`, `libos/src/ipc/libos_ipc_child.c`, `libos/src/sys/libos_wait.c`) | children, zombies, queue of waiting threads | mark exited, waitid/wait4 | exit message against disconnect; sleeping without the lock | each exit reaped once, no waiter sleeps on |
| futex (`libos/src/sys/libos_futex.c`) | tree of futexes with waiters | wait, wake, wake_op, requeue, robust list | timeouts and signals against wakes and requeues; two-level locking | no lost wake-up, no stale waiter, no deadlock |
| rwlock, pollable event, async worker (`libos/src/libos_rwlock.c`, `libos_pollable_event.c`, `libos_async.c`) | counters and events; list of events | lock, unlock; set, clear; install, worker loop | lock-free fast paths; worker that stops when idle | exclusion, no lost wake-up |
| threads, signals, clone, exit (`libos/src/bookkeep`, `libos/src/sys`) | thread list, pending signals | create, exit, kill, deliver | death of threads and of the process | order of clean-up and notification |
| memory bookkeeping (`libos/src/bookkeep/libos_vma.c`) | tree of areas | mmap, munmap, mprotect | two-phase munmap | areas disjoint, no reuse too early |
| handles, fds, dentries, mounts, epoll, pipes, sockets (`libos/src/bookkeep/libos_handle.c`, `libos/src/fs`, `libos/src/sys`) | tables and trees under locks | system calls | reference counting, lock order | |
| encrypted files (`common/src/protected_files`) | Merkle tree, cache | read, write, flush | failure during flush | |
| PAL hosts, loader, manifest and Python tools | | | host interface | |

How they interact: system calls of user threads call a subsystem directly;
subsystems of different processes talk through IPC, whose single worker thread
per process runs callbacks one after the other; the leader process is the
server of sync engine, file locks and ID ranges; process exit runs through file
locks, descriptors, parent notification, sync engine shutdown and ID release in
that order.

The hazards of this code, at their lines, are listed in `PROJECT.json` with the
properties that would show them.

## 2. Plan

Done:

1. `Leases`, `SyncEngine`, `SharedObject` (abstract promise); proofs in
   `SyncEngineProofs` and `SyncPromiseProofs`.
2. `LockList`, `LockWalk`, `ByteLocks` (abstract promise), `FcntlRange`,
   `FileLocks`; proofs in `FileLockProofs` and `LockRequestProofs`.
3. `IdRanges`, `ChildWait`, `IpcRequests`: what processes owe each other; proofs
   in `IdProofs` and `ProcessProofs`.
4. `RwLock`, `Futex`: how threads wait for each other; proofs in `ThreadProofs`.
5. `AsyncWorker`, `Vma`, `PageMap` (abstract promise): what a process keeps for
   its threads; proofs in `RuntimeProofs`.

Candidates for more models: the queue of pending signals, epoll (items shared by
two locks), the order of writes when an encrypted file is flushed.

Section 8 says what stays with the model checker, and why.

## 3. Modules and code

**Leases** — the lease list of the server and what `process_handle` decides on
it, as sets: `ExclusiveGrants`, `SharedGrants`, `DowngradesToAsk`. The code
walks the list with counters; that walk is `Walk` in `MCAlgorithms`, and the run
`algorithms` shows that both agree on every list.

**SyncEngine** — one handle, any set of processes. Per process the fields of
`struct sync_handle` (`phase`, `cur`, `creq`, `sreq`, `used`, `data`, `event`),
the thread that owns `use_lock` (`pc`, `want`) and the object it protects
(`obj`, a version number); in the server the lease list (`leases`, `scur`,
`screq`, `ssreq`) and `sdata`; two ordered streams per process. One action per
function: `SyncLock`, `SyncLockWake` (a turn of its waiting loop),
`SyncUnlock`, `SyncDestroy`, `ShutdownSyncClient`, `ShutdownWait`, `CloseWake`,
the handlers `Do...` of both sides, `ServerDisconnect`, and `ProcessExit` and
`Kill` of the environment. A critical section of `prop_lock` or `g_server_lock`
is one step. `fatal` records that an assert or a FATAL exit was reached.

Because of `use_lock` a process has at most one thread in `sync_lock` to
`sync_unlock`, so one program counter per process is exact, and two
REQUEST_UPGRADEs of one process are never in flight together. When the server
ends itself because a send failed inside `process_handle`, the clients see
messages that are never handled, which every behaviour of `Spec` allows.
All processes exist from the start with the same copy of the object.

**SharedObject** — the promise: shared holders or one exclusive holder, who see
the latest version. `SyncEngine` maps `pc` and `want` to `held`, `obj` to
`seen`.

**LockList** — `file_lock_find_conflict`, `_posix_lock_set` and
`_flock_lock_set` on a sequence of locks. The loop of `_posix_lock_set` is a
recursive function of the number of turns (`PosixWalk`); its value, a "walk", has
the list so far, the insertion point `prev` and the range that grows by merging;
`PosixTurn` is one turn of it.

**LockWalk** — the same functions as a state machine for POSIX locks: a call
begins when its lock meets no conflict, every turn of the loop is a step (`Turn`),
and the result replaces the list when the loop has ended (`End`). `FileLocks` uses
the functions of `LockList`, since the loop runs under a lock; `LockWalk` says turn
by turn what it keeps, and `WalkAgrees` that both end with the same list.

**ByteLocks** — the promise of the list: a type per byte and process, replaced
over the range.

**FcntlRange** — `flock_to_file_lock` and the conversion back in F_GETLK, with
signed and unsigned integers whose first bit stands for `SignBit`.

**FileLocks** — one file, a leader and other processes with threads. `dent` is
the leader's `struct dent_file_locks` (freed when it has neither locks nor
requests, and `posix_used`/`flock_used` with it), `worker` the request that the
IPC worker has queued and not completed, `maybe` the flag
`maybe_has_file_locks`. Actions: `UserLock`, `UserUnlock` (also the unlocking
done by `close`), `Return`, `WorkerHandles` (`file_lock_set_from_ipc` up to the
release of the lock, or `file_lock_clear_pid`), `WriteNotify` (its rest),
`Exit`, `DetachAllFds`, `Kill`. A thread has at most one call under way and the
worker may serve them in any order, so a slot per thread stands for the
streams. Failures of allocation, of lookup and of `PalEventCreate` are choices,
part of a `Scenario`, which also says what each thread asks for, who may exit and
who may be killed. A request granted before its notify part is written is
undefined behaviour: `leader` becomes `"undefined"` and the behaviour ends.
A callback that cannot answer a killed process ends the leader
(`libos/src/ipc/libos_ipc_worker.c:198-203`).

**RwLock** — `libos_rwlock.h` and `libos_rwlock.c`, one step per atomic operation
or event call. `state`, `departing_readers`, `waiting_readers` and the two events
are the fields of the struct; `rwPc` is the place of a thread in the code, `rwSeen`
the value its atomic operation returned. The functions are sequences of actions:
`ReadLock`, `ReaderWakes`, `ReaderCheckedIn`, `LastInSignals` are
`rwlock_read_lock`, `WritersLock` to `WriterWakes` are `rwlock_write_lock`, and
so on in the order of the file.

**Futex** — `g_futex_tree` with its lock, futex objects with reference counts and
waiters, `futex_wait`, `futex_wake`, `futex_wake_op`, `futex_requeue`, the wake
queues of `libos_thread.h`, time-outs, signals, and the store and wake-up at the
end of a thread. Taking a lock is a step, what is done under the lock of a futex
another. Calls are records; a thread runs a script of them.

**ChildWait** — `children`, `zombies`, the wait queue whose nodes are on the
stacks of waiting threads, `children_lock` as the auto-clear event it is,
`do_waitid` statement by statement where it takes or gives up the lock, and the
IPC worker with CHILDEXIT, disconnects and read errors. When two actors are
inside the lock the model stops, since the lists are then changed without
protection; everything else is checked up to that point. A child lives when it
enters the list and is told so: section 10.

**IdRanges** — the leader's `g_id_owners_tree` and `g_last_id`, the current and
the used ranges of each process with the numbers of ids taken, the requests
under way, `get_new_id` (with the id moved to a new process), `release_id`, the
part of `clone` that moves an id and takes it back, exits and kills.

**IpcRequests** — connections, the tree of waiters, `ipc_send_msg_and_get_response`
with each of its steps, the worker with answers and disconnects. The other
processes answer in any order and may die. The host's calls may fail while
everybody lives (`IpcFailures`): making a connection, writing to it (and then
`seen_error` for all later messages on it), waiting for the event, reading from an
incoming connection or the id on a new one. `broken` and `abandoned` are history:
the living processes from which a connection failed, and the requests that were
given up because their wait failed or was ended by such a failure.

**AsyncWorker** — `async_list`, `async_worker_state`, the pollable event of
`install_async_event`, the loop of the worker with its two readings of the clock
and its idle end, `alarm`, `setitimer`, FIOASYNC and the clean-up after threads
that exit. Times are reduced to their order: a timer is running or has expired,
and `late` says which workers have read the clock since. Memory for an event and
the creation of a worker may fail, as a script says. A thread whose clean-up was
listed without a worker, and whose references were put all the same, is at `"cut"`;
`WkReadsFreed` is what a later worker may do with it.

**Vma** — the tree of areas (a set of disjoint areas with offsets, protection and
the flag of `bkeep_munmap`'s placeholder), the host's pages, and every call that
changes both: mmap in its three forms, munmap, mprotect, brk, the LibOS's own
allocations and the PAL's upcalls. The tree is changed under `vma_tree_lock`, the
host outside of it, so each call is several steps. `VmFailures` says what the host
may refuse: to map (the area is taken back), to unmap (`HostFreeFails`: BUG(), or the
PAL ends the process; `vmBug` tells it from a disagreement met in the tree), or to
protect (`HostProtect` does a part of the range; `old` marks the pages that keep an
older protection while the tree has the new one).

**PageMap** — the promise of the bookkeeping: a map of pages that changes one
range at a time and a count of pages in use. `Vma` maps its areas to pages.

**SyncEngineProofs**, **SyncPromiseProofs**, **FileLockProofs**,
**LockRequestProofs**, **IdProofs**, **ProcessProofs**, **ThreadProofs**,
**RuntimeProofs** — theorems and their proofs, see section 7.

**MCSyncEngine**, **MCSyncScenarios**, **MCFileLocks**, **MCAlgorithms**,
**MCThreads**, **MCProcesses**, **MCRuntime** — instances for TLC. `MCAlgorithms`
also has the reference definitions for the sequential algorithms. The last three
hold several subjects that do not interact: a variable `subject`, chosen at the
start, says which of them runs while the others keep their initial state.
Definitions with a comment "Mutant" are changed versions of the definition below
them, used to see that a property can fail.

## 4. Runs

| run | instance | shows |
|---|---|---|
| `algorithms` | lease lists of four clients; POSIX lists of two processes over four positions; all 5-bit fcntl arguments | closed forms of `process_handle`, every waiting request has blockers and each of them is asked, lock lists ordered, disjoint, merged (with positions that wrap around) and equal to the byte-wise promise, ranges exact and F_GETLK inverse of F_SETLK |
| `sync_safety` | two processes, both modes, writes, destroy, shutdown, kill | types, exclusion, no assert, order of the state fields, refinement of `SharedObject` (latest data) |
| `sync_liveness` | two writers and a reader that may close; an upgrader and a reader that may both close | every lock granted, closes end; latest data with three processes |
| `fslock_safety` | leader thread and two processes, POSIX and BSD locks, allocation and event failures, an exit, a kill; three processes over two bytes; lookup failures | locks never contradict, families never mix, exited processes hold nothing, every pending request is blocked by a held lock, an answer 0 is true |
| `fslock_liveness` | two processes, one with two threads, exits | no waiter without its request; every call returns |
| `threads` | four threads with a read-write lock; three threads with scripts of futex calls | exclusion and asserts of the lock, nobody starves; futex references exact, wake-ups complete and not lost, calls end |
| `processes` | three processes with ids, one of which may be killed; two threads with requests to two processes that may die, with failing connects, sends, waits and reads; two threads that wait for two children | no BUG, no id twice, leader and processes agree about ids; an answer without a waiter belongs to a request that a failing call gave up, a failure concerns only its own request or requests to the process that died or whose connection failed, requests end; an exit is reported once, no dead node is visited, waits end |
| `runtime` | three threads with alarms, timers, FIOASYNC and exits, failures to create a worker; two threads with mmap, munmap, mprotect, brk beside internal allocations, a host that refuses to map, unmap or protect | references exact but where a worker cannot be created at an exit, one worker, clean-up done; allocations replace nothing, no BUG but for a host that does not unmap, host and tree agree but for a refused mprotect, refinement of `PageMap` |
| `sync_upgrade_deadlock`, `fslock_notify`, `wait_unlock`, `async_alarm` | see section 9 | disagreements |

`CHECK_DEADLOCK FALSE` is used where the system may stop: all processes exited,
the server or leader ended, versions, scripts or requests used up, or waiters
that block each other (see section 6).

## 5. Bounds

- Sync engine: two processes for safety with closes and kills (a lease list has
  an order only from two on, and every message race is between one client and
  the server), three where a downgrade on behalf of a second client can follow
  one on behalf of a first. `MaxVersion` limits how often the object is
  written: 3 allows a write after a stale copy and one after it. Streams are
  not bounded; the protocol keeps them short. The theorems need no bound.
- File locks: one byte for families, failures and waiting, since range
  arithmetic is covered by `algorithms`; two bytes in the second scenario of
  `fslock_safety`, the least
  with which granting a request (a downgrade of part of a range) unblocks one
  that was passed in the same walk. `NoOrphan` lets `PalEventCreate` fail only
  while no other request is orphaned, because orphans would pile up for ever.
  The leader itself neither exits nor is killed.
- `algorithms`: four positions are the least for a split with a gap on both
  sides; five bits contain every sign, zero and overflow case of the
  conversion.
- Read-write lock: four threads are the least with a writer, a second writer
  that waits for the mutex, a reader that leaves and one that comes;
  `WRITER_WEIGHT` is 8, above their number. `ThreadProofs` needs no bound.
- Futex: three threads (a waiter, one that times out, a waker or requeuer) and
  six scripts, one for each race named at `Scripts`; four objects, so that one is
  free while each thread holds one. `ThreadProofs` needs none of these bounds.
- Ids: `PID_MAX` 5 and ranges of 3, so that ranges run out, are cut at both ends
  and in the middle, and the last id is reached; with three processes a child
  can have a child.
- IPC: two requests in all, to one process that connects first and one that
  does not; reading fails from one process only (`FailingCalls`), every other
  call for any. Waits: two children and two threads, one of which calls twice
  (`MaxWaits`), so that two threads compete for one exit and one of them waits
  again.
- Async worker: `MAX_IDLE_CYCLES` 2, two workers (the second one is created
  after the first gave up), scripts `CallScripts`; calls and `create`, `malloc`
  failures are combined per script, one of them a thread that exits and fails to
  create the worker while another does the same.
- Memory: six pages, areas of one or two pages, a heap of two, scripts
  `MemoryScripts`; an area of two pages has a cut in the middle, six pages let
  two threads map beside internal memory and still fail for want of space.
- No symmetry is used: the runs with liveness do not allow it, and pids are
  ordered in the lock list.

## 6. Fairness

Sync engine: a woken thread runs, a thread that holds the handle unlocks it,
and the IPC workers serve every stream with a message. Workers poll all streams
and user threads are scheduled by the host, so weak fairness is what the code
needs and has. No fairness is assumed for starting locks or closes.

File locks: the same, but strong fairness for `WorkerHandles`, since the one
worker may be busy with another request each time (`PalStreamsWaitEvents`
reports all ready streams and the loop serves each), and strong fairness for
`UserUnlock`: an application that locks unlocks again and again. This is a
promise of the application. Without it waiters may wait for ever, and with POSIX
locks on two ranges, or a read lock upgraded by two processes, they may block
each other: the documentation of Gramine says that EDEADLK is not detected
(`libos/include/libos_fs_lock.h`), so liveness is claimed for write locks on one
byte. With three competing processes one may starve, as new requests are put at
the head of the list. The scenario has no failing lookups: an unlock that fails for
ever leaves the others waiting.

Read-write lock, futex, waits, requests: a thread inside a call goes on, a
critical section ends, the IPC worker serves what has arrived, and a living
process answers its requests. Nothing is assumed of starting calls, of signals,
time-outs, deaths or failing calls. Async worker: threads finish their calls, a worker that can
run does, and time passes (`AsExpire`). That the worker's sleep may be interrupted
is not relied on.

## 7. Proofs

`SyncEngineProofs` proves, for every set `Clients`, every choice of `Modes`,
`Closers`, `Killable` and every `MaxVersion`:

- `TypeCorrect`: `Spec => []TypeOK`
- `ExclusionHolds`: `Spec => []Exclusion`
- `NoFatalHolds`: `Spec => []NoFatal`
- `StatesOrderedHolds`: `Spec => []StatesOrdered`

Assumptions: `ModesAssumption` and `VersionAssumption` (types of constants).

None of these is inductive: whether a client may raise its state depends on what
the server believed when it sent the confirmation, and on what was sent since.
The invariant `IInv` says for each client where its one outstanding upgrade
request is (last in the stream to the server, in the lease, or as the only
confirmation on the way back; `RequestsOK`, `AnswersOK`), that the downgrades on
the way descend strictly from the server's state to the client's (`RequestsOK`,
`LeaseOK`), who has a lease (`MemberOK`), and how the fields of the handle fit
the place of its thread (`HandleInv`). Across clients it has two parts only:
leases exclude each other, and the list has no duplicates. With
`cur[c] <= scur[c]` the exclusion of leases gives the exclusion of handles.

The proof has a lemma per kind of message sent (`SendUp`, `SendDown`,
`SendClose`), taken by the client (`TakeAsk`, `TakeConf`, `TakeEnd`) and served
(`ServeUp`, `ServeDown`, `ServeClose`), stated for values, so that they apply in
the middle of a server handler; `ProcessHandleOK` carries the parts through
grants and downgrade requests; then one lemma per action, and `NextOK`.

`ThreadProofs` proves about `RwLock`, for every finite set of threads and every
`WRITER_WEIGHT` above their number (`RwThreadsFinite`, `WeightAboveReaders`: the
code says "This number must be greater than the maximal number of readers"):

- `RwTypeCorrect`: `RwSpec => []RwTypeOK`
- `RwSafeHolds`: `RwSpec => []RwSafe` (exclusion, the asserts of the code, and
  what `rwlock_destroy` asserts of a lock that nobody uses)

Exclusion is not inductive: a writer goes on because a counter is 0 or because
an event is set. `RwIInv` says what each counter counts in each phase of the
writer that owns the mutex (`StateInv`, `BeforeInv`, `AfterInv`), what is at rest
outside of its phase (`RestInv`), and that the one event, writer_wait, plus the
one reader that is about to set it, is 1 exactly when the counter of the phase
is 0. Counts are cardinalities of sets of threads; `CountMove` says how they
change when one thread moves, and each action lemma starts from its tally.

`ThreadProofs` proves about `Futex`, for every finite set of threads, any set of
futex objects, any join addresses and all scripts of the calls in `FuCalls`
(`FutexAssumption`; a requeue of a futex to itself is not among them, and at a join
address threads only wait and end; with no join addresses the first two theorems are
about all calls):

- `FutexRefsHold`: `FuSpec => []FutexRefsExact`
- `FutexWakesComplete`: `FuSpec => FutexWakeComplete`
- `FutexNoLostWakeupHolds`: `OneJoiner /\ FuSpec => []FutexNoLostWakeup`

The first says that reference counts equal references; what makes that hold is
everything the locks are for, so `FuInv` has it all: the local variables of a thread
by the place where it is (`FuShape`), the locks it has there (`HasLocks`), that a
futex it has found is still in the tree while it works, and that one it has
created is its own (`HasFound`), one futex in the tree for an address (`OneEach`),
that lists of waiters, the waiters' own pointers and `sleepsAt` agree
(`ListsAgree`), and the counts (`Balanced`). The other threads are treated once:
`Gentle` says what a step may do to the objects, `OthersKeep` that the
parts of `FuInv` about other threads survive it. The loop that takes waiters off a
list (`Kept`) is a recursive function on the length; its lemmas come from
`LeastMember` by an induction over sets of numbers, and a requeue is a removal from one
list (`RemovedLists`) followed by an appending to the other (`JoinedLists`).

For the second, `FirstMany` says that the first waiters that match are all of them or
as many as were asked for; a sleeper is on the list of the one futex in the tree for
its address, so that list is all there is to wake (`SleeperListed`, `WakeTakes`).

The third is about addresses that only the end of a thread changes. `OneJoiner` is the
assumption that a join address has one joiner, with bits its waker matches (pthread
join, and what `release_clear_child_tid` does); TLC evaluates it for the scripts of the
run. It is needed: of two joiners with one wake-up the second is left asleep.
`JoinInv` adds to `FuInv` that nobody has been requeued to a join address, that
`OneJoiner` holds of the calls begun and the calls left, and that the waker that
is still to come has not reached its own dequeueing, which shares a place (`lock`)
with the way to its work.

`SyncPromiseProofs` goes on from `IInv`, under the same assumptions:

- `CoherentHolds`: `Spec => []Coherent`
- `KeepsPromiseHolds`: `Spec => KeepsPromise`, that is, `SyncEngine` implements
  `SharedObject`

`DInv` follows the last version written: while a lease is EXCLUSIVE it is in the
confirmation on the way to that process, then in its handle, then in the first
message on the way back; otherwise the server has it. A handle that is not INVALID
has it, and so has the object while its thread is not between two steps of
`sync_lock`.

`FileLockProofs` proves, for any set of pids, any `FS_LOCK_EOF`, any `SignBit`
above 0 and lists of any length (`PidsAssumption`, `EofAssumption`,
`SignBitAssumption`: pids and positions are natural numbers):

- `ListWellFormedHolds`: `LockWalkSpec => []ListWellFormed`
- `ListKeepsPromiseHolds`: `LockWalkSpec => ListKeepsPromise`, that is, `LockWalk`
  implements `ByteLocks`
- `NoTwoConflictHolds`: no two locks in the list conflict
- `RangesExactHolds`: `RangeSpec => []RangesExact`, by linear arithmetic

The order of the list is not inductive over the turns of the loop. `Precedes`
joins it with the merging of adjacent locks; `BuiltInv` says that the list built so
far is sorted by it and precedes everything not seen yet, that it holds exactly
what was held in the places seen except the range, and that the range has grown
only over bytes which the owner held with the type asked for. `PlaceInv` says that
the new lock fits behind `prev`: this is what the `DEBUG` assertions at the end of
`_posix_lock_set` check. There is a lemma for each way a turn can end (the lock is
kept before or behind the range, cut, split, dropped or merged).

`LockRequestProofs` proves, for any processes, threads, handles, scenarios and
number of locks and requests (`ProcsAssumption`: pids and threads are positive
numbers, ranges are not empty, the leader neither exits nor is killed):

- `NoConflictHolds`: `Spec => []NoConflict`
- `BlockedForReasonHolds`: `Spec => []BlockedForReason`
- `NobodyForgottenHolds`: `Spec /\ EventsWork => []NobodyForgotten`
- `ExitedCleanHolds`: `HandlesApart /\ Spec /\ LookupsWork => []ExitedClean`
- `AnswerTrueHolds`: `HandlesApart /\ OneThreadEach /\ Spec => AnswerTrue`

Three loops run inside one step: over the locks, over the requests, and over the
passes of `file_lock_process_requests`. Each is a recursive function of the number
of turns, and what it does for a list of any length is shown by induction. The
library's induction rules take the property as an operator, which the provers cannot
instantiate; `NatSetInduction` takes it as the set of the numbers that have it, and
follows from the fact that a set of numbers has a least member (`WFMin`). The turn
lemmas of `FileLockProofs` are the induction step for the locks.

`LockInv` is the invariant behind the first two: the list is well formed and of one
family, no two locks conflict, every request is for a lock of the same family and is
blocked, and a thread asks only for locks of its own. `ProcessRequestsDone` is the
main lemma: a pass that grants something leaves fewer requests and one that grants
nothing changes nothing, so after as many passes as there are requests all are
blocked. `WaitInv` adds who waits: a thread waits exactly while it has a request in
the list, has one only, for the lock of its call, and its notify part is written
unless the IPC worker is about to do it; and while the last thread of a process
clears the locks, the other threads of that process are idle. After undefined
behaviour in the leader (`fslock_notify`) it claims nothing. `EventsWork` says that
`PalEventCreate` does not fail. Without it `NobodyForgotten` is false: the call
returns and its request stays (section 9).

`ExitInv` is for the other two. What the leader keeps is looked at by owner
(`Owned`, `Wanted`, `Askers`), and every change of it has an `Effect`: locks come only
to owners that wanted some or to the one that asks now. `ExitInv` then says that a
process which exits has no thread but one in a call, that its POSIX locks are gone
once `file_lock_clear_pid` was answered, its BSD locks once the handle was closed, and
that nothing of a process is in the leader while its flag `maybe_has_file_locks` is not
set. `NobodyWants` is why this lasts: a process of which no thread waits has no request
that could still be granted. `HandlesApart` says that no two processes have a handle
in common, and `LookupsWork` that the path can be looked up wherever BSD locks are
used; without either, `ExitedClean` is false (section 9, second list).

`AnswerTrue` needs, beside that, the effect of a pass: `SetInEffect` says that a lock
which is set is in effect and that the locks of other owners stay so, and `ProcessKeeps`
carries this through the turns and passes, for the lock that was set first and for
each one granted, whatever is granted after it. `OneThreadEach` says that a process has
one thread that locks. Where it has two, the request of one may be granted in the same
step in which the other is answered, and POSIX has it replace the lock of the same
process; so `AnswerTrue` is not to be expected there.

`IdProofs` proves, for any finite set of processes, any `PID_MAX` and any size of
a range (`IdAssumption`):

- `IdTypeCorrect`: `IdSpec => []IdTypeOK`
- `NoBugHolds`: `IdSpec => []IdNoBug`
- `NeverReusedHolds`: `IdSpec => []IdNeverReused`
- `AgreementHolds`: `IdSpec => []IdAgreement`

All come from one invariant: the leader's tree has disjoint ranges of ids handed
out; what a process has under way is in the tree, also when the process is dead;
while a process lives, the tree's ranges for it are its own and those under way, and
where it has asked to move an id, its ranges are what the leader's cut will leave.
A range counts the threads that have their ids from it (cardinalities, hence the
finite set).

`ProcessProofs` proves of `IpcRequests`, for any threads, processes and number of
requests (`IpcAssumption`):

- `IpcTypeCorrect`: `IpcSpec => []IpcTypeOK`
- `NoStrayResponse`: `IpcSpec => []IpcNoStrayResponse`
- `FailureIsLocal`: `IpcSpec => []IpcFailureIsLocal`

Both are for any choice of failing calls. `IpcInv` says who vouches for an answer
under way: whatever a living process was asked, or is on a connection from it,
either belongs to one thread that is at its wait and whose waiter is in the tree, or
was given up by a failing call; and an event is set by the answer, or because the
process is dead or a connection from it failed.

and of `ChildWait`, for any children and threads:

- `CwTypeCorrect`: `CwSpec => []CwTypeOK`
- `ReportedOnceHolds`: `CwSpec => []CwReportedOnce`
- `NodesAliveHolds`: `CwSpec => []CwNodesAlive`

`KidInv` says for each child what its connection can still hold, in which list it
is and what the worker that has read one of its messages will find; `NodeInv` says
where a thread is while its node is linked. Neither uses that `children_lock`
excludes anybody, which it does not always do (`wait_unlock`): the model ends when
two actors are inside.

`RuntimeProofs` proves, for what a process keeps for its threads:

- `OneWorkerHolds`: `AsSpec => []AsOneWorker`, for any scripts and any threads and
  workers that are not both (`AsAssumption`); the invariant ties
  `async_worker_state` to the worker that exists.
- `HostCallsHold`: `VmSpec => []VmHostCalls`
- `HostAgreesHolds`: `VmSpec => []VmHostAgrees`

The last two are for any number of threads, scripts, lengths, failures and size of
the address space. `VmAssumption` asks that threads and lengths are positive, that
the heap is a range of pages and that ASLR has a top inside the address space.
`VmHostCalls` allows the BUG() after a host that refuses to unmap, and
`VmHostAgrees` an older protection where the host refused an mprotect; neither
failure weakens the rest.
Neither property is inductive: what a call may do to the host between two holdings
of `vma_tree_lock` depends on what it did to the tree in the first. The invariant
`VmInv` says, beside the types:

- `ThreadOK`: what tree and host have at the pages of a thread's call, for each
  place a call can be at (`OpOK`): an area reserved and the host empty before an
  allocation, the placeholder of `bkeep_munmap` while the host frees, and so on; the
  pages an application has are the user's in the tree;
- `Apart`: the pages a thread has or works on (`Zone`) are not another thread's.
  The heap belongs to the holder of `brk_lock`, and to nobody while it is free;
- `HeapOK`: the tree has all of the heap, and between two calls of `brk` nothing of
  it is mapped above the current break;
- `PagesOK`: tree and host agree at each page that no call still works on.

The tree is compared page by page (`Views`): the lemmas on `Outside`, `Inside`,
`UpperPart` and `LowerPart` say once that a cut at either end, in the middle or
across several areas keeps what the tree says of every page outside of the cut,
the page of the file included. The lemma `StepKeeps` then does the rest once for all
calls: a step that changes only pages of its own thread, or new ones that no thread
has, leaves what `VmInv` says of the others; each action has to show its own part.

## 8. Only model-checked

- Liveness (`EventuallyGranted`, `EventuallyClosed`, `EventuallyReturns`,
  `RwNobodyStarves`, `FutexCallsEnd`, `IpcRequestEnds`, `CwWaitEnds`,
  `AsCleanupDone`) is out of the prover's reach.
- `WalkAgrees` and `BlockersAsked` compare folds over lists with closed forms; the
  prover knows nothing of `FoldLeft`.
- `AsRefsExact` is stated for the scripts of the run, with the exception of
  a thread whose clean-up stays listed after it was freed (section 9).
  `AsCleanupDone` has the same exception, since the worker that reads the freed
  thread may wait in `cleanup_thread` for ever.
- The refinement of `PageMap` by `Vma` (`VmKeepsPages`): `g_total_memory_size` is
  compared with the sum over the areas, a fold over a set that changes by several
  members at a time.

## 9. Findings

Shown by a run:

- `sync_upgrade_deadlock`: two processes that both hold SHARED and both lock
  EXCLUSIVE wait for each other; a thread that waits for its own upgrade keeps
  `used` set, which defers the downgrade the other one needs. One upgrader is
  enough when the other process once locked EXCLUSIVE and was downgraded.
- `fslock_notify`: `file_lock_set_from_ipc` writes the notify part after it
  released the lock, against the comment on `file_lock_add_request`.
- `wait_unlock`: `do_waitid` leaves its loop on three paths without
  `children_lock` and then unlocks it; the auto-clear event behind the lock lets
  a second thread in beside the owner.
- `async_alarm`: a turn of the async worker reads the clock twice; a timer that
  expires after the second reading of one turn and before the first of the next
  is passed over, and the worker may sleep without limit.

Met while modelling, without a run of their own:

- Sync engine: a SHARED request overtakes a waiting EXCLUSIVE one, although the
  list is said to be served in FIFO order. When the last lease is closed the
  server drops the data (`libos_sync_server.c:370`), and a process that inherited
  the handle starts from its old copy: `Coherent` and `KeepsPromise` speak of the
  data only while it has not been dropped. A send that fails in the middle of
  `process_handle` ends the server with some clients informed and others not.
- File locks: unlocking a BSD lock through an inherited handle is
  short-circuited in a process that never locked the file; a BSD lock stays when
  the path cannot be looked up at exit. When `PalEventCreate` fails in the leader
  (`libos_fs_lock.c:601`) the call returns, but its request stays in the list
  without notify part.
- Futex: a wake-up that takes a waiter off the list after its time-out fired
  counts as a wake-up (`libos_futex.c:375`).
- IPC: a waiter whose answer has arrived but was not read yet is given NULL when
  its process dies (`libos_ipc.c:201`); a request to a process that never
  connected back waits for ever when that process dies; a callback that cannot
  answer a dead requester ends the process. A wait that fails
  (`libos_ipc.c:293-295`) removes the waiter while the answer is still to come, and a
  failed read from a living process (`libos_ipc_worker.c:343-355`) wakes its waiters
  without their answers: in both cases an answer that comes after all ends the
  process (`libos_ipc.c:332`), and after a failed read an answer to a later request
  may be lost with the connection, so that its request waits for ever.
- Ids: moving the last id of a range to a child files the range although none of
  its ids may be taken (`libos_pid.c:112`), so it is never released. The comment at
  `libos_exit.c:45-47` says that when ids overflow "IPC leader could give this ID to
  somebody else" while a zombie still has it. The code does not
  (`libos_ipc_pid.c:67-72`): the leader ends with BUG() before it reuses an id, which
  is what `IdNeverReused` says and `NeverReusedHolds` proves. The comment claims a
  possibility, which is not a property a run can refute by a counterexample, so it is
  reported here only.
- Async worker: `install_async_event` that cannot create a worker fails but leaves
  the event listed (`libos_async.c:110-117`). `thread_exit` then puts the reference
  it had passed on (`libos_exit.c:123`: "`cleanup_thread` did not get this
  reference, clean it"), and the worker that is created next reads a freed thread.
  The run `runtime` reaches this state (`"cut"`); `AsRefsExact` states it as its
  exception, and shows that nothing else leads there. Also, `setitimer(0)` races the re-arming of an interval timer, which in turn cancels
  a new timer; two FIOASYNC on one descriptor put the same node twice into
  `triggered`; the exit of the last thread may find a second worker.
- Memory: two threads that unmap the same range at once reach `BUG()`. `Vma`
  assumes an application in which a thread unmaps only what it mapped. When the host
  refuses an mprotect (`libos_mmap.c:338-341`), or does a part of it, the tree keeps
  the new protection; `/proc/self/maps`, the checkpoint of a fork and later calls go
  by the tree. When the host refuses to unmap (`libos_mmap.c:210`, `388`,
  `libos_brk.c:162`, `libos_malloc.c:66`), as Linux does at its limit of mappings,
  `BUG()` ends the process.

## 10. Not modelled

Section 1 and the components in `PROJECT.json` list everything. Inside the
modelled parts:

- sync engine: the disabled mode (a local lock), fork after the object was
  written, several handles at once (they share only memory and streams);
- file locks: several files, `file_lock_get` as an action (it reads), fcntl
  commands that are not about locks, the end of the leader;
- futex: robust lists, requeue of a futex to itself, checks of arguments;
- IPC: `ipc_broadcast`, starting and ending the worker, failures of the worker that
  end the process, failures before the waiter is in the tree;
- waits: the signal to the parent, process groups, and the acknowledgement to a new
  child: when it cannot be sent (`libos_checkpoint.c:633-642`) the creator itself
  calls `mark_child_exited_by_vmid`, a fourth reporter beside message, disconnect and
  failed read, which may come second (`CwReportedOnce` does not cover it) and which
  is the only one for a child that dies before `add_child_process`; so `CwWaitEnds`
  speaks of children that live when they are listed; ids: several clones at once
  in one process, failed allocations outside of `alloc_id_range`;
- async worker: getitimer, a pipe with more bytes than one read takes, the
  worker's own failures (memory, clock), which end the process;
- memory: a call refused for its arguments or for want of room (`MmapNoReplace` and
  `Mprotect` are then not taken and the thread's script ends there; the code returns
  an error and changes nothing), caches of vma objects and the failure to get one, MAP_GROWSDOWN,
  madvise, msync, reloading of file mappings after fork.

Left out as a whole: signals, epoll, poll, file systems, dentries and mounts,
encrypted files, pipes and sockets, the PAL hosts, loader, manifest and tools.
They are host behaviour, assembly, cryptography, or sequential walking of trees
under one lock. Most lines of the repository belong to none of these: they are
the example applications under `CI-Examples` (llama.cpp, unqlite and others),
third-party code that Gramine only runs. PAL primitives (events, streams) are
modelled by how the LibOS uses them.
