# Verification of folo: synchronization primitives and the dure session manager

TLA+ models, TLC runs and TLAPS proofs for the packages of the folo repository
that carry its concurrent core logic: the primitives that threads and futures
share, and the one tool whose processes and threads share sessions. Paths are relative to the repository root.
`PROJECT.json` records, definition by definition, which lines of the source a
definition models, and for every checked property one mutation of the code that
breaks it.

## 1. Inventory

folo is a workspace of Rust packages: runtime building blocks for thread-aware
programs, measurement utilities and three families of command-line tools. The
blocks below are the ones with state that several actors share.

| Component | State it keeps | Operations | What is hard |
|---|---|---|---|
| `awaiter_set` | an intrusive doubly linked list through caller-pinned awaiters, a generation counter | register, unregister, notify_one, advance_generation, notify_one_prior_generation, take_notification | removal from anywhere, re-registration in place, a drain bounded by generation order |
| `events` (auto, manual) | one atomic word (signal bit, waiters bit), an awaiter set under a mutex | set, reset, try_wait, wait, poll, drop of the wait future | a lock-free fast path beside a locked slow path, cancellation of a notified wait, wakers called outside the mutex |
| `events` (local variants) | the same in `Cell`s on one thread | the same | wakers that re-enter the event |
| `events_once` | a five-state atomic word, a value cell, an awaiter cell, storage that one endpoint must release | set, drop of the sender; poll, is_ready, into_value, drop of the receiver | memory order, who releases, unwinding user code, spinning |
| `events_once` pools and lakes | event storage and its reference counts | rent, release, inspect | release racing with the pool's end |
| `future_deque` | a deque of slots, per-slot activation flags, reference-counted waker metadata, one parent waker | push, poll, pop, wake from any thread | lost wakeups between activation and parent update, recycled metadata |
| `vicinal` | per-processor worker groups, task queues, admission flags | submit, worker loop, shutdown, poison | tasks stranded by a race with shutdown, sleeping workers |
| `linked`, `region_local`, `region_cached` | per-thread or per-region instances behind a registry | get, set, acquire, drop | stale cached instances, cleanup at thread end |
| `nm` | per-thread observation bags and a registry | observe, report | merge while threads observe and end |
| `infinity_pool` | slabs, freelists, vacancy tracking | insert, remove, iterate | slot reuse, cached vacancy |

| `dure`, supervisor | per client a connection, a relay and an outbox; the client slot, the attach lock, the opening output, the first-attach gate; the queue of record updates | attach, steal, detach, input, output, exit, teardown | clients that stop reading, leave or steal at any moment; output, ownership and the exit in one order for each of them |
| `dure`, store and commands | claim and record files by id, open handles, process identities | run (spawn, claim, publish, commit, roll back), list, resume, kill, reaping | processes that share only files and a process table; reused ids and pids, death at any step, waits that expire |

The other packages (hardware inspection, benchmarking, command-line tools for
benchmark history and release planning, test support) are listed in `PROJECT.json` with the reason why they are not modelled: they are
sequential, numeric, or a thin layer over an operating system or a service.

How the modelled parts interact. The two events of `events` keep their waiters in
an `AwaiterSet` under a mutex; their wait futures own the awaiters and call
`poll_wait` and `drop_wait`; `set()` takes wakers out of the set under the mutex
and calls them outside. The one-shot event stands alone: its sender and its
receiver share one event and nothing else. The deque shares its metadata blocks and
the parent waker with every thread that holds one of its wakers; it is itself polled
by a task and wakes that task's waker. All of them call user code (a waker's
clone, wake and drop, a payload's drop), which may re-enter, run elsewhere or
unwind. In `dure`, `run` spawns a supervisor and settles with it over a startup
connection whether the session exists; afterwards clients reach the supervisor by its
own connection, and `list`, `resume` and `kill` meet it only in the store's files and
in the process table.

What makes each modelled part correct:

* awaiter set: the pointers always describe one queue of exactly the waiting
  awaiters, in registration order, and a drain finds everyone it must;
* auto-reset event: a signal releases exactly one wait or is stored (or merged
  into a stored one), whatever is cancelled, and no waiter sleeps beside it;
* manual-reset event: opening the gate releases everyone who waited, a `set()`
  ends, and an open gate holds nobody;
* one-shot event: the payload arrives or is destroyed exactly once, nothing is
  read before it is written, the storage is released exactly once after both
  sides have finished with it, and the receiver is never left asleep;
* deque of futures: a wake is never lost on a sleeping task, whichever task polls
  next; no waker reaches a recycled metadata block; all blocks return to the pool;
* worker pool: every submitted task runs or is cancelled, exactly once, whatever
  fails and whenever the pool is dropped; no idle worker sleeps beside a queued task;
  tasks run where their submitter's processor was admitted; the drop returns;
* supervisor: a client reads its acknowledgement, its opening output and all later
  output without a gap, then one word about the end; only a client that was found
  further behind than the limit is dropped; what was typed before a steal does not arrive behind it; the
  published flag settles on the truth; a deleted record stays deleted; nobody waits
  for a client that does not read;
* store: a live session keeps its id; a `run` that failed leaves nothing; what a
  command answers is true of the whole time it took; a kill ends the process recorded
  under the id it named and no other, whoever has its pid or its id by then.

## 2. Modules

| Module | Models | Uses |
|---|---|---|
| `AwaiterQueue` | abstract specification of `awaiter_set`: a queue with phases, wakers and a prior generation | |
| `AwaiterSet` | `packages/awaiter_set/src/set.rs`, `awaiter.rs`: head, tail, next, prev, stamps | refines `AwaiterQueue` |
| `AutoResetEvent` | `packages/events/src/auto.rs` | operations of `AwaiterQueue` |
| `ManualResetEvent` | `packages/events/src/manual.rs` | operations of `AwaiterQueue` |
| `TwoPartyMemory` | happens-before and stale loads for two endpoints (the Rust memory model as the code uses it; external) | |
| `OnceEvent` | `packages/events_once/src/core/sync/event.rs`, `sync_sender.rs`, `sync_receiver.rs`, `sync_refs.rs` | `TwoPartyMemory`, refines `OnceExchange` |
| `OnceExchange` | abstract specification of a one-shot event | |
| `FutureDeque` | `packages/future_deque/src/future_deque_core.rs`, `waker_meta.rs` | |
| `WorkerPool` | `packages/vicinal/src`: `pool_inner/admission.rs`, `inner.rs`, `worker_loop.rs`, `worker.rs`, `worker_group.rs`, submission in `scheduler.rs` | |
| `SessionSupervisor` | `packages/dure/src/supervisor`: `relay.rs`, `ownership.rs`, `shared.rs`, `record_writer.rs`; `outbox.rs` | |
| `SessionStore` | `packages/dure/src`: `supervisor/session.rs`, `supervisor/startup.rs`, `commands/run.rs`, `commands/kill.rs`, `commands/list.rs`, `gc.rs`, `pal/session_store/fs_store`, `pal/processes/windows.rs` | |
| `MC…` | symmetry sets, topologies, budgets and scenarios for the runs | |
| `…Proofs` | theorems | |

### Correspondence with the code

*Granularity.* One action per atomic operation, per access to an unsynchronized
cell and per user callback. Taking a mutex is merged into the first step under it
and releasing it into the last: nothing else of the step is visible to others.
Between polls a future may be polled (by any waker), dropped, or left alone.

*AwaiterSet.* `next`, `prev`, `head`, `tail`, `stamp` and `lifecycle` are the
fields of the awaiters and of the set. `order` is a history variable: the sequence
the pointers are meant to spell. In a debug build `pick_one` takes either end
(`DebugBuild`), in a release build the head. `MaxGeneration` bounds the counter.

*AutoResetEvent, ManualResetEvent.* `state` is the set of bits of the atomic word;
`pc[p]` is where a setter or a future stands; `hand[p]` the waker it has taken out
of the set and must still call. `armed`, `woken` and the counters are history. A
wake reaches a future only if it is of the waker of the future's latest poll. All
atomic operations are on one word, and what the mutex protects is only touched
under it, so these models are sequentially consistent. `MaxSets` bounds the number
of `set()` calls; resets, waits, polls and drops are unbounded.

*OnceEvent.* `mo` is the part of the word's modification order the receiver may
still read: a Relaxed or Acquire load may return any of it, a read-modify-write
reads the last. `mem` tracks, for each endpoint and cell, whether all accesses of
the other endpoint happen before what it does next; a plain access without that is
a race and is recorded at its site. Waker clone, wake and drop and payload drop are
steps with a second, unwinding outcome where the code allows one. The model is the
release build; a debug build adds a backtrace under a mutex of its own.

*FutureDeque.* One owner pushes, polls, pops and drops (`slots`, `status`, `meta`,
`pc`); threads hold wakers (`held`) to blocks of a pool (`refs`, `activated`,
`owner`) and clone, wake and drop them at any time. A future that wakes itself, or
keeps a waker inside, is the interleaving in which a thread runs during its poll.
`poll`, `poll_next` and `poll_back` differ in how they end (`op`). A panic in a
future leaves the poll with the slot as it was. `source`, `due`, `woken` and `asleep`
are history: for which future a waker was cloned, which futures were woken since
their latest poll, which task wakers were called, whether the task was told to wait.

*WorkerPool.* Three kinds of actors share `pc`: a submission per task, the workers,
and the owner that drops the pool. `lock` is the `worker_handles` mutex; a queue's
mutex and the affinity's are held exactly at the program points between which the code
holds them (`QueueLocked`, `AffinityLocked`). `stop_admission()` and `stop_groups()`
are steps of whoever fails, and of the owner. Allocation, spawning, pinning, the
initializer and a destructor during a drain may unwind, `MaxFaults` times; the
destructor of a task that is abandoned at admission may not (section 6). The wake event is the `event_listener` crate's: which
listener is chosen, and whether a dropped listener passes its notification on, are left
open. Submissions by tasks, initializers and destructors are the interleavings in which
another submission runs at that moment. A read-modify-write or store of the flags and
counters is one step; all of them are Acquire/Release and what they guard is under a
mutex, so the model is sequentially consistent.

*SessionSupervisor.* Each variable is a record of one part: `client[c]` the connection
and the relay thread, `outbox[c]` the queue and its writer thread, `shared` the struct
of that name, `app` the app with its console and the pump, `serve` the main thread,
`store` the record writer with its queue and the record on disk. The attach lock is held
across steps (`shared.attach`); what runs under the client slot, an outbox's lock or
the first-attach lock is one step. `Outbox::send` takes its lock twice when a client is
found above the limit: the message is queued and the backlog tested in one step
(`SendOutput`, `Displace`), and in another, before which the writer may have caught up, the
outbox is given up (`AbandonOverflowed`, `AbandonDisplaced`). The disconnection that follows
`abandon()`'s lock is joined with it: a write that completes between the two might as well
have completed before. The opening output and the exit are sent in one step (`Send`): nobody
is above the limit then, since only the pump finds a client there (`AccountsInv`), a client that
arrives has an outbox of its own, and admission ends when the pump has been joined. Whether the session waits at
the first-attach gate is decided once, when the app has exited (`WaitApp`); later only an
attach or the end of the initiator opens the gate. A relay that panics after it was
displaced closes its connection, so that the notice may be lost (`Detach`); one that ends
otherwise leaves that to its outbox. A client may leave at any time; what it wrote before
is still read. A write to a client may never complete. An app's output is a sequence of
numbered bursts of one unit, and `Backlog` counts units. `Budgets` bounds the
surroundings: how much is written, how many calls fail, who types (once) and who leaves.
`history` holds who was installed, whose input arrived, who was found above the limit, who left,
and what each was promised.

*SessionStore.* A file keeps its content: publishing puts another file under the id's
name, and a handle goes on addressing the file it opened (`handle[p].linked` says whether
the name still refers to it), as the comment on deletion in
`fs_store/windows.rs` describes. A member of `Supervisors` is a process identity (pid and
creation time); pids are chosen at birth and come back after death. `sv`, `run` and `cmd` are
the program counters of the three kinds of process; `todo`, `found` and `live` are what a
command has yet to read, has read, and has found alive. Every wait may expire, and every
process may die between any two steps. `before` and `skipped` are history. `Scenarios`
bounds who serves from the start, which commands list, which name a session, and whether
anything fails or dies.

## 3. Runs

| Run | Instance | Shows |
|---|---|---|
| `once` | one sender, one receiver, 2 wakers, with fairness | storage is sound (no use after release, cells initialized when read, no data race, ordered release); nothing leaks; no lost wakeup; readiness is stable; the receiver completes once the sender is gone and its operations return; refinement of `OnceExchange` |
| `once_drop_fence` (violation) | the same | see findings |
| `awaiter_set` | 3 awaiters, 2 wakers, 3 generations, debug build | pointers spell one queue of the waiting, sorted by stamp; each operation is the abstract one; refinement of `AwaiterQueue` |
| `auto` | 2 futures, 2 wakers, 2 setters, 2 `set()` calls, with fairness | fast path sound, no waiter beside a signal, conservation of signals; nobody sleeps on a wake that has passed; a notified wait completes |
| `manual` | 2 futures, 1 waker, 2 setters, 2 `set()` calls, with fairness | unannounced waiters belong to a drain under way, an open gate holds nobody, notified futures are woken; an opening releases who waited; `set()` returns |
| `manual_key_invariant` (violation) | 2 futures, 1 setter | see findings |
| `deque_safety` | 3 futures over 2 blocks, 2 threads, 2 tasks | no wake lost on a sleeping task, pointers to live blocks only, blocks return |
| `pool_groups` | 2 tasks, 2 groups with 3 workers | wakeups are not coalesced; groups and workers that appear during shutdown are neither missed nor leaked |
| `pool_live` | 2 tasks, 2 processors sharing a group, 1 worker, 1 failure, with fairness | a task runs only within its submitter's affinity; each ends once and none is accepted behind the drain; every task ends; dropping the pool returns |
| `supervisor_safety` | 2 clients, backlog 1, six budgets | output whole and in order, connections closed with a reason, only who was found behind is dropped, input follows ownership, the attached flag settles, deletion is final |
| `supervisor_live` | 2 clients, backlog 1, one burst or one failure, with fairness | a steal is decided; a session whose app has exited is removed |
| `session_store` | 2 supervisors, 2 commands, 2 ids, 2 pids, four scenarios | ids are kept, a failed run leaves nothing, answers are true, a kill hits its target |

`TypeOK` documents the ranges of a module's variables; it is part of the inductive
invariant and proved.

*Why the bounds are enough to be interesting.* A one-shot event has exactly two
parties and a bounded life, so its instance is complete but for the number of
distinct wakers, and two suffice to tell the latest from an earlier one. Three list
members give a head, a middle and a tail; three generations let a stamp be older
than, equal to and two behind the current. Two setters and two futures give races
between two setters, and a future being notified while the other registers or is
cancelled. Three futures over two blocks
force a block to be recycled while wakers of its former future may still exist; two
tasks let the deque move between tasks while a wake is under way. Two workers and
two tasks are the least for one notification to be merged with another. Failures are
explored with one worker (`pool_live`), where one failure at any place meets every
state of the other actors; the runs with more workers have none.

Two clients are a holder and a thief, in either role, or one that comes after the
other has left. Each
budget of `supervisor_safety` frees one side of the surroundings: two bursts against a
backlog of one, so that a client can fall behind; one burst with a client that leaves; both clients
typing, with one that leaves; both clients leaving, so that the flag's updates overtake each other;
one failing call anywhere, once with a burst and once with a client that types. The scenarios of `session_store` are: two startups that may fail
anywhere beside one command; one startup and one session beside it; one session
that ends while a list and a kill or resume run and another takes its id; two commands that
each name a session. Two ids let a startup meet a taken id; two pids let a pid come back
under another identity. What goes beyond the bounds is the business of section 4: there
safety, with the exceptions named at its end, is proved for any number of everything.

*Fairness.* A thread that is inside an operation takes its next step (weak
fairness); an executor polls a future that is new or whose waker was called; a store
becomes visible in finite time. Nothing else is assumed of the one-shot event and
the auto-reset event. In the worker pool task bodies and callbacks return; weak
fairness is enough, since only submissions, of which there are finitely many, hold
locks across steps. `IdleWorkersAreWoken` says, without any fairness, that a queued
task does not depend on the end of another one while a worker is idle. For the
manual-reset event's liveness a thread that waits for the mutex also gets it
eventually (strong fairness of the steps inside an operation): the standard library's
mutex does not promise it, and a `set()` could otherwise be kept out by futures that poll
forever. In the supervisor the threads are fair, but neither a write to a client nor
anything a client does is; the one exception is the initiator, which attaches or gives
up because `run` does one or the other, and the app, which ends once its job is closed.
The session store's run has no fairness. Callers are never obliged to call: nothing is
fair about `set()`, `reset()`, `wait()` or dropping.

*Deadlock* is checked in every run but `session_store`, where behaviours really end: processes
are not restarted, and commands finish.

### Findings

* `once_drop_fence`: `sender_dropped_without_set()` swaps with Relaxed ordering;
  when it finds that the receiver has left, the caller releases the event with
  nothing that orders the receiver's last accesses before it. `set()` has an
  acquire fence on the same path and a comment that says why.
* `manual_key_invariant`: `manual.rs` states that a clear `HAS_WAITERS` means that
  nobody is registered. A future that is polled again while `set()` runs clears the
  bit with itself and others still registered. `manual` shows, and section 4 proves,
  that the `set()` under way drains them, so nobody is lost.

Met while modelling `dure`, where comment and code part but no run of ours decides who
is right: `run.rs:170` says that an announced session stays reachable, but the supervisor's wait
for the commit (`session.rs:78`) may expire while the commit is on its way, and then
rolls the session back; `design.md:190` and `errors.rs:175` do not mention that a client
is also dropped for its backlog (`outbox.rs:84`); the first-attach gate stays open once
anybody attached (`shared.rs:97`), so that the output and exit status that `design.md:93`
assures to `dure run` can be lost to it if another client attached and left before; a displaced
client that has not read its notice when the supervisor exits never gets it
(the exception that `ClosedWithReason` states). `supervisor.md:134` says that with a failed
output pump the session does not linger for a client to arrive, but `relay.rs:123` looks at
the pump once, before `shared.rs:135` blocks: if the pump fails afterwards, the session stays until
somebody attaches or the initiator is gone. And `constants.rs:64` says that a client above the backlog
limit is not draining its pipe; since `outbox.rs:84` gives it up in a second critical section
without looking again, it may have read everything by the time it is disconnected.
`OnlyLaggardsDropped` therefore speaks of the moment at which it was found behind.

## 4. Proofs

All theorems hold for every value of the constants, under the assumptions named in
the modules: `NoWaker` is no waker, setters are no futures, bounds are naturals.

The awaiter queue: every operation preserves `QueueInv` (nobody waits twice; exactly
the waiting awaiters are queued; exactly they hold a waker; only they are of a prior
generation). There is one lemma per operation, and the two events cite them; they
stand at the head of `AutoResetEventProofs`, with `QueueConsistent` for any order of
the operations, and again at the head of `ManualResetEventProofs`. That the linked list
satisfies `QueueInv` is `ListKeepsQueueInv` of `AwaiterSetProofs`.

`AutoResetEventProofs`: `TypeCorrect`, `FastPathSound` (`WaitersAnnounced`) and
`NoWaiterLeftBehind` (`NoWaiterBesideSignal`). Neither property is inductive: that a
clear `HAS_WAITERS` means an empty queue survives `SetClear` only because the thread
that clears the bit found the queue empty and nobody could register since. `IInv`
says so: who is inside the mutex is alone there (`MutexHeld`); where the bit is about
to be overwritten the queue is empty (`ClearsOnlyEmpty`); and a future about to
register still has its announcement in the word (`FinalIsAnnounced`), which no
lock-free step removes. The proof has one lemma per action; the operations of the
queue are covered by the queue lemmas.

On top of `IInv` come `WaitersReachable` (`PendingIsReachable`) and `NoLostWakeup`
(`NotifiedIsWoken`). What makes them inductive (`WakeInv`) is where a
waker can be between its removal from the set and its call: only a thread between
those two steps (`HandsFull`) holds one (`HandsEmpty`); and a future that is inside
the mutex has not been notified since it looked (`InsideUnnotified`), so that it does not go to sleep on a wake that has passed.
`NobodySleepsForGood` joins the two to the property the run checks.

`SignalsAreConserved` (`SignalsConserved`) is a count: the signals in existence are the stored
one, those of the notified futures and those that a `set()` or a drop has in mind.
`SignalInv` adds that the last two are finite sets, so that nothing need be assumed of how
many futures and setters there are. Every step is an entry in one account (`Account`,
`Balance`): what `set()` calls bring in comes out as a served wait, a merged signal, or
moves between the three places; a forwarded notification exchanges one future for another.

`AwaiterSetProofs`: `ListWellLinked`, `ListHoldsTheWaiting`, `ListSorted`, then that
every operation on the pointers is the queue operation of the same name
(`OperationsRefine`) and that the list refines the queue (`ListRefinesQueue`). The
inductive invariant ties the pointers to `order`, position by position; the one
argument of substance is `unlink`, by the four cases of a missing or present
neighbour on either side.

`ManualResetEventProofs`: `SetPassesNobodyBy` (`WaitersCovered`), `OpenGateIsEmpty`
(`OpenGateHoldsNobody`) and `NotifiedAreWoken` (`NotifiedIsWoken`). The event's own key
invariant is false (see findings), so the argument is another one. `IInv` is the mutex
discipline (`MutexHeld`, `ClearsOnlyEmpty`, `FinalIsAnnounced`, and which futures are
armed or gone). `NobodyPassedBy` says that wherever a `set()` may already have passed a
registered awaiter by - the gate is open, the bit is clear, or a poll is about to clear
it - some `set()` is on its way to release everybody: it has yet to begin its generation,
or its drain has everybody still before it. The wake argument (`WakeInv`) is that of the
auto-reset event with a drain in place of one notification.

`FutureDequeProofs`: `NoStalePointer` (`PointersAreCurrent`), `NoBlockLeaks`
(`BlocksReturn`) and `WakesReachTheTask` (`NoLostActivation`), for any number of futures,
tasks, blocks and threads (finitely many threads: a reference count is a natural).
`IInv` has three layers. A future is in one slot (`SlotsInv`). A block's reference count
is the number of wakers that threads hold to it, and two for its slot, or one while the slot
is giving it up; a block is allocated exactly while that is not zero, and no future has two
(`BlocksInv`). `PointersAreCurrent` is inductive together with it. On that rest the wakes
(`WakesInv`): a future that was woken since its latest poll has its flag set, and if the
task sleeps, or the poll under way has already passed the future by, a wake of the latest
task waker has happened or is in the hands of a thread. The converse is needed too: the flag of a future that
anybody can still wake is set only if the future is due.

`WorkerPoolProofs`: `EveryTaskAccounted` (`TasksAccounted`), `DropJoinsEveryWorker`
(`NoWorkerOutlivesPool`), `TasksRunNearSubmitter` (`RunsNearSubmitter`) and
`NoTaskWaitsBesideSleeper` (`IdleWorkersAreWoken`), for any finite number of tasks and
workers and any number of groups, processors and failures. The assumption on groups is
what `worker_policy.rs` makes of them: a group has one processor, unless the policy shares. `IInv`
follows the questions. Which program points imply a shutdown (`FlagsInv`) and the
registration lock (`LockInv`). A worker that started has a handle, which the owner takes,
and a group starts once, before anything is admitted to it (`StartInv`). A task is in one
place, and that place belongs to its submitter's group (`PlaceInv`). A shared group learns
of a processor in the order queue, revision, membership; so a worker that has applied the
latest revision covers every member, and a worker that has not will look before it runs
anything (`AffinityInv`). A queue that the owner has found empty and unlocked after the
shutdown stays empty (`DrainInv`). The last part is the wakeups' (`CreditInv`), and the
property is not inductive without it. While the pool is open, beside a worker that has
settled the urgent tasks are at most as many as those who will look at the queues from the
start or have it done: running and notified workers, and submissions that have yet to notify one.
Beside one that waits this holds of all queued tasks, and workers that have yet to see the regular
queue count too. A push brings its own submission with it; a worker that takes a
task gives up one of each; one that finds the queue empty leaves nothing to be covered. Two
tasks that shared one notification would break it.

`SessionStoreProofs`: `NoSessionLosesItsId` (`OwnersKeepTheirIds`), `FailureLeavesNoSession`
(`FailedRunLeavesNothing`) and `KillEndsOnlyItsTarget` (`KillHitsItsTarget`), for any number
of processes, ids and pids and any scenario. None is inductive: that a deletion hits the
right file depends on what the deleter has read long before. The parts of `IInv`
follow that chain: a session serves only if its `run` was told (`RunKnows`); a linked handle
addresses what its name refers to (`LinkedIsCurrent`); an owner has files under one id
only (`FilesAreWhereTheyBelong`); what a command has read of an owner therefore stays
true of where that owner's files can be (`KnowledgeIsSettled`); commands delete only for
the dead (`OnlyTheDeadAreReaped`), and who is about to delete has the right file open
(`DeletesReach`). The proof has one lemma per action; `QuietSupervisor` and `QuietCommand`
cover those that touch no file.

`AnswersHold` (`AnswersAreTrue`) takes the command's side: a listing shows every session
that served throughout and leaves no file of one that was over before it began, unless a
reaping was refused; "no such session" is never said of one that served throughout. The
invariant (`AnswersInv`) is an account of the two passes, over the records and over the
claims. Whatever a pass has to show or to reap is yet to be read, has been read, is being
deleted, or was found alive (`NothingMissed`); a session that serves under the id asked for
is the one that was read (`NamedIsRead`); who was over stays so, and who served serves on or
never again (`NobodyReturns`). A command's account is its own, so the steps of everybody
else have only to leave it true.

`SessionSupervisorProofs` proves every safety property of the supervisor, for any number
of clients, any backlog and any budget. First `DeletedStaysDeleted` (`DeleteIsFinal`), `InputInOrder`
(`InputFollowsOwnership`) and `FlagTellsTheTruth` (`FlagSettles`). The deletion is final because the record writer stops only
for the update that ends admission, and has stopped before (`WriterStopsFirst`). Input
follows ownership because the owner of the slot is always the last one installed
(`LastInstalledOwns`) and whoever's input has arrived types no more (`InputsAreSpent`). The
flag's argument is about generations: an update of the current generation, owed by a relay or
queued, says what the slot says (`UpdatesAreTrue`), and as long as the flag does not,
such an update is ahead of it or about to be published (`FlagCatchesUp`) - a relay that
installs or removes an owner begins a generation and owes its only update.
The proof separates what most steps leave alone (`StoreSteady`, `RelaysSteady`,
`InputSteady`) from the nine steps that the arguments are about.

Then what clients read and why they are closed: `StreamsAreIntact` (`StreamIntact`),
`LaggardsOnly` (`OnlyLaggardsDropped`) and `ClosingIsExplained` (`ClosedWithReason`). The
property speaks of what a client has received, but the order is decided long before, so
`StreamInv` is about the whole stream of an outbox: received, in the writer's hand,
queued. That stream has the shape the property wants (`ShapeInv`), and while a client is
served it holds, with what is still carried to it by the opening or by the pump, exactly as
many bursts as it was promised (`AccountsInv`): nothing is skipped because every next
burst is the next promised one. This needs to know who is being served: a
client's outbox is empty until it joins and it joins once (`JoinedInv`); the attach lock makes
the hand-over of the slot exclusive (`AttachInv`); the pump routes one burst at a time, to
the owner it saw (`PumpInv`); the opening output is within the limit and kept whole for whoever comes first
(`OpeningInv`); and no notice is queued before a client's time as the owner ends
(`NoticesInv`). That nobody is found above the limit but by a burst of live output is an action property:
a client has more queued than the limit allows only between that burst's queueing and its being
given up (`AccountsInv`), and all that is queued for it was promised to it and not received
(`LimitMeansBehind`, `LaggardsOverflow`). While nothing fails, a client that is
served to the end has its word of explanation in the stream, and only one whose connection is gone
is given up (`ReasonsInv`). The operations of an outbox are proved for the record alone; a
step of the supervisor then moves one record (`StreamsSteady`, `Reduced`,
`ConnectionsFrame` say what the others keep). Throughout the project a step changes a function
at one element per EXCEPT, or at elements that are known to differ: the prover's SMT encoding does not
order two updates of the same element, and a proof must not lean on it.

`OnceEventProofs`: `NothingIsLeaked` (`NothingLeaks`), `NoWakeupIsLost` (`NoLostWakeup`),
`ReadyStaysReady` (`ReadinessIsStable`), `EventRefinesExchange` (`ImplementsExchange`) and
`StorageIsSound` (`StorageSound`), for any set of wakers. The invariant has two halves.
`ControlInv` does not speak of the memory: it relates the values of the word that the
receiver may still read to where the two endpoints stand. The word is the receiver's until the
sender's first operation on it, locked while the sender signals, then terminal (`WordInv`);
only the latest value is terminal and only the oldest readable one of the receiver's own
making (`HistoryInv`); and what the receiver has loaded rules out older values (`SawInv`).
On that rest who owns the awaiter (`AwaiterInv`), where the clones of a waker are
(`WakersInv`), and who has the payload and the storage (`PayloadInv`, `ResultInv`). The first
four theorems need no more; the refinement is proved action by action, with `Sent`, `Got`,
`Storage` and `Parcel` as the mapping.

`OrderInv` adds which accesses are ordered: a terminal value carries all that the sender did
(`TerminalCarries`), and the receiver has acquired it before it touches what it guards
(`OutcomeKnown`); the awaiter cell is the receiver's knowledge while it is the receiver's
(`AwaiterKnown`), and its announcement, like the departure, carries the receiver's accesses to
the sender (`AnnouncedCarries`, `DepartureCarries`). `StorageSound` is not inductive without this:
whether an access races depends on orderings chosen several steps before, by the other
endpoint. The operations on the memory are proved apart from the event (`Loading`, `Fencing`,
`SenderUpdating`, `ReceiverUpdating`, `Releasing`, `Exposing`, `Accessing`); each action of
the event then cites one of them. The one site at which a race remains possible is the release
by an unused sender (`RacesInv`), which is the first finding below.

Only model-checked remain: all liveness, and ENABLED, which are out of the prover's
reach.

## 5. Plan

Done: the modules above, in the order one-shot event, awaiter set, auto-reset event,
manual-reset event, deque of futures, worker pool, session supervisor, session store; the
safety proofs and the refinements of all of them. Next, in order:

1. The attaching side of `dure`, composed with the supervisor; liveness of the startup exchange.
2. Local events of `events` and `events_once`, with reentrant wakers; pools and lakes.
3. `linked` instance registry, `region_cached` invalidation, `nm` observation merge,
   `infinity_pool` slab and vacancy tracking; eager construction of `WorkerPool`.

## 6. Not modelled

Logging, backtraces and formatting; the embedded and reference-counted wrappers
around the same cores; wrap-around of the 64-bit generation; the order of user data
across a merged `set()`; a waker whose destructor re-enters the event under its
mutex; a future in the deque, or a task that the pool abandons at admission, whose destructor
unwinds. Weak memory is modelled for the one-shot event only, where it decides
correctness.

Of `dure`: reads and deletions in the store that the system refuses, torn or
unreadable files, the staging file behind a publication, and any deletion semantics but
those `fs_store/windows.rs` states; the split of messages into frames; the pseudoconsole
and the console of the attached client; the client's own loop, which appears as what the
supervisor's surroundings may do.

Most of the repository's lines are in its measurement and release tools: statistics over
real numbers, parsers, report rendering, command lines around services, and
inspection of hardware. They are sequential and their difficulty is in the data, which a
state-machine model would abstract away; they are left out on purpose, and the models cover a
small share of the repository's lines for that reason.
