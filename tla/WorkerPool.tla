----------------------------- MODULE WorkerPool -----------------------------
(***************************************************************************)
(* The worker pool of packages/vicinal: submission and admission           *)
(* (pool_inner/admission.rs), worker startup, failure and shutdown         *)
(* (pool_inner/inner.rs), the worker loop (pool_inner/worker_loop.rs,      *)
(* worker.rs) and the groups they share (worker_group.rs).                 *)
(*                                                                         *)
(* Each task is submitted once, by a thread of its own; workers run the    *)
(* tasks of their group; the owner drops the pool.  One action per atomic  *)
(* load or store that another thread can tell apart, per critical section  *)
(* and per call of user code.  Whatever can unwind may do so, MaxFaults    *)
(* times, but for the destructor of a task that is abandoned at admission: *)
(* it ends in stop_admission() and poison().                               *)
(***************************************************************************)
EXTENDS Naturals, Sequences, FiniteSets

CONSTANTS Tasks,
          Urgent,         \* the tasks submitted as urgent
          Groups,         \* destinations
          Processors,
          From,           \* where the thread that submits a task may run
          GroupOf,        \* the destination of a submission from a processor
          Workers,
          HomeOf,         \* the group of each worker
          Shares,         \* policy.shares_processors()
          MaxFaults,      \* bound on infrastructure failures
          Owner,          \* who drops the pool
          Nobody

ASSUME PoolAssumption ==
    /\ Urgent \subseteq Tasks /\ Shares \in BOOLEAN /\ MaxFaults \in Nat
    /\ From \in [Tasks -> SUBSET Processors]
    /\ GroupOf \in [Processors -> Groups] /\ HomeOf \in [Workers -> Groups]
    /\ Shares \/ \A p, q \in Processors : GroupOf[p] = GroupOf[q] => p = q
    /\ IsFiniteSet(Tasks) /\ IsFiniteSet(Workers)
    /\ Owner \notin Tasks \cup Workers /\ Tasks \cap Workers = {}
    /\ Nobody \notin Tasks \cup Workers \cup {Owner} \cup Processors

Actors == Tasks \cup Workers \cup {Owner}
Queues == Groups \X {"urgent", "regular"}

VARIABLES
    shutdown, poisoned,   \* the two terminal flags of PoolInner
    lock,       \* who holds worker_handles
    handles,    \* workers whose handle is registered
    joining,    \* the handles join_all_workers() has taken
    created,    \* groups the registry has initialized
    started,    \* WorkerGroup::startup
    flag,       \* groups whose shutdown_flag is set
    queue,      \* the urgent and the regular queue of each group
    member,     \* processors with a set membership flag
    affinity,   \* WorkerGroup::affinity
    revision,   \* WorkerGroup::affinity_revision
    listed,     \* workers with a registered listener of wake_event
    notified,   \* listeners that were notified
    pc,         \* what each submission, worker and the owner does next
    todo,       \* groups, then queues, that an actor in stop_groups() has yet to visit
    cpu,        \* the processor sampled by a submission
    hold,       \* the task a worker has dequeued
    applied,    \* the revision a worker has applied
    pinned,     \* the processors a worker is pinned to
    outcome,    \* how each task ended
    faults      \* failures so far

flagVars   == <<shutdown, poisoned>>
groupVars  == <<handles, joining, created, started, flag>>
memberVars == <<member, affinity, revision>>
eventVars  == <<listed, notified>>
workerVars == <<hold, applied, pinned>>
vars == <<flagVars, lock, groupVars, queue, memberVars, eventVars, pc, todo, cpu,
          workerVars, outcome, faults>>

Closing == {"stop", "stopped", "discard", "await_lock", "signal", "drain"}
SubmitPcs == {"new", "prepare", "rejected", "route", "cold", "start", "admit",
              "check", "push", "publish", "member", "wake_all", "wake", "done"}
WorkerPcs == {"unborn", "born", "init", "top", "refresh", "urgent", "regular", "before",
              "refresh_task", "confirm", "running", "listen", "recheck_urgent",
              "recheck_regular", "wait", "exit", "unpinned", "failed"}

OwnerPcs == {"live", "signal", "drain", "join", "joined"}

Over == {"exit", "unpinned", "failed"}   \* the worker's thread has ended

PcOK ==
    /\ pc \in [Actors -> SubmitPcs \cup WorkerPcs \cup Closing \cup OwnerPcs]
    /\ \A t \in Tasks : pc[t] \in SubmitPcs \cup Closing
    /\ \A w \in Workers : pc[w] \in WorkerPcs \cup Closing
    /\ pc[Owner] \in OwnerPcs

TypeOK ==
    /\ {shutdown, poisoned} \subseteq BOOLEAN /\ lock \in Tasks \cup {Nobody}
    /\ handles \cup joining \subseteq Workers /\ created \subseteq Groups /\ flag \subseteq Groups
    /\ started \in [Groups -> {"no", "ok", "failed"}]
    /\ queue \in [Queues -> Seq(Tasks)]
    /\ member \subseteq Processors /\ affinity \in [Groups -> SUBSET Processors]
    /\ revision \in [Groups -> Nat]
    /\ listed \subseteq Workers /\ notified \subseteq listed
    /\ PcOK
    /\ todo \in [Actors -> SUBSET (Groups \cup Queues)]
    /\ cpu \in [Tasks -> Processors \cup {Nobody}]
    /\ hold \in [Workers -> Tasks \cup {Nobody}]
    /\ applied \in [Workers -> Nat] /\ pinned \in [Workers -> SUBSET Processors]
    /\ outcome \in [Tasks -> {"none", "ran", "cancelled"}]
    /\ faults \in 0 .. MaxFaults

Init ==
    /\ shutdown = FALSE /\ poisoned = FALSE /\ lock = Nobody
    /\ handles = {} /\ joining = {} /\ created = {} /\ started = [g \in Groups |-> "no"] /\ flag = {}
    /\ queue = [q \in Queues |-> <<>>]
    /\ member = {} /\ affinity = [g \in Groups |-> {}] /\ revision = [g \in Groups |-> 0]
    /\ listed = {} /\ notified = {}
    /\ pc = [a \in Actors |-> IF a \in Tasks THEN "new"
                              ELSE IF a \in Workers THEN "unborn" ELSE "live"]
    /\ todo = [a \in Actors |-> {}]
    /\ cpu = [t \in Tasks |-> Nobody]
    /\ hold = [w \in Workers |-> Nobody] /\ applied = [w \in Workers |-> 0]
    /\ pinned = [w \in Workers |-> {}]
    /\ outcome = [t \in Tasks |-> "none"] /\ faults = 0

----------------------------------------------------------------------------
Goto(a, next) == pc' = [pc EXCEPT ![a] = next]

Target(t) == GroupOf[cpu[t]]
QueueOf(t) == <<Target(t), IF t \in Urgent THEN "urgent" ELSE "regular">>

\* Mutant: the lock is taken for the insertion, after the checks.
QueueLockedLate(q) ==
    \E t \in Tasks : pc[t] \in {"publish", "member"} /\ QueueOf(t) = q

\* admit() holds its queue's lock from its checks to its last store.
QueueLocked(q) ==
    \E t \in Tasks : pc[t] \in {"check", "push", "publish", "member"} /\ QueueOf(t) = q

\* ... and the lock of the group's affinity while it publishes a new one.
AffinityLocked(g) ==
    \E t \in Tasks : pc[t] \in {"publish", "member"} /\ Target(t) = g

Team(g) == {w \in Workers : HomeOf[w] = g}
Cancel(t) == outcome' = [outcome EXCEPT ![t] = "cancelled"]

\* Something that may unwind does: the actor stops admission.
Fault == faults < MaxFaults /\ faults' = faults + 1
Unwind(a) == Fault /\ Goto(a, "stop")

----------------------------------------------------------------------------
(* wake_event: an event of the event_listener crate. *)

\* notify(1.additional()): one more listener, if there is one.
NotifyAdditional(g) ==
    IF (listed \cap Team(g)) \ notified = {}
      THEN notified' = notified
      ELSE \E w \in (listed \cap Team(g)) \ notified : notified' = notified \cup {w}

\* notify(usize::MAX)
NotifyAll(g) == notified' = notified \cup (listed \cap Team(g))

\* A listener is dropped.  A notification it has received may go to another one.
DropListener(w) ==
    /\ listed' = listed \ {w}
    /\ \/ notified' = notified \ {w}
       \/ /\ w \in notified
          /\ \E u \in (listed \cap Team(HomeOf[w])) \ notified :
                notified' = (notified \ {w}) \cup {u}

----------------------------------------------------------------------------
(* Submission: Scheduler::spawn*(), PoolInner::submit(), enqueue_with(). *)

\* The outer submit() rejects the task of a pool that has failed.
Submit(t) ==
    /\ pc[t] = "new" /\ Goto(t, IF poisoned THEN "rejected" ELSE "prepare")
    /\ UNCHANGED <<flagVars, lock, groupVars, queue, memberVars, eventVars, todo, cpu,
                   workerVars, outcome, faults>>

\* The processor is sampled, its group created; then, in the inner submit(),
\* the task's storage is allocated.
Prepare(t) ==
    /\ pc[t] = "prepare"
    /\ \E p \in From[t] :
        /\ cpu' = [cpu EXCEPT ![t] = p]
        /\ created' = created \cup {GroupOf[p]}
    /\ \/ Goto(t, IF poisoned THEN "rejected" ELSE "route") /\ UNCHANGED faults
       \/ ~poisoned /\ Fault /\ Goto(t, "rejected")
    /\ UNCHANGED <<flagVars, lock, handles, joining, started, flag, queue, memberVars,
                   eventVars, todo, workerVars, outcome>>

\* submit() has caught a panic: unless the pool had stopped before, it poisons it.
Reject(t) ==
    /\ pc[t] = "rejected"
    /\ IF shutdown /\ poisoned THEN Goto(t, "done") /\ Cancel(t)
                               ELSE Goto(t, "stop") /\ UNCHANGED outcome
    /\ UNCHANGED <<flagVars, lock, groupVars, queue, memberVars, eventVars, todo, cpu,
                   workerVars, faults>>

\* Mutant: a group that has started admits from any processor.
RouteAnywhere(t) ==
    /\ pc[t] = "route"
    /\ Goto(t, IF started[Target(t)] # "no" THEN "admit" ELSE "cold")
    /\ UNCHANGED <<flagVars, lock, groupVars, queue, memberVars, eventVars, todo, cpu,
                   workerVars, outcome, faults>>

\* Only a known processor of a started group needs no cold transaction.
Route(t) ==
    /\ pc[t] = "route"
    /\ IF (Shares => cpu[t] \in member) /\ started[Target(t)] # "no"
         THEN Goto(t, "admit") ELSE Goto(t, "cold")
    /\ UNCHANGED <<flagVars, lock, groupVars, queue, memberVars, eventVars, todo, cpu,
                   workerVars, outcome, faults>>

\* admit_cold() takes worker_handles and looks at the flags.
AdmitCold(t) ==
    /\ pc[t] = "cold" /\ lock = Nobody
    /\ \/ poisoned /\ lock' = t /\ Goto(t, "stop") /\ UNCHANGED outcome
       \/ ~poisoned /\ shutdown /\ Goto(t, "done") /\ Cancel(t) /\ UNCHANGED lock
       \/ /\ ~poisoned /\ ~shutdown /\ lock' = t /\ UNCHANGED outcome
          /\ Goto(t, IF started[Target(t)] = "no" THEN "start" ELSE "admit")
    /\ UNCHANGED <<flagVars, groupVars, queue, memberVars, eventVars, todo, cpu,
                   workerVars, faults>>

\* start_workers_on(): one worker after the other, each acknowledged.
SpawnWorker(t) ==
    /\ pc[t] = "start" /\ \A w \in Team(Target(t)) : pc[w] \notin {"born", "unpinned"}
    /\ \/ \E w \in Team(Target(t)) :
            /\ pc[w] = "unborn" /\ Goto(w, "born")
            /\ handles' = handles \cup {w}
            /\ pinned' = [pinned EXCEPT ![w] = {cpu[t]}]
            /\ applied' = [applied EXCEPT ![w] = revision[Target(t)]]
            /\ UNCHANGED <<started, faults>>
       \/ /\ \E w \in Team(Target(t)) : pc[w] = "unborn"
          /\ Unwind(t) /\ started' = [started EXCEPT ![Target(t)] = "failed"]
          /\ UNCHANGED <<handles, pinned, applied>>
    /\ UNCHANGED <<flagVars, lock, joining, created, flag, queue, memberVars, eventVars, todo, cpu,
                   hold, outcome>>

\* The startup outcome is published, whether good or bad.
PublishStartup(t) ==
    /\ pc[t] = "start" /\ \A w \in Team(Target(t)) : pc[w] # "born"
    /\ \/ /\ \A w \in Team(Target(t)) : pc[w] \notin {"unborn", "unpinned"}
          /\ started' = [started EXCEPT ![Target(t)] = "ok"] /\ Goto(t, "admit")
       \/ /\ \E w \in Team(Target(t)) : pc[w] = "unpinned"
          /\ started' = [started EXCEPT ![Target(t)] = "failed"] /\ Goto(t, "stop")
    /\ UNCHANGED <<flagVars, lock, handles, joining, created, flag, queue, memberVars, eventVars,
                   todo, cpu, workerVars, outcome, faults>>

----------------------------------------------------------------------------
\* admit(): the queue is locked, then the flags are looked at.
Admit(t) ==
    /\ pc[t] = "admit" /\ ~QueueLocked(QueueOf(t))
    /\ IF poisoned THEN Goto(t, "stop") ELSE Goto(t, "check")
    /\ UNCHANGED <<flagVars, lock, groupVars, queue, memberVars, eventVars, todo, cpu,
                   workerVars, outcome, faults>>

\* Leaving admit() leaves admit_cold() too.
Unlock(t) == lock' = IF lock = t THEN Nobody ELSE lock

CheckShutdown(t) ==
    /\ pc[t] = "check"
    /\ IF shutdown THEN Goto(t, "done") /\ Cancel(t) /\ Unlock(t)
                   ELSE Goto(t, "push") /\ UNCHANGED <<outcome, lock>>
    /\ UNCHANGED <<flagVars, groupVars, queue, memberVars, eventVars, todo, cpu,
                   workerVars, faults>>

\* expanded_affinity(): a mask is built, under worker_handles, for a new processor.
Expands(t) == Shares /\ lock = t /\ cpu[t] \notin member

Push(t) ==
    /\ pc[t] = "push"
    /\ queue' = [queue EXCEPT ![QueueOf(t)] = Append(@, t)]
    /\ IF Expands(t)
         THEN /\ Goto(t, "publish") /\ UNCHANGED lock
              /\ affinity' = [affinity EXCEPT ![Target(t)] =
                    {p \in Processors : GroupOf[p] = Target(t) /\ p \in member \cup {cpu[t]}}]
         ELSE Goto(t, "wake") /\ Unlock(t) /\ UNCHANGED affinity
    /\ UNCHANGED <<flagVars, groupVars, member, revision, eventVars, todo, cpu,
                   workerVars, outcome, faults>>

\* The new affinity becomes visible by its revision, then by the membership.
PublishRevision(t) ==
    /\ pc[t] = "publish" /\ Goto(t, "member")
    /\ revision' = [revision EXCEPT ![Target(t)] = @ + 1]
    /\ UNCHANGED <<flagVars, lock, groupVars, queue, member, affinity, eventVars, todo, cpu,
                   workerVars, outcome, faults>>
PublishMember(t) ==
    /\ pc[t] = "member" /\ Goto(t, "wake_all") /\ Unlock(t)
    /\ member' = member \cup {cpu[t]}
    /\ UNCHANGED <<flagVars, groupVars, queue, affinity, revision, eventVars, todo, cpu,
                   workerVars, outcome, faults>>

\* Outside all locks: everyone for a new affinity, then one more for the task.
WakeAll(t) ==
    /\ pc[t] = "wake_all" /\ Goto(t, "wake") /\ NotifyAll(Target(t))
    /\ UNCHANGED <<flagVars, lock, groupVars, queue, memberVars, listed, todo, cpu,
                   workerVars, outcome, faults>>

\* Mutant: notify(1), which counts a listener that was notified before.
WakeOneCoalesced(t) ==
    /\ pc[t] = "wake" /\ Goto(t, "done")
    /\ IF notified \cap Team(Target(t)) # {}
         THEN UNCHANGED notified ELSE NotifyAdditional(Target(t))
    /\ UNCHANGED <<flagVars, lock, groupVars, queue, memberVars, listed, todo, cpu,
                   workerVars, outcome, faults>>

WakeOne(t) ==
    /\ pc[t] = "wake" /\ Goto(t, "done") /\ NotifyAdditional(Target(t))
    /\ UNCHANGED <<flagVars, lock, groupVars, queue, memberVars, listed, todo, cpu,
                   workerVars, outcome, faults>>

----------------------------------------------------------------------------
(* Failure and shutdown: stop_admission(), poison(), stop_groups(). *)

StopAdmission(a) ==
    /\ pc[a] = "stop" /\ Goto(a, "stopped") /\ poisoned' = TRUE
    /\ UNCHANGED <<shutdown, lock, groupVars, queue, memberVars, eventVars, todo, cpu,
                   workerVars, outcome, faults>>
StopShutdown(a) ==
    /\ pc[a] = "stopped" /\ Goto(a, "discard") /\ shutdown' = TRUE /\ Unlock(a)
    /\ UNCHANGED <<poisoned, groupVars, queue, memberVars, eventVars, todo, cpu,
                   workerVars, outcome, faults>>

\* discard_task_after_failure(): the task in hand, if any, is cancelled.
Discard(a) ==
    /\ pc[a] = "discard" /\ Goto(a, "await_lock")
    /\ IF a \in Tasks THEN Cancel(a) /\ UNCHANGED hold
       ELSE IF hold[a] # Nobody
              THEN Cancel(hold[a]) /\ hold' = [hold EXCEPT ![a] = Nobody]
              ELSE UNCHANGED <<outcome, hold>>
    /\ UNCHANGED <<flagVars, lock, groupVars, queue, memberVars, eventVars, todo, cpu,
                   applied, pinned, faults>>

\* poison() waits for a startup in progress before it looks at the groups.
AwaitRegistration(a) ==
    /\ pc[a] = "await_lock" /\ lock = Nobody
    /\ Goto(a, "signal") /\ todo' = [todo EXCEPT ![a] = Groups]
    /\ UNCHANGED <<flagVars, lock, groupVars, queue, memberVars, eventVars, cpu,
                   workerVars, outcome, faults>>

CloseAdmission ==
    /\ pc[Owner] = "live" /\ shutdown' = TRUE
    /\ joining' = handles /\ handles' = {}
    /\ Goto(Owner, "signal") /\ todo' = [todo EXCEPT ![Owner] = Groups]
    /\ UNCHANGED <<poisoned, lock, created, started, flag, queue, memberVars, eventVars, cpu,
                   workerVars, outcome, faults>>

\* Mutant: admission is closed without regard to a startup in progress.
JoinWithoutLock == CloseAdmission

\* join_all_workers() closes admission and takes the handles under worker_handles.
JoinAllWorkers == lock = Nobody /\ CloseAdmission

\* The groups, and later their queues, are visited in a fixed order.
Visited(a) == CHOOSE x \in todo[a] : TRUE

\* signal_shutdown() of each group that exists: the flag, then the broadcast.
SignalFlag(a) ==
    /\ pc[a] = "signal" /\ todo[a] # {} /\ Visited(a) \in created \ flag
    /\ flag' = flag \cup {Visited(a)}
    /\ UNCHANGED <<flagVars, lock, handles, joining, created, started, queue, memberVars, eventVars,
                   pc, todo, cpu, workerVars, outcome, faults>>
SignalAll(a) ==
    /\ pc[a] = "signal" /\ todo[a] # {}
    /\ todo' = [todo EXCEPT ![a] = @ \ {Visited(a)}]
    /\ \/ Visited(a) \notin created /\ UNCHANGED notified
       \/ Visited(a) \in created \cap flag /\ NotifyAll(Visited(a))
    /\ UNCHANGED <<flagVars, lock, groupVars, queue, memberVars, listed, pc, cpu,
                   workerVars, outcome, faults>>

BeginDrain(a) ==
    /\ pc[a] = "signal" /\ todo[a] = {} /\ Goto(a, "drain")
    /\ todo' = [todo EXCEPT ![a] = Queues]
    /\ UNCHANGED <<flagVars, lock, groupVars, queue, memberVars, eventVars, cpu,
                   workerVars, outcome, faults>>

\* discard_queue(): one task after the other, dropped outside the queue's lock;
\* a panic in its destructor is recorded and the drain goes on.
DiscardQueue(a) ==
    /\ pc[a] = "drain" /\ todo[a] # {}
    /\ LET q == Visited(a)
       IN  \/ /\ q[1] \in created /\ ~QueueLocked(q) /\ queue[q] # <<>>
              /\ queue' = [queue EXCEPT ![q] = Tail(@)] /\ Cancel(Head(queue[q]))
              /\ \/ UNCHANGED <<poisoned, faults>>
                 \/ Fault /\ poisoned' = TRUE
              /\ UNCHANGED todo
           \/ /\ (q[1] \in created => ~QueueLocked(q) /\ queue[q] = <<>>)
              /\ todo' = [todo EXCEPT ![a] = @ \ {q}]
              /\ UNCHANGED <<queue, outcome, poisoned, faults>>
    /\ UNCHANGED <<shutdown, lock, groupVars, memberVars, eventVars, pc, cpu, workerVars>>

\* A failing submission and a failing worker unwind further; the owner joins.
EndDrain(a) ==
    /\ pc[a] = "drain" /\ todo[a] = {}
    /\ Goto(a, IF a \in Tasks THEN "done" ELSE IF a \in Workers THEN "failed" ELSE "join")
    /\ UNCHANGED <<flagVars, lock, groupVars, queue, memberVars, eventVars, todo, cpu,
                   workerVars, outcome, faults>>

\* Every handle that was taken is joined.
Join ==
    /\ pc[Owner] = "join" /\ \A w \in joining : pc[w] \in Over
    /\ Goto(Owner, "joined")
    /\ poisoned' = (poisoned \/ \E w \in joining : pc[w] = "failed")
    /\ UNCHANGED <<shutdown, lock, groupVars, queue, memberVars, eventVars, todo, cpu,
                   workerVars, outcome, faults>>

----------------------------------------------------------------------------
(* Workers: the entry of start_workers_on(), run_worker(), worker_loop(). *)

\* A new worker applies its affinity and acknowledges it.
Pin(w) ==
    /\ pc[w] = "born"
    /\ \/ Goto(w, "init") /\ UNCHANGED faults
       \/ Fault /\ Goto(w, "unpinned")
    /\ UNCHANGED <<flagVars, lock, groupVars, queue, memberVars, eventVars, todo, cpu,
                   workerVars, outcome>>

\* thread_init, a callback.
ThreadInit(w) ==
    /\ pc[w] = "init"
    /\ (Goto(w, "top") /\ UNCHANGED faults) \/ Unwind(w)
    /\ UNCHANGED <<flagVars, lock, groupVars, queue, memberVars, eventVars, todo, cpu,
                   workerVars, outcome>>

LoopTop(w) ==
    /\ pc[w] = "top"
    /\ Goto(w, IF shutdown THEN "exit" ELSE IF Shares THEN "refresh" ELSE "urgent")
    /\ UNCHANGED <<flagVars, lock, groupVars, queue, memberVars, eventVars, todo, cpu,
                   workerVars, outcome, faults>>

\* refresh_affinity(), at the top of the loop and before a task.
RefreshAffinity(w) ==
    /\ pc[w] \in {"refresh", "refresh_task"}
    /\ LET g == HomeOf[w]
           next == IF pc[w] = "refresh" THEN "urgent" ELSE "confirm"
       IN  \/ /\ revision[g] = applied[w] /\ Goto(w, next)
              /\ UNCHANGED <<applied, pinned, faults>>
           \/ /\ revision[g] # applied[w] /\ ~AffinityLocked(g)
              /\ Goto(w, next) /\ UNCHANGED faults
              /\ applied' = [applied EXCEPT ![w] = revision[g]]
              /\ pinned' = [pinned EXCEPT ![w] = affinity[g]]
           \/ /\ revision[g] # applied[w] /\ ~AffinityLocked(g)
              /\ Unwind(w) /\ UNCHANGED <<applied, pinned>>
    /\ UNCHANGED <<flagVars, lock, groupVars, queue, memberVars, eventVars, todo, cpu,
                   hold, outcome>>

Pop(w, q, otherwise) ==
    /\ ~QueueLocked(q)
    /\ IF queue[q] # <<>>
         THEN /\ Goto(w, "before") /\ hold' = [hold EXCEPT ![w] = Head(queue[q])]
              /\ queue' = [queue EXCEPT ![q] = Tail(@)]
         ELSE Goto(w, otherwise) /\ UNCHANGED <<hold, queue>>

\* run_one_iteration_with(): the group's flag, then the urgent queue first.
PopUrgent(w) ==
    /\ pc[w] = "urgent"
    /\ IF HomeOf[w] \in flag
         THEN Goto(w, "exit") /\ UNCHANGED <<hold, queue>>
         ELSE Pop(w, <<HomeOf[w], "urgent">>, "regular")
    /\ UNCHANGED <<flagVars, lock, groupVars, memberVars, eventVars, todo, cpu,
                   applied, pinned, outcome, faults>>
PopRegular(w) ==
    /\ pc[w] = "regular" /\ Pop(w, <<HomeOf[w], "regular">>, "listen")
    /\ UNCHANGED <<flagVars, lock, groupVars, memberVars, eventVars, todo, cpu,
                   applied, pinned, outcome, faults>>

\* before_task: a pool that is stopping runs nothing more; the task is dropped.
BeforeTask(w) ==
    /\ pc[w] \in {"before", "confirm"}
    /\ IF shutdown
         THEN /\ Goto(w, "exit") /\ Cancel(hold[w]) /\ hold' = [hold EXCEPT ![w] = Nobody]
         ELSE /\ Goto(w, IF pc[w] = "confirm" THEN "running"
                         ELSE IF Shares THEN "refresh_task" ELSE "confirm")
              /\ UNCHANGED <<outcome, hold>>
    /\ UNCHANGED <<flagVars, lock, groupVars, queue, memberVars, eventVars, todo, cpu,
                   applied, pinned, faults>>

\* The body returns or unwinds inside its wrapper; the result is delivered.
TaskEnds(w) ==
    /\ pc[w] = "running" /\ Goto(w, "top")
    /\ outcome' = [outcome EXCEPT ![hold[w]] = "ran"] /\ hold' = [hold EXCEPT ![w] = Nobody]
    /\ UNCHANGED <<flagVars, lock, groupVars, queue, memberVars, eventVars, todo, cpu,
                   applied, pinned, faults>>

\* Nothing to do: the worker registers, looks again and only then waits.
Listen(w) ==
    /\ pc[w] = "listen" /\ Goto(w, "recheck_urgent") /\ listed' = listed \cup {w}
    /\ UNCHANGED <<flagVars, lock, groupVars, queue, memberVars, notified, todo, cpu,
                   workerVars, outcome, faults>>

LookAgain(w, found, otherwise) ==
    IF found THEN Goto(w, "top") /\ DropListener(w)
             ELSE Goto(w, otherwise) /\ UNCHANGED eventVars

\* Mutant: the urgent queue is not looked at again.
RecheckUrgentSkipped(w) ==
    /\ pc[w] = "recheck_urgent" /\ Goto(w, "recheck_regular")
    /\ UNCHANGED <<flagVars, lock, groupVars, queue, memberVars, eventVars, todo, cpu,
                   workerVars, outcome, faults>>

RecheckUrgent(w) ==
    LET q == <<HomeOf[w], "urgent">>
    IN  /\ pc[w] = "recheck_urgent" /\ ~QueueLocked(q)
        /\ LookAgain(w, queue[q] # <<>>, "recheck_regular")
        /\ UNCHANGED <<flagVars, lock, groupVars, queue, memberVars, todo, cpu,
                       workerVars, outcome, faults>>

\* Mutant: the group's shutdown flag is not looked at again.
RecheckNoFlag(w) ==
    LET q == <<HomeOf[w], "regular">>
    IN  /\ pc[w] = "recheck_regular" /\ ~QueueLocked(q)
        /\ LookAgain(w, queue[q] # <<>> \/ revision[HomeOf[w]] # applied[w], "wait")
        /\ UNCHANGED <<flagVars, lock, groupVars, queue, memberVars, todo, cpu,
                       workerVars, outcome, faults>>

RecheckRegular(w) ==
    LET q == <<HomeOf[w], "regular">>
    IN  /\ pc[w] = "recheck_regular" /\ ~QueueLocked(q)
        /\ LookAgain(w, \/ queue[q] # <<>> \/ HomeOf[w] \in flag
                        \/ revision[HomeOf[w]] # applied[w], "wait")
        /\ UNCHANGED <<flagVars, lock, groupVars, queue, memberVars, todo, cpu,
                       workerVars, outcome, faults>>

WakeUp(w) ==
    /\ pc[w] = "wait" /\ w \in notified /\ Goto(w, "top")
    /\ listed' = listed \ {w} /\ notified' = notified \ {w}
    /\ UNCHANGED <<flagVars, lock, groupVars, queue, memberVars, todo, cpu,
                   workerVars, outcome, faults>>

----------------------------------------------------------------------------
SubmitStep(t) ==
    \/ Prepare(t) \/ Reject(t) \/ Route(t) \/ AdmitCold(t) \/ SpawnWorker(t) \/ PublishStartup(t)
    \/ Admit(t) \/ CheckShutdown(t) \/ Push(t) \/ PublishRevision(t) \/ PublishMember(t)
    \/ WakeAll(t) \/ WakeOne(t)

WorkerStep(w) ==
    \/ Pin(w) \/ ThreadInit(w) \/ LoopTop(w) \/ RefreshAffinity(w) \/ PopUrgent(w)
    \/ PopRegular(w) \/ BeforeTask(w) \/ TaskEnds(w) \/ Listen(w) \/ RecheckUrgent(w)
    \/ RecheckRegular(w) \/ WakeUp(w)

CloseStep(a) ==
    \/ SignalFlag(a) \/ SignalAll(a) \/ BeginDrain(a) \/ DiscardQueue(a) \/ EndDrain(a)

PoisonStep(a) == StopAdmission(a) \/ StopShutdown(a) \/ Discard(a) \/ AwaitRegistration(a)

Finished ==
    /\ pc[Owner] = "joined" /\ (\A t \in Tasks : pc[t] = "done") /\ UNCHANGED vars

Next ==
    \/ \E t \in Tasks : Submit(t) \/ SubmitStep(t) \/ PoisonStep(t)
    \/ \E w \in Workers : WorkerStep(w) \/ PoisonStep(w)
    \/ JoinAllWorkers \/ Join \/ Finished
    \/ \E a \in Actors : CloseStep(a)

Spec == Init /\ [][Next]_vars

\* Threads inside an operation go on; task bodies and callbacks return.
Fairness ==
    /\ \A t \in Tasks : WF_vars(SubmitStep(t) \/ PoisonStep(t) \/ CloseStep(t))
    /\ \A w \in Workers : WF_vars(WorkerStep(w) \/ PoisonStep(w) \/ CloseStep(w))
    /\ WF_vars(CloseStep(Owner) \/ Join)

FairSpec == Spec /\ Fairness

----------------------------------------------------------------------------
(* Properties. *)

\* Where a task that was submitted can be.
WithSubmitter == {t \in Tasks :
    pc[t] \in {"new", "prepare", "rejected", "route", "cold", "start", "admit", "check", "push",
               "stop", "stopped", "discard"}}
Ended(t) == outcome[t] # "none"

Places(t) ==
      (IF t \in WithSubmitter THEN 1 ELSE 0)
    + Cardinality({x \in UNION {{q} \X DOMAIN queue[q] : q \in Queues} : queue[x[1]][x[2]] = t})
    + Cardinality({w \in Workers : hold[w] = t})
    + (IF Ended(t) THEN 1 ELSE 0)

\* A task is in exactly one place whatever fails around it: with the call that
\* submits it, in one queue, with one worker, or ended as run or as cancelled.
\* So it runs at most once and its handle is resolved exactly once (execute_task,
\* discard_queue, discard_task_after_failure, JoinedTask::drop).
TaskInOnePlace == \A t \in Tasks : Places(t) = 1

\* Once the owner has drained the queues nothing is accepted any more, so that
\* no task is left behind by a submission that raced with the shutdown, also
\* into a group that was created after the scan (join_all_workers, admit).
ClosedStaysEmpty ==
    pc[Owner] \in {"join", "joined"} =>
        /\ \A q \in Queues : queue[q] = <<>>
        /\ \A t \in Tasks : pc[t] # "push"

\* Both at once: every task is accounted for, before and after the pool closes.
TasksAccounted == TaskInOnePlace /\ ClosedStaysEmpty

\* A pool that is gone leaves no thread behind: when the drop has returned,
\* every worker that was ever started has ended, also one whose startup raced
\* with the drop (admit_cold and join_all_workers, both under worker_handles).
NoWorkerOutlivesPool ==
    pc[Owner] = "joined" => \A w \in Workers : pc[w] \in Over \cup {"unborn"}

\* Workers of a group that are on their way to look at the queues.
Looking(g) == {w \in Team(g) :
    \/ pc[w] \in {"born", "init", "top", "refresh", "urgent", "regular", "listen",
                  "recheck_urgent"}
    \/ pc[w] \in {"recheck_regular", "wait"} /\ w \in notified}

Backlog(g, kind) == Len(queue[<<g, kind>>])
Queued(g) == Backlog(g, "urgent") + Backlog(g, "regular")

\* Submissions that have queued their task and not yet notified a worker.
Announcing(g) == {t \in Tasks :
    pc[t] \in {"publish", "member", "wake_all", "wake"} /\ Target(t) = g}

\* While nobody has begun to stop the pool and a worker sleeps, every queued task has a worker of
\* its own on the way, or a submission that is about to notify one: no task
\* waits for the end of another one beside an idle worker (enqueue_with(): "Each
\* queued task may block its worker; do not coalesce wakeups").
IdleWorkersAreWoken ==
    (~shutdown /\ \A a \in Actors : pc[a] \notin Closing) =>
        \A g \in Groups : (\E w \in Team(g) : pc[w] = "wait" /\ w \notin notified) =>
            Queued(g) <= Cardinality(Looking(g)) + Cardinality(Announcing(g))

\* A task runs only on a worker whose affinity includes the processor that
\* submitted it (admit(): queue, revision, then membership; before_task).
RunsNearSubmitter ==
    \A w \in Workers : pc[w] = "running" => cpu[hold[w]] \in pinned[w]

\* Every task that was submitted ends: it runs, or it is cancelled.
SubmittedEnds == \A t \in Tasks : pc[t] = "prepare" ~> Ended(t)

\* Dropping the pool returns, with every worker ended.
JoinReturns == pc[Owner] = "signal" ~> pc[Owner] = "joined"

----------------------------------------------------------------------------
(* The inductive invariant. *)

\* The flag of a group and every visit of the groups come after shutdown.
FlagsInv ==
    /\ \A a \in Actors :
          pc[a] \in {"discard", "await_lock", "signal", "drain", "join", "joined"} => shutdown
    /\ flag # {} => shutdown

\* worker_handles is held through a startup and the publication of an affinity.
LockInv == \A t \in Tasks : pc[t] \in {"start", "publish", "member"} => lock = t

Admitting == {"admit", "check", "push", "publish", "member"}

\* A started worker has a handle, which the owner takes; startup happens once,
\* before anything is admitted to the group.
StartInv ==
    /\ \A w \in Workers : pc[w] # "unborn" => w \in handles \cup joining
    /\ pc[Owner] = "live" => joining = {}
    /\ pc[Owner] # "live" => handles = {} /\ \A t \in Tasks : pc[t] # "start"
    /\ pc[Owner] = "joined" => \A w \in joining : pc[w] \in Over
    /\ \A t \in Tasks :
          /\ pc[t] = "start" => started[Target(t)] = "no"
          /\ pc[t] \in Admitting => started[Target(t)] # "no"
    /\ \A w \in Workers : pc[w] = "born" => started[HomeOf[w]] = "no"
    /\ \A g \in Groups : started[g] = "no" =>
          /\ queue[<<g, "urgent">>] = <<>> /\ queue[<<g, "regular">>] = <<>>
          /\ \A p \in member : GroupOf[p] # g

Routed == {"route", "cold", "start", "wake_all", "wake"} \cup Admitting
Pushed == {"publish", "member", "wake_all", "wake", "done"}
InHand == {"before", "refresh_task", "confirm", "running"}

InQueue(t) == \E q \in Queues : \E i \in DOMAIN queue[q] : queue[q][i] = t
InHands(t) == \E w \in Workers : hold[w] = t

\* A task keeps to the queue and the workers of its submitter's group, is in one
\* place at a time, and is out of its queue only when its admission is complete.
PlaceInv ==
    /\ \A t \in Tasks : pc[t] \in Routed \/ InQueue(t) \/ InHands(t) =>
          cpu[t] \in Processors /\ Target(t) \in created
    /\ \A q \in Queues : \A i \in DOMAIN queue[q] :
          QueueOf(queue[q][i]) = q /\ pc[queue[q][i]] \in Pushed
    /\ \A q \in Queues : \A i, j \in DOMAIN queue[q] : queue[q][i] = queue[q][j] => i = j
    /\ \A w \in Workers :
          /\ hold[w] # Nobody => /\ pc[w] \in InHand \cup {"stop", "stopped", "discard"}
                                 /\ Target(hold[w]) = HomeOf[w]
                                 /\ pc[hold[w]] \in Pushed \ {"publish", "member"}
          /\ pc[w] \in InHand => hold[w] # Nobody
    /\ \A v, w \in Workers : hold[v] = hold[w] /\ hold[v] # Nobody => v = w
    /\ \A t \in Tasks :
          /\ t \in WithSubmitter => ~InQueue(t) /\ ~InHands(t) /\ ~Ended(t)
          /\ t \notin WithSubmitter => InQueue(t) \/ InHands(t) \/ Ended(t)
          /\ ~(InQueue(t) /\ InHands(t)) /\ ~(InQueue(t) /\ Ended(t))
          /\ ~(InHands(t) /\ Ended(t))

\* The processors of its group that worker w is known to run on, or must yet learn of.
Covers(w) == \A p \in member : GroupOf[p] = HomeOf[w] => p \in pinned[w]

\* A shared group learns of a processor in the order queue, revision, membership:
\* a worker that has applied the latest revision covers every member, and a
\* task is visible to workers only when its processor is a member.
AffinityInv ==
    /\ member \subseteq Processors
    /\ \A t \in Tasks : pc[t] \in {"publish", "member"} => Shares
    /\ Shares \/ \A w \in Workers :
          /\ pc[w] \notin {"refresh", "refresh_task"}
          /\ \A p \in Processors :
                pc[w] # "unborn" /\ GroupOf[p] = HomeOf[w] => p \in pinned[w]
    /\ Shares =>
          /\ \A t \in Tasks :
                /\ pc[t] \in {"admit", "check", "push"} => lock = t \/ cpu[t] \in member
                /\ pc[t] \in {"publish", "member"} => cpu[t] \in affinity[Target(t)]
                /\ InQueue(t) => cpu[t] \in member \/ pc[t] \in {"publish", "member"}
                /\ InHands(t) => cpu[t] \in member
                /\ \A w \in Workers :
                      pc[t] = "member" /\ Target(t) = HomeOf[w] /\ pc[w] # "unborn"
                      => applied[w] < revision[HomeOf[w]]
          /\ \A p \in member : p \in affinity[GroupOf[p]]
          /\ \A w \in Workers : pc[w] # "unborn" =>
                applied[w] <= revision[HomeOf[w]]
                /\ (applied[w] = revision[HomeOf[w]] => Covers(w))
    /\ \A w \in Workers : pc[w] \in {"confirm", "running"} => cpu[hold[w]] \in pinned[w]

\* A queue that the owner has found empty and unlocked after shutdown stays empty.
Sealed(q) == queue[q] = <<>> /\ \A t \in Tasks : pc[t] = "push" => QueueOf(t) # q

DrainInv ==
    /\ \A a \in Actors : pc[a] = "drain" => todo[a] \subseteq Queues
    /\ pc[Owner] = "drain" => \A q \in Queues \ todo[Owner] : Sealed(q)
    /\ pc[Owner] \in {"join", "joined"} => \A q \in Queues : Sealed(q)

\* Who will look at both queues of a group from the start, or have it done: its
\* notified or running workers, and the submissions that are about to notify one.
Eager == {"born", "init", "top", "refresh", "urgent"}
Fresh(g) == {w \in Team(g) : pc[w] \in Eager \/ w \in notified}
        \cup Announcing(g)
\* Who has looked at the urgent queue only.
Late(g) == {w \in Team(g) : pc[w] = "regular"}

Waits(g) == \E w \in Team(g) : pc[w] = "wait" /\ w \notin notified
Settles(g) == \E w \in Team(g) : pc[w] \in {"recheck_regular", "wait"} /\ w \notin notified

Open == ~shutdown /\ \A a \in Actors : pc[a] \notin Closing

\* Beside a worker that has settled, every urgent task has someone fresh; beside one
\* that waits, every task has someone of its own who has yet to see its queue.
Credit(g) ==
    /\ Settles(g) => Backlog(g, "urgent") <= Cardinality(Fresh(g))
    /\ Waits(g) => Queued(g) <= Cardinality(Fresh(g) \cup Late(g))

\* Exactly the workers that look again or wait have a listener.
CreditInv ==
    /\ listed = {w \in Workers : pc[w] \in {"recheck_urgent", "recheck_regular", "wait"}}
    /\ Open => \A g \in Groups : Credit(g)

IInv == TypeOK /\ FlagsInv /\ LockInv /\ StartInv /\ PlaceInv /\ AffinityInv /\ DrainInv /\ CreditInv

=============================================================================
