-------------------------- MODULE WorkerPoolProofs --------------------------
(***************************************************************************)
(* Proofs about the worker pool, for any number of tasks, workers, groups, *)
(* processors and failures: every task is in one place, nothing enters the *)
(* queues of a closed pool, no worker outlives it, tasks run where their   *)
(* submitter's processor is covered, and no task waits beside a sleeping   *)
(* worker.                                                                 *)
(*                                                                         *)
(* Each part of IInv has a lemma for the steps it cares about and one for  *)
(* those that leave its variables, or its control states, alone.           *)
(***************************************************************************)
EXTENDS WorkerPool, FiniteSetTheorems, TLAPS

\* Submissions, workers and the owner are different actors.
LEMMA Kinds ==
    /\ \A t \in Tasks : t \in Actors /\ t \notin Workers /\ t # Owner /\ t # Nobody
    /\ \A w \in Workers : w \in Actors /\ w \notin Tasks /\ w # Owner /\ w # Nobody
    /\ Owner \in Actors /\ Owner # Nobody /\ Owner \notin Tasks /\ Owner \notin Workers
    /\ Nobody \notin Processors
    /\ \A a \in Actors : a \in Tasks \/ a \in Workers \/ a = Owner
BY PoolAssumption DEF Actors

----------------------------------------------------------------------------
(* Types. *)

\* Where each kind of actor can go.
LEMMA TaskGoes ==
    ASSUME PcOK, NEW t \in Tasks, NEW next \in SubmitPcs \cup Closing, Goto(t, next)
    PROVE  PcOK'
BY Kinds DEF PcOK, Goto

\* A worker takes a step, or unwinds.
LEMMA WorkerGoes ==
    ASSUME PcOK, NEW w \in Workers, NEW next \in WorkerPcs \cup Closing, Goto(w, next)
    PROVE  PcOK'
BY Kinds DEF PcOK, Goto

\* The owner goes on dropping the pool.
LEMMA OwnerGoes ==
    ASSUME PcOK, NEW next \in OwnerPcs, Goto(Owner, next)
    PROVE  PcOK'
BY Kinds DEF PcOK, Goto

\* Submissions other than the start of a worker and the insertion of a task.
LEMMA SubmitTypes ==
    ASSUME TypeOK, NEW t \in Tasks,
           \/ Submit(t) \/ Prepare(t) \/ Reject(t) \/ Route(t) \/ AdmitCold(t)
           \/ PublishStartup(t) \/ Admit(t) \/ CheckShutdown(t) \/ WakeAll(t) \/ WakeOne(t)
    PROVE  TypeOK'
<1>1. PcOK'
  <2>1. \E next \in SubmitPcs \cup Closing : Goto(t, next)
    BY DEF Submit, Prepare, Reject, Route, AdmitCold, PublishStartup, Admit, CheckShutdown,
       WakeAll, WakeOne, SubmitPcs, Closing
  <2> QED
    BY <2>1, TaskGoes DEF TypeOK
<1>2. From[t] \subseteq Processors /\ \A p \in Processors : GroupOf[p] \in Groups
  BY PoolAssumption
<1>3. CASE Submit(t) \/ Reject(t) \/ Route(t) \/ Admit(t)
  BY <1>1, <1>3 DEF Submit, Reject, Route, Admit, Cancel, TypeOK,
     flagVars, groupVars, memberVars, eventVars, workerVars
<1>4. CASE Prepare(t)
  <2>1. faults' \in 0 .. MaxFaults
    BY <1>4, PoolAssumption DEF Prepare, Fault, TypeOK
  <2>2. cpu' \in [Tasks -> Processors \cup {Nobody}] /\ created' \subseteq Groups
    BY <1>2, <1>4 DEF Prepare, TypeOK
  <2> QED
    BY <1>1, <1>4, <2>1, <2>2 DEF Prepare, TypeOK, flagVars, memberVars, eventVars, workerVars
<1>5. CASE AdmitCold(t) \/ CheckShutdown(t)
  BY <1>1, <1>5 DEF AdmitCold, CheckShutdown, Unlock, Cancel, TypeOK,
     flagVars, groupVars, memberVars, eventVars, workerVars
<1>6. CASE PublishStartup(t)
  BY <1>1, <1>6 DEF PublishStartup, TypeOK, flagVars, memberVars, eventVars, workerVars
<1>7. CASE WakeAll(t) \/ WakeOne(t)
  BY <1>1, <1>7 DEF WakeAll, WakeOne, NotifyAll, NotifyAdditional, TypeOK,
     flagVars, groupVars, memberVars, workerVars
<1> QED
  BY <1>3, <1>4, <1>5, <1>6, <1>7

\* The processor and the group of a submission that has been routed.
LEMMA RoutedTarget ==
    ASSUME TypeOK, PlaceInv, NEW t \in Tasks, pc[t] \in Routed \/ InQueue(t) \/ InHands(t)
    PROVE  /\ cpu[t] \in Processors /\ Target(t) \in Groups /\ Target(t) \in created
           /\ QueueOf(t) \in Queues /\ QueueOf(t)[1] = Target(t)
<1>1. cpu[t] \in Processors /\ Target(t) \in Groups /\ Target(t) \in created
  BY PoolAssumption DEF PlaceInv, Target
<1> QED
  BY <1>1 DEF QueueOf, Queues

\* The start of a worker, the insertion of a task and what follows it.
LEMMA AdmitTypes ==
    ASSUME IInv, NEW t \in Tasks,
           SpawnWorker(t) \/ Push(t) \/ PublishRevision(t) \/ PublishMember(t)
    PROVE  TypeOK'
<1>0. pc[t] \in Routed
  BY DEF SpawnWorker, Push, PublishRevision, PublishMember, Routed, Admitting
<1>1. cpu[t] \in Processors /\ Target(t) \in Groups /\ QueueOf(t) \in Queues
  BY <1>0, RoutedTarget DEF IInv
<1>2. CASE SpawnWorker(t)
  <2>1. PcOK'
    <3>1. \/ \E w \in Workers : Goto(w, "born")
          \/ Goto(t, "stop")
      BY <1>2 DEF SpawnWorker, Unwind, Team
    <3>2. "born" \in WorkerPcs /\ "stop" \in Closing
      BY DEF WorkerPcs, Closing
    <3> QED
      BY <3>1, <3>2, WorkerGoes, TaskGoes DEF IInv, TypeOK
  <2>2. faults' \in 0 .. MaxFaults
    BY <1>2, PoolAssumption DEF SpawnWorker, Unwind, Fault, IInv, TypeOK
  <2>3. /\ handles' \subseteq Workers /\ started' \in [Groups -> {"no", "ok", "failed"}]
        /\ pinned' \in [Workers -> SUBSET Processors] /\ applied' \in [Workers -> Nat]
    <3>1. {cpu[t]} \in SUBSET Processors /\ revision[Target(t)] \in Nat
      BY <1>1 DEF IInv, TypeOK
    <3>2. CASE \E w \in Team(Target(t)) :
                 /\ handles' = handles \cup {w} /\ UNCHANGED started
                 /\ pinned' = [pinned EXCEPT ![w] = {cpu[t]}]
                 /\ applied' = [applied EXCEPT ![w] = revision[Target(t)]]
      BY <3>1, <3>2 DEF Team, IInv, TypeOK
    <3>3. CASE /\ UNCHANGED <<handles, pinned, applied>>
               /\ started' = [started EXCEPT ![Target(t)] = "failed"]
      BY <3>3 DEF IInv, TypeOK
    <3> QED
      BY <1>2, <3>2, <3>3 DEF SpawnWorker
  <2> QED
    BY <1>2, <2>1, <2>2, <2>3 DEF SpawnWorker, IInv, TypeOK, flagVars, memberVars, eventVars
<1>3. CASE Push(t)
  <2>1. PcOK'
    BY <1>3, TaskGoes DEF Push, IInv, TypeOK, SubmitPcs
  <2>2. queue' \in [Queues -> Seq(Tasks)]
    <3>1. queue[QueueOf(t)] \in Seq(Tasks)
      BY <1>1 DEF IInv, TypeOK
    <3>2. Append(queue[QueueOf(t)], t) \in Seq(Tasks)
      BY <3>1
    <3> QED
      BY <1>3, <3>2 DEF Push, IInv, TypeOK
  <2>3. affinity' \in [Groups -> SUBSET Processors] /\ lock' \in Tasks \cup {Nobody}
    BY <1>3 DEF Push, Unlock, IInv, TypeOK
  <2> QED
    BY <1>3, <2>1, <2>2, <2>3 DEF Push, IInv, TypeOK, flagVars, groupVars, eventVars, workerVars
<1>4. CASE PublishRevision(t)
  <2>1. PcOK'
    BY <1>4, TaskGoes DEF PublishRevision, IInv, TypeOK, SubmitPcs
  <2>2. revision[Target(t)] + 1 \in Nat
    BY <1>1 DEF IInv, TypeOK
  <2>3. revision' \in [Groups -> Nat]
    BY <1>4, <2>2 DEF PublishRevision, IInv, TypeOK
  <2> QED
    BY <1>4, <2>1, <2>3 DEF PublishRevision, IInv, TypeOK, flagVars, groupVars, eventVars, workerVars
<1>5. CASE PublishMember(t)
  <2>1. PcOK'
    BY <1>5, TaskGoes DEF PublishMember, IInv, TypeOK, SubmitPcs
  <2> QED
    BY <1>1, <1>5, <2>1 DEF PublishMember, Unlock, IInv, TypeOK, flagVars, groupVars, eventVars, workerVars
<1> QED
  BY <1>2, <1>3, <1>4, <1>5

\* The head of a queue that is not empty, and what is left of it.
LEMMA HeadTail ==
    ASSUME NEW s \in Seq(Tasks), s # <<>>
    PROVE  /\ Head(s) \in Tasks /\ Tail(s) \in Seq(Tasks) /\ Len(s) \in Nat \ {0}
           /\ Len(Tail(s)) = Len(s) - 1
           /\ 1 \in DOMAIN s /\ Head(s) = s[1]
           /\ \A i \in DOMAIN Tail(s) : i + 1 \in DOMAIN s /\ Tail(s)[i] = s[i + 1]
           /\ \A i \in DOMAIN s : i # 1 => i - 1 \in DOMAIN Tail(s) /\ Tail(s)[i - 1] = s[i]
           /\ DOMAIN s = 1 .. Len(s) /\ DOMAIN Tail(s) = 1 .. (Len(s) - 1)
OBVIOUS

\* Visits are of what is left to visit.
LEMMA VisitedLeft == ASSUME NEW a, todo[a] # {} PROVE Visited(a) \in todo[a]
BY DEF Visited

\* Failure and shutdown.
LEMMA CloseTypes ==
    ASSUME IInv, NEW a \in Actors,
           \/ a # Owner /\ (StopAdmission(a) \/ StopShutdown(a) \/ Discard(a) \/ AwaitRegistration(a))
           \/ SignalFlag(a) \/ SignalAll(a) \/ BeginDrain(a) \/ DiscardQueue(a) \/ EndDrain(a)
           \/ a = Owner /\ (JoinAllWorkers \/ Join)
    PROVE  TypeOK'
<1>1. CASE a # Owner /\ (StopAdmission(a) \/ StopShutdown(a) \/ Discard(a) \/ AwaitRegistration(a))
  <2>1. PcOK'
    <3>1. \E next \in Closing : Goto(a, next)
      BY <1>1 DEF StopAdmission, StopShutdown, Discard, AwaitRegistration, Closing
    <3> QED
      BY <1>1, <3>1, Kinds, TaskGoes, WorkerGoes DEF IInv, TypeOK
  <2>2. todo' \in [Actors -> SUBSET (Groups \cup Queues)]
    <3>1. UNCHANGED todo \/ todo' = [todo EXCEPT ![a] = Groups]
      BY <1>1 DEF StopAdmission, StopShutdown, Discard, AwaitRegistration
    <3> QED
      BY <3>1 DEF IInv, TypeOK
  <2>3. outcome' \in [Tasks -> {"none", "ran", "cancelled"}] /\ hold' \in [Workers -> Tasks \cup {Nobody}]
    BY <1>1 DEF StopAdmission, StopShutdown, Discard, AwaitRegistration, Cancel, IInv, TypeOK, workerVars
  <2> QED
    BY <1>1, <2>1, <2>2, <2>3 DEF StopAdmission, StopShutdown, Discard, AwaitRegistration, Unlock,
       IInv, TypeOK, flagVars, groupVars, memberVars, eventVars, workerVars
<1>2. CASE SignalFlag(a) \/ SignalAll(a)
  <2>1. todo' \in [Actors -> SUBSET (Groups \cup Queues)]
    BY <1>2 DEF SignalFlag, SignalAll, IInv, TypeOK
  <2>2. flag' \subseteq Groups /\ notified' \subseteq listed
    <3>1. CASE SignalFlag(a)
      BY <3>1 DEF SignalFlag, IInv, TypeOK, eventVars
    <3>2. CASE SignalAll(a)
      BY <3>2 DEF SignalAll, NotifyAll, IInv, TypeOK, groupVars
    <3> QED
      BY <1>2, <3>1, <3>2
  <2>3. PcOK'
    BY <1>2 DEF SignalFlag, SignalAll, IInv, TypeOK, PcOK
  <2> QED
    BY <1>2, <2>1, <2>2, <2>3 DEF SignalFlag, SignalAll, IInv, TypeOK, flagVars, groupVars, memberVars,
       eventVars, workerVars
<1>3. CASE BeginDrain(a) \/ EndDrain(a)
  <2>1. PcOK'
    <3>1. \/ a \in Tasks /\ (Goto(a, "drain") \/ Goto(a, "done"))
          \/ a \in Workers /\ (Goto(a, "drain") \/ Goto(a, "failed"))
          \/ a = Owner /\ (Goto(a, "drain") \/ Goto(a, "join"))
      BY <1>3, Kinds DEF BeginDrain, EndDrain
    <3>2. /\ {"drain", "done"} \subseteq SubmitPcs \cup Closing
          /\ {"drain", "failed"} \subseteq WorkerPcs \cup Closing /\ {"drain", "join"} \subseteq OwnerPcs
      BY DEF SubmitPcs, WorkerPcs, Closing, OwnerPcs
    <3> QED
      BY <3>1, <3>2, TaskGoes, WorkerGoes, OwnerGoes DEF IInv, TypeOK
  <2>2. todo' \in [Actors -> SUBSET (Groups \cup Queues)]
    BY <1>3 DEF BeginDrain, EndDrain, IInv, TypeOK
  <2> QED
    BY <1>3, <2>1, <2>2 DEF BeginDrain, EndDrain, IInv, TypeOK, flagVars, groupVars, memberVars,
       eventVars, workerVars
<1>4. CASE DiscardQueue(a)
  <2>1. Visited(a) \in Queues
    BY <1>4, VisitedLeft DEF DiscardQueue, IInv, DrainInv
  <2>2. PcOK' /\ todo' \in [Actors -> SUBSET (Groups \cup Queues)] /\ poisoned' \in BOOLEAN
    BY <1>4 DEF DiscardQueue, IInv, TypeOK, PcOK
  <2>3. faults' \in 0 .. MaxFaults
    BY <1>4, PoolAssumption DEF DiscardQueue, Fault, IInv, TypeOK
  <2>4. queue' \in [Queues -> Seq(Tasks)] /\ outcome' \in [Tasks -> {"none", "ran", "cancelled"}]
    <3>1. queue[Visited(a)] \in Seq(Tasks)
      BY <2>1 DEF IInv, TypeOK
    <3>2. queue[Visited(a)] # <<>> => Tail(queue[Visited(a)]) \in Seq(Tasks)
      BY <3>1, HeadTail
    <3> QED
      BY <1>4, <3>2 DEF DiscardQueue, Cancel, IInv, TypeOK
  <2> QED
    BY <1>4, <2>2, <2>3, <2>4 DEF DiscardQueue, IInv, TypeOK, groupVars, memberVars, eventVars, workerVars
<1>5. CASE a = Owner /\ (JoinAllWorkers \/ Join)
  <2>1. PcOK'
    BY <1>5, OwnerGoes DEF JoinAllWorkers, CloseAdmission, Join, IInv, TypeOK, OwnerPcs
  <2>2. todo' \in [Actors -> SUBSET (Groups \cup Queues)] /\ {shutdown', poisoned'} \subseteq BOOLEAN
    BY <1>5 DEF JoinAllWorkers, CloseAdmission, Join, IInv, TypeOK
  <2> QED
    BY <1>5, <2>1, <2>2 DEF JoinAllWorkers, CloseAdmission, Join, IInv, TypeOK, groupVars, memberVars,
       eventVars, workerVars
<1> QED
  BY <1>1, <1>2, <1>3, <1>4, <1>5

\* Workers.
LEMMA WorkerTypes ==
    ASSUME IInv, NEW w \in Workers, WorkerStep(w) PROVE TypeOK'
<1>1. PcOK'
  <2>1. \E next \in WorkerPcs \cup Closing : Goto(w, next)
    BY DEF WorkerStep, Pin, ThreadInit, LoopTop, RefreshAffinity, PopUrgent, PopRegular, BeforeTask,
       TaskEnds, Listen, RecheckUrgent, RecheckRegular, WakeUp, Pop, LookAgain, Unwind, WorkerPcs, Closing
  <2> QED
    BY <2>1, WorkerGoes DEF IInv, TypeOK
<1>2. faults' \in 0 .. MaxFaults
  <2>1. faults' = faults \/ (faults < MaxFaults /\ faults' = faults + 1)
    BY DEF WorkerStep, Pin, ThreadInit, LoopTop, RefreshAffinity, PopUrgent, PopRegular,
       BeforeTask, TaskEnds, Listen, RecheckUrgent, RecheckRegular, WakeUp, Unwind, Fault
  <2> QED
    BY <2>1, PoolAssumption DEF IInv, TypeOK
<1>3. CASE Pin(w) \/ ThreadInit(w) \/ LoopTop(w)
  BY <1>1, <1>2, <1>3 DEF Pin, ThreadInit, LoopTop, IInv, TypeOK, flagVars, groupVars, memberVars,
     eventVars, workerVars
<1>4. CASE RefreshAffinity(w)
  <2>1. HomeOf[w] \in Groups
    BY PoolAssumption
  <2>2. revision[HomeOf[w]] \in Nat /\ affinity[HomeOf[w]] \in SUBSET Processors
    BY <2>1 DEF IInv, TypeOK
  <2>3. applied' \in [Workers -> Nat] /\ pinned' \in [Workers -> SUBSET Processors]
    BY <1>4, <2>2 DEF RefreshAffinity, IInv, TypeOK
  <2> QED
    BY <1>1, <1>2, <1>4, <2>3 DEF RefreshAffinity, IInv, TypeOK, flagVars, groupVars, memberVars, eventVars
<1>5. CASE PopUrgent(w) \/ PopRegular(w)
  <2>1. \/ UNCHANGED <<queue, hold>>
        \/ \E q \in Queues : /\ queue[q] # <<>> /\ hold' = [hold EXCEPT ![w] = Head(queue[q])]
                             /\ queue' = [queue EXCEPT ![q] = Tail(@)]
    BY <1>5, PoolAssumption DEF PopUrgent, PopRegular, Pop, Queues
  <2>2. \A q \in Queues : queue[q] # <<>> => Head(queue[q]) \in Tasks /\ Tail(queue[q]) \in Seq(Tasks)
    BY HeadTail DEF IInv, TypeOK
  <2>3. queue' \in [Queues -> Seq(Tasks)] /\ hold' \in [Workers -> Tasks \cup {Nobody}]
    BY <2>1, <2>2, ZenonT(60) DEF IInv, TypeOK
  <2> QED
    BY <1>1, <1>2, <1>5, <2>3 DEF PopUrgent, PopRegular, IInv, TypeOK, flagVars, groupVars, memberVars, eventVars
<1>6. CASE BeforeTask(w) \/ TaskEnds(w)
  BY <1>1, <1>2, <1>6 DEF BeforeTask, TaskEnds, Cancel, IInv, TypeOK, flagVars, groupVars, memberVars, eventVars
<1>7. CASE Listen(w) \/ RecheckUrgent(w) \/ RecheckRegular(w) \/ WakeUp(w)
  BY <1>1, <1>2, <1>7 DEF Listen, RecheckUrgent, RecheckRegular, WakeUp, LookAgain, DropListener,
     IInv, TypeOK, flagVars, groupVars, memberVars, eventVars, workerVars
<1> QED
  BY <1>3, <1>4, <1>5, <1>6, <1>7 DEF WorkerStep

----------------------------------------------------------------------------
(* The flags and the lock. *)

\* No group's flag is set, and no group is visited, before shutdown: stop_admission()
\* and join_all_workers() set it first.
LEMMA FlagsStep ==
    ASSUME IInv, Next PROVE FlagsInv'
<1>1. ASSUME NEW t \in Tasks, Submit(t) \/ SubmitStep(t) PROVE FlagsInv'
  BY <1>1, Kinds DEF Submit, SubmitStep, Prepare, Reject, Route, AdmitCold, SpawnWorker, PublishStartup,
     Admit, CheckShutdown, Push, PublishRevision, PublishMember, WakeAll, WakeOne, Unwind, Goto,
     FlagsInv, IInv, TypeOK, PcOK, flagVars, groupVars, Team
<1>2. ASSUME NEW w \in Workers, WorkerStep(w) PROVE FlagsInv'
  BY <1>2, Kinds DEF WorkerStep, Pin, ThreadInit, LoopTop, RefreshAffinity, PopUrgent, PopRegular, BeforeTask,
     TaskEnds, Listen, RecheckUrgent, RecheckRegular, WakeUp, Pop, LookAgain, Unwind, Goto,
     FlagsInv, IInv, TypeOK, PcOK, flagVars, groupVars
<1>3. ASSUME NEW a \in Actors,
             PoisonStep(a) \/ CloseStep(a) \/ (a = Owner /\ (JoinAllWorkers \/ Join))
      PROVE  FlagsInv'
  BY <1>3, Kinds DEF PoisonStep, StopAdmission, StopShutdown, Discard, AwaitRegistration, CloseStep,
     SignalFlag, SignalAll, BeginDrain, DiscardQueue, EndDrain, JoinAllWorkers, CloseAdmission, Join, Goto,
     FlagsInv, IInv, TypeOK, PcOK, flagVars, groupVars
<1>4. CASE Finished
  BY <1>4 DEF Finished, FlagsInv, IInv, vars, flagVars, groupVars
<1> QED
  BY <1>1, <1>2, <1>3, <1>4, Kinds DEF Next

\* Nobody takes worker_handles from a submission that starts workers or publishes
\* an affinity: it keeps it until it unlocks.
LEMMA LockStep ==
    ASSUME IInv, Next PROVE LockInv'
<1>1. ASSUME NEW t \in Tasks, Submit(t) \/ SubmitStep(t) PROVE LockInv'
  BY <1>1, Kinds DEF Submit, SubmitStep, Prepare, Reject, Route, AdmitCold, SpawnWorker, PublishStartup,
     Admit, CheckShutdown, Push, PublishRevision, PublishMember, WakeAll, WakeOne, Unwind, Unlock, Expands,
     Goto, LockInv, IInv, TypeOK, PcOK, Team
<1>2. ASSUME NEW w \in Workers, WorkerStep(w) PROVE LockInv'
  BY <1>2, Kinds DEF WorkerStep, Pin, ThreadInit, LoopTop, RefreshAffinity, PopUrgent, PopRegular, BeforeTask,
     TaskEnds, Listen, RecheckUrgent, RecheckRegular, WakeUp, Pop, LookAgain, Unwind, Goto,
     LockInv, IInv, TypeOK, PcOK
<1>3. ASSUME NEW a \in Actors,
             PoisonStep(a) \/ CloseStep(a) \/ (a = Owner /\ (JoinAllWorkers \/ Join))
      PROVE  LockInv'
  BY <1>3, Kinds DEF PoisonStep, StopAdmission, StopShutdown, Discard, AwaitRegistration, CloseStep,
     SignalFlag, SignalAll, BeginDrain, DiscardQueue, EndDrain, JoinAllWorkers, CloseAdmission, Join, Goto,
     Unlock, LockInv, IInv, TypeOK, PcOK
<1>4. CASE Finished
  BY <1>4 DEF Finished, LockInv, IInv, vars
<1> QED
  BY <1>1, <1>2, <1>3, <1>4, Kinds DEF Next

----------------------------------------------------------------------------
(* Startup. *)

\* A step that starts no worker, and after which the startups and admissions
\* under way are of groups in the right state.
LEMMA QuietStart ==
    ASSUME IInv, UNCHANGED <<handles, joining, started, member>>,
           \A q \in Queues : queue[q] = <<>> => queue'[q] = <<>>,
           \A w \in Workers : /\ pc[w] = "unborn" => pc'[w] = "unborn"
                              /\ pc'[w] = "born" => pc[w] = "born"
                              /\ pc[w] \in Over => pc'[w] \in Over,
           \A t \in Tasks : /\ pc'[t] = "start" => /\ started[Target(t)'] = "no"
                                                   /\ pc[t] = "start" \/ pc[Owner] = "live"
                            /\ pc'[t] \in Admitting => started[Target(t)'] # "no",
           pc'[Owner] = pc[Owner] \/ (pc[Owner] # "live" /\ pc'[Owner] \notin {"live", "joined"})
    PROVE  StartInv'
<1>1. \A g \in Groups : <<g, "urgent">> \in Queues /\ <<g, "regular">> \in Queues
  BY DEF Queues
<1>2. \A w \in Workers : pc'[w] # "unborn" => w \in handles' \cup joining'
  BY DEF IInv, StartInv
<1>3. /\ pc'[Owner] = "live" => joining' = {}
      /\ pc'[Owner] # "live" => handles' = {} /\ \A t \in Tasks : pc'[t] # "start"
  BY DEF IInv, StartInv
<1>4. pc'[Owner] = "joined" => \A w \in joining' : pc'[w] \in Over
  BY DEF IInv, StartInv, TypeOK
<1>5. \A t \in Tasks : /\ pc'[t] = "start" => started'[Target(t)'] = "no"
                       /\ pc'[t] \in Admitting => started'[Target(t)'] # "no"
  OBVIOUS
<1>6. \A w \in Workers : pc'[w] = "born" => started'[HomeOf[w]] = "no"
  BY DEF IInv, StartInv
<1>7. \A g \in Groups : started'[g] = "no" =>
          /\ queue'[<<g, "urgent">>] = <<>> /\ queue'[<<g, "regular">>] = <<>>
          /\ \A p \in member' : GroupOf[p] # g
  BY <1>1 DEF IInv, StartInv
<1> QED
  BY <1>2, <1>3, <1>4, <1>5, <1>6, <1>7 DEF StartInv

\* Submissions that start nothing: they start or admit only what the lock and startup allow.
LEMMA SubmitStart ==
    ASSUME IInv, NEW t \in Tasks,
           \/ Submit(t) \/ Prepare(t) \/ Reject(t) \/ Route(t) \/ AdmitCold(t) \/ Admit(t)
           \/ CheckShutdown(t) \/ PublishRevision(t) \/ WakeAll(t) \/ WakeOne(t)
    PROVE  StartInv'
<1>1. UNCHANGED <<handles, joining, started, member, queue>>
  BY DEF Submit, Prepare, Reject, Route, AdmitCold, Admit, CheckShutdown, PublishRevision, WakeAll, WakeOne,
     groupVars, memberVars
<1>2. \A a \in Actors : a # t => pc'[a] = pc[a]
  BY DEF Submit, Prepare, Reject, Route, AdmitCold, Admit, CheckShutdown, PublishRevision, WakeAll, WakeOne,
     Goto, IInv, TypeOK, PcOK
<1>3. \A u \in Tasks : u # t => cpu'[u] = cpu[u]
  BY DEF Submit, Prepare, Reject, Route, AdmitCold, Admit, CheckShutdown, PublishRevision, WakeAll, WakeOne,
     IInv, TypeOK
<1>4. ASSUME pc'[t] = "start" PROVE started[Target(t)'] = "no" /\ pc[Owner] = "live"
  <2>1. AdmitCold(t)
    BY <1>4, Kinds DEF Submit, Prepare, Reject, Route, AdmitCold, Admit, CheckShutdown, PublishRevision,
       WakeAll, WakeOne, Goto, IInv, TypeOK, PcOK
  <2>2. ~shutdown /\ started[Target(t)] = "no" /\ cpu' = cpu
    BY <1>4, <2>1, Kinds DEF AdmitCold, Goto, IInv, TypeOK, PcOK
  <2>3. pc[Owner] = "live"
    BY <2>2, Kinds DEF IInv, FlagsInv, TypeOK, PcOK, OwnerPcs
  <2> QED
    BY <2>2, <2>3 DEF Target
<1>5. ASSUME pc'[t] \in Admitting PROVE started[Target(t)'] # "no"
  <2>1. \/ Route(t) \/ AdmitCold(t)
        \/ pc[t] \in Admitting /\ cpu' = cpu
    BY <1>5, Kinds DEF Submit, Prepare, Reject, Route, AdmitCold, Admit, CheckShutdown, PublishRevision,
       WakeAll, WakeOne, Goto, IInv, TypeOK, PcOK, Admitting
  <2>2. Route(t) \/ AdmitCold(t) => started[Target(t)] # "no" /\ cpu' = cpu
    BY <1>5, Kinds DEF Route, AdmitCold, Goto, IInv, TypeOK, PcOK, Admitting
  <2> QED
    BY <2>1, <2>2 DEF Target, IInv, StartInv
<1>6. \A u \in Tasks : u # t => Target(u)' = Target(u)
  BY <1>3 DEF Target
<1> QED
  BY <1>1, <1>2, <1>4, <1>5, <1>6, Kinds, QuietStart DEF IInv, StartInv

\* start_workers_on(): each worker is registered; then the outcome is published once.
LEMMA SpawnStart ==
    ASSUME IInv, NEW t \in Tasks, SpawnWorker(t) \/ PublishStartup(t) PROVE StartInv'
<1>1. /\ pc[t] = "start" /\ lock = t /\ started[Target(t)] = "no"
      /\ UNCHANGED <<queue, member, cpu, joining, lock>> /\ \A u \in Tasks : Target(u)' = Target(u)
  BY DEF SpawnWorker, PublishStartup, IInv, LockInv, StartInv, groupVars, memberVars, Target
<1>2. \A u \in Tasks : pc[u] = "start" => u = t
  BY <1>1 DEF IInv, LockInv
<1>3. cpu[t] \in Processors /\ Target(t) \in Groups
  BY <1>1, RoutedTarget DEF IInv, Routed
<1>4. \A g \in Groups : queue'[<<g, "urgent">>] = queue[<<g, "urgent">>]
                        /\ queue'[<<g, "regular">>] = queue[<<g, "regular">>]
  BY <1>1
<1>5. CASE /\ \E w \in Team(Target(t)) : pc[w] = "unborn" /\ Goto(w, "born") /\ handles' = handles \cup {w}
           /\ UNCHANGED started
  <2>1. PICK w \in Workers : /\ HomeOf[w] = Target(t) /\ pc[w] = "unborn" /\ Goto(w, "born")
                             /\ handles' = handles \cup {w}
    BY <1>5 DEF Team
  <2>2. /\ pc'[w] = "born" /\ \A a \in Actors : a # w => pc'[a] = pc[a]
    BY <2>1, Kinds DEF Goto, IInv, TypeOK, PcOK
  <2>3. pc[Owner] = "live"
    BY <1>1 DEF IInv, StartInv
  <2> QED
    BY <1>1, <1>4, <1>5, <2>1, <2>2, <2>3, Kinds DEF IInv, StartInv
<1>6. CASE /\ \A w \in Team(Target(t)) : pc[w] # "born"
           /\ \E next \in {"stop", "admit"} : Goto(t, next)
           /\ UNCHANGED handles
           /\ \E result \in {"ok", "failed"} : started' = [started EXCEPT ![Target(t)] = result]
  <2>1. pc'[t] \in {"stop", "admit"} /\ \A a \in Actors : a # t => pc'[a] = pc[a]
    BY <1>6, Kinds DEF Goto, IInv, TypeOK, PcOK
  <2>2. started'[Target(t)] # "no" /\ \A g \in Groups : g # Target(t) => started'[g] = started[g]
    BY <1>3, <1>6 DEF IInv, TypeOK
  <2>3. \A u \in Tasks : pc'[u] # "start"
    BY <1>2, <2>1, Kinds
  <2>4. \A u \in Tasks : pc'[u] \in Admitting => started'[Target(u)'] # "no"
    <3>1. \A u \in Tasks : u # t /\ pc[u] \in Admitting => Target(u) \in Groups
      BY RoutedTarget DEF IInv, Routed
    <3> QED
      BY <1>1, <2>1, <2>2, <3>1, Kinds DEF IInv, StartInv
  <2>5. \A w \in Workers : pc'[w] = "born" => started'[HomeOf[w]] = "no"
    <3>1. \A w \in Workers : pc'[w] = pc[w] /\ HomeOf[w] \in Groups
      BY <2>1, Kinds, PoolAssumption
    <3>2. \A w \in Workers : pc[w] = "born" => HomeOf[w] # Target(t)
      BY <1>6 DEF Team
    <3> QED
      BY <2>2, <3>1, <3>2 DEF IInv, StartInv
  <2>6. pc'[Owner] = pc[Owner]
    BY <2>1, Kinds
  <2>7. \A w \in Workers : pc'[w] = pc[w]
    BY <2>1, Kinds
  <2>8. \A g \in Groups : started'[g] = "no" => started[g] = "no"
    BY <2>2
  <2> QED
    BY <1>1, <1>4, <1>6, <2>3, <2>4, <2>5, <2>6, <2>7, <2>8 DEF IInv, StartInv
<1> QED
  BY <1>5, <1>6 DEF SpawnWorker, PublishStartup, Unwind, groupVars

\* What admit() queues and whom it makes a member is of a group that has started.
LEMMA PushStart ==
    ASSUME IInv, NEW t \in Tasks, Push(t) \/ PublishMember(t) PROVE StartInv'
<1>1. /\ pc[t] \in Admitting /\ UNCHANGED <<handles, joining, started, cpu>>
      /\ \A u \in Tasks : Target(u)' = Target(u)
  BY DEF Push, PublishMember, groupVars, Target, Admitting
<1>2. pc'[t] \in Admitting \cup {"wake", "wake_all"} /\ \A a \in Actors : a # t => pc'[a] = pc[a]
  BY Kinds DEF Push, PublishMember, Goto, IInv, TypeOK, PcOK, Admitting
<1>3. started[Target(t)] # "no"
  BY <1>1 DEF IInv, StartInv
<1>4. \A g \in Groups : g # Target(t) => queue'[<<g, "urgent">>] = queue[<<g, "urgent">>]
                                         /\ queue'[<<g, "regular">>] = queue[<<g, "regular">>]
  <2>1. \A g \in Groups : g # Target(t) => <<g, "urgent">> # QueueOf(t) /\ <<g, "regular">> # QueueOf(t)
    BY DEF QueueOf
  <2>2. \A q \in Queues : q # QueueOf(t) => queue'[q] = queue[q]
    BY DEF Push, PublishMember, IInv, TypeOK
  <2> QED
    BY <2>1, <2>2 DEF Queues
<1>5. member' \subseteq member \cup {cpu[t]} /\ GroupOf[cpu[t]] = Target(t)
  BY DEF Push, PublishMember, Target
<1>6. \A u \in Tasks : pc'[u] \in Admitting => started[Target(u)] # "no"
  BY <1>1, <1>2, <1>3, Kinds DEF IInv, StartInv
<1>7. (\A u \in Tasks : pc'[u] = "start" => pc[u] = "start") /\ pc'[Owner] = pc[Owner]
      /\ \A w \in Workers : pc'[w] = pc[w]
  BY <1>2, Kinds DEF Admitting
<1>8. \A g \in Groups : started[g] = "no" =>
          /\ queue'[<<g, "urgent">>] = <<>> /\ queue'[<<g, "regular">>] = <<>>
          /\ \A p \in member' : GroupOf[p] # g
  BY <1>3, <1>4, <1>5 DEF IInv, StartInv
<1>9. /\ \A w \in Workers : pc'[w] # "unborn" => w \in handles' \cup joining'
      /\ \A w \in Workers : pc'[w] = "born" => started'[HomeOf[w]] = "no"
  BY <1>1, <1>7 DEF IInv, StartInv
<1>10. /\ pc'[Owner] = "live" => joining' = {}
       /\ pc'[Owner] # "live" => handles' = {} /\ \A u \in Tasks : pc'[u] # "start"
       /\ pc'[Owner] = "joined" => \A w \in joining' : pc'[w] \in Over
  BY <1>1, <1>7 DEF IInv, StartInv, TypeOK
<1>11. \A u \in Tasks :
          /\ pc'[u] = "start" => started'[Target(u)'] = "no"
          /\ pc'[u] \in Admitting => started'[Target(u)'] # "no"
  BY <1>1, <1>6, <1>7 DEF IInv, StartInv
<1>12. \A g \in Groups : started'[g] = "no" =>
          /\ queue'[<<g, "urgent">>] = <<>> /\ queue'[<<g, "regular">>] = <<>>
          /\ \A p \in member' : GroupOf[p] # g
  BY <1>1, <1>8
<1> QED
  BY <1>9, <1>10, <1>11, <1>12 DEF StartInv

\* Workers neither start workers nor fill queues.
LEMMA WorkerStart ==
    ASSUME IInv, NEW w \in Workers, WorkerStep(w) PROVE StartInv'
<1>1. UNCHANGED <<handles, joining, started, member, cpu>> /\ \A t \in Tasks : Target(t)' = Target(t)
  BY DEF WorkerStep, Pin, ThreadInit, LoopTop, RefreshAffinity, PopUrgent, PopRegular, BeforeTask,
     TaskEnds, Listen, RecheckUrgent, RecheckRegular, WakeUp, groupVars, memberVars, Target
<1>2. /\ pc[w] \notin Over \cup {"unborn"} /\ pc'[w] \notin {"unborn", "born"}
      /\ \A a \in Actors : a # w => pc'[a] = pc[a]
  BY Kinds DEF WorkerStep, Pin, ThreadInit, LoopTop, RefreshAffinity, PopUrgent, PopRegular, BeforeTask,
     TaskEnds, Listen, RecheckUrgent, RecheckRegular, WakeUp, Pop, LookAgain, Unwind, Goto, IInv, TypeOK,
     PcOK, Over
<1>3. \A q \in Queues : queue[q] = <<>> => queue'[q] = <<>>
  BY DEF WorkerStep, Pin, ThreadInit, LoopTop, RefreshAffinity, PopUrgent, PopRegular, BeforeTask,
     TaskEnds, Listen, RecheckUrgent, RecheckRegular, WakeUp, Pop, IInv, TypeOK
<1> QED
  BY <1>1, <1>2, <1>3, Kinds, QuietStart DEF IInv, StartInv

\* Stopping, signalling and draining start nothing and leave the handles alone.
LEMMA CloseStart ==
    ASSUME IInv, NEW a \in Actors,
           (a # Owner /\ PoisonStep(a)) \/ CloseStep(a)
    PROVE  StartInv'
<1>1. UNCHANGED <<handles, joining, started, member, cpu>> /\ \A t \in Tasks : Target(t)' = Target(t)
  BY DEF PoisonStep, StopAdmission, StopShutdown, Discard, AwaitRegistration, CloseStep,
     SignalFlag, SignalAll, BeginDrain, DiscardQueue, EndDrain, groupVars, memberVars, Target
<1>2. /\ pc[a] \in Closing /\ pc'[a] \in Closing \cup {"done", "failed", "join"}
      /\ \A b \in Actors : b # a => pc'[b] = pc[b]
  BY Kinds DEF PoisonStep, StopAdmission, StopShutdown, Discard, AwaitRegistration, CloseStep,
     SignalFlag, SignalAll, BeginDrain, DiscardQueue, EndDrain, Goto, IInv, TypeOK, PcOK, Closing
<1>3. \A q \in Queues : queue[q] = <<>> => queue'[q] = <<>>
  BY DEF PoisonStep, StopAdmission, StopShutdown, Discard, AwaitRegistration, CloseStep,
     SignalFlag, SignalAll, BeginDrain, DiscardQueue, EndDrain, IInv, TypeOK
<1> QED
  BY <1>1, <1>2, <1>3, Kinds, QuietStart DEF IInv, StartInv, Closing, Over, Admitting

\* The owner takes all handles while nobody starts workers, and is done when
\* every thread behind them has ended.
LEMMA JoinStart ==
    ASSUME IInv, JoinAllWorkers \/ Join PROVE StartInv'
<1>1. UNCHANGED <<started, member, cpu, queue>> /\ \A t \in Tasks : Target(t)' = Target(t)
  BY DEF JoinAllWorkers, CloseAdmission, Join, groupVars, memberVars, Target
<1>2. \A b \in Actors : b # Owner => pc'[b] = pc[b]
  BY DEF JoinAllWorkers, CloseAdmission, Join, Goto, IInv, TypeOK, PcOK
<1>3. \A b \in Tasks \cup Workers : pc'[b] = pc[b]
  BY <1>2, Kinds
<1>4. CASE JoinAllWorkers
  <2>1. lock = Nobody /\ joining' = handles /\ handles' = {} /\ pc[Owner] = "live" /\ pc'[Owner] = "signal"
    BY <1>4, Kinds DEF JoinAllWorkers, CloseAdmission, Goto, IInv, TypeOK, PcOK
  <2>2. joining = {} /\ \A t \in Tasks : pc[t] # "start"
    BY <2>1, Kinds DEF IInv, LockInv, StartInv
  <2>3. \A w \in Workers : pc'[w] # "unborn" => w \in handles' \cup joining'
    BY <1>3, <2>1, <2>2 DEF IInv, StartInv
  <2>4. /\ pc'[Owner] = "live" => joining' = {}
        /\ pc'[Owner] # "live" => handles' = {} /\ \A u \in Tasks : pc'[u] # "start"
        /\ pc'[Owner] = "joined" => \A w \in joining' : pc'[w] \in Over
    BY <1>3, <2>1, <2>2
  <2> QED
    BY <1>1, <1>3, <2>3, <2>4 DEF IInv, StartInv
<1>5. CASE Join
  <2>1. UNCHANGED <<handles, joining>> /\ pc[Owner] = "join" /\ pc'[Owner] = "joined"
        /\ \A w \in joining : pc[w] \in Over
    BY <1>5, Kinds DEF Join, Goto, IInv, TypeOK, PcOK, groupVars
  <2>2. /\ pc'[Owner] = "live" => joining' = {}
        /\ pc'[Owner] # "live" => handles' = {} /\ \A u \in Tasks : pc'[u] # "start"
    BY <1>3, <2>1 DEF IInv, StartInv
  <2>3. joining \subseteq Workers
    BY DEF IInv, TypeOK
  <2>4. \A w \in joining' : pc'[w] \in Over
    BY <1>3, <2>1, <2>3
  <2> QED
    BY <1>1, <1>3, <2>1, <2>2, <2>4 DEF IInv, StartInv
<1> QED
  BY <1>4, <1>5

----------------------------------------------------------------------------
(* Where the tasks are. *)

\* A task that was queued, or is in a worker's hands, has left its submitter.
LEMMA QueuedTask ==
    ASSUME IInv, NEW t \in Tasks, InQueue(t) \/ InHands(t)
    PROVE  /\ t \notin WithSubmitter /\ pc[t] \in Pushed /\ cpu[t] \in Processors
           /\ Target(t) \in Groups /\ QueueOf(t) \in Queues /\ ~Ended(t)
<1>1. t \notin WithSubmitter /\ ~Ended(t)
  BY DEF IInv, PlaceInv
<1>2. pc[t] \in Pushed
  <2>1. CASE InQueue(t)
    BY <2>1 DEF IInv, PlaceInv, InQueue
  <2>2. CASE InHands(t)
    BY <2>2, Kinds DEF IInv, PlaceInv, InHands
  <2> QED
    BY <2>1, <2>2
<1> QED
  BY <1>1, <1>2, RoutedTarget DEF IInv

\* A step that moves no task: it keeps its processor once it has been routed,
\* and nobody forgets what it holds.
LEMMA QuietPlace ==
    ASSUME IInv, UNCHANGED <<queue, hold, outcome>>, created \subseteq created',
           WithSubmitter' = WithSubmitter,
           \A t \in Tasks : /\ cpu'[t] = cpu[t] \/ t \in WithSubmitter
                            /\ pc'[t] \in Routed => cpu'[t] \in Processors /\ Target(t)' \in created'
                            /\ pc[t] \in Pushed => pc'[t] \in Pushed
                            /\ pc[t] \in Pushed \ {"publish", "member"} => pc'[t] \notin {"publish", "member"},
           \A w \in Workers : /\ pc'[w] \in InHand => hold[w] # Nobody
                              /\ hold[w] # Nobody =>
                                    pc'[w] \in InHand \cup {"stop", "stopped", "discard"}
    PROVE  PlaceInv'
<1>1. \A t \in Tasks : InQueue(t)' = InQueue(t) /\ InHands(t)' = InHands(t) /\ Ended(t)' = Ended(t)
  BY DEF InQueue, InHands, Ended
<1>2. \A t \in Tasks : t \notin WithSubmitter => Target(t)' = Target(t) /\ QueueOf(t)' = QueueOf(t)
  BY DEF Target, QueueOf
<1>3. \A t \in Tasks : pc'[t] \in Routed \/ InQueue(t)' \/ InHands(t)' =>
          cpu'[t] \in Processors /\ Target(t)' \in created'
  <2>1. ASSUME NEW t \in Tasks, InQueue(t) \/ InHands(t)
        PROVE  cpu'[t] \in Processors /\ Target(t)' \in created'
    BY <1>2, <2>1, QueuedTask DEF IInv, PlaceInv
  <2> QED
    BY <1>1, <2>1
<1>4. \A q \in Queues : \A i \in DOMAIN queue[q] :
          /\ queue[q][i] \in Tasks /\ InQueue(queue[q][i])
          /\ QueueOf(queue[q][i])' = q /\ pc'[queue[q][i]] \in Pushed
  <2>1. ASSUME NEW q \in Queues, NEW i \in DOMAIN queue[q]
        PROVE  queue[q][i] \in Tasks /\ InQueue(queue[q][i])
    BY <2>1 DEF IInv, TypeOK, InQueue
  <2> QED
    BY <1>2, <2>1, QueuedTask DEF IInv, PlaceInv
<1>5. \A w \in Workers : hold[w] # Nobody =>
          /\ Target(hold[w])' = HomeOf[w] /\ pc'[hold[w]] \in Pushed \ {"publish", "member"}
  <2>1. ASSUME NEW w \in Workers, hold[w] # Nobody PROVE hold[w] \in Tasks /\ InHands(hold[w])
    BY <2>1 DEF IInv, TypeOK, InHands
  <2> QED
    BY <1>2, <2>1, QueuedTask DEF IInv, PlaceInv
<1>6. \A q \in Queues : \A i, j \in DOMAIN queue[q] : queue[q][i] = queue[q][j] => i = j
  BY DEF IInv, PlaceInv
<1>7. \A v, w \in Workers : hold[v] = hold[w] /\ hold[v] # Nobody => v = w
  BY DEF IInv, PlaceInv
<1>8. \A t \in Tasks :
          /\ t \in WithSubmitter' => ~InQueue(t)' /\ ~InHands(t)' /\ ~Ended(t)'
          /\ t \notin WithSubmitter' => InQueue(t)' \/ InHands(t)' \/ Ended(t)'
          /\ ~(InQueue(t)' /\ InHands(t)') /\ ~(InQueue(t)' /\ Ended(t)')
          /\ ~(InHands(t)' /\ Ended(t)')
  BY <1>1 DEF IInv, PlaceInv
<1> QED
  BY <1>3, <1>4, <1>5, <1>6, <1>7, <1>8 DEF PlaceInv

\* Submissions that move no task.
LEMMA SubmitQuietPlace ==
    ASSUME IInv, NEW t \in Tasks,
           \/ Submit(t) \/ Prepare(t) \/ Route(t) \/ SpawnWorker(t) \/ PublishStartup(t) \/ Admit(t)
           \/ PublishRevision(t) \/ PublishMember(t) \/ WakeAll(t) \/ WakeOne(t)
           \/ (Reject(t) \/ AdmitCold(t) \/ CheckShutdown(t)) /\ pc'[t] # "done"
    PROVE  PlaceInv'
<1>1. UNCHANGED <<queue, hold, outcome>> /\ created \subseteq created'
  BY Kinds DEF Goto, IInv, TypeOK, PcOK, Submit, Prepare, Route, SpawnWorker, PublishStartup, Admit, PublishRevision, PublishMember, WakeAll,
     WakeOne, Reject, AdmitCold, CheckShutdown, groupVars, workerVars
<1>2. CASE SpawnWorker(t) /\ \E w \in Workers : pc[w] = "unborn" /\ Goto(w, "born")
  <2>1. PICK w \in Workers : pc[w] = "unborn" /\ Goto(w, "born")
    BY <1>2
  <2>2. pc'[w] = "born" /\ \A a \in Actors : a # w => pc'[a] = pc[a]
    BY <2>1, Kinds DEF Goto, IInv, TypeOK, PcOK
  <2>3. hold[w] = Nobody
    BY <2>1 DEF IInv, PlaceInv, InHand
  <2>4. \A u \in Tasks : pc'[u] = pc[u]
    BY <2>2, Kinds
  <2>5. cpu' = cpu /\ WithSubmitter' = WithSubmitter /\ \A u \in Tasks : Target(u)' = Target(u)
    BY <1>2, <2>4 DEF SpawnWorker, WithSubmitter, Target
  <2>6. \A v \in Workers : /\ pc'[v] \in InHand => hold[v] # Nobody
                           /\ hold[v] # Nobody => pc'[v] \in InHand \cup {"stop", "stopped", "discard"}
    BY <2>2, <2>3, Kinds DEF IInv, PlaceInv, InHand
  <2> QED
    BY <1>1, <2>4, <2>5, <2>6, QuietPlace DEF IInv, PlaceInv
<1>3. CASE ~(SpawnWorker(t) /\ \E w \in Workers : pc[w] = "unborn" /\ Goto(w, "born"))
  <2>1. \A a \in Actors : a # t => pc'[a] = pc[a]
    BY <1>3, Kinds, ZenonT(60) DEF Submit, Prepare, Route, SpawnWorker, PublishStartup, Admit, PublishRevision, PublishMember,
       WakeAll, WakeOne, Reject, AdmitCold, CheckShutdown, Unwind, Goto, Team, IInv, TypeOK, PcOK
  <2>2. \A u \in Tasks : u # t => cpu'[u] = cpu[u]
    BY DEF Submit, Prepare, Route, SpawnWorker, PublishStartup, Admit, PublishRevision, PublishMember,
       WakeAll, WakeOne, Reject, AdmitCold, CheckShutdown, IInv, TypeOK
  <2>3. /\ t \in WithSubmitter <=> pc'[t] \in {"new", "prepare", "rejected", "route", "cold", "start",
                                      "admit", "check", "push", "stop", "stopped", "discard"}
        /\ cpu'[t] = cpu[t] \/ t \in WithSubmitter
        /\ pc[t] \in Pushed => pc'[t] \in Pushed
        /\ pc[t] \in Pushed \ {"publish", "member"} => pc'[t] \notin {"publish", "member"}
    BY <1>3, Kinds DEF Submit, Prepare, Route, SpawnWorker, PublishStartup, Admit, PublishRevision, PublishMember,
       WakeAll, WakeOne, Reject, AdmitCold, CheckShutdown, Unwind, Goto, Team, IInv, TypeOK, PcOK, WithSubmitter,
       Pushed, Cancel
  <2>4. pc'[t] \in Routed => cpu'[t] \in Processors /\ Target(t)' \in created'
    <3>1. CASE Prepare(t)
      <4>1. PICK p \in From[t] : cpu' = [cpu EXCEPT ![t] = p] /\ created' = created \cup {GroupOf[p]}
        BY <3>1 DEF Prepare
      <4>2. cpu'[t] = p /\ p \in Processors
        BY <4>1, PoolAssumption DEF IInv, TypeOK
      <4> QED
        BY <4>1, <4>2 DEF Target
    <3>2. CASE ~Prepare(t)
      <4>1. cpu' = cpu /\ (pc'[t] \in Routed => pc[t] \in Routed)
        BY <1>3, <3>2, Kinds DEF Submit, Route, SpawnWorker, PublishStartup, Admit, PublishRevision, PublishMember,
           WakeAll, WakeOne, Reject, AdmitCold, CheckShutdown, Unwind, Goto, Team, IInv, TypeOK, PcOK,
           Routed, Admitting
      <4> QED
        BY <1>1, <4>1 DEF IInv, PlaceInv, Target
    <3> QED
      BY <3>1, <3>2
  <2>5. WithSubmitter' = WithSubmitter
    BY <2>1, <2>3, Kinds DEF WithSubmitter
  <2>6. \A w \in Workers : pc'[w] = pc[w]
    BY <2>1, Kinds
  <2>7. \A u \in Tasks : u # t => pc'[u] = pc[u] /\ Target(u)' = Target(u)
    BY <2>1, <2>2, Kinds DEF Target
  <2>8. \A u \in Tasks : /\ cpu'[u] = cpu[u] \/ u \in WithSubmitter
                         /\ pc'[u] \in Routed => cpu'[u] \in Processors /\ Target(u)' \in created'
    <3>1. ASSUME NEW u \in Tasks, u # t, pc[u] \in Routed PROVE cpu[u] \in Processors /\ Target(u) \in created
      BY <3>1 DEF IInv, PlaceInv
    <3> QED
      BY <1>1, <2>2, <2>3, <2>4, <2>7, <3>1
  <2>9. \A u \in Tasks : /\ pc[u] \in Pushed => pc'[u] \in Pushed
                         /\ pc[u] \in Pushed \ {"publish", "member"} => pc'[u] \notin {"publish", "member"}
    BY <2>3, <2>7
  <2>10. \A w \in Workers : /\ pc'[w] \in InHand => hold[w] # Nobody
                            /\ hold[w] # Nobody => pc'[w] \in InHand \cup {"stop", "stopped", "discard"}
    BY <2>6 DEF IInv, PlaceInv
  <2> QED
    BY <1>1, <2>5, <2>8, <2>9, <2>10, QuietPlace
<1> QED
  BY <1>2, <1>3

\* Workers that neither take nor give up a task.
LEMMA WorkerQuietPlace ==
    ASSUME IInv, NEW w \in Workers, WorkerStep(w), UNCHANGED <<hold, queue, outcome>>,
           hold[w] = Nobody => pc'[w] \notin InHand,
           hold[w] # Nobody => pc'[w] \in InHand \cup {"stop", "stopped", "discard"}
    PROVE  PlaceInv'
<1>1. \A a \in Actors : a # w => pc'[a] = pc[a]
  BY Kinds DEF WorkerStep, Pin, ThreadInit, LoopTop, RefreshAffinity, PopUrgent, PopRegular, BeforeTask,
     TaskEnds, Listen, RecheckUrgent, RecheckRegular, WakeUp, Pop, LookAgain, Unwind, Goto, IInv, TypeOK, PcOK
<1>2. UNCHANGED <<cpu, created>>
  BY DEF WorkerStep, Pin, ThreadInit, LoopTop, RefreshAffinity, PopUrgent, PopRegular, BeforeTask,
     TaskEnds, Listen, RecheckUrgent, RecheckRegular, WakeUp, groupVars
<1>3. \A t \in Tasks : pc'[t] = pc[t] /\ cpu'[t] = cpu[t] /\ Target(t)' = Target(t)
  BY <1>1, <1>2, Kinds DEF Target
<1>4. WithSubmitter' = WithSubmitter
  BY <1>3 DEF WithSubmitter
<1>5. \A v \in Workers : /\ pc'[v] \in InHand => hold[v] # Nobody
                         /\ hold[v] # Nobody => pc'[v] \in InHand \cup {"stop", "stopped", "discard"}
  BY <1>1, Kinds DEF IInv, PlaceInv
<1>6. \A t \in Tasks : pc'[t] \in Routed => cpu'[t] \in Processors /\ Target(t)' \in created'
  BY <1>2, <1>3 DEF IInv, PlaceInv
<1> QED
  BY <1>2, <1>3, <1>4, <1>5, <1>6, QuietPlace

\* A task is resolved by its submitter: the handle says so and it goes nowhere else.
LEMMA SubmitterEnds ==
    ASSUME IInv, NEW t \in Tasks, t \in WithSubmitter, UNCHANGED <<queue, hold, created, cpu>>, Cancel(t),
           pc'[t] \in {"done", "await_lock"}, \A a \in Actors : a # t => pc'[a] = pc[a]
    PROVE  PlaceInv'
<1>1. /\ Ended(t)' /\ t \notin WithSubmitter' /\ pc'[t] \notin Routed
      /\ \A u \in Tasks : u # t => Ended(u)' = Ended(u)
  BY DEF Cancel, Ended, IInv, TypeOK, WithSubmitter, Routed, Admitting
<1>2. \A u \in Tasks : u # t => pc'[u] = pc[u]
  BY Kinds
<1>3. \A u \in Tasks : u # t => (u \in WithSubmitter' <=> u \in WithSubmitter)
  BY <1>2 DEF WithSubmitter
<1>4. \A u \in Tasks : /\ Target(u)' = Target(u) /\ QueueOf(u)' = QueueOf(u)
                       /\ InQueue(u)' = InQueue(u) /\ InHands(u)' = InHands(u)
  BY DEF Target, QueueOf, InQueue, InHands
<1>5. ~InQueue(t) /\ ~InHands(t)
  BY DEF IInv, PlaceInv
<1>6. \A u \in Tasks : pc'[u] \in Routed \/ InQueue(u)' \/ InHands(u)' =>
          cpu'[u] \in Processors /\ Target(u)' \in created'
  BY <1>1, <1>2, <1>4, <1>5 DEF IInv, PlaceInv
<1>7. \A q \in Queues : \A i \in DOMAIN queue'[q] :
          QueueOf(queue[q][i])' = q /\ pc'[queue'[q][i]] \in Pushed
  <2>1. ASSUME NEW q \in Queues, NEW i \in DOMAIN queue[q]
        PROVE  queue[q][i] \in Tasks /\ InQueue(queue[q][i])
    BY <2>1 DEF IInv, TypeOK, InQueue
  <2> QED
    BY <1>2, <1>4, <1>5, <2>1 DEF IInv, PlaceInv
<1>8. \A q \in Queues : \A i, j \in DOMAIN queue'[q] : queue'[q][i] = queue'[q][j] => i = j
  BY DEF IInv, PlaceInv
<1>9. \A w \in Workers :
          /\ hold'[w] # Nobody => /\ pc'[w] \in InHand \cup {"stop", "stopped", "discard"}
                                 /\ Target(hold[w])' = HomeOf[w]
                                 /\ pc'[hold'[w]] \in Pushed \ {"publish", "member"}
          /\ pc'[w] \in InHand => hold'[w] # Nobody
  <2>1. ASSUME NEW w \in Workers, hold[w] # Nobody PROVE hold[w] \in Tasks /\ InHands(hold[w])
    BY <2>1 DEF IInv, TypeOK, InHands
  <2> QED
    BY <1>2, <1>4, <1>5, <2>1, Kinds DEF IInv, PlaceInv
<1>10. \A v, w \in Workers : hold'[v] = hold'[w] /\ hold'[v] # Nobody => v = w
  BY DEF IInv, PlaceInv
<1>11. \A u \in Tasks :
          /\ u \in WithSubmitter' => ~InQueue(u)' /\ ~InHands(u)' /\ ~Ended(u)'
          /\ u \notin WithSubmitter' => InQueue(u)' \/ InHands(u)' \/ Ended(u)'
          /\ ~(InQueue(u)' /\ InHands(u)') /\ ~(InQueue(u)' /\ Ended(u)')
          /\ ~(InHands(u)' /\ Ended(u)')
  BY <1>1, <1>3, <1>4, <1>5 DEF IInv, PlaceInv
<1> QED
  BY <1>6, <1>7, <1>8, <1>9, <1>10, <1>11 DEF PlaceInv

\* A worker's task is resolved: it has run, or it was dropped.
LEMMA WorkerEnds ==
    ASSUME IInv, NEW w \in Workers, hold[w] # Nobody, UNCHANGED <<queue, created, cpu>>,
           hold' = [hold EXCEPT ![w] = Nobody],
           \E how \in {"ran", "cancelled"} : outcome' = [outcome EXCEPT ![hold[w]] = how],
           pc'[w] \notin InHand, \A a \in Actors : a # w => pc'[a] = pc[a]
    PROVE  PlaceInv'
<1>0. PICK t \in Tasks : t = hold[w] /\ InHands(t)
  BY DEF IInv, TypeOK, InHands
<1>1. Ended(t)' /\ \A u \in Tasks : u # t => Ended(u)' = Ended(u)
  BY <1>0 DEF Ended, IInv, TypeOK
<1>2. \A u \in Tasks : pc'[u] = pc[u]
  BY Kinds
<1>3. \A u \in Tasks : u \in WithSubmitter' <=> u \in WithSubmitter
  BY <1>2 DEF WithSubmitter
<1>4. \A u \in Tasks : /\ Target(u)' = Target(u) /\ QueueOf(u)' = QueueOf(u) /\ InQueue(u)' = InQueue(u)
  BY DEF Target, QueueOf, InQueue
<1>5. hold'[w] = Nobody /\ \A v \in Workers : v # w => hold'[v] = hold[v]
  BY DEF IInv, TypeOK
<1>6. ~InHands(t)' /\ \A u \in Tasks : u # t => InHands(u)' = InHands(u)
  <2>1. \A v \in Workers : v # w => hold[v] # t
    BY <1>0 DEF IInv, PlaceInv
  <2> QED
    BY <1>0, <1>5, <2>1, Kinds DEF InHands
<1>7. \A u \in Tasks : pc'[u] \in Routed \/ InQueue(u)' \/ InHands(u)' =>
          cpu'[u] \in Processors /\ Target(u)' \in created'
  BY <1>2, <1>4, <1>6 DEF IInv, PlaceInv
<1>8. \A q \in Queues : \A i \in DOMAIN queue'[q] :
          QueueOf(queue[q][i])' = q /\ pc'[queue'[q][i]] \in Pushed
  <2>1. ASSUME NEW q \in Queues, NEW i \in DOMAIN queue[q]
        PROVE  queue[q][i] \in Tasks
    BY <2>1 DEF IInv, TypeOK
  <2> QED
    BY <1>2, <1>4, <2>1 DEF IInv, PlaceInv
<1>9. \A q \in Queues : \A i, j \in DOMAIN queue'[q] : queue'[q][i] = queue'[q][j] => i = j
  BY DEF IInv, PlaceInv
<1>10. \A v \in Workers :
          /\ hold'[v] # Nobody => /\ pc'[v] \in InHand \cup {"stop", "stopped", "discard"}
                                 /\ Target(hold[v])' = HomeOf[v]
                                 /\ pc'[hold'[v]] \in Pushed \ {"publish", "member"}
          /\ pc'[v] \in InHand => hold'[v] # Nobody
  <2>1. ASSUME NEW v \in Workers, hold[v] # Nobody PROVE hold[v] \in Tasks
    BY <2>1 DEF IInv, TypeOK
  <2> QED
    BY <1>2, <1>4, <1>5, <2>1, Kinds DEF IInv, PlaceInv
<1>11. \A u, v \in Workers : hold'[u] = hold'[v] /\ hold'[u] # Nobody => u = v
  BY <1>5 DEF IInv, PlaceInv
<1>12. \A u \in Tasks :
          /\ u \in WithSubmitter' => ~InQueue(u)' /\ ~InHands(u)' /\ ~Ended(u)'
          /\ u \notin WithSubmitter' => InQueue(u)' \/ InHands(u)' \/ Ended(u)'
          /\ ~(InQueue(u)' /\ InHands(u)') /\ ~(InQueue(u)' /\ Ended(u)')
          /\ ~(InHands(u)' /\ Ended(u)')
  <2>1. ASSUME NEW u \in Tasks, u # t
        PROVE  /\ u \in WithSubmitter' => ~InQueue(u)' /\ ~InHands(u)' /\ ~Ended(u)'
               /\ u \notin WithSubmitter' => InQueue(u)' \/ InHands(u)' \/ Ended(u)'
               /\ ~(InQueue(u)' /\ InHands(u)') /\ ~(InQueue(u)' /\ Ended(u)')
               /\ ~(InHands(u)' /\ Ended(u)')
    BY <1>1, <1>3, <1>4, <1>6, <2>1 DEF IInv, PlaceInv
  <2>2. t \notin WithSubmitter' /\ ~InQueue(t)' /\ ~InHands(t)' /\ Ended(t)'
    BY <1>0, <1>1, <1>3, <1>4, <1>6 DEF IInv, PlaceInv
  <2> QED
    BY <2>1, <2>2
<1> QED
  BY <1>7, <1>8, <1>9, <1>10, <1>11, <1>12 DEF PlaceInv

\* The head of a queue leaves it; nothing else moves.
LEMMA HeadLeaves ==
    ASSUME IInv, NEW q \in Queues, queue[q] # <<>>, queue'[q] = Tail(queue[q]),
           \A p \in Queues : p # q => queue'[p] = queue[p], NEW t, t = Head(queue[q])
    PROVE  /\ t \in Tasks /\ InQueue(t) /\ ~InQueue(t)' /\ QueueOf(t) = q /\ pc[t] \in Pushed
           /\ \A u \in Tasks : u # t => InQueue(u)' = InQueue(u)
           /\ \A p \in Queues : \A i \in DOMAIN queue'[p] :
                 /\ queue'[p][i] \in Tasks /\ queue'[p][i] # t
                 /\ QueueOf(queue'[p][i]) = p /\ pc[queue'[p][i]] \in Pushed
           /\ \A p \in Queues : \A i, j \in DOMAIN queue'[p] : queue'[p][i] = queue'[p][j] => i = j
<1>1. queue \in [Queues -> Seq(Tasks)] /\ queue[q] \in Seq(Tasks)
  BY DEF IInv, TypeOK
<1>2. /\ 1 \in DOMAIN queue[q] /\ t = queue[q][1]
      /\ \A i \in DOMAIN Tail(queue[q]) : i + 1 \in DOMAIN queue[q] /\ Tail(queue[q])[i] = queue[q][i + 1]
                                          /\ i \in Int /\ i + 1 # 1
      /\ \A i \in DOMAIN queue[q] : i # 1 => i - 1 \in DOMAIN Tail(queue[q])
                                             /\ Tail(queue[q])[i - 1] = queue[q][i]
  BY <1>1, HeadTail
<1>3. queue'[q] = Tail(queue[q]) /\ \A p \in Queues : p # q => queue'[p] = queue[p]
  OBVIOUS
<1>4. t \in Tasks /\ InQueue(t) /\ QueueOf(t) = q /\ pc[t] \in Pushed
  BY <1>1, <1>2 DEF InQueue, IInv, PlaceInv
<1>5. \A p \in Queues : \A i \in DOMAIN queue[p] : /\ queue[p][i] \in Tasks
                                                   /\ QueueOf(queue[p][i]) = p /\ pc[queue[p][i]] \in Pushed
  <2>1. \A p \in Queues : \A i \in DOMAIN queue[p] : queue[p][i] \in Tasks
    BY <1>1
  <2> QED
    BY <2>1 DEF IInv, PlaceInv
<1>6. \A p \in Queues : \A i, j \in DOMAIN queue[p] : queue[p][i] = queue[p][j] => i = j
  BY DEF IInv, PlaceInv
<1>7. \A p \in Queues : \A i \in DOMAIN queue'[p] :
          /\ queue'[p][i] \in Tasks /\ queue'[p][i] # t
          /\ QueueOf(queue'[p][i]) = p /\ pc[queue'[p][i]] \in Pushed
  <2>1. ASSUME NEW i \in DOMAIN queue'[q]
        PROVE  /\ queue'[q][i] \in Tasks /\ queue'[q][i] # t
               /\ QueueOf(queue'[q][i]) = q /\ pc[queue'[q][i]] \in Pushed
    <3>1. i + 1 \in DOMAIN queue[q] /\ queue'[q][i] = queue[q][i + 1] /\ i + 1 # 1
      BY <1>2, <1>3, <2>1
    <3> QED
      BY <1>2, <1>5, <1>6, <3>1
  <2>2. ASSUME NEW p \in Queues, p # q, NEW i \in DOMAIN queue[p] PROVE queue[p][i] # t
    BY <1>4, <1>5, <2>2
  <2> QED
    BY <1>3, <1>5, <2>1, <2>2
<1>8. \A p \in Queues : \A i, j \in DOMAIN queue'[p] : queue'[p][i] = queue'[p][j] => i = j
  <2>1. ASSUME NEW i \in DOMAIN queue'[q], NEW j \in DOMAIN queue'[q], queue'[q][i] = queue'[q][j]
        PROVE  i = j
    <3>1. /\ i + 1 \in DOMAIN queue[q] /\ queue'[q][i] = queue[q][i + 1] /\ i \in Int
          /\ j + 1 \in DOMAIN queue[q] /\ queue'[q][j] = queue[q][j + 1] /\ j \in Int
      BY <1>2, <1>3, <2>1
    <3>2. i + 1 = j + 1
      BY <1>6, <2>1, <3>1
    <3> QED
      BY <3>1, <3>2
  <2> QED
    BY <1>3, <1>6, <2>1
<1>9. ~InQueue(t)'
  BY <1>7 DEF InQueue
<1>10. ASSUME NEW u \in Tasks, u # t PROVE InQueue(u)' = InQueue(u)
  <2>1. ASSUME InQueue(u)' PROVE InQueue(u)
    <3>1. PICK p \in Queues : \E i \in DOMAIN queue'[p] : queue'[p][i] = u
      BY <2>1 DEF InQueue
    <3>2. \E j \in DOMAIN queue[p] : queue[p][j] = u
      <4>1. CASE p # q
        BY <1>3, <3>1, <4>1
      <4>2. CASE p = q
        <5>1. PICK i \in DOMAIN Tail(queue[q]) : Tail(queue[q])[i] = u
          BY <1>3, <3>1, <4>2
        <5>2. i + 1 \in DOMAIN queue[q] /\ queue[q][i + 1] = u
          BY <1>2, <5>1
        <5> QED
          BY <4>2, <5>2
      <4> QED
        BY <4>1, <4>2
    <3> QED
      BY <3>2 DEF InQueue
  <2>2. ASSUME InQueue(u) PROVE InQueue(u)'
    <3>1. PICK p \in Queues : \E i \in DOMAIN queue[p] : queue[p][i] = u
      BY <2>2 DEF InQueue
    <3>2. \E j \in DOMAIN queue'[p] : queue'[p][j] = u
      <4>1. CASE p # q
        BY <1>3, <3>1, <4>1
      <4>2. CASE p = q
        <5>1. PICK i \in DOMAIN queue[q] : queue[q][i] = u /\ i # 1
          BY <1>2, <1>10, <3>1, <4>2
        <5>2. i - 1 \in DOMAIN queue'[q] /\ queue'[q][i - 1] = u
          BY <1>2, <1>3, <5>1
        <5> QED
          BY <4>2, <5>2
      <4> QED
        BY <4>1, <4>2
    <3> QED
      BY <3>2 DEF InQueue
  <2>3. InQueue(u) \in BOOLEAN /\ InQueue(u)' \in BOOLEAN
    BY DEF InQueue
  <2> QED
    BY <2>1, <2>2, <2>3
<1> QED
  BY <1>4, <1>7, <1>8, <1>9, <1>10

\* A drain drops the head of a queue.
LEMMA QueueDropped ==
    ASSUME IInv, NEW q \in Queues, queue[q] # <<>>, queue' = [queue EXCEPT ![q] = Tail(@)],
           Cancel(Head(queue[q])), UNCHANGED <<hold, created, cpu, pc>>
    PROVE  PlaceInv'
<1>0. /\ \E t : t = Head(queue[q])
      /\ queue'[q] = Tail(queue[q]) /\ \A p \in Queues : p # q => queue'[p] = queue[p]
  BY DEF IInv, TypeOK
<1>a. PICK t : t = Head(queue[q])
  BY <1>0
<1>1. /\ t \in Tasks /\ InQueue(t) /\ ~InQueue(t)'
      /\ \A u \in Tasks : u # t => InQueue(u)' = InQueue(u)
      /\ \A p \in Queues : \A i \in DOMAIN queue'[p] :
            /\ queue'[p][i] \in Tasks /\ queue'[p][i] # t
            /\ QueueOf(queue'[p][i]) = p /\ pc[queue'[p][i]] \in Pushed
      /\ \A p \in Queues : \A i, j \in DOMAIN queue'[p] : queue'[p][i] = queue'[p][j] => i = j
  BY <1>0, <1>a, HeadLeaves
<1>2. WithSubmitter' = WithSubmitter
  BY DEF WithSubmitter
<1>3. \A u \in Tasks : Target(u)' = Target(u) /\ QueueOf(u)' = QueueOf(u) /\ InHands(u)' = InHands(u)
  BY DEF Target, QueueOf, InHands
<1>4. Ended(t)' /\ \A u \in Tasks : u # t => Ended(u)' = Ended(u)
  BY <1>a, <1>1 DEF Cancel, Ended, IInv, TypeOK
<1>5. \A u \in Tasks : pc'[u] \in Routed \/ InQueue(u)' \/ InHands(u)' =>
          cpu'[u] \in Processors /\ Target(u)' \in created'
  BY <1>1, <1>3 DEF IInv, PlaceInv
<1>6. \A p \in Queues : \A i \in DOMAIN queue'[p] :
          QueueOf(queue[p][i])' = p /\ pc'[queue'[p][i]] \in Pushed
  BY <1>1, <1>3 DEF QueueOf, Target
<1>7. \A w \in Workers :
          /\ hold'[w] # Nobody => /\ pc'[w] \in InHand \cup {"stop", "stopped", "discard"}
                                 /\ Target(hold[w])' = HomeOf[w]
                                 /\ pc'[hold'[w]] \in Pushed \ {"publish", "member"}
          /\ pc'[w] \in InHand => hold'[w] # Nobody
  BY DEF IInv, PlaceInv, Target
<1>8. \A v, w \in Workers : hold'[v] = hold'[w] /\ hold'[v] # Nobody => v = w
  BY DEF IInv, PlaceInv
<1>9. \A u \in Tasks :
          /\ u \in WithSubmitter' => ~InQueue(u)' /\ ~InHands(u)' /\ ~Ended(u)'
          /\ u \notin WithSubmitter' => InQueue(u)' \/ InHands(u)' \/ Ended(u)'
          /\ ~(InQueue(u)' /\ InHands(u)') /\ ~(InQueue(u)' /\ Ended(u)')
          /\ ~(InHands(u)' /\ Ended(u)')
  <2>1. ASSUME NEW u \in Tasks, u # t
        PROVE  /\ u \in WithSubmitter' => ~InQueue(u)' /\ ~InHands(u)' /\ ~Ended(u)'
               /\ u \notin WithSubmitter' => InQueue(u)' \/ InHands(u)' \/ Ended(u)'
               /\ ~(InQueue(u)' /\ InHands(u)') /\ ~(InQueue(u)' /\ Ended(u)')
               /\ ~(InHands(u)' /\ Ended(u)')
    BY <1>1, <1>2, <1>3, <1>4, <2>1 DEF IInv, PlaceInv
  <2>2. t \notin WithSubmitter' /\ ~InQueue(t)' /\ ~InHands(t)' /\ Ended(t)'
    BY <1>1, <1>2, <1>3, <1>4 DEF IInv, PlaceInv
  <2> QED
    BY <2>1, <2>2
<1> QED
  BY <1>1, <1>5, <1>6, <1>7, <1>8, <1>9 DEF PlaceInv

\* A worker takes the head of a queue of its group that nobody has locked.
LEMMA WorkerTakes ==
    ASSUME IInv, NEW w \in Workers, NEW q \in Queues, q[1] = HomeOf[w], queue[q] # <<>>, ~QueueLocked(q),
           queue' = [queue EXCEPT ![q] = Tail(@)], hold' = [hold EXCEPT ![w] = Head(queue[q])],
           UNCHANGED <<outcome, created, cpu>>,
           hold[w] = Nobody, Goto(w, "before")
    PROVE  PlaceInv'
<1>0. /\ \E t : t = Head(queue[q])
      /\ queue'[q] = Tail(queue[q]) /\ \A p \in Queues : p # q => queue'[p] = queue[p]
  BY DEF IInv, TypeOK
<1>a. PICK t : t = Head(queue[q])
  BY <1>0
<1>1. /\ t \in Tasks /\ InQueue(t) /\ ~InQueue(t)' /\ QueueOf(t) = q /\ pc[t] \in Pushed
      /\ \A u \in Tasks : u # t => InQueue(u)' = InQueue(u)
      /\ \A p \in Queues : \A i \in DOMAIN queue'[p] :
            /\ queue'[p][i] \in Tasks /\ queue'[p][i] # t
            /\ QueueOf(queue'[p][i]) = p /\ pc[queue'[p][i]] \in Pushed
      /\ \A p \in Queues : \A i, j \in DOMAIN queue'[p] : queue'[p][i] = queue'[p][j] => i = j
  BY <1>0, <1>a, HeadLeaves
<1>2. pc'[w] = "before" /\ \A a \in Actors : a # w => pc'[a] = pc[a]
  BY Kinds DEF Goto, IInv, TypeOK, PcOK
<1>3. \A u \in Tasks : pc'[u] = pc[u] /\ Target(u)' = Target(u) /\ QueueOf(u)' = QueueOf(u) /\ Ended(u)' = Ended(u)
  BY <1>2, Kinds DEF Target, QueueOf, Ended
<1>4. WithSubmitter' = WithSubmitter
  BY <1>3 DEF WithSubmitter
<1>5. hold'[w] = t /\ \A v \in Workers : v # w => hold'[v] = hold[v]
  BY <1>a DEF IInv, TypeOK
<1>6. ~InHands(t) /\ InHands(t)' /\ \A u \in Tasks : u # t => InHands(u)' = InHands(u)
  <2>1. ~InHands(t)
    BY <1>1 DEF IInv, PlaceInv
  <2>2. \A u \in Tasks : u # t => InHands(u)' = InHands(u)
    BY <1>5, Kinds DEF InHands
  <2> QED
    BY <1>5, <2>1, <2>2 DEF InHands
<1>7. Target(t) = HomeOf[w] /\ pc[t] \in Pushed \ {"publish", "member"}
  BY <1>1 DEF QueueLocked, QueueOf
<1>8. \A u \in Tasks : pc'[u] \in Routed \/ InQueue(u)' \/ InHands(u)' =>
          cpu'[u] \in Processors /\ Target(u)' \in created'
  BY <1>1, <1>3, <1>6 DEF IInv, PlaceInv
<1>9. \A p \in Queues : \A i \in DOMAIN queue'[p] :
          QueueOf(queue[p][i])' = p /\ pc'[queue'[p][i]] \in Pushed
  BY <1>1, <1>3 DEF QueueOf, Target
<1>10. \A v \in Workers :
          /\ hold'[v] # Nobody => /\ pc'[v] \in InHand \cup {"stop", "stopped", "discard"}
                                 /\ Target(hold[v])' = HomeOf[v]
                                 /\ pc'[hold'[v]] \in Pushed \ {"publish", "member"}
          /\ pc'[v] \in InHand => hold'[v] # Nobody
  <2>1. ASSUME NEW v \in Workers, v # w
        PROVE  /\ hold[v] # Nobody => /\ pc'[v] \in InHand \cup {"stop", "stopped", "discard"}
                                      /\ GroupOf[cpu'[hold[v]]] = HomeOf[v]
                                      /\ pc'[hold[v]] \in Pushed \ {"publish", "member"}
               /\ pc'[v] \in InHand => hold[v] # Nobody
    <3>1. hold[v] \in Tasks \cup {Nobody} /\ pc'[v] = pc[v]
      BY <1>2, <2>1, Kinds DEF IInv, TypeOK
    <3> QED
      BY <1>3, <2>1, <3>1 DEF IInv, PlaceInv, Target
  <2>2. t # Nobody /\ GroupOf[cpu'[t]] = HomeOf[w]
    BY <1>1, <1>7, Kinds DEF Target
  <2> QED
    BY <1>1, <1>2, <1>3, <1>5, <1>7, <2>1, <2>2 DEF Target, InHand
<1>11. \A u, v \in Workers : hold'[u] = hold'[v] /\ hold'[u] # Nobody => u = v
  <2>1. \A v \in Workers : hold[v] # t
    BY <1>6 DEF InHands
  <2> QED
    BY <1>5, <2>1 DEF IInv, PlaceInv
<1>12. \A u \in Tasks :
          /\ u \in WithSubmitter' => ~InQueue(u)' /\ ~InHands(u)' /\ ~Ended(u)'
          /\ u \notin WithSubmitter' => InQueue(u)' \/ InHands(u)' \/ Ended(u)'
          /\ ~(InQueue(u)' /\ InHands(u)') /\ ~(InQueue(u)' /\ Ended(u)')
          /\ ~(InHands(u)' /\ Ended(u)')
  <2>1. ASSUME NEW u \in Tasks, u # t
        PROVE  /\ u \in WithSubmitter' => ~InQueue(u)' /\ ~InHands(u)' /\ ~Ended(u)'
               /\ u \notin WithSubmitter' => InQueue(u)' \/ InHands(u)' \/ Ended(u)'
               /\ ~(InQueue(u)' /\ InHands(u)') /\ ~(InQueue(u)' /\ Ended(u)')
               /\ ~(InHands(u)' /\ Ended(u)')
    BY <1>1, <1>3, <1>4, <1>6, <2>1 DEF IInv, PlaceInv
  <2>2. t \notin WithSubmitter' /\ ~InQueue(t)' /\ InHands(t)' /\ ~Ended(t)'
    BY <1>1, <1>3, <1>4, <1>6 DEF IInv, PlaceInv
  <2> QED
    BY <2>1, <2>2
<1> QED
  BY <1>1, <1>8, <1>9, <1>10, <1>11, <1>12 DEF PlaceInv

\* What is in a queue after an insertion at its end.
LEMMA Appended ==
    ASSUME NEW s \in Seq(Tasks), NEW t \in Tasks
    PROVE  /\ Append(s, t) \in Seq(Tasks) /\ Len(Append(s, t)) = Len(s) + 1
           /\ Len(s) \in Nat /\ DOMAIN s = 1 .. Len(s) /\ DOMAIN Append(s, t) = 1 .. (Len(s) + 1)
           /\ \A i \in DOMAIN s : i \in DOMAIN Append(s, t) /\ Append(s, t)[i] = s[i] /\ i # Len(s) + 1
           /\ Len(s) + 1 \in DOMAIN Append(s, t) /\ Append(s, t)[Len(s) + 1] = t
           /\ \A i \in DOMAIN Append(s, t) : i # Len(s) + 1 => i \in DOMAIN s
OBVIOUS

\* A submission queues its task.
LEMMA PushPlace ==
    ASSUME IInv, NEW t \in Tasks, Push(t) PROVE PlaceInv'
<1>1. /\ pc[t] = "push" /\ UNCHANGED <<hold, outcome, created, cpu>>
      /\ pc'[t] \in {"publish", "wake"} /\ \A a \in Actors : a # t => pc'[a] = pc[a]
  BY Kinds DEF Push, Goto, IInv, TypeOK, PcOK, groupVars, workerVars
<1>2. cpu[t] \in Processors /\ Target(t) \in created /\ QueueOf(t) \in Queues
  BY <1>1, RoutedTarget DEF IInv, Routed, Admitting
<1>3. t \in WithSubmitter /\ ~InQueue(t) /\ ~InHands(t) /\ ~Ended(t)
  BY <1>1 DEF WithSubmitter, IInv, PlaceInv
<1>4. PICK q \in Queues, s \in Seq(Tasks) :
          /\ q = QueueOf(t) /\ s = queue[q] /\ queue'[q] = Append(s, t)
          /\ \A p \in Queues : p # q => queue'[p] = queue[p]
  BY <1>2 DEF Push, IInv, TypeOK
<1>5. /\ \A i \in DOMAIN s : i \in DOMAIN Append(s, t) /\ Append(s, t)[i] = s[i]
      /\ Len(s) + 1 \in DOMAIN Append(s, t) /\ Append(s, t)[Len(s) + 1] = t
      /\ \A i \in DOMAIN Append(s, t) : i # Len(s) + 1 => i \in DOMAIN s
  BY Appended
<1>6. \A u \in Tasks : u # t => pc'[u] = pc[u]
  BY <1>1, Kinds
<1>7. \A u \in Tasks : /\ Target(u)' = Target(u) /\ QueueOf(u)' = QueueOf(u)
                       /\ InHands(u)' = InHands(u) /\ Ended(u)' = Ended(u)
  BY <1>1 DEF Target, QueueOf, InHands, Ended
<1>8. \A u \in Tasks : u # t => (u \in WithSubmitter' <=> u \in WithSubmitter)
  BY <1>6 DEF WithSubmitter
<1>9. t \notin WithSubmitter' /\ pc'[t] \in Pushed /\ pc[t] \notin Pushed
  BY <1>1 DEF WithSubmitter, Pushed
<1>10. \A p \in Queues : \A i \in DOMAIN queue[p] :
          queue[p][i] \in Tasks /\ queue[p][i] # t /\ QueueOf(queue[p][i]) = p /\ pc[queue[p][i]] \in Pushed
  <2>1. \A p \in Queues : \A i \in DOMAIN queue[p] : queue[p][i] \in Tasks
    BY DEF IInv, TypeOK
  <2> QED
    BY <1>9, <2>1 DEF IInv, PlaceInv
<1>11. InQueue(t)'
  BY <1>4, <1>5 DEF InQueue
<1>12. ASSUME NEW u \in Tasks, u # t PROVE InQueue(u)' = InQueue(u)
  <2>1. ASSUME NEW p \in Queues
        PROVE  (\E i \in DOMAIN queue'[p] : queue'[p][i] = u) <=> (\E i \in DOMAIN queue[p] : queue[p][i] = u)
    BY <1>4, <1>5, <1>12
  <2> QED
    BY <2>1 DEF InQueue
<1>13. \A u \in Tasks : pc'[u] \in Routed \/ InQueue(u)' \/ InHands(u)' =>
          cpu'[u] \in Processors /\ Target(u)' \in created'
  BY <1>1, <1>2, <1>6, <1>7, <1>12 DEF IInv, PlaceInv
<1>14. \A p \in Queues : \A i \in DOMAIN queue'[p] :
          QueueOf(queue[p][i])' = p /\ pc'[queue'[p][i]] \in Pushed
  <2>1. ASSUME NEW p \in Queues, NEW i \in DOMAIN queue'[p]
        PROVE  /\ queue'[p][i] \in Tasks
               /\ QueueOf(queue'[p][i]) = p /\ pc'[queue'[p][i]] \in Pushed
    <3>1. CASE p # q
      BY <1>4, <1>6, <1>10, <2>1, <3>1
    <3>2. CASE p = q /\ i = Len(s) + 1
      BY <1>4, <1>5, <1>9, <3>2
    <3>3. CASE p = q /\ i # Len(s) + 1
      <4>1. i \in DOMAIN s
        BY <1>4, <1>5, <2>1, <3>3
      <4>2. s[i] \in Tasks /\ s[i] # t /\ QueueOf(s[i]) = q /\ pc[s[i]] \in Pushed
        BY <1>4, <1>10, <4>1
      <4>3. queue'[p][i] = s[i]
        BY <1>4, <1>5, <3>3, <4>1
      <4>4. pc'[s[i]] = pc[s[i]]
        BY <1>6, <4>2
      <4> QED
        BY <3>3, <4>2, <4>3, <4>4
    <3> QED
      BY <3>1, <3>2, <3>3
  <2> QED
    BY <1>1, <2>1 DEF QueueOf, Target
<1>15. \A p \in Queues : \A i, j \in DOMAIN queue'[p] : queue'[p][i] = queue'[p][j] => i = j
  <2>1. \A p \in Queues : \A i, j \in DOMAIN queue[p] : queue[p][i] = queue[p][j] => i = j
    BY DEF IInv, PlaceInv
  <2>2. ASSUME NEW i \in DOMAIN Append(s, t), NEW j \in DOMAIN Append(s, t), Append(s, t)[i] = Append(s, t)[j]
        PROVE  i = j
    BY <1>4, <1>5, <1>10, <2>1, <2>2
  <2>3. \A i, j \in DOMAIN queue'[q] : queue'[q][i] = queue'[q][j] => i = j
    <3>1. PICK r : r = Append(s, t) /\ r = queue'[q]
      BY <1>4
    <3>2. \A i, j \in DOMAIN r : r[i] = r[j] => i = j
      BY <2>2, <3>1
    <3> QED
      BY <3>1, <3>2
  <2> QED
    BY <1>4, <2>1, <2>3
<1>16. \A w \in Workers :
          /\ hold'[w] # Nobody => /\ pc'[w] \in InHand \cup {"stop", "stopped", "discard"}
                                 /\ Target(hold[w])' = HomeOf[w]
                                 /\ pc'[hold'[w]] \in Pushed \ {"publish", "member"}
          /\ pc'[w] \in InHand => hold'[w] # Nobody
  <2>1. ASSUME NEW w \in Workers, hold[w] # Nobody PROVE hold[w] \in Tasks /\ hold[w] # t
    BY <1>3, <2>1 DEF IInv, TypeOK, InHands
  <2> QED
    BY <1>1, <1>6, <2>1, Kinds DEF IInv, PlaceInv, Target
<1>17. \A v, w \in Workers : hold'[v] = hold'[w] /\ hold'[v] # Nobody => v = w
  BY <1>1 DEF IInv, PlaceInv
<1>18. \A u \in Tasks :
          /\ u \in WithSubmitter' => ~InQueue(u)' /\ ~InHands(u)' /\ ~Ended(u)'
          /\ u \notin WithSubmitter' => InQueue(u)' \/ InHands(u)' \/ Ended(u)'
          /\ ~(InQueue(u)' /\ InHands(u)') /\ ~(InQueue(u)' /\ Ended(u)')
          /\ ~(InHands(u)' /\ Ended(u)')
  <2>1. ASSUME NEW u \in Tasks, u # t
        PROVE  /\ u \in WithSubmitter' => ~InQueue(u)' /\ ~InHands(u)' /\ ~Ended(u)'
               /\ u \notin WithSubmitter' => InQueue(u)' \/ InHands(u)' \/ Ended(u)'
               /\ ~(InQueue(u)' /\ InHands(u)') /\ ~(InQueue(u)' /\ Ended(u)')
               /\ ~(InHands(u)' /\ Ended(u)')
    BY <1>7, <1>8, <1>12, <2>1 DEF IInv, PlaceInv
  <2>2. t \notin WithSubmitter' /\ InQueue(t)' /\ ~InHands(t)' /\ ~Ended(t)'
    BY <1>3, <1>7, <1>9, <1>11
  <2> QED
    BY <2>1, <2>2
<1> QED
  BY <1>13, <1>14, <1>15, <1>16, <1>17, <1>18 DEF PlaceInv

\* Every step keeps each task in its place or moves it to the next.
LEMMA PlaceStep ==
    ASSUME IInv, Next PROVE PlaceInv'
<1>1. ASSUME NEW t \in Tasks, Submit(t) \/ SubmitStep(t) PROVE PlaceInv'
  <2>1. CASE /\ Reject(t) \/ AdmitCold(t) \/ CheckShutdown(t)
             /\ Cancel(t) /\ Goto(t, "done")
    <3>1. t \in WithSubmitter /\ UNCHANGED <<queue, hold, created, cpu>>
      BY <2>1 DEF Reject, AdmitCold, CheckShutdown, WithSubmitter, groupVars, workerVars
    <3>2. pc'[t] = "done" /\ \A a \in Actors : a # t => pc'[a] = pc[a]
      BY <2>1, Kinds DEF Goto, IInv, TypeOK, PcOK
    <3> QED
      BY <2>1, <3>1, <3>2, SubmitterEnds
  <2>2. CASE /\ Reject(t) \/ AdmitCold(t) \/ CheckShutdown(t)
             /\ ~(Cancel(t) /\ Goto(t, "done"))
    <3>1. pc'[t] # "done"
      BY <2>2, Kinds DEF Reject, AdmitCold, CheckShutdown, Goto, IInv, TypeOK, PcOK
    <3> QED
      BY <2>2, <3>1, SubmitQuietPlace
  <2> QED
    BY <1>1, <2>1, <2>2, PushPlace, SubmitQuietPlace DEF SubmitStep
<1>2. ASSUME NEW w \in Workers, WorkerStep(w) PROVE PlaceInv'
  <2>0. \A a \in Actors : a # w => pc'[a] = pc[a]
    BY <1>2, Kinds DEF WorkerStep, Pin, ThreadInit, LoopTop, RefreshAffinity, PopUrgent, PopRegular, BeforeTask,
       TaskEnds, Listen, RecheckUrgent, RecheckRegular, WakeUp, Pop, LookAgain, Unwind, Goto, IInv, TypeOK, PcOK
  <2>1. CASE PopUrgent(w) \/ PopRegular(w)
    <3>1. /\ hold[w] = Nobody /\ UNCHANGED <<outcome, created, cpu>>
          /\ <<HomeOf[w], "urgent">> \in Queues /\ <<HomeOf[w], "regular">> \in Queues
      BY <2>1, PoolAssumption DEF PopUrgent, PopRegular, IInv, PlaceInv, groupVars, InHand, Queues
    <3>2. CASE \E q \in Queues : /\ q[1] = HomeOf[w] /\ ~QueueLocked(q) /\ queue[q] # <<>> /\ Goto(w, "before")
                                 /\ hold' = [hold EXCEPT ![w] = Head(queue[q])]
                                 /\ queue' = [queue EXCEPT ![q] = Tail(@)]
      BY <3>1, <3>2, WorkerTakes
    <3>3. CASE UNCHANGED <<queue, hold>> /\ \E next \in {"exit", "regular", "listen"} : Goto(w, next)
      <4>1. pc'[w] \notin InHand
        BY <3>3, Kinds DEF Goto, InHand, IInv, TypeOK, PcOK
      <4> QED
        BY <1>2, <3>1, <3>3, <4>1, WorkerQuietPlace
    <3> QED
      BY <2>1, <3>1, <3>2, <3>3 DEF PopUrgent, PopRegular, Pop
  <2>2. CASE BeforeTask(w) \/ TaskEnds(w)
    <3>1. hold[w] # Nobody /\ UNCHANGED <<queue, created, cpu>>
      BY <2>2 DEF BeforeTask, TaskEnds, IInv, PlaceInv, InHand, groupVars
    <3>2. CASE hold' = [hold EXCEPT ![w] = Nobody] /\ (Cancel(hold[w]) \/ TaskEnds(w))
      <4>1. pc'[w] \notin InHand
        <5>1. hold'[w] = Nobody
          BY <3>2 DEF IInv, TypeOK
        <5> QED
          BY <2>2, <3>1, <5>1, Kinds DEF BeforeTask, TaskEnds, Goto, InHand, IInv, TypeOK, PcOK
      <4>2. \E how \in {"ran", "cancelled"} : outcome' = [outcome EXCEPT ![hold[w]] = how]
        BY <3>2 DEF Cancel, TaskEnds
      <4> QED
        BY <2>0, <3>1, <3>2, <4>1, <4>2, WorkerEnds
    <3>3. CASE UNCHANGED <<hold, outcome>> /\ BeforeTask(w) /\ ~shutdown
      <4>1. pc'[w] \in InHand
        BY <3>3, Kinds DEF BeforeTask, Goto, InHand, IInv, TypeOK, PcOK
      <4> QED
        BY <1>2, <3>1, <3>3, <4>1, WorkerQuietPlace
    <3> QED
      BY <2>2, <3>2, <3>3 DEF BeforeTask, TaskEnds
  <2>3. CASE \/ Pin(w) \/ ThreadInit(w) \/ LoopTop(w) \/ RefreshAffinity(w)
             \/ Listen(w) \/ RecheckUrgent(w) \/ RecheckRegular(w) \/ WakeUp(w)
    <3>1. UNCHANGED <<hold, queue, outcome>>
      BY <2>3 DEF Pin, ThreadInit, LoopTop, RefreshAffinity, Listen, RecheckUrgent, RecheckRegular, WakeUp, workerVars
    <3>2. /\ pc[w] \in InHand => pc'[w] \in InHand \cup {"stop"}
          /\ pc'[w] \in InHand => pc[w] \in InHand
          /\ pc[w] \notin {"stop", "stopped", "discard"}
      BY <2>3, Kinds DEF Pin, ThreadInit, LoopTop, RefreshAffinity, Listen, RecheckUrgent, RecheckRegular, WakeUp,
         LookAgain, Unwind, Goto, InHand, IInv, TypeOK, PcOK
    <3> QED
      BY <1>2, <3>1, <3>2, WorkerQuietPlace DEF IInv, PlaceInv
  <2> QED
    BY <1>2, <2>1, <2>2, <2>3 DEF WorkerStep
<1>3. ASSUME NEW a \in Actors, a # Owner /\ Discard(a) PROVE PlaceInv'
  <2>1. /\ UNCHANGED <<queue, created, cpu>> /\ pc[a] = "discard" /\ pc'[a] = "await_lock"
        /\ \A b \in Actors : b # a => pc'[b] = pc[b]
    BY <1>3 DEF Discard, Goto, IInv, TypeOK, PcOK, groupVars
  <2>2. CASE a \in Tasks
    <3>1. a \in WithSubmitter /\ Cancel(a) /\ UNCHANGED hold
      BY <1>3, <2>1, <2>2 DEF WithSubmitter, Discard
    <3> QED
      BY <2>1, <2>2, <3>1, SubmitterEnds
  <2>3. CASE a \in Workers /\ hold[a] # Nobody
    <3>1. hold' = [hold EXCEPT ![a] = Nobody] /\ outcome' = [outcome EXCEPT ![hold[a]] = "cancelled"]
      BY <1>3, <2>3, Kinds DEF Discard, Cancel
    <3>2. pc'[a] \notin InHand
      BY <2>1 DEF InHand
    <3> QED
      BY <2>1, <2>3, <3>1, <3>2, WorkerEnds
  <2>4. CASE a \in Workers /\ hold[a] = Nobody
    <3>1. UNCHANGED <<hold, outcome>>
      BY <1>3, <2>4, Kinds DEF Discard
    <3>2. \A t \in Tasks : pc'[t] = pc[t] /\ cpu'[t] = cpu[t] /\ Target(t)' = Target(t)
      BY <2>1, <2>4, Kinds DEF Target
    <3>3. WithSubmitter' = WithSubmitter
      BY <3>2 DEF WithSubmitter
    <3>4. \A v \in Workers : /\ pc'[v] \in InHand => hold[v] # Nobody
                             /\ hold[v] # Nobody => pc'[v] \in InHand \cup {"stop", "stopped", "discard"}
      BY <2>1, <2>4, Kinds DEF IInv, PlaceInv, InHand
    <3>5. \A t \in Tasks : pc'[t] \in Routed => cpu'[t] \in Processors /\ Target(t)' \in created'
      BY <2>1, <3>2 DEF IInv, PlaceInv
    <3> QED
      BY <2>1, <3>1, <3>2, <3>3, <3>4, <3>5, QuietPlace
  <2> QED
    BY <1>3, <2>2, <2>3, <2>4, Kinds
<1>4. ASSUME NEW a \in Actors, DiscardQueue(a), ~UNCHANGED queue PROVE PlaceInv'
  <2>1. PICK q : /\ q = Visited(a) /\ queue[q] # <<>> /\ queue' = [queue EXCEPT ![q] = Tail(@)]
                 /\ Cancel(Head(queue[q])) /\ todo[a] # {} /\ pc[a] = "drain"
    BY <1>4 DEF DiscardQueue
  <2>2. q \in Queues
    BY <2>1, VisitedLeft DEF IInv, DrainInv
  <2>3. UNCHANGED <<hold, created, cpu, pc>>
    BY <1>4 DEF DiscardQueue, groupVars, workerVars
  <2> QED
    BY <2>1, <2>2, <2>3, QueueDropped
<1>5. ASSUME NEW a \in Actors,
             \/ a # Owner /\ (StopAdmission(a) \/ StopShutdown(a) \/ AwaitRegistration(a))
             \/ SignalFlag(a) \/ SignalAll(a) \/ BeginDrain(a) \/ EndDrain(a)
             \/ DiscardQueue(a) /\ UNCHANGED queue
             \/ a = Owner /\ (JoinAllWorkers \/ Join)
      PROVE  PlaceInv'
  <2>1. UNCHANGED <<queue, hold, created, cpu>> /\ \A b \in Actors : b # a => pc'[b] = pc[b]
    BY <1>5 DEF StopAdmission, StopShutdown, AwaitRegistration, SignalFlag, SignalAll, BeginDrain, EndDrain,
       DiscardQueue, JoinAllWorkers, CloseAdmission, Join, Goto, groupVars, workerVars, IInv, TypeOK, PcOK
  <2>2. UNCHANGED outcome
    <3>1. CASE DiscardQueue(a) /\ UNCHANGED queue
      <4>1. Visited(a) \in Queues
        BY <3>1, VisitedLeft DEF DiscardQueue, IInv, DrainInv
      <4>2. queue[Visited(a)] \in Seq(Tasks)
        BY <4>1 DEF IInv, TypeOK
      <4>3. ASSUME queue[Visited(a)] # <<>> PROVE Tail(queue[Visited(a)]) # queue[Visited(a)]
        <5>1. /\ Len(queue[Visited(a)]) \in Nat
              /\ Len(Tail(queue[Visited(a)])) = Len(queue[Visited(a)]) - 1
          BY <4>2, <4>3, HeadTail
        <5>2. Len(Tail(queue[Visited(a)])) # Len(queue[Visited(a)])
          BY <5>1
        <5> QED
          BY <5>2
      <4> QED
        BY <3>1, <4>1, <4>3 DEF DiscardQueue, IInv, TypeOK
    <3> QED
      BY <1>5, <3>1 DEF StopAdmission, StopShutdown, AwaitRegistration, SignalFlag, SignalAll, BeginDrain, EndDrain,
         JoinAllWorkers, CloseAdmission, Join
  <2>3. /\ pc[a] \notin InHand \cup Routed /\ pc'[a] \notin InHand \cup Routed
        /\ pc[a] \notin Pushed \cup {"new", "prepare", "rejected"}
        /\ pc'[a] \notin {"publish", "member", "new", "prepare", "rejected"}
        /\ pc[a] \in {"stop", "stopped", "discard"} <=> pc'[a] \in {"stop", "stopped", "discard"}
    BY <1>5, Kinds DEF StopAdmission, StopShutdown, AwaitRegistration, SignalFlag, SignalAll, BeginDrain, EndDrain,
       DiscardQueue, JoinAllWorkers, CloseAdmission, Join, Goto, IInv, TypeOK, PcOK, InHand, Routed, Admitting, Pushed
  <2>4. \A t \in Tasks : cpu'[t] = cpu[t] /\ Target(t)' = Target(t)
    BY <2>1 DEF Target
  <2>5. WithSubmitter' = WithSubmitter
    <3>1. \A t \in Tasks : t \in WithSubmitter' <=> t \in WithSubmitter
      BY <2>1, <2>3, Kinds DEF WithSubmitter, Routed, Admitting
    <3> QED
      BY <3>1 DEF WithSubmitter
  <2>6. \A v \in Workers : /\ pc'[v] \in InHand => hold[v] # Nobody
                           /\ hold[v] # Nobody => pc'[v] \in InHand \cup {"stop", "stopped", "discard"}
    BY <2>1, <2>3, Kinds DEF IInv, PlaceInv
  <2>7. \A t \in Tasks : pc'[t] \in Routed => cpu'[t] \in Processors /\ Target(t)' \in created'
    BY <2>1, <2>3, <2>4, Kinds DEF IInv, PlaceInv
  <2>8. \A t \in Tasks : /\ pc[t] \in Pushed => pc'[t] \in Pushed
                         /\ pc[t] \in Pushed \ {"publish", "member"} => pc'[t] \notin {"publish", "member"}
    BY <2>1, <2>3, Kinds
  <2> QED
    BY <2>1, <2>2, <2>4, <2>5, <2>6, <2>7, <2>8, QuietPlace
<1>6. CASE Finished
  BY <1>6, QuietPlace DEF Finished, IInv, PlaceInv, vars, groupVars, workerVars, WithSubmitter, Target
<1> QED
  BY <1>1, <1>2, <1>3, <1>4, <1>5, <1>6, Kinds DEF Next, PoisonStep, CloseStep

----------------------------------------------------------------------------
(* Closing. *)

\* Once the pool has shut down, a queue in which nothing is and which no
\* submission is about to enter stays so: admit() looks at shutdown in between.
LEMMA SealedStays ==
    ASSUME IInv, Next, shutdown, NEW q \in Queues, Sealed(q) PROVE Sealed(q)'
<1>1. ASSUME NEW t \in Tasks, Submit(t) \/ SubmitStep(t) PROVE Sealed(q)'
  <2>1. CASE Push(t)
    <3>1. pc[t] = "push" /\ QueueOf(t) # q
      BY <2>1 DEF Push, Sealed
    <3>2. queue'[q] = <<>>
      BY <2>1, <3>1 DEF Push, Sealed, IInv, TypeOK
    <3>3. \A u \in Tasks : /\ pc'[u] = "push" => pc[u] = "push"
                           /\ QueueOf(u)' = QueueOf(u)
      BY <2>1, Kinds DEF Push, Goto, IInv, TypeOK, PcOK, QueueOf, Target
    <3> QED
      BY <3>2, <3>3 DEF Sealed
  <2>2. CASE ~Push(t)
    <3>1. UNCHANGED queue
      BY <1>1, <2>2 DEF Submit, SubmitStep, Prepare, Reject, Route, AdmitCold, SpawnWorker, PublishStartup,
         Admit, CheckShutdown, PublishRevision, PublishMember, WakeAll, WakeOne
    <3>2. \A u \in Tasks : /\ pc'[u] = "push" => pc[u] = "push" /\ cpu'[u] = cpu[u]
      BY <1>1, <2>2, Kinds DEF Submit, SubmitStep, Prepare, Reject, Route, AdmitCold, SpawnWorker, PublishStartup,
         Admit, CheckShutdown, PublishRevision, PublishMember, WakeAll, WakeOne, Unwind, Goto, Team,
         IInv, TypeOK, PcOK
    <3>3. \A u \in Tasks : cpu'[u] = cpu[u] => QueueOf(u)' = QueueOf(u)
      BY DEF QueueOf, Target
    <3> QED
      BY <3>1, <3>2, <3>3 DEF Sealed
  <2> QED
    BY <2>1, <2>2
<1>2. ASSUME \/ \E w \in Workers : WorkerStep(w)
             \/ \E a \in Actors : PoisonStep(a) \/ CloseStep(a)
             \/ JoinAllWorkers \/ Join \/ Finished
      PROVE  Sealed(q)'
  <2>1. queue[q] = <<>> => queue'[q] = <<>>
    BY <1>2, ZenonT(60) DEF WorkerStep, Pin, ThreadInit, LoopTop, RefreshAffinity, PopUrgent, PopRegular, BeforeTask,
       TaskEnds, Listen, RecheckUrgent, RecheckRegular, WakeUp, Pop, PoisonStep, StopAdmission, StopShutdown,
       Discard, AwaitRegistration, CloseStep, SignalFlag, SignalAll, BeginDrain, DiscardQueue, EndDrain,
       JoinAllWorkers, CloseAdmission, Join, Finished, vars, IInv, TypeOK
  <2>2. UNCHANGED cpu
    BY <1>2 DEF WorkerStep, Pin, ThreadInit, LoopTop, RefreshAffinity, PopUrgent, PopRegular, BeforeTask,
       TaskEnds, Listen, RecheckUrgent, RecheckRegular, WakeUp, PoisonStep, StopAdmission, StopShutdown,
       Discard, AwaitRegistration, CloseStep, SignalFlag, SignalAll, BeginDrain, DiscardQueue, EndDrain,
       JoinAllWorkers, CloseAdmission, Join, Finished, vars
  <2>3. \A u \in Tasks : pc'[u] = "push" => pc[u] = "push"
    <3>1. ASSUME NEW w \in Workers, WorkerStep(w) PROVE \A u \in Tasks : pc'[u] = pc[u]
      BY <3>1, Kinds DEF WorkerStep, Pin, ThreadInit, LoopTop, RefreshAffinity, PopUrgent, PopRegular, BeforeTask,
         TaskEnds, Listen, RecheckUrgent, RecheckRegular, WakeUp, Pop, LookAgain, Unwind, Goto, IInv, TypeOK, PcOK
    <3>2. ASSUME NEW a \in Actors, PoisonStep(a) \/ CloseStep(a) \/ (a = Owner /\ (JoinAllWorkers \/ Join))
          PROVE  \A u \in Tasks : pc'[u] = "push" => pc[u] = "push"
      BY <3>2, Kinds DEF PoisonStep, StopAdmission, StopShutdown, Discard, AwaitRegistration, CloseStep, SignalFlag,
         SignalAll, BeginDrain, DiscardQueue, EndDrain, JoinAllWorkers, CloseAdmission, Join, Goto, IInv, TypeOK, PcOK
    <3>3. CASE Finished
      BY <3>3 DEF Finished, vars
    <3> QED
      BY <1>2, <3>1, <3>2, <3>3, Kinds
  <2> QED
    BY <2>1, <2>2, <2>3 DEF Sealed, QueueOf, Target
<1> QED
  BY <1>1, <1>2, Kinds DEF Next

\* A queue that the drain leaves behind is sealed: it has been found empty and
\* unlocked, or its group does not exist and nothing was routed to it.
LEMMA LeftBehind ==
    ASSUME IInv, NEW q \in Queues, q[1] \in created => ~QueueLocked(q) /\ queue[q] = <<>>
    PROVE  Sealed(q)
<1>1. \A t \in Tasks : pc[t] = "push" => q # QueueOf(t)
  <2>1. ASSUME NEW t \in Tasks, pc[t] = "push", q = QueueOf(t) PROVE FALSE
    <3>1. q[1] \in created
      BY <2>1, RoutedTarget DEF Routed, Admitting, IInv
    <3> QED
      BY <2>1, <3>1 DEF QueueLocked
  <2> QED
    BY <2>1
<1>2. queue[q] = <<>>
  <2>1. ASSUME queue[q] # <<>> PROVE FALSE
    <3>1. queue[q] \in Seq(Tasks)
      BY DEF IInv, TypeOK
    <3>2. 1 \in DOMAIN queue[q] /\ queue[q][1] \in Tasks
      BY <2>1, <3>1, HeadTail
    <3>3. QueueOf(queue[q][1]) = q /\ InQueue(queue[q][1])
      BY <3>2 DEF IInv, PlaceInv, InQueue
    <3>4. q[1] \in created
      BY <3>2, <3>3, RoutedTarget DEF IInv
    <3> QED
      BY <2>1, <3>4
  <2> QED
    BY <2>1
<1> QED
  BY <1>1, <1>2 DEF Sealed

\* The owner's drain leaves sealed queues behind.
LEMMA DrainStep ==
    ASSUME IInv, Next PROVE DrainInv'
<1>1. CASE \E a \in Actors : CloseStep(a)
  <2>1. PICK a \in Actors : CloseStep(a)
    BY <1>1
  <2>2. \A b \in Actors : b # a => pc'[b] = pc[b] /\ todo'[b] = todo[b]
    BY <2>1 DEF CloseStep, SignalFlag, SignalAll, BeginDrain, DiscardQueue, EndDrain, Goto, IInv, TypeOK, PcOK
  <2>3. CASE SignalFlag(a) \/ SignalAll(a)
    <3>1. pc'[a] = "signal"
      BY <2>3 DEF SignalFlag, SignalAll
    <3>2. \A b \in Actors : pc'[b] = pc[b]
      BY <2>3 DEF SignalFlag, SignalAll
    <3>3. a # Owner \/ pc'[Owner] \notin {"drain", "join", "joined"}
      BY <3>1
    <3>4. \A b \in Actors : pc'[b] = "drain" => todo'[b] \subseteq Queues
      BY <2>2, <3>1, <3>2 DEF IInv, DrainInv
    <3>5. pc'[Owner] = "drain" => \A q \in Queues \ todo'[Owner] : Sealed(q)'
      BY <2>2, <3>2, <3>3, SealedStays, Kinds DEF IInv, DrainInv, FlagsInv
    <3>6. pc'[Owner] \in {"join", "joined"} => \A q \in Queues : Sealed(q)'
      BY <3>2, <3>3, SealedStays, Kinds DEF IInv, DrainInv, FlagsInv
    <3> QED
      BY <3>4, <3>5, <3>6 DEF DrainInv
  <2>4. CASE BeginDrain(a)
    <3>1. pc[a] = "signal" /\ pc'[a] = "drain" /\ todo'[a] = Queues
      BY <2>4 DEF BeginDrain, Goto, IInv, TypeOK, PcOK
    <3>2. \A b \in Actors : pc'[b] = "drain" => todo'[b] \subseteq Queues
      BY <2>2, <3>1 DEF IInv, DrainInv
    <3>3. pc'[Owner] = "drain" => \A q \in Queues \ todo'[Owner] : Sealed(q)'
      BY <2>2, <3>1, SealedStays, Kinds DEF IInv, DrainInv, FlagsInv
    <3>4. pc'[Owner] \in {"join", "joined"} => \A q \in Queues : Sealed(q)'
      BY <2>2, <3>1, SealedStays, Kinds DEF IInv, DrainInv, FlagsInv
    <3> QED
      BY <3>2, <3>3, <3>4 DEF DrainInv
  <2>5. CASE DiscardQueue(a)
    <3>1. pc[a] = "drain" /\ todo[a] # {} /\ \A b \in Actors : pc'[b] = pc[b]
      BY <2>5 DEF DiscardQueue
    <3>2. shutdown /\ Visited(a) \in Queues
      BY <3>1, VisitedLeft DEF IInv, FlagsInv, DrainInv
    <3>3. todo'[a] \subseteq todo[a]
      BY <2>5 DEF DiscardQueue, IInv, TypeOK
    <3>4. \A q \in Queues : q \in todo[a] /\ q \notin todo'[a] => Sealed(q)'
      <4>1. ASSUME NEW q \in Queues, q \in todo[a], q \notin todo'[a] PROVE Sealed(q)'
        <5>1. q = Visited(a) /\ (q[1] \in created => ~QueueLocked(q) /\ queue[q] = <<>>)
          BY <2>5, <4>1 DEF DiscardQueue, IInv, TypeOK
        <5> QED
          BY <3>2, <5>1, LeftBehind, SealedStays
      <4> QED
        BY <4>1
    <3>5. \A b \in Actors : pc'[b] = "drain" => todo'[b] \subseteq Queues
      BY <2>2, <3>1, <3>3 DEF IInv, DrainInv
    <3>6. pc'[Owner] = "drain" => \A q \in Queues \ todo'[Owner] : Sealed(q)'
      <4>1. \A q \in Queues \ todo[Owner] : pc[Owner] = "drain" => Sealed(q)'
        BY <3>2, SealedStays DEF IInv, DrainInv
      <4> QED
        BY <2>2, <3>1, <3>4, <4>1, Kinds
    <3>7. pc'[Owner] \in {"join", "joined"} => \A q \in Queues : Sealed(q)'
      BY <3>1, <3>2, SealedStays, Kinds DEF IInv, DrainInv
    <3> QED
      BY <3>5, <3>6, <3>7 DEF DrainInv
  <2>6. CASE EndDrain(a)
    <3>1. pc[a] = "drain" /\ todo[a] = {} /\ pc'[a] # "drain" /\ (a = Owner => pc'[a] = "join")
      BY <2>6, Kinds DEF EndDrain, Goto, IInv, TypeOK, PcOK
    <3>2. shutdown
      BY <3>1 DEF IInv, FlagsInv
    <3>3. \A b \in Actors : pc'[b] = "drain" => todo'[b] \subseteq Queues
      BY <2>2, <3>1 DEF IInv, DrainInv
    <3>4. pc'[Owner] = "drain" => \A q \in Queues \ todo'[Owner] : Sealed(q)'
      BY <2>2, <3>1, <3>2, SealedStays, Kinds DEF IInv, DrainInv
    <3>5. pc'[Owner] \in {"join", "joined"} => \A q \in Queues : Sealed(q)'
      BY <2>2, <3>1, <3>2, SealedStays, Kinds DEF IInv, DrainInv
    <3> QED
      BY <3>3, <3>4, <3>5 DEF DrainInv
  <2> QED
    BY <2>1, <2>3, <2>4, <2>5, <2>6 DEF CloseStep
<1>2. CASE ~\E a \in Actors : CloseStep(a)
  <2>1. \A b \in Actors : pc'[b] = "drain" => pc[b] = "drain" /\ todo'[b] = todo[b]
    <3>1. ASSUME NEW t \in Tasks, Submit(t) \/ SubmitStep(t)
          PROVE  UNCHANGED todo /\ \A b \in Actors : pc'[b] = "drain" => pc[b] = "drain"
      BY <3>1, Kinds DEF Submit, SubmitStep, Prepare, Reject, Route, AdmitCold, SpawnWorker, PublishStartup,
         Admit, CheckShutdown, Push, PublishRevision, PublishMember, WakeAll, WakeOne, Unwind, Goto, Team,
         IInv, TypeOK, PcOK
    <3>2. ASSUME NEW w \in Workers, WorkerStep(w)
          PROVE  UNCHANGED todo /\ \A b \in Actors : pc'[b] = "drain" => pc[b] = "drain"
      BY <3>2, Kinds DEF WorkerStep, Pin, ThreadInit, LoopTop, RefreshAffinity, PopUrgent, PopRegular, BeforeTask,
         TaskEnds, Listen, RecheckUrgent, RecheckRegular, WakeUp, Pop, LookAgain, Unwind, Goto,
         IInv, TypeOK, PcOK
    <3>3. ASSUME NEW a \in Actors, PoisonStep(a) \/ (a = Owner /\ (JoinAllWorkers \/ Join))
          PROVE  \A b \in Actors : pc'[b] = "drain" => pc[b] = "drain" /\ todo'[b] = todo[b]
      <4>1. \A b \in Actors : pc'[b] = "drain" => pc[b] = "drain" /\ b # a
        BY <3>3, Kinds DEF PoisonStep, StopAdmission, StopShutdown, Discard, AwaitRegistration,
           JoinAllWorkers, CloseAdmission, Join, Goto, IInv, TypeOK, PcOK
      <4>2. \A b \in Actors : b # a => todo'[b] = todo[b]
        BY <3>3 DEF PoisonStep, StopAdmission, StopShutdown, Discard, AwaitRegistration,
           JoinAllWorkers, CloseAdmission, Join, IInv, TypeOK
      <4> QED
        BY <4>1, <4>2
    <3>4. CASE Finished
      BY <3>4 DEF Finished, vars
    <3> QED
      BY <1>2, <3>1, <3>2, <3>3, <3>4, Kinds DEF Next
  <2>2. pc'[Owner] \in {"join", "joined"} => pc[Owner] \in {"join", "joined"}
    <3>1. ASSUME NEW t \in Tasks, Submit(t) \/ SubmitStep(t) PROVE pc'[Owner] = pc[Owner]
      BY <3>1, Kinds DEF Submit, SubmitStep, Prepare, Reject, Route, AdmitCold, SpawnWorker, PublishStartup,
         Admit, CheckShutdown, Push, PublishRevision, PublishMember, WakeAll, WakeOne, Unwind, Goto, Team,
         IInv, TypeOK, PcOK
    <3>2. ASSUME NEW w \in Workers, WorkerStep(w) PROVE pc'[Owner] = pc[Owner]
      BY <3>2, Kinds DEF WorkerStep, Pin, ThreadInit, LoopTop, RefreshAffinity, PopUrgent, PopRegular, BeforeTask,
         TaskEnds, Listen, RecheckUrgent, RecheckRegular, WakeUp, Pop, LookAgain, Unwind, Goto,
         IInv, TypeOK, PcOK
    <3>3. ASSUME NEW a \in Actors, a # Owner, PoisonStep(a) PROVE pc'[Owner] = pc[Owner]
      BY <3>3, Kinds DEF PoisonStep, StopAdmission, StopShutdown, Discard, AwaitRegistration, Goto,
         IInv, TypeOK, PcOK
    <3>4. JoinAllWorkers \/ Join => (pc'[Owner] \in {"join", "joined"} => pc[Owner] \in {"join", "joined"})
      BY Kinds DEF JoinAllWorkers, CloseAdmission, Join, Goto, IInv, TypeOK, PcOK
    <3>5. CASE Finished
      BY <3>5 DEF Finished, vars
    <3> QED
      BY <1>2, <3>1, <3>2, <3>3, <3>4, <3>5, Kinds DEF Next
  <2>3. \A b \in Actors : pc'[b] = "drain" => todo'[b] \subseteq Queues
    BY <2>1 DEF IInv, DrainInv
  <2>4. pc'[Owner] = "drain" => \A q \in Queues \ todo'[Owner] : Sealed(q)'
    BY <2>1, SealedStays, Kinds DEF IInv, DrainInv, FlagsInv
  <2>5. pc'[Owner] \in {"join", "joined"} => \A q \in Queues : Sealed(q)'
    BY <2>2, SealedStays, Kinds DEF IInv, DrainInv, FlagsInv
  <2> QED
    BY <2>3, <2>4, <2>5 DEF DrainInv
<1> QED
  BY <1>1, <1>2

----------------------------------------------------------------------------
(* Processors. *)

\* How tasks move: into a queue by their submitter, from a queue into the hands
\* of a worker once their admission is complete; their processor is settled.
LEMMA Moves ==
    ASSUME IInv, Next, NEW u \in Tasks
    PROVE  /\ InQueue(u)' => InQueue(u) \/ Push(u)
           /\ InHands(u)' => InHands(u) \/ (InQueue(u) /\ pc[u] \notin {"publish", "member"})
           /\ pc[u] \in Routed \/ InQueue(u) \/ InHands(u) => Target(u)' = Target(u) /\ cpu'[u] = cpu[u]
<1>1. pc[u] \in Routed \/ InQueue(u) \/ InHands(u) => Target(u)' = Target(u) /\ cpu'[u] = cpu[u]
  <2>1. pc[u] \in Routed \/ InQueue(u) \/ InHands(u) => pc[u] # "prepare"
    BY DEF Routed, Admitting, IInv, PlaceInv, WithSubmitter
  <2>2. cpu'[u] = cpu[u] \/ pc[u] = "prepare"
    <3>1. ASSUME NEW t \in Tasks, Submit(t) \/ SubmitStep(t) PROVE cpu'[u] = cpu[u] \/ pc[u] = "prepare"
      BY <3>1 DEF Submit, SubmitStep, Prepare, Reject, Route, AdmitCold, SpawnWorker, PublishStartup,
         Admit, CheckShutdown, Push, PublishRevision, PublishMember, WakeAll, WakeOne, IInv, TypeOK
    <3>2. ASSUME NEW w \in Workers, WorkerStep(w) PROVE UNCHANGED cpu
      BY <3>2 DEF WorkerStep, Pin, ThreadInit, LoopTop, RefreshAffinity, PopUrgent, PopRegular, BeforeTask,
         TaskEnds, Listen, RecheckUrgent, RecheckRegular, WakeUp
    <3>3. ASSUME NEW a \in Actors, PoisonStep(a) \/ CloseStep(a) \/ JoinAllWorkers \/ Join PROVE UNCHANGED cpu
      BY <3>3 DEF PoisonStep, StopAdmission, StopShutdown, Discard, AwaitRegistration, CloseStep, SignalFlag,
         SignalAll, BeginDrain, DiscardQueue, EndDrain, JoinAllWorkers, CloseAdmission, Join
    <3>4. CASE Finished
      BY <3>4 DEF Finished, vars
    <3> QED
      BY <3>1, <3>2, <3>3, <3>4, Kinds DEF Next
  <2> QED
    BY <2>1, <2>2 DEF Target
<1>2. CASE \E t \in Tasks : Push(t)
  <2>1. PICK t \in Tasks : Push(t)
    BY <1>2
  <2>2. UNCHANGED hold
    BY <2>1 DEF Push, workerVars
  <2>3. ASSUME u # t, InQueue(u)' PROVE InQueue(u)
    <3>1. QueueOf(t) \in Queues /\ queue[QueueOf(t)] \in Seq(Tasks)
      BY <2>1, RoutedTarget DEF Push, Routed, Admitting, IInv, TypeOK
    <3>2. PICK q \in Queues : \E i \in DOMAIN queue'[q] : queue'[q][i] = u
      BY <2>3 DEF InQueue
    <3>3. CASE q # QueueOf(t)
      <4>1. queue'[q] = queue[q]
        BY <2>1, <3>3 DEF Push, IInv, TypeOK
      <4> QED
        BY <3>2, <4>1 DEF InQueue
    <3>4. CASE q = QueueOf(t)
      <4>1. queue'[q] = Append(queue[q], t)
        BY <2>1, <3>4 DEF Push, IInv, TypeOK
      <4>2. PICK i \in DOMAIN Append(queue[q], t) : Append(queue[q], t)[i] = u
        BY <3>2, <4>1
      <4>3. i \in DOMAIN queue[q] /\ queue[q][i] = u
        BY <2>3, <3>1, <3>4, <4>2, Appended
      <4> QED
        BY <4>3 DEF InQueue
    <3> QED
      BY <3>3, <3>4
  <2>4. InHands(u)' = InHands(u)
    BY <2>2 DEF InHands
  <2> QED
    BY <1>1, <2>1, <2>3, <2>4
<1>3. CASE \E q \in Queues : /\ queue[q] # <<>> /\ queue' = [queue EXCEPT ![q] = Tail(@)]
                             /\ \/ UNCHANGED hold
                                \/ /\ ~QueueLocked(q)
                                   /\ \E w \in Workers : hold' = [hold EXCEPT ![w] = Head(queue[q])]
  <2>1. PICK q \in Queues : /\ queue[q] # <<>> /\ queue' = [queue EXCEPT ![q] = Tail(@)]
                            /\ \/ UNCHANGED hold
                               \/ /\ ~QueueLocked(q)
                                  /\ \E w \in Workers : hold' = [hold EXCEPT ![w] = Head(queue[q])]
    BY <1>3
  <2>2. queue'[q] = Tail(queue[q]) /\ \A p \in Queues : p # q => queue'[p] = queue[p]
    BY <2>1 DEF IInv, TypeOK
  <2>3. PICK t : t = Head(queue[q])
    OBVIOUS
  <2>4. /\ t \in Tasks /\ InQueue(t) /\ ~InQueue(t)' /\ QueueOf(t) = q
        /\ u # t => InQueue(u)' = InQueue(u)
    BY <2>1, <2>2, <2>3, HeadLeaves
  <2>5. InHands(u)' => InHands(u) \/ (u = t /\ ~QueueLocked(q))
    BY <2>1, <2>3 DEF InHands, IInv, TypeOK
  <2> QED
    BY <1>1, <2>4, <2>5 DEF QueueLocked
<1>4. CASE UNCHANGED queue /\ \A w \in Workers : hold'[w] \in {hold[w], Nobody}
  <2>1. InQueue(u)' = InQueue(u) /\ (InHands(u)' => InHands(u))
    BY <1>4, Kinds DEF InQueue, InHands
  <2> QED
    BY <1>1, <2>1
<1>5. CASE \E t \in Tasks : Submit(t) \/ SubmitStep(t)
  <2>1. (\E t \in Tasks : Push(t)) \/ UNCHANGED <<queue, hold>>
    BY <1>5 DEF Submit, SubmitStep, Prepare, Reject, Route, AdmitCold, SpawnWorker, PublishStartup,
       Admit, CheckShutdown, PublishRevision, PublishMember, WakeAll, WakeOne, workerVars
  <2> QED
    BY <1>2, <1>4, <2>1
<1>6. CASE \E w \in Workers : WorkerStep(w)
  <2>1. PICK w \in Workers : WorkerStep(w)
    BY <1>6
  <2>2. <<HomeOf[w], "urgent">> \in Queues /\ <<HomeOf[w], "regular">> \in Queues
    BY PoolAssumption DEF Queues
  <2>3. CASE PopUrgent(w) \/ PopRegular(w)
    BY <1>3, <1>4, <2>2, <2>3 DEF PopUrgent, PopRegular, Pop
  <2>4. CASE ~(PopUrgent(w) \/ PopRegular(w))
    <3>1. UNCHANGED queue /\ (UNCHANGED hold \/ hold' = [hold EXCEPT ![w] = Nobody])
      BY <2>1, <2>4 DEF WorkerStep, Pin, ThreadInit, LoopTop, RefreshAffinity, BeforeTask,
         TaskEnds, Listen, RecheckUrgent, RecheckRegular, WakeUp, workerVars
    <3>2. \A v \in Workers : hold'[v] \in {hold[v], Nobody}
      BY <3>1 DEF IInv, TypeOK
    <3> QED
      BY <1>4, <3>1, <3>2
  <2> QED
    BY <2>3, <2>4
<1>7. CASE \E a \in Actors : DiscardQueue(a)
  <2>1. PICK a \in Actors : DiscardQueue(a)
    BY <1>7
  <2>2. Visited(a) \in Queues /\ UNCHANGED hold
    BY <2>1, VisitedLeft DEF DiscardQueue, IInv, DrainInv, workerVars
  <2> QED
    BY <1>3, <1>4, <2>1, <2>2 DEF DiscardQueue
<1>8. CASE \/ \E a \in Actors : \/ PoisonStep(a)
                                \/ SignalFlag(a) \/ SignalAll(a) \/ BeginDrain(a) \/ EndDrain(a)
           \/ JoinAllWorkers \/ Join \/ Finished
  <2>1. UNCHANGED queue /\ \A w \in Workers : hold'[w] \in {hold[w], Nobody}
    BY <1>8 DEF PoisonStep, StopAdmission, StopShutdown, Discard, AwaitRegistration, SignalFlag,
       SignalAll, BeginDrain, EndDrain, JoinAllWorkers, CloseAdmission, Join, Finished, vars, workerVars,
       IInv, TypeOK
  <2> QED
    BY <1>4, <2>1
<1> QED
  BY <1>5, <1>6, <1>7, <1>8, Kinds DEF Next, CloseStep

\* A step that publishes nothing and moves no worker to other processors: what
\* enters admission is known or holds the lock, and a task about to run is covered.
LEMMA QuietAffinity ==
    ASSUME IInv, Next, UNCHANGED <<memberVars, applied, pinned>>,
           \A t \in Tasks :
              /\ pc'[t] \in {"publish", "member"} => pc[t] = pc'[t]
              /\ pc[t] \in {"publish", "member"} => pc[t] = pc'[t]
              /\ pc'[t] \in {"admit", "check", "push"} => (Shares => lock' = t \/ cpu'[t] \in member)
              /\ pc[t] = "push" => pc'[t] \notin {"publish", "wake"},
           \A w \in Workers :
              /\ pc[w] = "unborn" => pc'[w] = "unborn"
              /\ pc'[w] \in {"refresh", "refresh_task"} => Shares
              /\ pc'[w] \in {"confirm", "running"} => cpu'[hold'[w]] \in pinned[w]
    PROVE  AffinityInv'
<1>1. UNCHANGED <<member, affinity, revision, applied, pinned>>
  BY DEF memberVars
<1>2. \A t \in Tasks : pc[t] \in {"publish", "member"} => Target(t)' = Target(t) /\ cpu'[t] = cpu[t]
  BY Moves DEF Routed, Admitting
<1>0. \A t \in Tasks : ~Push(t)
  BY DEF Push, Goto, IInv, TypeOK, PcOK, Actors
<1>3. member' \subseteq Processors /\ \A t \in Tasks : pc'[t] \in {"publish", "member"} => Shares
  BY <1>1 DEF IInv, AffinityInv
<1>4. Shares \/ \A w \in Workers :
          /\ pc'[w] \notin {"refresh", "refresh_task"}
          /\ \A p \in Processors : pc'[w] # "unborn" /\ GroupOf[p] = HomeOf[w] => p \in pinned'[w]
  BY <1>1 DEF IInv, AffinityInv
<1>5. \A w \in Workers : pc'[w] \in {"confirm", "running"} => cpu'[hold'[w]] \in pinned'[w]
  BY <1>1
<1>6. ASSUME Shares
      PROVE  /\ \A t \in Tasks :
                /\ pc'[t] \in {"admit", "check", "push"} => lock' = t \/ cpu'[t] \in member'
                /\ pc'[t] \in {"publish", "member"} => cpu'[t] \in affinity'[Target(t)']
                /\ InQueue(t)' => cpu'[t] \in member' \/ pc'[t] \in {"publish", "member"}
                /\ InHands(t)' => cpu'[t] \in member'
                /\ \A w \in Workers :
                      pc'[t] = "member" /\ Target(t)' = HomeOf[w] /\ pc'[w] # "unborn"
                      => applied'[w] < revision'[HomeOf[w]]
             /\ \A p \in member' : p \in affinity'[GroupOf[p]]
             /\ \A w \in Workers : pc'[w] # "unborn" =>
                   applied'[w] <= revision'[HomeOf[w]]
                   /\ (applied'[w] = revision'[HomeOf[w]] => Covers(w)')
  <2>1. \A t \in Tasks :
          /\ pc[t] \in {"publish", "member"} => cpu[t] \in affinity[Target(t)]
          /\ InQueue(t) => cpu[t] \in member \/ pc[t] \in {"publish", "member"}
          /\ InHands(t) => cpu[t] \in member
          /\ \A w \in Workers :
                pc[t] = "member" /\ Target(t) = HomeOf[w] /\ pc[w] # "unborn"
                => applied[w] < revision[HomeOf[w]]
    BY <1>6 DEF IInv, AffinityInv
  <2>2. \A p \in member : p \in affinity[GroupOf[p]]
    BY <1>6 DEF IInv, AffinityInv
  <2>3. \A w \in Workers : pc[w] # "unborn" =>
            applied[w] <= revision[HomeOf[w]] /\ (applied[w] = revision[HomeOf[w]] => Covers(w))
    BY <1>6 DEF IInv, AffinityInv
  <2>4. \A w \in Workers : Covers(w)' = Covers(w)
    BY <1>1 DEF Covers
  <2>5. ASSUME NEW t \in Tasks
        PROVE  /\ pc'[t] \in {"admit", "check", "push"} => lock' = t \/ cpu'[t] \in member'
               /\ pc'[t] \in {"publish", "member"} => cpu'[t] \in affinity'[Target(t)']
               /\ InQueue(t)' => cpu'[t] \in member' \/ pc'[t] \in {"publish", "member"}
               /\ InHands(t)' => cpu'[t] \in member'
               /\ \A w \in Workers :
                      pc'[t] = "member" /\ Target(t)' = HomeOf[w] /\ pc'[w] # "unborn"
                      => applied'[w] < revision'[HomeOf[w]]
    <3>1. /\ InQueue(t)' => InQueue(t)
          /\ InHands(t)' => InHands(t) \/ (InQueue(t) /\ pc[t] \notin {"publish", "member"})
          /\ InQueue(t) \/ InHands(t) => cpu'[t] = cpu[t]
      BY <1>0, Moves
    <3>2. pc'[t] \in {"admit", "check", "push"} => lock' = t \/ cpu'[t] \in member'
      BY <1>1, <1>6
    <3>3. InQueue(t)' => cpu'[t] \in member' \/ pc'[t] \in {"publish", "member"}
      BY <1>1, <2>1, <3>1
    <3>4. InHands(t)' => cpu'[t] \in member'
      BY <1>1, <2>1, <3>1
    <3>5. /\ pc'[t] \in {"publish", "member"} => cpu'[t] \in affinity'[Target(t)']
          /\ \A w \in Workers :
                pc'[t] = "member" /\ Target(t)' = HomeOf[w] /\ pc'[w] # "unborn"
                => applied'[w] < revision'[HomeOf[w]]
      BY <1>1, <1>2, <2>1
    <3> QED
      BY <3>2, <3>3, <3>4, <3>5
  <2>6. \A w \in Workers : pc'[w] # "unborn" =>
            applied'[w] <= revision'[HomeOf[w]] /\ (applied'[w] = revision'[HomeOf[w]] => Covers(w)')
    BY <1>1, <2>3, <2>4
  <2>7. \A p \in member' : p \in affinity'[GroupOf[p]]
    BY <1>1, <2>2
  <2> QED
    BY <2>5, <2>6, <2>7
<1> QED
  BY <1>3, <1>4, <1>5, <1>6 DEF AffinityInv

\* What a worker holds keeps its processor.
LEMMA HeldSteady ==
    ASSUME IInv, Next, NEW w \in Workers, hold[w] # Nobody
    PROVE  hold[w] \in Tasks /\ InHands(hold[w]) /\ cpu'[hold[w]] = cpu[hold[w]]
<1>1. hold[w] \in Tasks /\ InHands(hold[w])
  BY DEF IInv, TypeOK, InHands
<1> QED
  BY <1>1, Moves

\* Submissions that publish nothing.
LEMMA SubmitQuietAffinity ==
    ASSUME IInv, Next, NEW t \in Tasks,
           \/ Submit(t) \/ Prepare(t) \/ Reject(t) \/ Route(t) \/ AdmitCold(t) \/ PublishStartup(t)
           \/ SpawnWorker(t) /\ Unwind(t) /\ UNCHANGED <<pinned, applied>>
           \/ Admit(t) \/ CheckShutdown(t) \/ WakeAll(t) \/ WakeOne(t)
    PROVE  AffinityInv'
<1>1. UNCHANGED <<memberVars, applied, pinned, hold>>
  BY DEF SpawnWorker, Submit, Prepare, Reject, Route, AdmitCold, PublishStartup, Admit, CheckShutdown,
     WakeAll, WakeOne, workerVars
<1>2. /\ \A a \in Actors : a # t => pc'[a] = pc[a]
      /\ pc[t] \notin {"publish", "member", "push"} /\ pc'[t] \notin {"publish", "member"}
  BY Kinds DEF SpawnWorker, Submit, Prepare, Reject, Route, AdmitCold, PublishStartup, Admit, CheckShutdown,
     WakeAll, WakeOne, Unwind, Goto, IInv, TypeOK, PcOK
<1>3. ASSUME pc'[t] \in {"admit", "check", "push"}, Shares PROVE lock' = t \/ cpu'[t] \in member
  <2>1. Route(t) \/ AdmitCold(t) \/ PublishStartup(t) \/ Admit(t) \/ CheckShutdown(t)
    BY <1>3, Kinds DEF SpawnWorker, Submit, Prepare, Reject, Route, AdmitCold, PublishStartup, Admit,
       CheckShutdown, WakeAll, WakeOne, Unwind, Goto, IInv, TypeOK, PcOK
  <2>2. CASE Route(t) \/ AdmitCold(t)
    BY <1>3, <2>2, Kinds DEF Route, AdmitCold, Goto, IInv, TypeOK, PcOK
  <2>3. CASE PublishStartup(t)
    BY <2>3 DEF PublishStartup, IInv, LockInv
  <2>4. CASE Admit(t) \/ CheckShutdown(t)
    <3>1. UNCHANGED <<lock, cpu>> /\ pc[t] \in {"admit", "check"}
      BY <1>3, <2>4, Kinds DEF Admit, CheckShutdown, Goto, IInv, TypeOK, PcOK
    <3> QED
      BY <1>3, <3>1 DEF IInv, AffinityInv
  <2> QED
    BY <2>1, <2>2, <2>3, <2>4
<1>4. \A u \in Tasks : u # t /\ lock = u => lock' = u
  BY Kinds DEF SpawnWorker, Submit, Prepare, Reject, Route, AdmitCold, PublishStartup, Admit, CheckShutdown,
     WakeAll, WakeOne, Unlock
<1>5. ASSUME NEW u \in Tasks, u # t, pc'[u] \in {"admit", "check", "push"}, Shares
      PROVE  lock' = u \/ cpu'[u] \in member
  <2>1. pc[u] \in {"admit", "check", "push"}
    BY <1>2, <1>5, Kinds
  <2>2. cpu'[u] = cpu[u]
    BY <2>1, Moves DEF Routed, Admitting
  <2> QED
    BY <1>4, <1>5, <2>1, <2>2 DEF IInv, AffinityInv
<1>6. \A w \in Workers : /\ pc'[w] = pc[w]
                         /\ pc'[w] \in {"confirm", "running"} => cpu'[hold'[w]] \in pinned[w]
  <2>1. \A w \in Workers : pc'[w] = pc[w]
    BY <1>2, Kinds
  <2> QED
    BY <1>1, <2>1, HeldSteady DEF IInv, PlaceInv, AffinityInv, InHand
<1>7. \A u \in Tasks :
          /\ pc'[u] \in {"publish", "member"} => pc[u] = pc'[u]
          /\ pc[u] \in {"publish", "member"} => pc[u] = pc'[u]
          /\ pc'[u] \in {"admit", "check", "push"} => (Shares => lock' = u \/ cpu'[u] \in member)
          /\ pc[u] = "push" => pc'[u] \notin {"publish", "wake"}
  BY <1>2, <1>3, <1>5, Kinds
<1>8. \A w \in Workers :
          /\ pc[w] = "unborn" => pc'[w] = "unborn"
          /\ pc'[w] \in {"refresh", "refresh_task"} => Shares
          /\ pc'[w] \in {"confirm", "running"} => cpu'[hold'[w]] \in pinned[w]
  BY <1>6 DEF IInv, AffinityInv
<1> QED
  BY <1>1, <1>7, <1>8, QuietAffinity

\* Steps of workers and of a failing or closing pool that apply no affinity.
LEMMA OtherQuietAffinity ==
    ASSUME IInv, Next, NEW a \in Actors,
           \/ a \in Workers /\ WorkerStep(a) /\ UNCHANGED <<applied, pinned>>
           \/ a # Owner /\ PoisonStep(a)
           \/ CloseStep(a)
           \/ a = Owner /\ (JoinAllWorkers \/ Join),
           a \in Workers /\ pc'[a] \in {"confirm", "running"} => cpu'[hold'[a]] \in pinned[a]
    PROVE  AffinityInv'
<1>1. UNCHANGED <<memberVars, applied, pinned, cpu>>
  BY DEF WorkerStep, Pin, ThreadInit, LoopTop, RefreshAffinity, PopUrgent, PopRegular, BeforeTask, TaskEnds,
     Listen, RecheckUrgent, RecheckRegular, WakeUp, PoisonStep, StopAdmission, StopShutdown, Discard,
     AwaitRegistration, CloseStep, SignalFlag, SignalAll, BeginDrain, DiscardQueue, EndDrain, JoinAllWorkers,
     CloseAdmission, Join, workerVars
<1>2. CASE a \in Workers /\ WorkerStep(a)
  <2>1. /\ \A b \in Actors : b # a => pc'[b] = pc[b] /\ (b \in Workers => hold'[b] = hold[b])
        /\ UNCHANGED lock /\ pc[a] # "unborn"
    BY <1>2, Kinds DEF WorkerStep, Pin, ThreadInit, LoopTop, RefreshAffinity, PopUrgent, PopRegular, BeforeTask,
       TaskEnds, Listen, RecheckUrgent, RecheckRegular, WakeUp, Pop, LookAgain, Unwind, Goto, workerVars,
       IInv, TypeOK, PcOK
  <2>2. pc'[a] \in {"refresh", "refresh_task"} => Shares
    BY <1>2, Kinds DEF WorkerStep, Pin, ThreadInit, LoopTop, RefreshAffinity, PopUrgent, PopRegular, BeforeTask,
       TaskEnds, Listen, RecheckUrgent, RecheckRegular, WakeUp, Pop, LookAgain, Unwind, Goto,
       IInv, TypeOK, PcOK
  <2>3. \A w \in Workers : /\ pc[w] = "unborn" => pc'[w] = "unborn"
                           /\ pc'[w] \in {"refresh", "refresh_task"} => Shares
                           /\ pc'[w] \in {"confirm", "running"} => cpu'[hold'[w]] \in pinned[w]
    BY <1>1, <2>1, <2>2, Kinds DEF IInv, AffinityInv
  <2>4. \A u \in Tasks : pc'[u] = pc[u]
    BY <1>2, <2>1, Kinds
  <2>5. \A u \in Tasks :
            /\ pc'[u] \in {"publish", "member"} => pc[u] = pc'[u]
            /\ pc[u] \in {"publish", "member"} => pc[u] = pc'[u]
            /\ pc'[u] \in {"admit", "check", "push"} => (Shares => lock' = u \/ cpu'[u] \in member)
            /\ pc[u] = "push" => pc'[u] \notin {"publish", "wake"}
    BY <1>1, <2>1, <2>4 DEF IInv, AffinityInv
  <2> QED
    BY <1>1, <2>3, <2>5, QuietAffinity
<1>3. CASE ~(a \in Workers /\ WorkerStep(a))
  <2>1. /\ \A b \in Actors : b # a => pc'[b] = pc[b] /\ (b \in Workers => hold'[b] = hold[b])
        /\ pc[a] \in Closing \cup OwnerPcs /\ pc'[a] \in Closing \cup OwnerPcs \cup {"done", "failed"}
    BY <1>3, Kinds DEF PoisonStep, StopAdmission, StopShutdown, Discard, AwaitRegistration, CloseStep, SignalFlag,
       SignalAll, BeginDrain, DiscardQueue, EndDrain, JoinAllWorkers, CloseAdmission, Join, Goto, workerVars,
       IInv, TypeOK, PcOK, Closing, OwnerPcs
  <2>2. \A u \in Tasks : u # a /\ lock = u => lock' = u
    BY <1>3, Kinds DEF PoisonStep, StopAdmission, StopShutdown, Discard, AwaitRegistration, CloseStep, SignalFlag,
       SignalAll, BeginDrain, DiscardQueue, EndDrain, JoinAllWorkers, CloseAdmission, Join, Unlock
  <2>3. /\ pc[a] \notin {"publish", "member", "admit", "check", "push", "unborn", "refresh", "refresh_task",
                         "confirm", "running"}
        /\ pc'[a] \notin {"publish", "member", "admit", "check", "push", "unborn", "refresh", "refresh_task",
                          "confirm", "running"}
    BY <2>1 DEF Closing, OwnerPcs
  <2>4. \A w \in Workers : /\ pc[w] = "unborn" => pc'[w] = "unborn"
                           /\ pc'[w] \in {"refresh", "refresh_task"} => Shares
                           /\ pc'[w] \in {"confirm", "running"} => cpu'[hold'[w]] \in pinned[w]
    BY <1>1, <2>1, <2>3, Kinds DEF IInv, AffinityInv
  <2>5. \A u \in Tasks :
            /\ pc'[u] \in {"publish", "member"} => pc[u] = pc'[u]
            /\ pc[u] \in {"publish", "member"} => pc[u] = pc'[u]
            /\ pc'[u] \in {"admit", "check", "push"} => (Shares => lock' = u \/ cpu'[u] \in member)
            /\ pc[u] = "push" => pc'[u] \notin {"publish", "wake"}
    BY <1>1, <2>1, <2>2, <2>3, Kinds DEF IInv, AffinityInv
  <2> QED
    BY <1>1, <2>4, <2>5, QuietAffinity
<1> QED
  BY <1>2, <1>3

\* A submission queues its task, and publishes a new affinity when it expands one.
LEMMA PushAffinity ==
    ASSUME IInv, Next, NEW t \in Tasks, Push(t) PROVE AffinityInv'
<1>1. /\ pc[t] = "push" /\ UNCHANGED <<member, revision, applied, pinned, cpu, hold>>
      /\ \A a \in Actors : a # t => pc'[a] = pc[a]
      /\ Expands(t) => pc'[t] = "publish" /\ UNCHANGED lock
      /\ ~Expands(t) => pc'[t] = "wake" /\ UNCHANGED affinity
  BY Kinds DEF Push, Goto, IInv, TypeOK, PcOK, workerVars
<1>2. cpu[t] \in Processors /\ Target(t) \in Groups
  BY <1>1, RoutedTarget DEF IInv, Routed, Admitting
<1>3. \A u \in Tasks : Target(u)' = Target(u) /\ (u # t => pc'[u] = pc[u])
  BY <1>1, Kinds DEF Target
<1>4. \A w \in Workers : pc'[w] = pc[w] /\ Covers(w)' = Covers(w)
  BY <1>1, Kinds DEF Covers
<1>5. \A u \in Tasks : u # t /\ lock = u => lock' = u
  BY <1>1 DEF Push, Unlock
<1>6. Expands(t) => Shares /\ lock = t /\ \A u \in Tasks : pc[u] \notin {"publish", "member"}
  BY <1>1 DEF Expands, IInv, LockInv
<1>7. /\ \A p \in member : p \in Processors
      /\ \A g \in Groups : affinity'[g] # affinity[g] =>
            g = Target(t) /\ Expands(t)
            /\ affinity'[g] = {p \in Processors : GroupOf[p] = Target(t) /\ p \in member \cup {cpu[t]}}
  BY <1>1, <1>2 DEF Push, IInv, TypeOK
<1>8. \A p \in Processors : GroupOf[p] \in Groups
  BY PoolAssumption
<1>9. Expands(t) => affinity'[Target(t)] = {p \in Processors : GroupOf[p] = Target(t) /\ p \in member \cup {cpu[t]}}
  BY <1>2 DEF Push, IInv, TypeOK
<1>10. member' \subseteq Processors /\ \A u \in Tasks : pc'[u] \in {"publish", "member"} => Shares
  BY <1>1, <1>3, <1>6 DEF IInv, AffinityInv
<1>11. Shares \/ \A w \in Workers :
          /\ pc'[w] \notin {"refresh", "refresh_task"}
          /\ \A p \in Processors : pc'[w] # "unborn" /\ GroupOf[p] = HomeOf[w] => p \in pinned'[w]
  BY <1>1, <1>4 DEF IInv, AffinityInv
<1>12. \A w \in Workers : pc'[w] \in {"confirm", "running"} => cpu'[hold'[w]] \in pinned'[w]
  BY <1>1, <1>4 DEF IInv, AffinityInv
<1>13. ASSUME Shares
       PROVE  /\ \A u \in Tasks :
                /\ pc'[u] \in {"admit", "check", "push"} => lock' = u \/ cpu'[u] \in member'
                /\ pc'[u] \in {"publish", "member"} => cpu'[u] \in affinity'[Target(u)']
                /\ InQueue(u)' => cpu'[u] \in member' \/ pc'[u] \in {"publish", "member"}
                /\ InHands(u)' => cpu'[u] \in member'
                /\ \A w \in Workers :
                      pc'[u] = "member" /\ Target(u)' = HomeOf[w] /\ pc'[w] # "unborn"
                      => applied'[w] < revision'[HomeOf[w]]
              /\ \A p \in member' : p \in affinity'[GroupOf[p]]
              /\ \A w \in Workers : pc'[w] # "unborn" =>
                   applied'[w] <= revision'[HomeOf[w]]
                   /\ (applied'[w] = revision'[HomeOf[w]] => Covers(w)')
  <2>1. \A p \in member' : p \in affinity'[GroupOf[p]]
    <3>1. \A p \in member : p \in affinity[GroupOf[p]]
      BY <1>13 DEF IInv, AffinityInv
    <3> QED
      BY <1>1, <1>7, <1>8, <3>1
  <2>2. \A w \in Workers : pc'[w] # "unborn" =>
            applied'[w] <= revision'[HomeOf[w]] /\ (applied'[w] = revision'[HomeOf[w]] => Covers(w)')
    BY <1>1, <1>4, <1>13 DEF IInv, AffinityInv
  <2>3. ASSUME NEW u \in Tasks, u # t
        PROVE  /\ pc'[u] \in {"admit", "check", "push"} => lock' = u \/ cpu'[u] \in member'
               /\ pc'[u] \in {"publish", "member"} => cpu'[u] \in affinity'[Target(u)']
               /\ InQueue(u)' => cpu'[u] \in member' \/ pc'[u] \in {"publish", "member"}
               /\ InHands(u)' => cpu'[u] \in member'
               /\ \A w \in Workers :
                      pc'[u] = "member" /\ Target(u)' = HomeOf[w] /\ pc'[w] # "unborn"
                      => applied'[w] < revision'[HomeOf[w]]
    <3>1. /\ InQueue(u)' => InQueue(u)
          /\ InHands(u)' => InHands(u) \/ (InQueue(u) /\ pc[u] \notin {"publish", "member"})
      <4>1. ~Push(u)
        BY <1>1, <1>3, <2>3, Kinds DEF Push, Goto, IInv, TypeOK, PcOK
      <4> QED
        BY <4>1, Moves
    <3>2. pc'[u] = pc[u] /\ Target(u)' = Target(u)
      BY <1>3, <2>3
    <3>3. pc[u] \in {"publish", "member"} => Target(u) \in Groups /\ cpu[u] \in affinity[Target(u)] /\ ~Expands(t)
      BY <1>6, <1>13, RoutedTarget DEF Routed, Admitting, IInv, AffinityInv
    <3>4. pc'[u] \in {"publish", "member"} => cpu'[u] \in affinity'[Target(u)']
      BY <1>1, <3>2, <3>3
    <3>5. pc'[u] \in {"admit", "check", "push"} => lock' = u \/ cpu'[u] \in member'
      BY <1>1, <1>5, <1>13, <2>3, <3>2 DEF IInv, AffinityInv
    <3>6. InQueue(u)' => cpu'[u] \in member' \/ pc'[u] \in {"publish", "member"}
      BY <1>1, <1>13, <3>1, <3>2 DEF IInv, AffinityInv
    <3>7. InHands(u)' => cpu'[u] \in member'
      BY <1>1, <1>13, <3>1 DEF IInv, AffinityInv
    <3>8. \A w \in Workers :
              pc'[u] = "member" /\ Target(u)' = HomeOf[w] /\ pc'[w] # "unborn"
              => applied'[w] < revision'[HomeOf[w]]
      BY <1>1, <1>4, <1>13, <3>2 DEF IInv, AffinityInv
    <3> QED
      BY <3>4, <3>5, <3>6, <3>7, <3>8
  <2>4. /\ pc'[t] \notin {"admit", "check", "push", "member"} /\ ~InHands(t)'
        /\ pc'[t] = "publish" => cpu'[t] \in affinity'[Target(t)']
        /\ cpu'[t] \in member' \/ pc'[t] \in {"publish", "member"}
    <3>1. ~InHands(t)'
      <4>1. ~InHands(t)
        BY <1>1 DEF IInv, PlaceInv, WithSubmitter
      <4> QED
        BY <1>1, <4>1 DEF InHands
    <3>2. pc'[t] = "publish" => cpu'[t] \in affinity'[Target(t)']
      BY <1>1, <1>2, <1>3, <1>9 DEF Target
    <3>3. cpu'[t] \in member' \/ pc'[t] \in {"publish", "member"}
      BY <1>1, <1>13 DEF Expands, IInv, AffinityInv
    <3> QED
      BY <1>1, <3>1, <3>2, <3>3
  <2> QED
    BY <2>1, <2>2, <2>3, <2>4
<1> QED
  BY <1>10, <1>11, <1>12, <1>13 DEF AffinityInv

\* A new affinity is published by its revision, then by the membership.
LEMMA PublishAffinity ==
    ASSUME IInv, Next, NEW t \in Tasks, PublishRevision(t) \/ PublishMember(t) PROVE AffinityInv'
<1>1. /\ pc[t] \in {"publish", "member"} /\ UNCHANGED <<affinity, applied, pinned, cpu, hold, queue>>
      /\ \A a \in Actors : a # t => pc'[a] = pc[a]
      /\ Shares /\ lock = t
  BY DEF PublishRevision, PublishMember, Goto, IInv, TypeOK, PcOK, AffinityInv, LockInv, workerVars
<1>2. cpu[t] \in Processors /\ Target(t) \in Groups /\ cpu[t] \in affinity[Target(t)]
  BY <1>1, RoutedTarget DEF IInv, Routed, Admitting, AffinityInv
<1>3. \A u \in Tasks : /\ Target(u)' = Target(u) /\ InQueue(u)' = InQueue(u) /\ InHands(u)' = InHands(u)
                       /\ u # t => pc'[u] = pc[u] /\ pc[u] \notin {"publish", "member"}
  BY <1>1, Kinds DEF Target, InQueue, InHands, IInv, LockInv
<1>4. \A w \in Workers : pc'[w] = pc[w]
  BY <1>1, Kinds
<1>5. \A u \in Tasks : u # t /\ pc[u] \in {"admit", "check", "push"} => cpu[u] \in member
  BY <1>1 DEF IInv, AffinityInv
<1>6. /\ \A u \in Tasks : (InQueue(u) => cpu[u] \in member \/ pc[u] \in {"publish", "member"})
                          /\ (InHands(u) => cpu[u] \in member)
      /\ \A p \in member : p \in affinity[GroupOf[p]]
      /\ \A w \in Workers : pc[w] # "unborn" =>
            applied[w] <= revision[HomeOf[w]] /\ (applied[w] = revision[HomeOf[w]] => Covers(w))
  BY <1>1 DEF IInv, AffinityInv
<1>7. \A w \in Workers : pc'[w] \in {"confirm", "running"} => cpu'[hold'[w]] \in pinned'[w]
  BY <1>1, <1>4 DEF IInv, AffinityInv
<1>8. CASE PublishRevision(t)
  <2>1. pc[t] = "publish" /\ pc'[t] = "member" /\ UNCHANGED <<member, lock>>
    BY <1>8 DEF PublishRevision, Goto, IInv, TypeOK, PcOK, Actors
  <2>2. /\ revision'[Target(t)] = revision[Target(t)] + 1
        /\ \A g \in Groups : g # Target(t) => revision'[g] = revision[g]
        /\ \A g \in Groups : revision[g] \in Nat
    BY <1>2, <1>8 DEF PublishRevision, IInv, TypeOK
  <2>3. \A w \in Workers : HomeOf[w] \in Groups /\ applied[w] \in Nat /\ Covers(w)' = Covers(w)
    BY <1>1, <2>1, PoolAssumption DEF IInv, TypeOK, Covers
  <2>4. \A w \in Workers : pc'[w] # "unborn" =>
            /\ applied'[w] <= revision'[HomeOf[w]]
            /\ applied'[w] = revision'[HomeOf[w]] => Covers(w)'
            /\ Target(t) = HomeOf[w] => applied'[w] < revision'[HomeOf[w]]
    <3>1. ASSUME NEW w \in Workers, pc[w] # "unborn", Target(t) = HomeOf[w]
          PROVE  applied[w] < revision'[HomeOf[w]]
      BY <1>6, <2>2, <2>3, <3>1
    <3>2. ASSUME NEW w \in Workers, pc[w] # "unborn", Target(t) # HomeOf[w]
          PROVE  revision'[HomeOf[w]] = revision[HomeOf[w]]
      BY <2>2, <2>3, <3>2
    <3>3. \A w \in Workers : pc[w] # "unborn" /\ Target(t) = HomeOf[w] =>
              applied[w] # revision'[HomeOf[w]] /\ applied[w] <= revision'[HomeOf[w]]
      BY <3>1, <2>2, <2>3
    <3> QED
      BY <1>1, <1>4, <1>6, <2>3, <3>1, <3>2, <3>3
  <2>5. \A u \in Tasks : \A w \in Workers :
            pc'[u] = "member" /\ Target(u)' = HomeOf[w] /\ pc'[w] # "unborn"
            => applied'[w] < revision'[HomeOf[w]]
    BY <1>3, <2>4
  <2>6. \A u \in Tasks :
          /\ pc'[u] \in {"admit", "check", "push"} => lock' = u \/ cpu'[u] \in member'
          /\ pc'[u] \in {"publish", "member"} => cpu'[u] \in affinity'[Target(u)']
          /\ InQueue(u)' => cpu'[u] \in member' \/ pc'[u] \in {"publish", "member"}
          /\ InHands(u)' => cpu'[u] \in member'
    BY <1>1, <1>2, <1>3, <1>5, <1>6, <2>1
  <2>7. \A p \in member' : p \in affinity'[GroupOf[p]]
    BY <1>1, <1>6, <2>1
  <2>8. member' \subseteq Processors
    BY <2>1 DEF IInv, AffinityInv
  <2> QED
    BY <1>1, <1>7, <2>4, <2>5, <2>6, <2>7, <2>8 DEF AffinityInv
<1>9. CASE PublishMember(t)
  <2>1. pc[t] = "member" /\ pc'[t] = "wake_all" /\ member' = member \cup {cpu[t]} /\ UNCHANGED revision
    BY <1>9 DEF PublishMember, Goto, IInv, TypeOK, PcOK, Actors
  <2>2. \A w \in Workers : pc[w] # "unborn" /\ Target(t) = HomeOf[w] => applied[w] < revision[HomeOf[w]]
    BY <1>1, <2>1 DEF IInv, AffinityInv
  <2>3. \A w \in Workers : applied[w] \in Nat /\ revision[HomeOf[w]] \in Nat
    BY PoolAssumption DEF IInv, TypeOK
  <2>4. \A w \in Workers : pc'[w] # "unborn" =>
            applied'[w] <= revision'[HomeOf[w]] /\ (applied'[w] = revision'[HomeOf[w]] => Covers(w)')
    <3>1. ASSUME NEW w \in Workers, pc[w] # "unborn", Target(t) # HomeOf[w], Covers(w) PROVE Covers(w)'
      BY <1>1, <2>1, <3>1 DEF Covers, Target
    <3>2. ASSUME NEW w \in Workers, pc[w] # "unborn", Target(t) = HomeOf[w]
          PROVE  applied[w] # revision[HomeOf[w]]
      BY <2>2, <2>3, <3>2
    <3> QED
      BY <1>1, <1>4, <1>6, <2>1, <3>1, <3>2
  <2>5. \A u \in Tasks :
          /\ pc'[u] \in {"admit", "check", "push"} => lock' = u \/ cpu'[u] \in member'
          /\ pc'[u] \in {"publish", "member"} => cpu'[u] \in affinity'[Target(u)']
          /\ InQueue(u)' => cpu'[u] \in member' \/ pc'[u] \in {"publish", "member"}
          /\ InHands(u)' => cpu'[u] \in member'
          /\ pc'[u] # "member"
    BY <1>1, <1>2, <1>3, <1>5, <1>6, <2>1
  <2>6. \A p \in member' : p \in affinity'[GroupOf[p]]
    BY <1>1, <1>2, <1>6, <2>1 DEF Target
  <2>7. member' \subseteq Processors
    BY <1>2, <2>1 DEF IInv, AffinityInv
  <2> QED
    BY <1>1, <1>7, <2>4, <2>5, <2>6, <2>7 DEF AffinityInv
<1> QED
  BY <1>8, <1>9

\* A new worker is pinned to the processor it is started for: nothing else is
\* known of its group, and nothing is being published in it.
LEMMA SpawnAffinity ==
    ASSUME IInv, Next, NEW t \in Tasks, SpawnWorker(t), ~Unwind(t) PROVE AffinityInv'
<1>1. PICK w \in Workers : /\ HomeOf[w] = Target(t) /\ pc[w] = "unborn" /\ Goto(w, "born")
                           /\ pinned' = [pinned EXCEPT ![w] = {cpu[t]}]
                           /\ applied' = [applied EXCEPT ![w] = revision[Target(t)]]
  BY DEF SpawnWorker, Team
<1>2. /\ pc[t] = "start" /\ lock = t /\ started[Target(t)] = "no"
      /\ UNCHANGED <<lock, memberVars, cpu, hold, queue>>
  BY DEF SpawnWorker, IInv, LockInv, StartInv
<1>3. cpu[t] \in Processors /\ Target(t) \in Groups
  BY <1>2, RoutedTarget DEF IInv, Routed
<1>4. /\ pc'[w] = "born" /\ pinned'[w] = {cpu[t]} /\ applied'[w] = revision[HomeOf[w]]
      /\ revision[HomeOf[w]] \in Nat
      /\ \A v \in Workers : v # w => pc'[v] = pc[v] /\ pinned'[v] = pinned[v] /\ applied'[v] = applied[v]
      /\ \A u \in Tasks : pc'[u] = pc[u]
  BY <1>1, <1>3, Kinds DEF Goto, IInv, TypeOK, PcOK
<1>5. \A u \in Tasks : Target(u)' = Target(u) /\ InQueue(u)' = InQueue(u) /\ InHands(u)' = InHands(u)
  BY <1>2 DEF Target, InQueue, InHands
<1>6. \A u \in Tasks : pc[u] \notin {"publish", "member"}
  BY <1>2 DEF IInv, LockInv
<1>7. UNCHANGED <<member, affinity, revision>>
  BY <1>2 DEF memberVars
<1>8. Covers(w)' /\ \A v \in Workers : v # w => Covers(v)' = Covers(v)
  <2>1. Covers(w)'
    BY <1>1, <1>2, <1>3, <1>7 DEF Covers, IInv, StartInv
  <2> QED
    BY <1>4, <1>7, <2>1 DEF Covers
<1>9. member' \subseteq Processors /\ \A u \in Tasks : pc'[u] \in {"publish", "member"} => Shares
  BY <1>4, <1>6, <1>7 DEF IInv, AffinityInv
<1>10. Shares \/ \A v \in Workers :
          /\ pc'[v] \notin {"refresh", "refresh_task"}
          /\ \A p \in Processors : pc'[v] # "unborn" /\ GroupOf[p] = HomeOf[v] => p \in pinned'[v]
  <2>1. ASSUME ~Shares, NEW p \in Processors, GroupOf[p] = HomeOf[w] PROVE p = cpu[t]
    BY <1>1, <1>3, <2>1, PoolAssumption DEF Target
  <2> QED
    BY <1>4, <2>1 DEF IInv, AffinityInv
<1>11. \A v \in Workers : pc'[v] \in {"confirm", "running"} => cpu'[hold'[v]] \in pinned'[v]
  BY <1>2, <1>4 DEF IInv, AffinityInv
<1>12. ASSUME Shares
       PROVE  /\ \A u \in Tasks :
                /\ pc'[u] \in {"admit", "check", "push"} => lock' = u \/ cpu'[u] \in member'
                /\ pc'[u] \in {"publish", "member"} => cpu'[u] \in affinity'[Target(u)']
                /\ InQueue(u)' => cpu'[u] \in member' \/ pc'[u] \in {"publish", "member"}
                /\ InHands(u)' => cpu'[u] \in member'
                /\ pc'[u] # "member"
              /\ \A p \in member' : p \in affinity'[GroupOf[p]]
              /\ \A v \in Workers : pc'[v] # "unborn" =>
                   applied'[v] <= revision'[HomeOf[v]]
                   /\ (applied'[v] = revision'[HomeOf[v]] => Covers(v)')
  <2>1. \A u \in Tasks :
                /\ pc'[u] \in {"admit", "check", "push"} => lock' = u \/ cpu'[u] \in member'
                /\ pc'[u] \in {"publish", "member"} => cpu'[u] \in affinity'[Target(u)']
                /\ InQueue(u)' => cpu'[u] \in member' \/ pc'[u] \in {"publish", "member"}
                /\ InHands(u)' => cpu'[u] \in member'
                /\ pc'[u] # "member"
    BY <1>2, <1>4, <1>5, <1>6, <1>7, <1>12 DEF IInv, AffinityInv
  <2>2. \A p \in member' : p \in affinity'[GroupOf[p]]
    BY <1>7, <1>12 DEF IInv, AffinityInv
  <2>3. \A v \in Workers : pc'[v] # "unborn" =>
                   applied'[v] <= revision'[HomeOf[v]]
                   /\ (applied'[v] = revision'[HomeOf[v]] => Covers(v)')
    BY <1>4, <1>7, <1>8, <1>12 DEF IInv, AffinityInv
  <2> QED
    BY <2>1, <2>2, <2>3
<1> QED
  BY <1>9, <1>10, <1>11, <1>12 DEF AffinityInv

\* A worker applies the affinity of its group while nobody is publishing one: it
\* then covers every member.
LEMMA ApplyAffinity ==
    ASSUME IInv, Next, NEW w \in Workers, RefreshAffinity(w), ~AffinityLocked(HomeOf[w]),
           applied' = [applied EXCEPT ![w] = revision[HomeOf[w]]],
           pinned' = [pinned EXCEPT ![w] = affinity[HomeOf[w]]]
    PROVE  AffinityInv'
<1>1. /\ pc[w] \in {"refresh", "refresh_task"} /\ UNCHANGED <<lock, member, affinity, revision, cpu, hold, queue>>
      /\ \A a \in Actors : a # w => pc'[a] = pc[a]
  BY DEF RefreshAffinity, Unwind, Goto, memberVars, IInv, TypeOK, PcOK
<1>2. /\ applied'[w] = revision[HomeOf[w]] /\ pinned'[w] = affinity[HomeOf[w]] /\ revision[HomeOf[w]] \in Nat
      /\ \A v \in Workers : v # w => pinned'[v] = pinned[v] /\ applied'[v] = applied[v] /\ pc'[v] = pc[v]
      /\ \A u \in Tasks : pc'[u] = pc[u]
  BY <1>1, PoolAssumption, Kinds, ZenonT(60) DEF IInv, TypeOK
<1>3. \A u \in Tasks : Target(u)' = Target(u) /\ InQueue(u)' = InQueue(u) /\ InHands(u)' = InHands(u)
  BY <1>1 DEF Target, InQueue, InHands
<1>4. Shares
  BY <1>1 DEF IInv, AffinityInv
<1>5. \A p \in member : p \in affinity[GroupOf[p]]
  BY <1>4 DEF IInv, AffinityInv
<1>6. Covers(w)' /\ \A v \in Workers : v # w => Covers(v)' = Covers(v)
  BY <1>1, <1>2, <1>5 DEF Covers
<1>7. /\ member' \subseteq Processors /\ \A p \in member' : p \in affinity'[GroupOf[p]]
      /\ \A u \in Tasks : pc'[u] \in {"publish", "member"} => Shares
  BY <1>1, <1>4, <1>5 DEF IInv, AffinityInv
<1>8. \A v \in Workers : pc'[v] # "unborn" =>
          applied'[v] <= revision'[HomeOf[v]] /\ (applied'[v] = revision'[HomeOf[v]] => Covers(v)')
  <2>1. \A v \in Workers : pc[v] # "unborn" =>
            applied[v] <= revision[HomeOf[v]] /\ (applied[v] = revision[HomeOf[v]] => Covers(v))
    BY <1>4 DEF IInv, AffinityInv
  <2> QED
    BY <1>1, <1>2, <1>6, <2>1
<1>9. ASSUME NEW u \in Tasks, NEW v \in Workers, pc'[u] = "member", Target(u)' = HomeOf[v], pc'[v] # "unborn"
      PROVE  applied'[v] < revision'[HomeOf[v]]
  <2>1. v # w
    BY <1>2, <1>3, <1>9 DEF AffinityLocked
  <2> QED
    BY <1>1, <1>2, <1>3, <1>4, <1>9, <2>1 DEF IInv, AffinityInv
<1>10. \A u \in Tasks :
          /\ pc'[u] \in {"admit", "check", "push"} => lock' = u \/ cpu'[u] \in member'
          /\ pc'[u] \in {"publish", "member"} => cpu'[u] \in affinity'[Target(u)']
          /\ InQueue(u)' => cpu'[u] \in member' \/ pc'[u] \in {"publish", "member"}
          /\ InHands(u)' => cpu'[u] \in member'
  BY <1>1, <1>2, <1>3, <1>4 DEF IInv, AffinityInv
<1>11. \A v \in Workers : pc'[v] \in {"confirm", "running"} => cpu'[hold'[v]] \in pinned'[v]
  <2>1. ASSUME pc'[w] \in {"confirm", "running"} PROVE cpu[hold[w]] \in affinity[HomeOf[w]]
    <3>1. pc[w] = "refresh_task"
      BY <2>1, Kinds DEF RefreshAffinity, Unwind, Goto, IInv, TypeOK, PcOK
    <3>2. hold[w] # Nobody /\ Target(hold[w]) = HomeOf[w]
      BY <3>1 DEF IInv, PlaceInv, InHand
    <3>3. hold[w] \in Tasks /\ cpu[hold[w]] \in member
      BY <1>4, <3>2 DEF IInv, TypeOK, InHands, AffinityInv
    <3> QED
      BY <1>5, <3>2, <3>3 DEF Target
  <2> QED
    BY <1>1, <1>2, <2>1 DEF IInv, AffinityInv
<1> QED
  BY <1>4, <1>7, <1>8, <1>9, <1>10, <1>11 DEF AffinityInv

\* Workers run a task only when they cover its processor, and so it stays.
LEMMA WorkerAffinity ==
    ASSUME IInv, Next, NEW w \in Workers, WorkerStep(w), UNCHANGED <<applied, pinned>>
    PROVE  AffinityInv'
<1>1. pc'[w] \in {"confirm", "running"} =>
          /\ hold'[w] = hold[w] /\ UNCHANGED cpu
          /\ \/ pc[w] \in {"confirm", "running"}
             \/ pc[w] = "before" /\ ~Shares
             \/ pc[w] = "refresh_task" /\ (revision[HomeOf[w]] = applied[w])
             \/ /\ pc[w] = "refresh_task" /\ ~AffinityLocked(HomeOf[w])
                /\ applied' = [applied EXCEPT ![w] = revision[HomeOf[w]]]
  BY Kinds DEF WorkerStep, Pin, ThreadInit, LoopTop, RefreshAffinity, PopUrgent, PopRegular, BeforeTask, TaskEnds,
     Listen, RecheckUrgent, RecheckRegular, WakeUp, Pop, LookAgain, Unwind, Goto, IInv, TypeOK, PcOK
<1>2. ASSUME pc'[w] \in {"confirm", "running"} PROVE cpu'[hold'[w]] \in pinned[w]
  <2>1. CASE pc[w] \in {"confirm", "running"}
    BY <1>1, <1>2, <2>1 DEF IInv, AffinityInv
  <2>2. CASE pc[w] \in {"before", "refresh_task"}
    <3>1. hold[w] # Nobody /\ Target(hold[w]) = HomeOf[w]
      BY <2>2 DEF IInv, PlaceInv, InHand
    <3>2. hold[w] \in Tasks /\ InHands(hold[w])
      BY <3>1 DEF IInv, TypeOK, InHands
    <3>3. cpu[hold[w]] \in Processors /\ GroupOf[cpu[hold[w]]] = HomeOf[w]
      BY <3>1, <3>2, QueuedTask DEF Target
    <3>4. CASE pc[w] = "before" /\ ~Shares
      BY <1>1, <1>2, <3>3, <3>4 DEF IInv, AffinityInv
    <3>5. CASE pc[w] = "refresh_task" /\ revision[HomeOf[w]] = applied[w]
      <4>1. Shares /\ cpu[hold[w]] \in member /\ Covers(w)
        BY <3>2, <3>5 DEF IInv, AffinityInv
      <4> QED
        BY <1>1, <1>2, <3>3, <4>1 DEF Covers
    <3>6. CASE applied' = [applied EXCEPT ![w] = revision[HomeOf[w]]]
      <4>1. revision[HomeOf[w]] = applied[w]
        BY <3>6 DEF IInv, TypeOK
      <4> QED
        BY <1>1, <1>2, <2>2, <3>4, <3>5, <4>1
    <3> QED
      BY <1>1, <1>2, <2>2, <3>4, <3>5, <3>6
  <2> QED
    BY <1>1, <1>2, <2>1, <2>2
<1> QED
  BY <1>2, Kinds, OtherQuietAffinity

\* Every step.
LEMMA AffinityStep ==
    ASSUME IInv, Next PROVE AffinityInv'
<1>1. ASSUME NEW t \in Tasks, Submit(t) \/ SubmitStep(t) PROVE AffinityInv'
  <2>1. CASE SpawnWorker(t)
    <3>1. CASE Unwind(t)
      <4>1. UNCHANGED <<pinned, applied>>
        <5>1. pc'[t] = "stop"
          BY <3>1, Kinds DEF Unwind, Goto, IInv, TypeOK, PcOK
        <5>2. \A w \in Workers : ~Goto(w, "born")
          BY <2>1, <5>1, Kinds DEF SpawnWorker, Goto, IInv, TypeOK, PcOK
        <5> QED
          BY <2>1, <5>2 DEF SpawnWorker, Team
      <4> QED
        BY <2>1, <3>1, <4>1, SubmitQuietAffinity
    <3> QED
      BY <2>1, <3>1, SpawnAffinity
  <2> QED
    BY <1>1, <2>1, PushAffinity, PublishAffinity, SubmitQuietAffinity DEF SubmitStep
<1>2. ASSUME NEW w \in Workers, WorkerStep(w) PROVE AffinityInv'
  <2>1. CASE UNCHANGED <<applied, pinned>>
    BY <1>2, <2>1, WorkerAffinity
  <2>2. CASE ~UNCHANGED <<applied, pinned>>
    <3>1. /\ RefreshAffinity(w) /\ ~AffinityLocked(HomeOf[w])
          /\ applied' = [applied EXCEPT ![w] = revision[HomeOf[w]]]
          /\ pinned' = [pinned EXCEPT ![w] = affinity[HomeOf[w]]]
      BY <1>2, <2>2 DEF WorkerStep, Pin, ThreadInit, LoopTop, RefreshAffinity, PopUrgent, PopRegular, BeforeTask,
         TaskEnds, Listen, RecheckUrgent, RecheckRegular, WakeUp, workerVars
    <3> QED
      BY <3>1, ApplyAffinity
  <2> QED
    BY <2>1, <2>2
<1>3. ASSUME NEW a \in Actors,
             (a # Owner /\ PoisonStep(a)) \/ CloseStep(a) \/ (a = Owner /\ (JoinAllWorkers \/ Join))
      PROVE  AffinityInv'
  <2>1. a \in Workers /\ pc'[a] \in {"confirm", "running"} => FALSE
    BY <1>3, Kinds DEF PoisonStep, StopAdmission, StopShutdown, Discard, AwaitRegistration, CloseStep, SignalFlag,
       SignalAll, BeginDrain, DiscardQueue, EndDrain, Goto, IInv, TypeOK, PcOK
  <2> QED
    BY <1>3, <2>1, OtherQuietAffinity
<1>4. CASE Finished
  <2>1. UNCHANGED <<pc, cpu, hold, queue, lock, member, affinity, revision, applied, pinned>>
    BY <1>4 DEF Finished, vars, memberVars, workerVars
  <2>2. \A t \in Tasks : InQueue(t)' = InQueue(t) /\ InHands(t)' = InHands(t) /\ Target(t)' = Target(t)
    BY <2>1 DEF InQueue, InHands, Target
  <2>3. \A w \in Workers : Covers(w)' = Covers(w)
    BY <2>1 DEF Covers
  <2> QED
    BY <2>1, <2>2, <2>3 DEF IInv, AffinityInv
<1> QED
  BY <1>1, <1>2, <1>3, <1>4, Kinds DEF Next

----------------------------------------------------------------------------
(* Wakeups. *)

\* Counting: a subset is no larger, one more element counts one more, and one
\* less at most one less.
LEMMA Counts ==
    ASSUME NEW S, NEW T, IsFiniteSet(S), IsFiniteSet(T)
    PROVE  /\ Cardinality(S) \in Nat /\ Cardinality(T) \in Nat
           /\ S \subseteq T => Cardinality(S) <= Cardinality(T)
           /\ \A x : x \notin S /\ S \cup {x} \subseteq T => Cardinality(S) + 1 <= Cardinality(T)
           /\ \A x : S \ {x} \subseteq T => Cardinality(S) <= Cardinality(T) + 1
<1>1. Cardinality(S) \in Nat /\ Cardinality(T) \in Nat
  BY FS_CardinalityType
<1>2. \A R : R \subseteq T => Cardinality(R) <= Cardinality(T)
  BY FS_Subset
<1>3. ASSUME NEW x, x \notin S, S \cup {x} \subseteq T PROVE Cardinality(S) + 1 <= Cardinality(T)
  <2>1. Cardinality(S \cup {x}) = Cardinality(S) + 1
    BY <1>3, FS_AddElement
  <2> QED
    BY <1>2, <1>3, <2>1
<1>4. ASSUME NEW x, S \ {x} \subseteq T PROVE Cardinality(S) <= Cardinality(T) + 1
  <2>1. Cardinality(S \ {x}) <= Cardinality(T)
    BY <1>2, <1>4
  <2>2. Cardinality(S \ {x}) = Cardinality(S) - 1 \/ Cardinality(S \ {x}) = Cardinality(S)
    BY FS_RemoveElement
  <2> QED
    BY <1>1, <2>1, <2>2
<1> QED
  BY <1>1, <1>2, <1>3, <1>4

\* What is counted is finite, and so is what is queued.
LEMMA CreditSets ==
    ASSUME TypeOK, TypeOK', NEW g \in Groups
    PROVE  /\ IsFiniteSet(Fresh(g)) /\ IsFiniteSet(Fresh(g) \cup Late(g))
           /\ IsFiniteSet(Fresh(g)') /\ IsFiniteSet(Fresh(g)' \cup Late(g)')
           /\ <<g, "urgent">> \in Queues /\ <<g, "regular">> \in Queues
           /\ Backlog(g, "urgent") \in Nat /\ Backlog(g, "regular") \in Nat
           /\ Backlog(g, "urgent")' \in Nat /\ Backlog(g, "regular")' \in Nat
<1>1. IsFiniteSet(Tasks \cup Workers)
  BY FS_Union, PoolAssumption
<1>2. /\ Fresh(g) \subseteq Tasks \cup Workers /\ Late(g) \subseteq Tasks \cup Workers
      /\ Fresh(g)' \subseteq Tasks \cup Workers /\ Late(g)' \subseteq Tasks \cup Workers
  BY DEF Fresh, Late, Team, Announcing
<1>3. /\ IsFiniteSet(Fresh(g)) /\ IsFiniteSet(Fresh(g) \cup Late(g))
      /\ IsFiniteSet(Fresh(g)') /\ IsFiniteSet(Fresh(g)' \cup Late(g)')
  BY <1>1, <1>2, FS_Subset
<1>4. <<g, "urgent">> \in Queues /\ <<g, "regular">> \in Queues
  BY DEF Queues
<1>5. \A q \in Queues : queue[q] \in Seq(Tasks) /\ queue'[q] \in Seq(Tasks)
  BY <1>4 DEF TypeOK
<1>6. /\ Backlog(g, "urgent") \in Nat /\ Backlog(g, "regular") \in Nat
      /\ Backlog(g, "urgent")' \in Nat /\ Backlog(g, "regular")' \in Nat
  BY <1>4, <1>5 DEF Backlog
<1> QED
  BY <1>3, <1>4, <1>6

\* A group in which nobody loses sight of the queues, and no worker settles.
LEMMA QuietCredit ==
    ASSUME IInv, TypeOK', Open, NEW g \in Groups,
           queue'[<<g, "urgent">>] = queue[<<g, "urgent">>],
           queue'[<<g, "regular">>] = queue[<<g, "regular">>],
           \A v \in Team(g) :
              /\ pc[v] \in Eager \/ v \in notified => pc'[v] \in Eager \/ v \in notified'
              /\ pc[v] = "regular" => pc'[v] = "regular"
              /\ pc'[v] = "wait" /\ v \notin notified' => pc[v] = "wait" /\ v \notin notified
              /\ pc'[v] = "recheck_regular" /\ v \notin notified'
                 => pc[v] \in {"recheck_regular", "wait"} /\ v \notin notified,
           \A u \in Tasks : pc[u] \in {"publish", "member", "wake_all", "wake"} /\ Target(u) = g =>
              pc'[u] \in {"publish", "member", "wake_all", "wake"} /\ Target(u)' = g
    PROVE  Credit(g)'
<1>0. /\ <<g, "urgent">> \in Queues /\ <<g, "regular">> \in Queues
      /\ Backlog(g, "urgent") \in Nat /\ Backlog(g, "regular") \in Nat
      /\ Backlog(g, "urgent")' \in Nat /\ Backlog(g, "regular")' \in Nat
  BY CreditSets DEF IInv
<1>1. Fresh(g) \subseteq Fresh(g)' /\ Late(g) \subseteq Late(g)'
  BY DEF Fresh, Late, Announcing, Team
<1>2. (Settles(g)' => Settles(g)) /\ (Waits(g)' => Waits(g))
  BY DEF Settles, Waits, Team
<1>3. /\ Cardinality(Fresh(g)) \in Nat /\ Cardinality(Fresh(g)') \in Nat
      /\ Cardinality(Fresh(g)) <= Cardinality(Fresh(g)')
  BY <1>1, CreditSets, Counts DEF IInv
<1>4. /\ Cardinality(Fresh(g) \cup Late(g)) \in Nat /\ Cardinality(Fresh(g)' \cup Late(g)') \in Nat
      /\ Cardinality(Fresh(g) \cup Late(g)) <= Cardinality(Fresh(g)' \cup Late(g)')
  BY <1>1, CreditSets, Counts DEF IInv
<1>5. /\ Settles(g) => Backlog(g, "urgent") <= Cardinality(Fresh(g))
      /\ Waits(g) => Backlog(g, "urgent") + Backlog(g, "regular")
                     <= Cardinality(Fresh(g) \cup Late(g))
  BY DEF IInv, CreditInv, Credit, Queued
<1>8. Backlog(g, "urgent")' = Backlog(g, "urgent") /\ Backlog(g, "regular")' = Backlog(g, "regular")
  BY DEF Backlog
<1>6. Settles(g)' => Backlog(g, "urgent")' <= Cardinality(Fresh(g)')
  BY <1>0, <1>2, <1>3, <1>5, <1>8
<1>7. Waits(g)' => Backlog(g, "urgent")' + Backlog(g, "regular")'
                   <= Cardinality(Fresh(g)' \cup Late(g)')
  BY <1>0, <1>2, <1>4, <1>5, <1>8
<1> QED
  BY <1>6, <1>7 DEF Credit, Queued

\* Submissions before their task is queued, and those that publish or tell everyone.
LEMMA SubmitCredit ==
    ASSUME IInv, TypeOK', Next, Open, Open', NEW t \in Tasks,
           \/ Submit(t) \/ Prepare(t) \/ Reject(t) \/ Route(t) \/ AdmitCold(t) \/ SpawnWorker(t)
           \/ PublishStartup(t) \/ Admit(t) \/ CheckShutdown(t) \/ PublishRevision(t) \/ PublishMember(t)
           \/ WakeAll(t),
           NEW g \in Groups
    PROVE  Credit(g)'
<1>1. UNCHANGED <<queue, listed>> /\ notified \subseteq notified'
  BY DEF Submit, Prepare, Reject, Route, AdmitCold, SpawnWorker, PublishStartup, Admit, CheckShutdown,
     PublishRevision, PublishMember, WakeAll, NotifyAll, eventVars
<1>2. \A w \in Workers : pc'[w] = pc[w] \/ (pc[w] = "unborn" /\ pc'[w] = "born")
  BY Kinds DEF Submit, Prepare, Reject, Route, AdmitCold, SpawnWorker, PublishStartup, Admit, CheckShutdown,
     PublishRevision, PublishMember, WakeAll, Unwind, Goto, Team, IInv, TypeOK, PcOK
<1>3. \A u \in Tasks : pc[u] \in {"publish", "member", "wake_all", "wake"} =>
                       pc'[u] \in {"publish", "member", "wake_all", "wake"}
  BY Kinds DEF Submit, Prepare, Reject, Route, AdmitCold, SpawnWorker, PublishStartup, Admit, CheckShutdown,
     PublishRevision, PublishMember, WakeAll, Unwind, Goto, Team, IInv, TypeOK, PcOK
<1>4. \A u \in Tasks : pc[u] \in {"publish", "member", "wake_all", "wake"} => Target(u)' = Target(u)
  BY Moves DEF Routed, Admitting
<1>5. \A v \in Team(g) :
          /\ pc[v] \in Eager \/ v \in notified => pc'[v] \in Eager \/ v \in notified'
          /\ pc[v] = "regular" => pc'[v] = "regular"
          /\ pc'[v] = "wait" /\ v \notin notified' => pc[v] = "wait" /\ v \notin notified
          /\ pc'[v] = "recheck_regular" /\ v \notin notified'
             => pc[v] \in {"recheck_regular", "wait"} /\ v \notin notified
  BY <1>1, <1>2 DEF Team, Eager
<1> QED
  BY <1>1, <1>3, <1>4, <1>5, QuietCredit

\* A task is queued by a submission that will notify someone for it.
LEMMA PushCredit ==
    ASSUME IInv, TypeOK', Open, NEW t \in Tasks, Push(t), NEW g \in Groups
    PROVE  Credit(g)'
<1>0. /\ <<g, "urgent">> \in Queues /\ <<g, "regular">> \in Queues
      /\ Backlog(g, "urgent") \in Nat /\ Backlog(g, "regular") \in Nat
      /\ Backlog(g, "urgent")' \in Nat /\ Backlog(g, "regular")' \in Nat
  BY CreditSets DEF IInv
<1>1. /\ pc[t] = "push" /\ pc'[t] \in {"publish", "wake"} /\ UNCHANGED <<eventVars, cpu>>
      /\ \A a \in Actors : a # t => pc'[a] = pc[a]
  BY Kinds DEF Push, Goto, IInv, TypeOK, PcOK
<1>2. Target(t) \in Groups /\ QueueOf(t) \in Queues
  BY <1>1, RoutedTarget DEF IInv, Routed, Admitting
<1>3. \A v \in Workers : pc'[v] = pc[v] /\ (v \in notified' <=> v \in notified)
  BY <1>1, Kinds DEF eventVars
<1>4. \A u \in Tasks : Target(u)' = Target(u) /\ (u # t => pc'[u] = pc[u])
  BY <1>1, Kinds DEF Target
<1>5. CASE g # Target(t)
  <2>1. <<g, "urgent">> # QueueOf(t) /\ <<g, "regular">> # QueueOf(t)
    BY <1>5 DEF QueueOf
  <2>2. queue'[<<g, "urgent">>] = queue[<<g, "urgent">>] /\ queue'[<<g, "regular">>] = queue[<<g, "regular">>]
    BY <2>1 DEF Push, Queues, IInv, TypeOK
  <2> QED
    BY <1>1, <1>3, <1>4, <2>2, QuietCredit DEF Team
<1>6. CASE g = Target(t)
  <2>1. /\ Backlog(g, "urgent")' <= Backlog(g, "urgent") + 1
        /\ Backlog(g, "urgent")' + Backlog(g, "regular")'
           <= Backlog(g, "urgent") + Backlog(g, "regular") + 1
    <3>1. queue[QueueOf(t)] \in Seq(Tasks)
      BY <1>2 DEF IInv, TypeOK
    <3>2. PICK s, r : s \in Seq(Tasks) /\ s = queue[QueueOf(t)] /\ r = Append(s, t) /\ r = queue'[QueueOf(t)]
      BY <1>2, <3>1 DEF Push, IInv, TypeOK
    <3>6. Len(r) = Len(s) + 1 /\ Len(s) \in Nat
      <4>1. Len(Append(s, t)) = Len(s) + 1 /\ Len(s) \in Nat
        BY Appended
      <4> QED
        BY <3>2, <4>1
    <3>3. \A q \in Queues : q # QueueOf(t) => queue'[q] = queue[q]
      BY DEF Push, IInv, TypeOK
    <3>4. CASE QueueOf(t) = <<g, "urgent">>
      <4>1. queue'[<<g, "regular">>] = queue[<<g, "regular">>]
        BY <1>0, <3>3, <3>4
      <4>2. Backlog(g, "urgent")' = Len(r) /\ Backlog(g, "urgent") = Len(s)
        BY <3>2, <3>4 DEF Backlog
      <4>3. Backlog(g, "regular")' = Backlog(g, "regular")
        BY <4>1 DEF Backlog
      <4> QED
        BY <1>0, <3>6, <4>2, <4>3
    <3>5. CASE QueueOf(t) = <<g, "regular">>
      <4>1. queue'[<<g, "urgent">>] = queue[<<g, "urgent">>]
        BY <1>0, <3>3, <3>5
      <4>2. Backlog(g, "regular")' = Len(r) /\ Backlog(g, "regular") = Len(s)
        BY <3>2, <3>5 DEF Backlog
      <4>3. Backlog(g, "urgent")' = Backlog(g, "urgent")
        BY <4>1 DEF Backlog
      <4> QED
        BY <1>0, <3>6, <4>2, <4>3
    <3> QED
      BY <1>6, <3>4, <3>5 DEF QueueOf
  <2>2. Fresh(g) \cup {t} \subseteq Fresh(g)' /\ t \notin Fresh(g) /\ t \notin Late(g) /\ Late(g) \subseteq Late(g)'
    BY <1>1, <1>3, <1>4, <1>6, Kinds DEF Fresh, Late, Announcing, Team
  <2>3. (Settles(g)' => Settles(g)) /\ (Waits(g)' => Waits(g))
    BY <1>3 DEF Settles, Waits, Team
  <2>4. /\ Cardinality(Fresh(g)) \in Nat /\ Cardinality(Fresh(g)') \in Nat
        /\ Cardinality(Fresh(g)) + 1 <= Cardinality(Fresh(g)')
    BY <2>2, CreditSets, Counts DEF IInv
  <2>5. /\ Cardinality(Fresh(g) \cup Late(g)) \in Nat /\ Cardinality(Fresh(g)' \cup Late(g)') \in Nat
        /\ Cardinality(Fresh(g) \cup Late(g)) + 1 <= Cardinality(Fresh(g)' \cup Late(g)')
    <3>1. t \notin Fresh(g) \cup Late(g) /\ (Fresh(g) \cup Late(g)) \cup {t} \subseteq Fresh(g)' \cup Late(g)'
      BY <2>2
    <3> QED
      BY <3>1, CreditSets, Counts DEF IInv
  <2>6. /\ Settles(g) => Backlog(g, "urgent") <= Cardinality(Fresh(g))
        /\ Waits(g) => Backlog(g, "urgent") + Backlog(g, "regular")
                       <= Cardinality(Fresh(g) \cup Late(g))
    BY DEF IInv, CreditInv, Credit, Queued
  <2>7. Settles(g)' => Backlog(g, "urgent")' <= Cardinality(Fresh(g)')
    BY <1>0, <2>1, <2>3, <2>4, <2>6
  <2>8. Waits(g)' => Backlog(g, "urgent")' + Backlog(g, "regular")'
                     <= Cardinality(Fresh(g)' \cup Late(g)')
    BY <1>0, <2>1, <2>3, <2>5, <2>6
  <2> QED
    BY <2>7, <2>8 DEF Credit, Queued
<1> QED
  BY <1>5, <1>6

\* The submission hands its task's wakeup over to a listener, if one is left that
\* was not notified; if none is, nobody has settled.
LEMMA WakeOneCredit ==
    ASSUME IInv, TypeOK', Open, NEW t \in Tasks, WakeOne(t), NEW g \in Groups
    PROVE  Credit(g)'
<1>1. /\ pc[t] = "wake" /\ pc'[t] = "done" /\ UNCHANGED <<listed, queue, cpu>> /\ notified \subseteq notified'
      /\ \A a \in Actors : a # t => pc'[a] = pc[a]
  BY Kinds DEF WakeOne, NotifyAdditional, Goto, IInv, TypeOK, PcOK
<1>2. /\ \A v \in Workers : pc'[v] = pc[v]
      /\ \A u \in Tasks : Target(u)' = Target(u) /\ (u # t => pc'[u] = pc[u])
  BY <1>1, Kinds DEF Target
<1>3. CASE g # Target(t)
  <2>1. \A v \in Team(g) : v \in notified' => v \in notified
    BY <1>3 DEF WakeOne, NotifyAdditional, Team
  <2> QED
    BY <1>1, <1>2, <1>3, <2>1, QuietCredit DEF Team
<1>4. CASE g = Target(t) /\ (listed \cap Team(g)) \ notified = {}
  <2>1. ~Settles(g)' /\ ~Waits(g)'
    <3>1. \A v \in Team(g) : pc'[v] \in {"recheck_regular", "wait"} => v \in notified
      BY <1>2, <1>4 DEF IInv, CreditInv, Team
    <3> QED
      BY <1>1, <3>1 DEF Settles, Waits, Team
  <2> QED
    BY <2>1 DEF Credit
<1>5. CASE g = Target(t) /\ (listed \cap Team(g)) \ notified # {}
  <2>1. PICK w \in (listed \cap Team(g)) \ notified : notified' = notified \cup {w}
    BY <1>5 DEF WakeOne, NotifyAdditional
  <2>2. w \in Workers /\ pc[w] \in {"recheck_urgent", "recheck_regular", "wait"}
    BY <2>1 DEF IInv, CreditInv, Team
  <2>3. w \notin Fresh(g) /\ w \notin Late(g) /\ t \notin Late(g)
    BY <2>1, <2>2, Kinds DEF Fresh, Late, Eager, Announcing, Team
  <2>4. (Fresh(g) \ {t}) \cup {w} \subseteq Fresh(g)' /\ Late(g) \subseteq Late(g)'
    BY <1>2, <2>1, <2>2 DEF Fresh, Late, Announcing, Team
  <2>5. (Settles(g)' => Settles(g)) /\ (Waits(g)' => Waits(g))
    BY <1>2, <2>1 DEF Settles, Waits, Team
  <2>6. /\ IsFiniteSet(Fresh(g)) /\ IsFiniteSet(Fresh(g)')
        /\ IsFiniteSet(Fresh(g) \cup Late(g)) /\ IsFiniteSet(Fresh(g)' \cup Late(g)')
    BY CreditSets DEF IInv
  <2>7. ASSUME NEW S, NEW T, IsFiniteSet(S), IsFiniteSet(T), (S \ {t}) \cup {w} \subseteq T, w \notin S
        PROVE  Cardinality(S) \in Nat /\ Cardinality(T) \in Nat /\ Cardinality(S) <= Cardinality(T)
    <3>1. IsFiniteSet(S \ {t})
      BY <2>7, FS_RemoveElement
    <3>2. Cardinality(S \ {t}) \in Nat /\ Cardinality(S \ {t}) + 1 <= Cardinality(T)
      BY <2>7, <3>1, Counts
    <3>3. Cardinality(S \ {t}) = Cardinality(S) - 1 \/ Cardinality(S \ {t}) = Cardinality(S)
      BY <2>7, FS_RemoveElement
    <3> QED
      BY <2>7, <3>2, <3>3, Counts
  <2>8. /\ Cardinality(Fresh(g)) \in Nat /\ Cardinality(Fresh(g)') \in Nat
        /\ Cardinality(Fresh(g)) <= Cardinality(Fresh(g)')
    BY <2>3, <2>4, <2>6, <2>7
  <2>9. /\ Cardinality(Fresh(g) \cup Late(g)) \in Nat /\ Cardinality(Fresh(g)' \cup Late(g)') \in Nat
        /\ Cardinality(Fresh(g) \cup Late(g)) <= Cardinality(Fresh(g)' \cup Late(g)')
    <3>1. ((Fresh(g) \cup Late(g)) \ {t}) \cup {w} \subseteq Fresh(g)' \cup Late(g)'
          /\ w \notin Fresh(g) \cup Late(g)
      BY <2>3, <2>4
    <3> QED
      BY <2>6, <2>7, <3>1
  <2>10. /\ Backlog(g, "urgent") \in Nat /\ Backlog(g, "regular") \in Nat
         /\ Backlog(g, "urgent")' = Backlog(g, "urgent") /\ Backlog(g, "regular")' = Backlog(g, "regular")
    BY <1>1, CreditSets DEF Backlog, IInv
  <2>11. Credit(g)
    BY DEF IInv, CreditInv
  <2> QED
    BY <2>5, <2>8, <2>9, <2>10, <2>11 DEF Credit, Queued
<1> QED
  BY <1>3, <1>4, <1>5

\* A worker of another group.
LEMMA OtherTeamCredit ==
    ASSUME IInv, TypeOK', Open, NEW w \in Workers, WorkerStep(w), NEW g \in Groups, g # HomeOf[w]
    PROVE  Credit(g)'
<1>1. UNCHANGED cpu /\ \A a \in Actors : a # w => pc'[a] = pc[a]
  BY Kinds DEF WorkerStep, Pin, ThreadInit, LoopTop, RefreshAffinity, PopUrgent, PopRegular, BeforeTask,
     TaskEnds, Listen, RecheckUrgent, RecheckRegular, WakeUp, Pop, LookAgain, Unwind, Goto, IInv, TypeOK, PcOK
<1>2. \A v \in Team(g) : v # w /\ (v \in notified' <=> v \in notified)
  BY DEF WorkerStep, Pin, ThreadInit, LoopTop, RefreshAffinity, PopUrgent, PopRegular, BeforeTask,
     TaskEnds, Listen, RecheckUrgent, RecheckRegular, WakeUp, LookAgain, DropListener, Team, eventVars
<1>3. queue'[<<g, "urgent">>] = queue[<<g, "urgent">>] /\ queue'[<<g, "regular">>] = queue[<<g, "regular">>]
  <2>1. UNCHANGED queue \/ \E q : q[1] = HomeOf[w] /\ queue' = [queue EXCEPT ![q] = Tail(@)]
    BY DEF WorkerStep, Pin, ThreadInit, LoopTop, RefreshAffinity, PopUrgent, PopRegular, BeforeTask,
       TaskEnds, Listen, RecheckUrgent, RecheckRegular, WakeUp, Pop
  <2>2. \A q : q[1] = HomeOf[w] => q # <<g, "urgent">> /\ q # <<g, "regular">>
    OBVIOUS
  <2>3. <<g, "urgent">> \in Queues /\ <<g, "regular">> \in Queues
    BY DEF Queues
  <2> QED
    BY <2>1, <2>2, <2>3 DEF IInv, TypeOK
<1>4. \A v \in Team(g) : pc'[v] = pc[v]
  BY <1>1, <1>2, Kinds DEF Team
<1>5. \A u \in Tasks : pc'[u] = pc[u] /\ Target(u)' = Target(u)
  BY <1>1, Kinds DEF Target
<1> QED
  BY <1>2, <1>3, <1>4, <1>5, QuietCredit

\* Steps of a worker that take nothing and do not settle: it stays on its way, or
\* sets out again and passes a notification on or takes it along.
LEMMA WorkerQuietCredit ==
    ASSUME IInv, TypeOK', Open, Open', NEW w \in Workers,
           \/ Pin(w) /\ pc'[w] = "init"
           \/ ThreadInit(w) \/ LoopTop(w) \/ RefreshAffinity(w) \/ BeforeTask(w) \/ TaskEnds(w) \/ Listen(w)
           \/ (RecheckUrgent(w) \/ RecheckRegular(w)) /\ pc'[w] = "top"
           \/ WakeUp(w),
           NEW g \in Groups
    PROVE  Credit(g)'
<1>1. /\ UNCHANGED <<cpu, queue>>
      /\ \A a \in Actors : a # w => pc'[a] = pc[a]
      /\ w \in notified => pc[w] \in {"recheck_urgent", "recheck_regular", "wait"}
  BY Kinds DEF Pin, ThreadInit, LoopTop, RefreshAffinity, BeforeTask, TaskEnds, Listen, RecheckUrgent,
     RecheckRegular, WakeUp, LookAgain, Unwind, Goto, IInv, TypeOK, PcOK, CreditInv
<1>2. /\ pc[w] \in Eager \cup {"recheck_urgent", "recheck_regular", "wait"} => pc'[w] \in Eager
      /\ pc[w] # "regular" /\ pc'[w] \notin {"wait", "recheck_regular"}
  <2>1. pc'[w] \notin Closing /\ ~shutdown
    BY Kinds DEF Open
  <2> QED
    BY <2>1, Kinds DEF Pin, ThreadInit, LoopTop, RefreshAffinity, BeforeTask, TaskEnds, Listen, RecheckUrgent,
       RecheckRegular, WakeUp, LookAgain, Unwind, Goto, IInv, TypeOK, PcOK, Eager, Closing
<1>3. \A v \in Workers : v # w /\ v \in notified => v \in notified'
  BY DEF Pin, ThreadInit, LoopTop, RefreshAffinity, BeforeTask, TaskEnds, Listen, RecheckUrgent,
     RecheckRegular, WakeUp, LookAgain, DropListener, eventVars
<1>4. \A v \in Team(g) :
          /\ pc[v] \in Eager \/ v \in notified => pc'[v] \in Eager \/ v \in notified'
          /\ pc[v] = "regular" => pc'[v] = "regular"
          /\ pc'[v] = "wait" /\ v \notin notified' => pc[v] = "wait" /\ v \notin notified
          /\ pc'[v] = "recheck_regular" /\ v \notin notified'
             => pc[v] \in {"recheck_regular", "wait"} /\ v \notin notified
  BY <1>1, <1>2, <1>3, Kinds DEF Team
<1>5. \A u \in Tasks : pc'[u] = pc[u] /\ Target(u)' = Target(u)
  BY <1>1, Kinds DEF Target
<1> QED
  BY <1>1, <1>4, <1>5, QuietCredit

\* A task leaves one queue of a group: one task less is queued.
LEMMA Dequeued ==
    ASSUME TypeOK, NEW g \in Groups, NEW kind, <<g, kind>> \in Queues, queue[<<g, kind>>] # <<>>,
           queue'[<<g, kind>>] = Tail(queue[<<g, kind>>])
    PROVE  Backlog(g, kind)' + 1 = Backlog(g, kind) /\ Backlog(g, kind) \in Nat /\ Backlog(g, kind)' \in Nat
<1>1. PICK s, r : s = queue[<<g, kind>>] /\ r = queue'[<<g, kind>>]
  OBVIOUS
<1>2. s \in Seq(Tasks) /\ s # <<>> /\ r = Tail(s)
  BY <1>1 DEF TypeOK
<1>3. Len(s) \in Nat /\ Len(s) > 0 /\ Len(r) = Len(s) - 1
  BY <1>2, HeadTail
<1>4. Backlog(g, kind) = Len(s) /\ Backlog(g, kind)' = Len(r)
  BY <1>1 DEF Backlog
<1> QED
  BY <1>3, <1>4

\* A worker takes a task, which is one less to take, or finds a queue empty and
\* goes on to where that queue no longer counts.
LEMMA WorkerLooksCredit ==
    ASSUME IInv, TypeOK', Open, Open', NEW w \in Workers,
           \/ PopUrgent(w) \/ PopRegular(w)
           \/ RecheckUrgent(w) /\ pc'[w] # "top"
           \/ RecheckRegular(w) /\ pc'[w] # "top",
           NEW g \in Groups, g = HomeOf[w]
    PROVE  Credit(g)'
<1>0. /\ <<g, "urgent">> \in Queues /\ <<g, "regular">> \in Queues
      /\ Backlog(g, "urgent") \in Nat /\ Backlog(g, "regular") \in Nat
      /\ Backlog(g, "urgent")' \in Nat /\ Backlog(g, "regular")' \in Nat
  BY CreditSets DEF IInv
<1>1. UNCHANGED <<cpu, listed, notified>> /\ (\A a \in Actors : a # w => pc'[a] = pc[a]) /\ w \in Team(g)
  BY Kinds DEF PopUrgent, PopRegular, RecheckUrgent, RecheckRegular, Pop, LookAgain, Goto, eventVars,
     IInv, TypeOK, PcOK, Team
<1>2. /\ \A v \in Workers : v # w => pc'[v] = pc[v]
      /\ \A u \in Tasks : pc'[u] = pc[u] /\ Target(u)' = Target(u)
  BY <1>1, Kinds DEF Target
<1>3. Announcing(g)' = Announcing(g)
  BY <1>2 DEF Announcing
<1>4. /\ Settles(g) => Backlog(g, "urgent") <= Cardinality(Fresh(g))
      /\ Waits(g) => Backlog(g, "urgent") + Backlog(g, "regular")
                     <= Cardinality(Fresh(g) \cup Late(g))
  BY DEF IInv, CreditInv, Credit, Queued
<1>5. /\ IsFiniteSet(Fresh(g)) /\ IsFiniteSet(Fresh(g)')
      /\ IsFiniteSet(Fresh(g) \cup Late(g)) /\ IsFiniteSet(Fresh(g)' \cup Late(g)')
  BY CreditSets DEF IInv
<1>6. w \in notified => pc[w] \in {"recheck_urgent", "recheck_regular", "wait"}
  BY DEF IInv, TypeOK, CreditInv
<1>7. flag = {}
  BY DEF Open, IInv, FlagsInv
<1>8. CASE PopUrgent(w) /\ queue[<<g, "urgent">>] # <<>>
  <2>1. /\ pc[w] = "urgent" /\ pc'[w] = "before"
        /\ queue'[<<g, "urgent">>] = Tail(queue[<<g, "urgent">>])
        /\ queue'[<<g, "regular">>] = queue[<<g, "regular">>]
    BY <1>0, <1>7, <1>8, Kinds, ZenonT(60) DEF PopUrgent, Pop, Goto, IInv, TypeOK, PcOK
  <2>2. Backlog(g, "urgent")' + 1 = Backlog(g, "urgent")
    BY <1>0, <1>8, <2>1, Dequeued DEF IInv
  <2>3. Backlog(g, "regular")' = Backlog(g, "regular")
    BY <2>1 DEF Backlog
  <2>4. Fresh(g) \ {w} \subseteq Fresh(g)' /\ (Fresh(g) \cup Late(g)) \ {w} \subseteq Fresh(g)' \cup Late(g)'
    BY <1>1, <1>2, <1>3 DEF Fresh, Late, Team
  <2>5. /\ Cardinality(Fresh(g)) \in Nat /\ Cardinality(Fresh(g)') \in Nat
        /\ Cardinality(Fresh(g)) <= Cardinality(Fresh(g)') + 1
    BY <1>5, <2>4, Counts
  <2>6. /\ Cardinality(Fresh(g) \cup Late(g)) \in Nat /\ Cardinality(Fresh(g)' \cup Late(g)') \in Nat
        /\ Cardinality(Fresh(g) \cup Late(g)) <= Cardinality(Fresh(g)' \cup Late(g)') + 1
    BY <1>5, <2>4, Counts
  <2>7. (Settles(g)' => Settles(g)) /\ (Waits(g)' => Waits(g))
    BY <1>1, <1>2, <2>1 DEF Settles, Waits, Team
  <2>8. Settles(g)' => Backlog(g, "urgent")' <= Cardinality(Fresh(g)')
    BY <1>0, <1>4, <2>2, <2>5, <2>7
  <2>9. Waits(g)' => Backlog(g, "urgent")' + Backlog(g, "regular")' <= Cardinality(Fresh(g)' \cup Late(g)')
    BY <1>0, <1>4, <2>2, <2>3, <2>6, <2>7
  <2> QED
    BY <2>8, <2>9 DEF Credit, Queued
<1>9. CASE PopUrgent(w) /\ queue[<<g, "urgent">>] = <<>>
  <2>1. pc[w] = "urgent" /\ pc'[w] = "regular" /\ UNCHANGED queue
    BY <1>0, <1>7, <1>9, Kinds DEF PopUrgent, Pop, Goto, IInv, TypeOK, PcOK
  <2>2. /\ Backlog(g, "urgent")' = 0 /\ Backlog(g, "urgent") = 0
        /\ Backlog(g, "regular")' = Backlog(g, "regular")
    BY <1>9, <2>1 DEF Backlog
  <2>3. Fresh(g) \cup Late(g) \subseteq Fresh(g)' \cup Late(g)'
    BY <1>1, <1>2, <1>3, <2>1 DEF Fresh, Late, Team
  <2>4. /\ Cardinality(Fresh(g)') \in Nat /\ Cardinality(Fresh(g) \cup Late(g)) \in Nat
        /\ Cardinality(Fresh(g)' \cup Late(g)') \in Nat
        /\ Cardinality(Fresh(g) \cup Late(g)) <= Cardinality(Fresh(g)' \cup Late(g)')
    BY <1>5, <2>3, Counts
  <2>5. Waits(g)' => Waits(g)
    BY <1>1, <1>2, <2>1 DEF Waits, Team
  <2>6. Settles(g)' => Backlog(g, "urgent")' <= Cardinality(Fresh(g)')
    BY <2>2, <2>4
  <2>7. Waits(g)' => Backlog(g, "urgent")' + Backlog(g, "regular")' <= Cardinality(Fresh(g)' \cup Late(g)')
    BY <1>0, <1>4, <2>2, <2>4, <2>5
  <2> QED
    BY <2>6, <2>7 DEF Credit, Queued
<1>10. CASE PopRegular(w) /\ queue[<<g, "regular">>] # <<>>
  <2>1. /\ pc[w] = "regular" /\ pc'[w] = "before"
        /\ queue'[<<g, "regular">>] = Tail(queue[<<g, "regular">>])
        /\ queue'[<<g, "urgent">>] = queue[<<g, "urgent">>]
    BY <1>0, <1>10, Kinds, ZenonT(60) DEF PopRegular, Pop, Goto, IInv, TypeOK, PcOK
  <2>2. Backlog(g, "regular")' + 1 = Backlog(g, "regular")
    BY <1>0, <1>10, <2>1, Dequeued DEF IInv
  <2>3. Backlog(g, "urgent")' = Backlog(g, "urgent")
    BY <2>1 DEF Backlog
  <2>4. Fresh(g) \subseteq Fresh(g)' /\ (Fresh(g) \cup Late(g)) \ {w} \subseteq Fresh(g)' \cup Late(g)'
    BY <1>1, <1>2, <1>3, <1>6, <2>1 DEF Fresh, Late, Team, Eager
  <2>5. /\ Cardinality(Fresh(g)) \in Nat /\ Cardinality(Fresh(g)') \in Nat
        /\ Cardinality(Fresh(g)) <= Cardinality(Fresh(g)')
    BY <1>5, <2>4, Counts
  <2>6. /\ Cardinality(Fresh(g) \cup Late(g)) \in Nat /\ Cardinality(Fresh(g)' \cup Late(g)') \in Nat
        /\ Cardinality(Fresh(g) \cup Late(g)) <= Cardinality(Fresh(g)' \cup Late(g)') + 1
    BY <1>5, <2>4, Counts
  <2>7. (Settles(g)' => Settles(g)) /\ (Waits(g)' => Waits(g))
    BY <1>1, <1>2, <2>1 DEF Settles, Waits, Team
  <2>8. Settles(g)' => Backlog(g, "urgent")' <= Cardinality(Fresh(g)')
    BY <1>0, <1>4, <2>3, <2>5, <2>7
  <2>9. Waits(g)' => Backlog(g, "urgent")' + Backlog(g, "regular")' <= Cardinality(Fresh(g)' \cup Late(g)')
    BY <1>0, <1>4, <2>2, <2>3, <2>6, <2>7
  <2> QED
    BY <2>8, <2>9 DEF Credit, Queued
\* The regular queue is empty: the urgent tasks have someone fresh, who counts in both.
<1>11. ASSUME UNCHANGED queue, queue[<<g, "regular">>] = <<>>, Fresh(g) \subseteq Fresh(g)',
              Settles(g)' => Settles(g), Waits(g)' => Settles(g)
       PROVE  Credit(g)'
  <2>1. /\ Backlog(g, "regular")' = 0 /\ Backlog(g, "urgent")' = Backlog(g, "urgent")
    BY <1>11 DEF Backlog
  <2>2. /\ Cardinality(Fresh(g)) \in Nat /\ Cardinality(Fresh(g)') \in Nat
        /\ Cardinality(Fresh(g)) <= Cardinality(Fresh(g)')
    BY <1>5, <1>11, Counts
  <2>3. /\ Cardinality(Fresh(g)' \cup Late(g)') \in Nat
        /\ Cardinality(Fresh(g)') <= Cardinality(Fresh(g)' \cup Late(g)')
    BY <1>5, Counts
  <2>4. Settles(g)' => Backlog(g, "urgent")' <= Cardinality(Fresh(g)')
    BY <1>0, <1>4, <1>11, <2>1, <2>2
  <2>5. Waits(g)' => Backlog(g, "urgent")' + Backlog(g, "regular")' <= Cardinality(Fresh(g)' \cup Late(g)')
    BY <1>0, <1>4, <1>11, <2>1, <2>2, <2>3
  <2> QED
    BY <2>4, <2>5 DEF Credit, Queued
<1>12. CASE PopRegular(w) /\ queue[<<g, "regular">>] = <<>>
  <2>1. pc[w] = "regular" /\ pc'[w] = "listen" /\ UNCHANGED queue
    BY <1>0, <1>12, Kinds DEF PopRegular, Pop, Goto, IInv, TypeOK, PcOK
  <2>2. Fresh(g) \subseteq Fresh(g)'
    BY <1>1, <1>2, <1>3, <1>6, <2>1 DEF Fresh, Team, Eager
  <2>3. (Settles(g)' => Settles(g)) /\ (Waits(g)' => Settles(g))
    BY <1>1, <1>2, <2>1 DEF Settles, Waits, Team
  <2> QED
    BY <1>11, <1>12, <2>1, <2>2, <2>3
<1>13. CASE RecheckUrgent(w) /\ pc'[w] # "top"
  <2>1. /\ pc[w] = "recheck_urgent" /\ pc'[w] = "recheck_regular" /\ UNCHANGED queue
        /\ queue[<<g, "urgent">>] = <<>>
    BY <1>0, <1>13, Kinds DEF RecheckUrgent, LookAgain, Goto, IInv, TypeOK, PcOK
  <2>2. /\ Backlog(g, "urgent")' = 0 /\ Backlog(g, "urgent") = 0
        /\ Backlog(g, "regular")' = Backlog(g, "regular")
    BY <2>1 DEF Backlog
  <2>3. Fresh(g) \cup Late(g) \subseteq Fresh(g)' \cup Late(g)'
    BY <1>1, <1>2, <1>3, <2>1 DEF Fresh, Late, Team, Eager
  <2>4. /\ Cardinality(Fresh(g)') \in Nat /\ Cardinality(Fresh(g) \cup Late(g)) \in Nat
        /\ Cardinality(Fresh(g)' \cup Late(g)') \in Nat
        /\ Cardinality(Fresh(g) \cup Late(g)) <= Cardinality(Fresh(g)' \cup Late(g)')
    BY <1>5, <2>3, Counts
  <2>5. Waits(g)' => Waits(g)
    BY <1>1, <1>2, <2>1 DEF Waits, Team
  <2>6. Settles(g)' => Backlog(g, "urgent")' <= Cardinality(Fresh(g)')
    BY <2>2, <2>4
  <2>7. Waits(g)' => Backlog(g, "urgent")' + Backlog(g, "regular")' <= Cardinality(Fresh(g)' \cup Late(g)')
    BY <1>0, <1>4, <2>2, <2>4, <2>5
  <2> QED
    BY <2>6, <2>7 DEF Credit, Queued
<1>14. CASE RecheckRegular(w) /\ pc'[w] # "top"
  <2>1. /\ pc[w] = "recheck_regular" /\ pc'[w] = "wait" /\ UNCHANGED queue
        /\ queue[<<g, "regular">>] = <<>>
    BY <1>0, <1>14, Kinds DEF RecheckRegular, LookAgain, Goto, IInv, TypeOK, PcOK
  <2>2. Fresh(g) \subseteq Fresh(g)'
    BY <1>1, <1>2, <1>3, <1>6, <2>1 DEF Fresh, Team, Eager
  <2>3. (Settles(g)' => Settles(g)) /\ (Waits(g)' => Settles(g))
    BY <1>1, <1>2, <2>1 DEF Settles, Waits, Team
  <2> QED
    BY <1>11, <1>14, <2>1, <2>2, <2>3
<1> QED
  BY <1>8, <1>9, <1>10, <1>12, <1>13, <1>14

\* A worker that cannot be pinned leaves a group that has not started, where
\* nothing is queued.
LEMMA UnpinnedCredit ==
    ASSUME IInv, TypeOK', NEW w \in Workers, Pin(w), NEW g \in Groups, g = HomeOf[w]
    PROVE  Credit(g)'
<1>1. pc[w] = "born" /\ UNCHANGED queue
  BY DEF Pin
<1>2. queue[<<g, "urgent">>] = <<>> /\ queue[<<g, "regular">>] = <<>>
  BY <1>1 DEF IInv, StartInv
<1>3. Backlog(g, "urgent")' = 0 /\ Backlog(g, "regular")' = 0
  BY <1>1, <1>2 DEF Backlog
<1>4. IsFiniteSet(Fresh(g)') /\ IsFiniteSet(Fresh(g)' \cup Late(g)')
  BY CreditSets DEF IInv
<1>5. Cardinality(Fresh(g)') \in Nat /\ Cardinality(Fresh(g)' \cup Late(g)') \in Nat
  BY <1>4, FS_CardinalityType
<1> QED
  BY <1>3, <1>5 DEF Credit, Queued

\* Nothing reopens a pool that has begun to stop, and what stops is not open.
LEMMA OpenBefore ==
    ASSUME IInv, TypeOK', Next, Open'
    PROVE  /\ Open
           /\ \A a \in Actors : ~PoisonStep(a) /\ ~CloseStep(a)
           /\ ~JoinAllWorkers /\ ~Join
<1>1. ~shutdown' /\ \A a \in Actors : pc'[a] \notin Closing
  BY DEF Open
<1>2. ~shutdown
  <2>1. ASSUME NEW t \in Tasks, Submit(t) \/ SubmitStep(t) PROVE UNCHANGED shutdown
    BY <2>1 DEF Submit, SubmitStep, Prepare, Reject, Route, AdmitCold, SpawnWorker, PublishStartup,
       Admit, CheckShutdown, Push, PublishRevision, PublishMember, WakeAll, WakeOne, flagVars
  <2>2. ASSUME NEW w \in Workers, WorkerStep(w) PROVE UNCHANGED shutdown
    BY <2>2 DEF WorkerStep, Pin, ThreadInit, LoopTop, RefreshAffinity, PopUrgent, PopRegular, BeforeTask,
       TaskEnds, Listen, RecheckUrgent, RecheckRegular, WakeUp, flagVars
  <2>3. ASSUME NEW a \in Actors, PoisonStep(a) \/ CloseStep(a) \/ JoinAllWorkers \/ Join
        PROVE  shutdown' = shutdown \/ shutdown'
    BY <2>3 DEF PoisonStep, StopAdmission, StopShutdown, Discard, AwaitRegistration, CloseStep, SignalFlag,
       SignalAll, BeginDrain, DiscardQueue, EndDrain, JoinAllWorkers, CloseAdmission, Join, flagVars
  <2>4. CASE Finished
    BY <1>1, <2>4 DEF Finished, vars, flagVars
  <2> QED
    BY <1>1, <2>1, <2>2, <2>3, <2>4, Kinds DEF Next
<1>3. /\ \A a \in Actors : pc[a] \notin {"discard", "await_lock", "signal", "drain", "join", "joined"}
      /\ shutdown \in BOOLEAN /\ shutdown' \in BOOLEAN
  BY <1>2 DEF IInv, FlagsInv, TypeOK
<1>4. ASSUME NEW a \in Actors PROVE ~PoisonStep(a) /\ ~CloseStep(a)
  <2>1. ~StopAdmission(a)
    BY <1>1 DEF StopAdmission, Goto, IInv, TypeOK, PcOK, Closing
  <2>2. ~StopShutdown(a)
    BY <1>1 DEF StopShutdown
  <2> QED
    BY <1>3, <2>1, <2>2 DEF PoisonStep, Discard, AwaitRegistration, CloseStep, SignalFlag, SignalAll,
       BeginDrain, DiscardQueue, EndDrain
<1>5. ~JoinAllWorkers /\ ~Join
  BY <1>1, <1>3, Kinds DEF JoinAllWorkers, CloseAdmission, Join
<1>6. ASSUME NEW a \in Actors PROVE pc[a] \notin Closing
  <2>1. ASSUME pc[a] \in {"stop", "stopped"} PROVE FALSE
    <3>1. pc'[a] = pc[a]
      <4>1. ASSUME NEW t \in Tasks, Submit(t) \/ SubmitStep(t) PROVE pc'[a] = pc[a]
        BY <2>1, <4>1 DEF Submit, SubmitStep, Prepare, Reject, Route, AdmitCold, SpawnWorker,
           PublishStartup, Admit, CheckShutdown, Push, PublishRevision, PublishMember, WakeAll, WakeOne,
           Unwind, Goto, Team, IInv, TypeOK, PcOK
      <4>2. ASSUME NEW w \in Workers, WorkerStep(w) PROVE pc'[a] = pc[a]
        BY <2>1, <4>2 DEF WorkerStep, Pin, ThreadInit, LoopTop, RefreshAffinity, PopUrgent, PopRegular,
           BeforeTask, TaskEnds, Listen, RecheckUrgent, RecheckRegular, WakeUp, Pop, LookAgain, Unwind,
           Goto, IInv, TypeOK, PcOK
      <4>3. CASE Finished
        BY <4>3 DEF Finished, vars
      <4> QED
        BY <1>4, <1>5, <4>1, <4>2, <4>3, Kinds DEF Next
    <3> QED
      BY <1>1, <2>1, <3>1 DEF Closing
  <2> QED
    BY <1>3, <2>1 DEF Closing
<1> QED
  BY <1>2, <1>4, <1>5, <1>6 DEF Open

\* Listeners are registered by exactly the workers that look again or wait.
LEMMA ListenersStep ==
    ASSUME IInv, Next
    PROVE  listed' = {w \in Workers : pc'[w] \in {"recheck_urgent", "recheck_regular", "wait"}}
<1>1. listed = {w \in Workers : pc[w] \in {"recheck_urgent", "recheck_regular", "wait"}}
  BY DEF IInv, CreditInv
<1>2. ASSUME NEW t \in Tasks, Submit(t) \/ SubmitStep(t)
      PROVE  /\ listed' = listed
             /\ \A w \in Workers : pc'[w] = pc[w] \/ (pc[w] = "unborn" /\ pc'[w] = "born")
  <2>1. listed' = listed
    BY <1>2 DEF Submit, SubmitStep, Prepare, Reject, Route, AdmitCold, SpawnWorker, PublishStartup, Admit,
       CheckShutdown, Push, PublishRevision, PublishMember, WakeAll, WakeOne, eventVars
  <2>2. \A w \in Workers : pc'[w] = pc[w] \/ (pc[w] = "unborn" /\ pc'[w] = "born")
    BY <1>2, Kinds DEF Submit, SubmitStep, Prepare, Reject, Route, AdmitCold, SpawnWorker, PublishStartup,
       Admit, CheckShutdown, Push, PublishRevision, PublishMember, WakeAll, WakeOne, Unwind, Goto, Team,
       IInv, TypeOK, PcOK
  <2> QED
    BY <2>1, <2>2
<1>3. ASSUME NEW w \in Workers, WorkerStep(w)
      PROVE  listed' = {v \in Workers : pc'[v] \in {"recheck_urgent", "recheck_regular", "wait"}}
  <2>1. \A v \in Workers : v # w => pc'[v] = pc[v]
    BY <1>3, Kinds DEF WorkerStep, Pin, ThreadInit, LoopTop, RefreshAffinity, PopUrgent, PopRegular,
       BeforeTask, TaskEnds, Listen, RecheckUrgent, RecheckRegular, WakeUp, Pop, LookAgain, Unwind,
       Goto, IInv, TypeOK, PcOK
  <2>2. \/ /\ listed' = listed
           /\ pc[w] \in {"recheck_urgent", "recheck_regular", "wait"}
              <=> pc'[w] \in {"recheck_urgent", "recheck_regular", "wait"}
        \/ listed' = listed \cup {w} /\ pc'[w] = "recheck_urgent"
        \/ listed' = listed \ {w} /\ pc'[w] = "top"
    BY <1>3, Kinds DEF WorkerStep, Pin, ThreadInit, LoopTop, RefreshAffinity, PopUrgent, PopRegular,
       BeforeTask, TaskEnds, Listen, RecheckUrgent, RecheckRegular, WakeUp, Pop, LookAgain, Unwind,
       DropListener, Goto, eventVars, IInv, TypeOK, PcOK
  <2> QED
    BY <1>1, <2>1, <2>2
<1>4. ASSUME NEW a \in Actors,
             (a # Owner /\ PoisonStep(a)) \/ CloseStep(a) \/ (a = Owner /\ (JoinAllWorkers \/ Join))
      PROVE  /\ listed' = listed
             /\ \A b \in Actors : pc'[b] # pc[b] =>
                   {pc[b], pc'[b]} \cap {"recheck_urgent", "recheck_regular", "wait"} = {}
  <2>1. listed' = listed
    BY <1>4 DEF PoisonStep, StopAdmission, StopShutdown, Discard, AwaitRegistration, CloseStep, SignalFlag,
       SignalAll, BeginDrain, DiscardQueue, EndDrain, JoinAllWorkers, CloseAdmission, Join, eventVars
  <2>2. \A b \in Actors : pc'[b] # pc[b] =>
           {pc[b], pc'[b]} \cap {"recheck_urgent", "recheck_regular", "wait"} = {}
    BY <1>4, Kinds DEF PoisonStep, StopAdmission, StopShutdown, Discard, AwaitRegistration, CloseStep,
       SignalFlag, SignalAll, BeginDrain, DiscardQueue, EndDrain, JoinAllWorkers, CloseAdmission, Join,
       Goto, IInv, TypeOK, PcOK
  <2> QED
    BY <2>1, <2>2
<1>5. CASE Finished
  BY <1>1, <1>5 DEF Finished, vars, eventVars
<1>6. CASE \E t \in Tasks : Submit(t) \/ SubmitStep(t)
  BY <1>1, <1>2, <1>6
<1>7. CASE \E a \in Actors :
             (a # Owner /\ PoisonStep(a)) \/ CloseStep(a) \/ (a = Owner /\ (JoinAllWorkers \/ Join))
  BY <1>1, <1>4, <1>7, Kinds
<1> QED
  BY <1>3, <1>5, <1>6, <1>7, Kinds DEF Next

\* While the pool is open every step leaves enough workers and wakeups on their way.
LEMMA CreditStep ==
    ASSUME IInv, TypeOK', Next PROVE CreditInv'
<1>1. ASSUME Open', NEW g \in Groups PROVE Credit(g)'
  <2>1. /\ Open /\ (\A a \in Actors : ~PoisonStep(a) /\ ~CloseStep(a))
        /\ ~JoinAllWorkers /\ ~Join
    BY <1>1, OpenBefore
  <2>2. ASSUME NEW t \in Tasks, Submit(t) \/ SubmitStep(t) PROVE Credit(g)'
    BY <1>1, <2>1, <2>2, SubmitCredit, PushCredit, WakeOneCredit DEF SubmitStep
  <2>3. ASSUME NEW w \in Workers, WorkerStep(w) PROVE Credit(g)'
    <3>1. CASE g # HomeOf[w]
      BY <2>1, <2>3, <3>1, OtherTeamCredit
    <3>2. CASE g = HomeOf[w]
      BY <1>1, <2>1, <2>3, <3>2, WorkerQuietCredit, WorkerLooksCredit, UnpinnedCredit DEF WorkerStep
    <3> QED
      BY <3>1, <3>2
  <2>4. CASE Finished
    <3>1. UNCHANGED <<pc, queue, notified, cpu>>
      BY <2>4 DEF Finished, vars, eventVars
    <3>2. \A u \in Tasks : Target(u)' = Target(u)
      BY <3>1 DEF Target
    <3> QED
      BY <2>1, <3>1, <3>2, QuietCredit
  <2> QED
    BY <2>1, <2>2, <2>3, <2>4, Kinds DEF Next
<1> QED
  BY <1>1, ListenersStep DEF CreditInv

----------------------------------------------------------------------------
(* The invariant, and what it shows. *)

\* Every step preserves the types.
LEMMA TypesStep ==
    ASSUME IInv, Next PROVE TypeOK'
<1>1. ASSUME NEW t \in Tasks, Submit(t) \/ SubmitStep(t) PROVE TypeOK'
  BY <1>1, SubmitTypes, AdmitTypes DEF SubmitStep, IInv
<1>2. ASSUME NEW w \in Workers, WorkerStep(w) PROVE TypeOK'
  BY <1>2, WorkerTypes
<1>3. ASSUME NEW a \in Actors,
             (a # Owner /\ PoisonStep(a)) \/ CloseStep(a) \/ (a = Owner /\ (JoinAllWorkers \/ Join))
      PROVE  TypeOK'
  BY <1>3, CloseTypes DEF PoisonStep, CloseStep
<1>4. CASE Finished
  BY <1>4 DEF Finished, IInv, TypeOK, PcOK, vars, flagVars, groupVars, memberVars, eventVars, workerVars
<1> QED
  BY <1>1, <1>2, <1>3, <1>4, Kinds DEF Next

\* Every step preserves the bookkeeping of startup and of the handles.
LEMMA StartStep ==
    ASSUME IInv, Next PROVE StartInv'
<1>1. ASSUME NEW t \in Tasks, Submit(t) \/ SubmitStep(t) PROVE StartInv'
  BY <1>1, SubmitStart, SpawnStart, PushStart DEF SubmitStep
<1>2. ASSUME NEW a \in Actors, (a # Owner /\ PoisonStep(a)) \/ CloseStep(a) PROVE StartInv'
  BY <1>2, CloseStart
<1>3. CASE Finished
  <2>1. UNCHANGED <<handles, joining, started, member, cpu, queue, pc>> /\ \A t \in Tasks : Target(t)' = Target(t)
    BY <1>3 DEF Finished, vars, groupVars, memberVars, Target
  <2> QED
    BY <2>1 DEF IInv, StartInv
<1> QED
  BY <1>1, <1>2, <1>3, WorkerStart, JoinStart, Kinds DEF Next

\* A new pool satisfies the invariant.
LEMMA InitIInv == Init => IInv
<1> SUFFICES ASSUME Init PROVE IInv
  OBVIOUS
<1>1. /\ \A t \in Tasks : pc[t] = "new"
      /\ \A w \in Workers : pc[w] = "unborn"
      /\ pc[Owner] = "live" /\ \A a \in Actors : pc[a] \in {"new", "unborn", "live"}
  BY Kinds DEF Init
<1>2. TypeOK
  <2>1. PcOK
    BY <1>1, Kinds DEF Init, PcOK, SubmitPcs, WorkerPcs, OwnerPcs
  <2>2. queue \in [Queues -> Seq(Tasks)]
    BY DEF Init
  <2>3. faults \in 0 .. MaxFaults
    BY PoolAssumption DEF Init
  <2> QED
    BY <2>1, <2>2, <2>3 DEF Init, TypeOK
<1>3. FlagsInv /\ LockInv
  BY <1>1 DEF Init, FlagsInv, LockInv
<1>4. \A g \in Groups : queue[<<g, "urgent">>] = <<>> /\ queue[<<g, "regular">>] = <<>>
  BY DEF Init, Queues
<1>5. StartInv
  BY <1>1, <1>4, Kinds DEF Init, StartInv, Admitting
<1>6. \A t \in Tasks : ~InQueue(t) /\ ~InHands(t)
  BY Kinds DEF Init, InQueue, InHands
<1>7. PlaceInv
  BY <1>1, <1>6 DEF Init, PlaceInv, Routed, Admitting, WithSubmitter, Ended, InHand
<1>8. AffinityInv
  BY <1>1, <1>6 DEF Init, AffinityInv, Covers
<1>9. DrainInv
  BY <1>1, Kinds DEF DrainInv
<1>10. CreditInv
  <2>1. ASSUME NEW g \in Groups PROVE Credit(g)
    BY <1>1 DEF Credit, Settles, Waits, Team
  <2> QED
    BY <1>1, <2>1 DEF Init, CreditInv
<1> QED
  BY <1>2, <1>3, <1>5, <1>7, <1>8, <1>9, <1>10 DEF IInv

\* Every step of every actor preserves the invariant.
LEMMA NextIInv == IInv /\ [Next]_vars => IInv'
<1>1. ASSUME IInv, Next PROVE IInv'
  BY <1>1, TypesStep, FlagsStep, LockStep, StartStep, PlaceStep, AffinityStep, DrainStep, CreditStep DEF IInv
<1>2. ASSUME IInv, UNCHANGED vars PROVE IInv'
  <2>1. UNCHANGED <<shutdown, poisoned, lock, handles, joining, created, started, flag, queue, member, affinity,
                    revision, listed, notified, pc, todo, cpu, hold, applied, pinned, outcome, faults>>
    BY <1>2 DEF vars, flagVars, groupVars, memberVars, eventVars, workerVars
  <2>2. TypeOK' /\ FlagsInv' /\ LockInv'
    BY <1>2, <2>1 DEF IInv, TypeOK, PcOK, FlagsInv, LockInv
  <2>3. \A t \in Tasks : /\ Target(t)' = Target(t) /\ QueueOf(t)' = QueueOf(t)
                         /\ InQueue(t)' = InQueue(t) /\ InHands(t)' = InHands(t)
                         /\ Ended(t)' = Ended(t) /\ (t \in WithSubmitter' <=> t \in WithSubmitter)
    BY <2>1 DEF Target, QueueOf, InQueue, InHands, Ended, WithSubmitter
  <2>4. StartInv'
    BY <1>2, <2>1, <2>3 DEF IInv, StartInv
  <2>5. PlaceInv'
    <3>1. WithSubmitter' = WithSubmitter
      BY <2>1 DEF WithSubmitter
    <3> QED
      BY <1>2, <2>1, <2>3, <3>1, QuietPlace DEF IInv, PlaceInv
  <2>6. AffinityInv'
    <3>1. \A w \in Workers : Covers(w)' = Covers(w)
      BY <2>1 DEF Covers
    <3> QED
      BY <1>2, <2>1, <2>3, <3>1 DEF IInv, AffinityInv
  <2>7. DrainInv'
    <3>1. \A q \in Queues : Sealed(q)' = Sealed(q)
      BY <2>1, <2>3 DEF Sealed
    <3> QED
      BY <1>2, <2>1, <3>1 DEF IInv, DrainInv
  <2>8. CreditInv'
    <3>1. Open' = Open
      BY <2>1 DEF Open
    <3>2. ASSUME Open, NEW g \in Groups PROVE Credit(g)'
      BY <1>2, <2>1, <2>2, <2>3, <3>2, QuietCredit
    <3> QED
      BY <1>2, <2>1, <3>1, <3>2 DEF IInv, CreditInv
  <2> QED
    BY <2>2, <2>4, <2>5, <2>6, <2>7, <2>8 DEF IInv
<1> QED
  BY <1>1, <1>2

\* The invariant holds for every schedule, and every failure, of every pool.
THEOREM SpecIInv == Spec => []IInv
BY InitIInv, NextIInv, PTL DEF Spec

\* The pool keeps to its types: above all, a visit is of a group or a queue that
\* exists, and no more failures happen than were allowed.
THEOREM PoolTypes == Spec => []TypeOK
<1>1. IInv => TypeOK
  BY DEF IInv
<1> QED
  BY <1>1, SpecIInv, PTL

\* When the drop has returned every worker that was started has ended
\* (admit_cold, join_all_workers).
THEOREM DropJoinsEveryWorker == Spec => []NoWorkerOutlivesPool
<1>1. IInv => NoWorkerOutlivesPool
  BY DEF IInv, StartInv, NoWorkerOutlivesPool
<1> QED
  BY <1>1, SpecIInv, PTL

\* A task runs on a worker whose affinity includes its submitter's processor
\* (admit, refresh_affinity, before_task).
THEOREM TasksRunNearSubmitter == Spec => []RunsNearSubmitter
<1>1. IInv => RunsNearSubmitter
  BY DEF IInv, AffinityInv, RunsNearSubmitter
<1> QED
  BY <1>1, SpecIInv, PTL

\* Every task is in one place, and none is left in a pool that is closed
\* (enqueue_with, discard_queue, discard_task_after_failure, join_all_workers).
THEOREM EveryTaskAccounted == Spec => []TasksAccounted
<1>1. ASSUME IInv, NEW t \in Tasks PROVE Places(t) = 1
  <2> DEFINE Q == {x \in UNION {{q} \X DOMAIN queue[q] : q \in Queues} : queue[x[1]][x[2]] = t}
             H == {w \in Workers : hold[w] = t}
  <2>1. IF InQueue(t) THEN Cardinality(Q) = 1 ELSE Cardinality(Q) = 0
    <3>1. \A x : x \in Q => \E q \in Queues : \E i \in DOMAIN queue[q] : x = <<q, i>> /\ queue[q][i] = t
      OBVIOUS
    <3>2. CASE InQueue(t)
      <4>1. PICK q \in Queues : \E i \in DOMAIN queue[q] : queue[q][i] = t
        BY <3>2 DEF InQueue
      <4>2. PICK i \in DOMAIN queue[q] : queue[q][i] = t
        BY <4>1
      <4>3. <<q, i>> \in Q
        BY <4>2
      <4>4. \A r \in Queues : \A j \in DOMAIN queue[r] : queue[r][j] = t => r = q /\ j = i
        BY <1>1, <4>2 DEF IInv, PlaceInv
      <4>5. Q = {<<q, i>>}
        BY <3>1, <4>3, <4>4
      <4> QED
        BY <3>2, <4>5, FS_Singleton
    <3>3. CASE ~InQueue(t)
      <4>1. Q = {}
        BY <3>1, <3>3 DEF InQueue
      <4> QED
        BY <3>3, <4>1, FS_EmptySet
    <3> QED
      BY <3>2, <3>3
  <2>2. IF InHands(t) THEN Cardinality(H) = 1 ELSE Cardinality(H) = 0
    <3>1. CASE InHands(t)
      <4>1. PICK w \in Workers : hold[w] = t
        BY <3>1 DEF InHands
      <4>2. H = {w}
        BY <1>1, <4>1, Kinds DEF IInv, PlaceInv
      <4> QED
        BY <3>1, <4>2, FS_Singleton
    <3>2. CASE ~InHands(t)
      <4>1. H = {}
        BY <3>2 DEF InHands
      <4> QED
        BY <3>2, <4>1, FS_EmptySet
    <3> QED
      BY <3>1, <3>2
  <2>3. /\ t \in WithSubmitter => ~InQueue(t) /\ ~InHands(t) /\ ~Ended(t)
        /\ t \notin WithSubmitter => InQueue(t) \/ InHands(t) \/ Ended(t)
        /\ ~(InQueue(t) /\ InHands(t)) /\ ~(InQueue(t) /\ Ended(t)) /\ ~(InHands(t) /\ Ended(t))
    BY <1>1 DEF IInv, PlaceInv
  <2>4. Places(t) = (IF t \in WithSubmitter THEN 1 ELSE 0) + Cardinality(Q) + Cardinality(H)
                    + (IF Ended(t) THEN 1 ELSE 0)
    BY DEF Places
  <2> HIDE DEF Q, H
  <2> QED
    BY <2>1, <2>2, <2>3, <2>4
<1>2. IInv => ClosedStaysEmpty
  <2> SUFFICES ASSUME IInv, pc[Owner] \in {"join", "joined"}
               PROVE  (\A q \in Queues : queue[q] = <<>>) /\ \A t \in Tasks : pc[t] # "push"
    BY DEF ClosedStaysEmpty
  <2>1. \A q \in Queues : Sealed(q)
    BY DEF IInv, DrainInv
  <2>2. \A t \in Tasks : pc[t] = "push" => QueueOf(t) \in Queues
    BY RoutedTarget DEF IInv, Routed, Admitting
  <2> QED
    BY <2>1, <2>2 DEF Sealed
<1>3. IInv => TasksAccounted
  BY <1>1, <1>2 DEF TasksAccounted, TaskInOnePlace
<1> QED
  BY <1>3, SpecIInv, PTL

\* No queued task waits for another one to end beside a worker that sleeps
\* (enqueue_with, worker_loop, wait_for_work).
THEOREM NoTaskWaitsBesideSleeper == Spec => []IdleWorkersAreWoken
<1>1. IInv => IdleWorkersAreWoken
  <2> SUFFICES ASSUME IInv, Open, NEW g \in Groups, Waits(g)
               PROVE  Queued(g) <= Cardinality(Looking(g)) + Cardinality(Announcing(g))
    BY DEF IdleWorkersAreWoken, Open, Waits, Team
  <2>1. Queued(g) <= Cardinality(Fresh(g) \cup Late(g))
    BY DEF IInv, CreditInv, Credit
  <2>2. IsFiniteSet(Looking(g)) /\ IsFiniteSet(Announcing(g))
    <3>1. Looking(g) \subseteq Workers /\ Announcing(g) \subseteq Tasks
      BY DEF Looking, Announcing, Team
    <3> QED
      BY <3>1, FS_Subset, PoolAssumption
  <2>3. Fresh(g) \cup Late(g) \subseteq Looking(g) \cup Announcing(g)
    BY DEF Fresh, Late, Eager, Looking, Team, IInv, TypeOK, CreditInv
  <2>4. /\ IsFiniteSet(Looking(g) \cup Announcing(g))
        /\ Cardinality(Looking(g) \cup Announcing(g)) <= Cardinality(Looking(g)) + Cardinality(Announcing(g))
    <3>1. Looking(g) \cap Announcing(g) = {}
      BY Kinds DEF Looking, Announcing, Team
    <3>2. Cardinality(Looking(g) \cap Announcing(g)) = 0
      BY <3>1, FS_EmptySet
    <3>3. /\ IsFiniteSet(Looking(g) \cup Announcing(g))
          /\ Cardinality(Looking(g) \cup Announcing(g))
             = Cardinality(Looking(g)) + Cardinality(Announcing(g)) - Cardinality(Looking(g) \cap Announcing(g))
      BY <2>2, FS_Union
    <3>4. Cardinality(Looking(g)) \in Nat /\ Cardinality(Announcing(g)) \in Nat
      BY <2>2, FS_CardinalityType
    <3> QED
      BY <3>2, <3>3, <3>4
  <2>5. IsFiniteSet(Fresh(g) \cup Late(g))
    BY <2>3, <2>4, FS_Subset
  <2>6. Cardinality(Fresh(g) \cup Late(g)) <= Cardinality(Looking(g) \cup Announcing(g))
    BY <2>3, <2>4, FS_Subset
  <2>7. Queued(g) \in Nat
    <3>1. queue[<<g, "urgent">>] \in Seq(Tasks) /\ queue[<<g, "regular">>] \in Seq(Tasks)
      BY DEF IInv, TypeOK, Queues
    <3>2. Backlog(g, "urgent") \in Nat /\ Backlog(g, "regular") \in Nat
      BY <3>1 DEF Backlog
    <3> QED
      BY <3>2 DEF Queued
  <2>8. /\ Cardinality(Fresh(g) \cup Late(g)) \in Nat /\ Cardinality(Looking(g) \cup Announcing(g)) \in Nat
        /\ Cardinality(Looking(g)) \in Nat /\ Cardinality(Announcing(g)) \in Nat
    BY <2>2, <2>4, <2>5, FS_CardinalityType
  <2> QED
    BY <2>1, <2>4, <2>6, <2>7, <2>8
<1> QED
  BY <1>1, SpecIInv, PTL

=============================================================================
