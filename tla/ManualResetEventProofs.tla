----------------------- MODULE ManualResetEventProofs -----------------------
(***************************************************************************)
(* Proofs about the manual-reset event, for any number of futures,         *)
(* setters, wakers and set() calls: nobody waits behind an open gate, and  *)
(* whoever set() notified is woken.                                        *)
(*                                                                         *)
(* IInv is the mutex discipline.  NobodyPassedBy and WakeInv are inductive *)
(* relative to it: set() and the futures disturb them in a few steps only, *)
(* and each of those has a lemma.                                          *)
(***************************************************************************)
EXTENDS ManualResetEvent, TLAPS

(***************************************************************************)
(* The awaiter queue, as in AutoResetEventProofs: every operation that     *)
(* this event uses preserves QueueInv.                                     *)
(***************************************************************************)

\* A fresh queue.
LEMMA QueueInitInv == QueueInit => QueueInv
  BY AwaiterWakerAssumption DEF QueueInit, QueueInv, QueueTypeOK, Phases

\* register(): the awaiter is appended once, or keeps its place.
LEMMA RegisterInv ==
    ASSUME QueueInv, NEW a \in Awaiters, NEW w \in Wakers, Register(a, w)
    PROVE  QueueInv'
<1> USE DEF Phases
<1>1. QueueTypeOK'
  BY DEF QueueInv, QueueTypeOK, Register
<1>2. CASE phase[a] = "waiting"
  BY <1>1, <1>2 DEF QueueInv, QueueTypeOK, Register
<1>3. CASE phase[a] # "waiting"
  <2>1. queue' = Append(queue, a) /\ queue \in Seq(Awaiters)
    BY <1>3 DEF QueueInv, QueueTypeOK, Register
  <2>2. /\ DOMAIN queue' = DOMAIN queue \cup {Len(queue) + 1}
        /\ \A i \in DOMAIN queue : queue'[i] = queue[i] /\ i # Len(queue) + 1
        /\ queue'[Len(queue) + 1] = a
    BY <2>1
  <2> QED
    BY <1>1, <1>3, <2>2 DEF QueueInv, QueueTypeOK, Register
<1> QED
  BY <1>2, <1>3

\* Taking the i-th element out of a sequence without repetitions loses that
\* element only, and leaves no repetition.
LEMMA WithoutFacts ==
    ASSUME NEW S, NEW s \in Seq(S), NEW i \in DOMAIN s,
           \A j, k \in DOMAIN s : s[j] = s[k] => j = k
    PROVE  /\ Without(s, i) \in Seq(S)
           /\ \A j, k \in DOMAIN Without(s, i) : Without(s, i)[j] = Without(s, i)[k] => j = k
           /\ \A x : (\E j \in DOMAIN Without(s, i) : Without(s, i)[j] = x)
                         <=> x # s[i] /\ \E j \in DOMAIN s : s[j] = x
<1> DEFINE t == Without(s, i)
           from(j) == IF j < i THEN j ELSE j + 1
<1>1. Len(s) \in Nat /\ DOMAIN s = 1 .. Len(s) /\ DOMAIN t = 1 .. (Len(s) - 1)
  BY DEF Without
<1>2. \A j \in DOMAIN t : from(j) \in DOMAIN s \ {i} /\ t[j] = s[from(j)]
  BY <1>1 DEF Without
<1>3. \A j \in DOMAIN s \ {i} : \E k \in DOMAIN t : from(k) = j
  <2> TAKE j \in DOMAIN s \ {i}
  <2>1. CASE j < i
    BY <1>1, <2>1
  <2>2. CASE j > i
    <3>1. j - 1 \in DOMAIN t /\ from(j - 1) = j
      BY <1>1, <2>2
    <3> QED
      BY <3>1
  <2> QED
    BY <1>1, <2>1, <2>2
<1>4. \A j, k \in DOMAIN t : from(j) = from(k) => j = k
  BY <1>1
<1>5. t \in Seq(S)
  <2>1. t = [j \in 1 .. (Len(s) - 1) |-> s[from(j)]] /\ Len(s) - 1 \in Nat
    BY <1>1 DEF Without
  <2> QED
    BY <1>1, <1>2, <2>1
<1> HIDE DEF t, from
<1> QED
  BY <1>2, <1>3, <1>4, <1>5 DEF t

\* Removal from any place: the others keep their order and nobody is lost.
LEMMA LeaveInv ==
    ASSUME QueueInv, NEW a \in Awaiters, NEW p \in Phases \ {"waiting"}, Leave(a, p)
    PROVE  QueueInv' /\ phase[a] = "waiting"
<1>1. PICK i \in DOMAIN queue : queue[i] = a /\ queue' = Without(queue, i)
  BY DEF Leave
<1> DEFINE q == queue'
<1>2. q = Without(queue, i)
  BY <1>1
<1>3. queue \in Seq(Awaiters) /\ \A j, k \in DOMAIN queue : queue[j] = queue[k] => j = k
  BY DEF QueueInv, QueueTypeOK
<1> HIDE DEF q
<1>4. /\ q \in Seq(Awaiters)
      /\ \A j, k \in DOMAIN q : q[j] = q[k] => j = k
      /\ \A b : (\E j \in DOMAIN q : q[j] = b) <=> b # a /\ \E j \in DOMAIN queue : queue[j] = b
  <2>1. /\ Without(queue, i) \in Seq(Awaiters)
        /\ \A j, k \in DOMAIN Without(queue, i) :
               Without(queue, i)[j] = Without(queue, i)[k] => j = k
        /\ \A b : (\E j \in DOMAIN Without(queue, i) : Without(queue, i)[j] = b)
                      <=> b # queue[i] /\ \E j \in DOMAIN queue : queue[j] = b
    BY <1>3, WithoutFacts, Zenon
  <2> QED
    BY <1>1, <1>2, <2>1
<1>5. QueueTypeOK' /\ phase[a] = "waiting"
  BY <1>1, <1>4 DEF Leave, QueueInv, QueueTypeOK, q
<1>6. \A b \in Awaiters : phase'[b] = "waiting" <=> \E j \in DOMAIN q : q[j] = b
  BY <1>4 DEF Leave, QueueInv, QueueTypeOK
<1> QED
  BY <1>4, <1>5, <1>6, AwaiterWakerAssumption DEF Leave, QueueInv, QueueTypeOK, q

\* unregister(), advance_generation() and the awaiter's own transition.
LEMMA UnregisterInv ==
    ASSUME QueueInv, NEW a \in Awaiters, Unregister(a)
    PROVE  QueueInv'
<1>1. CASE phase[a] = "waiting"
  BY <1>1, LeaveInv DEF Unregister, Phases
<1>2. CASE phase[a] # "waiting"
  BY <1>2 DEF Unregister, queueVars, QueueInv, QueueTypeOK
<1> QED
  BY <1>1, <1>2

\* notify_one() and the drain only ever notify an awaiter that is waiting.
LEMMA NotifyOneInv ==
    ASSUME QueueInv, NEW a \in Awaiters, NotifyOne(a) \/ NotifyOnePriorGeneration(a)
    PROVE  QueueInv' /\ phase[a] = "waiting"
  BY LeaveInv DEF NotifyOne, NotifyOnePriorGeneration, Phases

\* advance_generation() changes nobody's place in the queue.
LEMMA AdvanceGenerationInv == QueueInv /\ AdvanceGeneration => QueueInv'
  BY DEF AdvanceGeneration, QueueInv, QueueTypeOK, Waiting

\* take_notification() makes a notified awaiter idle, outside the queue.
LEMMA TakeNotificationInv ==
    ASSUME QueueInv, NEW a \in Awaiters, TakeNotification(a)
    PROVE  QueueInv'
  BY DEF TakeNotification, QueueInv, QueueTypeOK, Phases

(***************************************************************************)
(* The mutex discipline.                                                   *)
(***************************************************************************)

\* A step that leaves the awaiter set alone.
LEMMA SameQueueInv == QueueInv /\ UNCHANGED queueVars => QueueInv'
  BY DEF QueueInv, QueueTypeOK, queueVars

\* The event as it is built.
LEMMA InitIInv == Init => IInv
<1> SUFFICES ASSUME Init PROVE IInv
  OBVIOUS
<1>1. QueueInv /\ QueueTypeOK
  BY QueueInitInv DEF Init, QueueInv
<1>2. \A s \in Setters : s \notin Awaiters
  BY ManualAssumption
<1>3. TypeOK
  BY <1>1, ManualAssumption DEF Init, TypeOK, Procs, SetterPcs, FuturePcs
<1>4. OwnCode
  BY <1>2 DEF Init, OwnCode, Procs, SetterPcs, FuturePcs
<1>5. \A p \in Procs : pc[p] \in {"idle", "new"}
  BY DEF Init, Procs
<1> QED
  BY <1>1, <1>3, <1>4, <1>5
     DEF IInv, MutexHeld, Locked, ClearsOnlyEmpty, FinalIsAnnounced, PollingArmed, GoneIsOut, Procs

\* What the mutex discipline asks of a step of process p from pc[p] to `to`: it
\* takes, keeps or releases the mutex, and disturbs what another holder of the
\* mutex relies on only if there is none.
LEMMA ProcessStep ==
    ASSUME IInv, TypeOK', QueueInv', NEW p \in Procs, NEW to, Goto(p, to),
           IF p \in Setters THEN to \in SetterPcs ELSE to \in FuturePcs,
           \/ lock = {} /\ lock' = {p}
           \/ lock' = lock /\ (to \in Locked => lock = {p})
           \/ lock = {p} /\ lock' = {} /\ to \notin Locked,
           lock \in {{}, {p}} \/ queue' = queue,
           lock = {p} \/ HAS_WAITERS \in state' \/ HAS_WAITERS \notin state,
           to \in {"clear", "drop_clear"} => queue' = <<>>,
           to = "final" => HAS_WAITERS \in state',
           to \in {"take", "poll_lock", "recheck", "announce", "final"} => armed'[p] \in Wakers,
           to \in {"gone", "drop_clear"} => p \in Setters \/ phase'[p] # "waiting",
           \A f \in Awaiters : f # p =>
               armed'[f] = armed[f] /\ (phase'[f] = "waiting" => phase[f] = "waiting")
    PROVE  IInv'
<1>1. pc'[p] = to /\ \A q \in Procs : q # p => pc'[q] = pc[q]
  BY DEF Goto, IInv, TypeOK
<1>2. \A q \in Procs : q # p /\ pc[q] \in Locked => lock = {q} /\ lock' = lock
  BY DEF IInv, MutexHeld
<1>3. OwnCode'
  BY <1>1, ManualAssumption DEF IInv, OwnCode, Procs
<1>4. MutexHeld'
  BY <1>1, <1>2 DEF MutexHeld
<1>5. ClearsOnlyEmpty'
  BY <1>1, <1>2 DEF IInv, ClearsOnlyEmpty, Locked
<1>6. FinalIsAnnounced'
  BY <1>1, <1>2 DEF IInv, FinalIsAnnounced, Locked, Procs
<1>7. PollingArmed'
  BY <1>1 DEF IInv, PollingArmed, Procs
<1>8. GoneIsOut'
  BY <1>1, ManualAssumption DEF IInv, GoneIsOut, Procs
<1> QED
  BY <1>3, <1>4, <1>5, <1>6, <1>7, <1>8 DEF IInv

----------------------------------------------------------------------------
(* set() *)

\* set() outside the awaiter set.
LEMMA SetterQuietInv ==
    ASSUME IInv, NEW s \in Setters, SetOr(s) \/ SetClear(s) \/ SetWake(s)
    PROVE  IInv'
<1> USE ManualAssumption
<1>1. s \in Procs /\ s \notin Awaiters
  BY DEF Procs
<1>2. UNCHANGED queueVars /\ QueueInv'
  BY SameQueueInv DEF IInv, SetOr, SetClear, SetWake
<1>3. TypeOK'
  <2> USE <1>1, <1>2 DEF IInv, TypeOK, QueueInv, Goto, SetterPcs, Procs
  <2>1. CASE SetOr(s)
    <3>1. sets + 1 \in 0 .. MaxSets
      BY <2>1 DEF SetOr
    <3> QED
      BY <2>1, <3>1 DEF SetOr
  <2>2. CASE SetClear(s)
    BY <2>2 DEF SetClear, ClearHasWaiters, ReturnOrWake
  <2>3. CASE SetWake(s)
    BY <2>3 DEF SetWake
  <2> QED
    BY <2>1, <2>2, <2>3
<1>4. lock = {s} \/ HAS_WAITERS \in state' \/ HAS_WAITERS \notin state
  BY <1>1 DEF SetOr, SetClear, SetWake, IInv, MutexHeld, Locked
<1>5. UNCHANGED <<queue, phase, armed>>
  BY <1>2 DEF queueVars, SetOr, SetClear, SetWake
<1>6. CASE SetOr(s)
  <2>1. PICK to \in {"advance", "idle"} : Goto(s, to)
    BY <1>6 DEF SetOr
  <2> QED
    BY <1>1, <1>2, <1>3, <1>4, <1>5, <1>6, <2>1, ProcessStep DEF SetOr, Locked, SetterPcs
<1>7. CASE SetClear(s)
  <2>1. PICK to \in {"wake", "idle"} : Goto(s, to)
    BY <1>7 DEF SetClear, ReturnOrWake
  <2>2. lock = {s} /\ lock' = {}
    BY <1>1, <1>7 DEF SetClear, IInv, MutexHeld, Locked
  <2> QED
    BY <1>1, <1>2, <1>3, <1>4, <1>5, <2>1, <2>2, ProcessStep DEF Locked, SetterPcs
<1>8. CASE SetWake(s)
  BY <1>1, <1>2, <1>3, <1>4, <1>5, <1>8, ProcessStep DEF SetWake, Locked, SetterPcs
<1> QED
  BY <1>6, <1>7, <1>8

\* set() opens a new generation.
LEMMA SetAdvanceInv ==
    ASSUME IInv, NEW s \in Setters, SetAdvance(s)
    PROVE  IInv'
<1> USE ManualAssumption
<1>1. s \in Procs /\ s \notin Awaiters
  BY DEF Procs
<1>2. QueueInv'
  BY AdvanceGenerationInv DEF IInv, SetAdvance
<1>3. TypeOK'
  BY <1>1, <1>2 DEF IInv, TypeOK, QueueInv, SetAdvance, Goto, SetterPcs, Procs
<1> QED
  BY <1>1, <1>2, <1>3, ProcessStep DEF SetAdvance, AdvanceGeneration, Locked, SetterPcs, Free

\* What one round of the drain does to the awaiter set.
LEMMA SetDrainEffect ==
    ASSUME IInv, NEW s \in Setters, SetDrain(s)
    PROVE  /\ QueueInv' /\ hand' \in [Setters -> SUBSET (Awaiters \X Wakers)]
           /\ \A f \in Awaiters : phase'[f] = "waiting" => phase[f] = "waiting"
           /\ \/ \E a \in Awaiters : /\ NotifyOnePriorGeneration(a) /\ phase[a] = "waiting"
                                     /\ hand' = [hand EXCEPT ![s] = {<<a, stored[a]>>}]
              \/ ~HasPrior /\ UNCHANGED <<queueVars, hand>>
           /\ \E to \in {"clear", "idle", "wake"} :
                 /\ Goto(s, to)
                 /\ IF to = "clear" THEN lock' = {s} /\ queue' = <<>>
                                    ELSE lock' = lock /\ queue' # <<>>
                 /\ to = "idle" <=> (queue' # <<>> /\ hand'[s] = {})
<1>1. /\ \E to \in {"clear", "idle", "wake"} :
            /\ Goto(s, to)
            /\ IF to = "clear" THEN lock' = {s} /\ queue' = <<>>
                               ELSE lock' = lock /\ queue' # <<>>
            /\ to = "idle" <=> (queue' # <<>> /\ hand'[s] = {})
  BY DEF SetDrain, ReturnOrWake
<1>2. CASE ~HasPrior /\ UNCHANGED <<queueVars, hand>>
  <2>1. QueueInv' /\ phase' = phase /\ hand' = hand
    BY <1>2, SameQueueInv DEF IInv, queueVars
  <2> QED
    BY <1>1, <1>2, <2>1 DEF IInv, TypeOK
<1>3. ASSUME NEW a \in Awaiters, NotifyOnePriorGeneration(a),
             hand' = [hand EXCEPT ![s] = {<<a, stored[a]>>}]
      PROVE  /\ QueueInv' /\ hand' \in [Setters -> SUBSET (Awaiters \X Wakers)]
             /\ phase[a] = "waiting"
             /\ \A f \in Awaiters : phase'[f] = "waiting" => phase[f] = "waiting"
  <2>1. QueueInv' /\ phase[a] = "waiting"
    BY <1>3, NotifyOneInv DEF IInv
  <2>2. stored[a] \in Wakers
    BY <2>1 DEF IInv, QueueInv
  <2>3. hand' \in [Setters -> SUBSET (Awaiters \X Wakers)]
    BY <1>3, <2>2 DEF IInv, TypeOK
  <2>4. phase' = [phase EXCEPT ![a] = "notified"]
    BY <1>3 DEF NotifyOnePriorGeneration, Leave
  <2> QED
    BY <2>1, <2>3, <2>4 DEF IInv, TypeOK, QueueTypeOK
<1> QED
  BY <1>1, <1>2, <1>3 DEF SetDrain

\* One round of the drain.
LEMMA SetDrainInv ==
    ASSUME IInv, NEW s \in Setters, SetDrain(s)
    PROVE  IInv'
<1> USE ManualAssumption
<1>1. s \in Procs /\ s \notin Awaiters
  BY DEF Procs
<1>2. PICK to \in {"clear", "idle", "wake"} :
         /\ Goto(s, to)
         /\ IF to = "clear" THEN lock' = {s} /\ queue' = <<>> ELSE lock' = lock
  BY SetDrainEffect
<1>3. /\ QueueInv' /\ hand' \in [Setters -> SUBSET (Awaiters \X Wakers)]
      /\ \A f \in Awaiters : phase'[f] = "waiting" => phase[f] = "waiting"
  BY SetDrainEffect
<1>4. TypeOK'
  BY <1>1, <1>2, <1>3 DEF IInv, TypeOK, QueueInv, SetDrain, Goto, SetterPcs, Procs
<1> QED
  BY <1>1, <1>2, <1>3, <1>4, ProcessStep DEF SetDrain, Locked, SetterPcs, Free

----------------------------------------------------------------------------
(* The wait future. *)

\* wait() makes a new future in place of one that is gone.
LEMMA WaitInv ==
    ASSUME IInv, NEW f \in Awaiters, Wait(f)
    PROVE  IInv'
<1>1. f \in Procs /\ f \notin Setters
  BY ManualAssumption DEF Procs
<1>2. QueueInv'
  BY DEF IInv, GoneIsOut, Wait, QueueInv, QueueTypeOK, Phases
<1>3. TypeOK'
  BY <1>1, <1>2 DEF IInv, TypeOK, QueueInv, Wait, Goto, FuturePcs, Procs
<1>4. \A g \in Awaiters : g # f =>
          armed'[g] = armed[g] /\ (phase'[g] = "waiting" => phase[g] = "waiting")
  BY DEF Wait, IInv, TypeOK, QueueTypeOK
<1> QED
  BY <1>1, <1>2, <1>3, <1>4, ProcessStep DEF Wait, Locked, FuturePcs

\* A poll begins, with some waker.
LEMMA PollStartInv ==
    ASSUME IInv, NEW f \in Awaiters, NEW w \in Wakers, PollStart(f, w)
    PROVE  IInv'
<1>1. f \in Procs /\ f \notin Setters
  BY ManualAssumption DEF Procs
<1>2. QueueInv' /\ UNCHANGED queueVars
  BY SameQueueInv DEF IInv, PollStart
<1>3. TypeOK'
  BY <1>1, <1>2 DEF IInv, TypeOK, QueueInv, PollStart, Goto, FuturePcs, Procs
<1>4. armed'[f] \in Wakers /\ \A g \in Awaiters : g # f => armed'[g] = armed[g]
  BY DEF PollStart, IInv, TypeOK
<1>5. PICK to \in {"ready", "take"} : Goto(f, to)
  BY DEF PollStart
<1> QED
  BY <1>1, <1>2, <1>3, <1>4, <1>5, ProcessStep DEF PollStart, queueVars, Locked, FuturePcs

\* poll_wait() accepts its notification, or goes for the mutex.
LEMMA PollTakeInv ==
    ASSUME IInv, NEW f \in Awaiters, PollTake(f) \/ PollLock(f)
    PROVE  IInv'
<1>1. f \in Procs /\ f \notin Setters
  BY ManualAssumption DEF Procs
<1>2. QueueInv'
  BY SameQueueInv, TakeNotificationInv DEF IInv, PollTake, PollLock
<1>3. TypeOK'
  BY <1>1, <1>2 DEF IInv, TypeOK, QueueInv, PollTake, PollLock, Goto, FuturePcs, Procs
<1>4. /\ UNCHANGED <<queue, state, armed>> /\ armed[f] \in Wakers
      /\ \A g \in Awaiters : phase'[g] = "waiting" => phase[g] = "waiting"
  BY DEF PollTake, PollLock, TakeNotification, queueVars, IInv, TypeOK, QueueTypeOK, PollingArmed
<1>5. \/ lock' = lock /\ (Goto(f, "ready") \/ Goto(f, "poll_lock"))
      \/ lock = {} /\ lock' = {f} /\ Goto(f, "recheck")
  BY DEF PollTake, PollLock, Free
<1> QED
  BY <1>1, <1>2, <1>3, <1>4, <1>5, ProcessStep DEF Locked, FuturePcs

\* The steps of a future inside the mutex, and those after it, that leave the
\* awaiter set alone.
LEMMA FutureQuietInv ==
    ASSUME IInv, NEW f \in Awaiters,
           PollRecheck(f) \/ PollAnnounce(f) \/ PollRetract(f) \/ DropStart(f) \/ DropClear(f)
    PROVE  IInv'
<1>1. f \in Procs /\ f \notin Setters
  BY ManualAssumption DEF Procs
<1>2. QueueInv' /\ UNCHANGED queueVars
  BY SameQueueInv DEF IInv, PollRecheck, PollAnnounce, PollRetract, DropStart, DropClear
<1>3. TypeOK'
  <2> USE <1>1, <1>2 DEF IInv, TypeOK, QueueInv, Goto, FuturePcs, Procs, ClearHasWaiters
  <2>1. CASE PollRecheck(f) \/ PollAnnounce(f)
    BY <2>1 DEF PollRecheck, PollAnnounce
  <2>2. CASE PollRetract(f) \/ DropStart(f) \/ DropClear(f)
    BY <2>2 DEF PollRetract, DropStart, DropClear
  <2> QED
    BY <2>1, <2>2
<1>4. UNCHANGED <<queue, phase, armed>>
  BY <1>2 DEF queueVars, PollRecheck, PollAnnounce, PollRetract, DropStart, DropClear
<1>5. CASE PollRecheck(f) \/ PollAnnounce(f) \/ PollRetract(f) \/ DropClear(f)
  <2>1. lock = {f}
    BY <1>1, <1>5
       DEF IInv, MutexHeld, Locked, PollRecheck, PollAnnounce, PollRetract, DropClear
  <2>2. CASE PollRecheck(f)
    <3>1. PICK to \in {"ready", "announce"} :
             Goto(f, to) /\ lock' = IF to = "ready" THEN {} ELSE lock
      BY <2>2 DEF PollRecheck
    <3>2. armed[f] \in Wakers
      BY <2>2 DEF PollRecheck, IInv, PollingArmed
    <3> QED
      BY <1>1, <1>2, <1>3, <1>4, <2>1, <3>1, <3>2, ProcessStep DEF Locked, FuturePcs
  <2>3. CASE PollAnnounce(f)
    <3>1. armed[f] \in Wakers /\ HAS_WAITERS \in state'
      BY <2>3 DEF PollAnnounce, IInv, PollingArmed
    <3> QED
      BY <1>1, <1>2, <1>3, <1>4, <2>1, <2>3, <3>1, ProcessStep DEF PollAnnounce, Locked, FuturePcs
  <2>4. CASE PollRetract(f)
    BY <1>1, <1>2, <1>3, <1>4, <2>1, <2>4, ProcessStep DEF PollRetract, Locked, FuturePcs
  <2>5. CASE DropClear(f)
    <3>1. phase[f] # "waiting"
      BY <2>5 DEF DropClear, IInv, GoneIsOut
    <3> QED
      BY <1>1, <1>2, <1>3, <1>4, <2>1, <2>5, <3>1, ProcessStep DEF DropClear, Locked, FuturePcs
  <2> QED
    BY <1>5, <2>2, <2>3, <2>4, <2>5
<1>6. CASE DropStart(f)
  <2>1. PICK to \in {"gone", "drop_lock"} : Goto(f, to) /\ (to = "gone" => phase[f] = "idle")
    BY <1>6 DEF DropStart
  <2> QED
    BY <1>1, <1>2, <1>3, <1>4, <1>6, <2>1, ProcessStep DEF DropStart, Locked, FuturePcs
<1> QED
  BY <1>5, <1>6

\* poll_wait() sees the gate open, or registers.
LEMMA PollFinalInv ==
    ASSUME IInv, NEW f \in Awaiters, PollFinal(f)
    PROVE  IInv'
<1>1. f \in Procs /\ f \notin Setters
  BY ManualAssumption DEF Procs
<1>2. lock = {f} /\ armed[f] \in Wakers /\ UNCHANGED <<state, armed>>
  BY <1>1 DEF PollFinal, IInv, MutexHeld, Locked, PollingArmed
<1>3. QueueInv'
  BY <1>2, SameQueueInv, RegisterInv DEF IInv, PollFinal
<1>4. TypeOK'
  BY <1>1, <1>3 DEF IInv, TypeOK, QueueInv, PollFinal, Goto, FuturePcs, Procs
<1>5. \A g \in Awaiters : g # f => phase'[g] = phase[g]
  BY DEF PollFinal, Register, queueVars, IInv, TypeOK, QueueTypeOK
<1>6. PICK to \in {"retract", "pending"} :
         Goto(f, to) /\ lock' = IF to = "retract" THEN lock ELSE {}
  BY DEF PollFinal
<1> QED
  BY <1>1, <1>2, <1>3, <1>4, <1>5, <1>6, ProcessStep DEF Locked, FuturePcs

\* drop_wait() leaves the set.
LEMMA DropLockInv ==
    ASSUME IInv, NEW f \in Awaiters, DropLock(f)
    PROVE  IInv'
<1>1. f \in Procs /\ f \notin Setters
  BY ManualAssumption DEF Procs
<1>2. QueueInv'
  BY UnregisterInv DEF IInv, DropLock
<1>3. TypeOK'
  BY <1>1, <1>2 DEF IInv, TypeOK, QueueInv, DropLock, Goto, FuturePcs, Procs
<1>4. \A g \in Awaiters : phase'[g] = "waiting" => phase[g] = "waiting" /\ g # f
  <2>1. CASE phase[f] = "waiting"
    BY <2>1 DEF DropLock, Unregister, Leave, IInv, TypeOK, QueueTypeOK
  <2>2. CASE phase[f] # "waiting"
    BY <2>2 DEF DropLock, Unregister, queueVars
  <2> QED
    BY <2>1, <2>2
<1>5. PICK to \in {"drop_clear", "gone"} :
         /\ Goto(f, to)
         /\ IF to = "drop_clear" THEN lock' = {f} /\ queue' = <<>> ELSE lock' = lock
  BY DEF DropLock
<1> QED
  BY <1>1, <1>2, <1>3, <1>4, <1>5, ProcessStep DEF DropLock, Locked, FuturePcs, Free

\* reset(), and the steps of nobody.
LEMMA ResetInv == IInv /\ (Reset \/ UNCHANGED vars) => IInv'
<1> SUFFICES ASSUME IInv, Reset \/ UNCHANGED vars PROVE IInv'
  OBVIOUS
<1>1. UNCHANGED <<queueVars, eventVars>> /\ state' \subseteq state
      /\ (HAS_WAITERS \in state => HAS_WAITERS \in state')
  BY DEF Reset, vars, IS_SET, HAS_WAITERS
<1>2. QueueInv'
  BY <1>1, SameQueueInv DEF IInv
<1> QED
  BY <1>1, <1>2
     DEF queueVars, eventVars, IInv, TypeOK, QueueInv, OwnCode, MutexHeld, ClearsOnlyEmpty,
         FinalIsAnnounced, PollingArmed, GoneIsOut

\* Every step preserves the mutex discipline.
LEMMA NextIInv == IInv /\ [Next]_vars => IInv'
<1> SUFFICES ASSUME IInv, [Next]_vars PROVE IInv'
  OBVIOUS
<1>1. CASE Reset \/ UNCHANGED vars
  BY <1>1, ResetInv
<1>2. ASSUME NEW s \in Setters, SetOr(s) \/ SetterStep(s) PROVE IInv'
  BY <1>2, SetterQuietInv, SetAdvanceInv, SetDrainInv DEF SetterStep
<1>3. ASSUME NEW f \in Awaiters, Wait(f) \/ DropStart(f) \/ FutureStep(f) PROVE IInv'
  BY <1>3, WaitInv, PollTakeInv, FutureQuietInv, PollFinalInv, DropLockInv DEF FutureStep
<1>4. ASSUME NEW f \in Awaiters, NEW w \in Wakers, PollStart(f, w) PROVE IInv'
  BY <1>4, PollStartInv
<1> QED
  BY <1>1, <1>2, <1>3, <1>4 DEF Next

----------------------------------------------------------------------------
(* Nobody waits behind an open gate. *)

\* Whoever leaves takes neither an awaiter in nor one of a prior generation out.
LEMMA LeaveShrinks ==
    ASSUME QueueInv, NEW a \in Awaiters, NEW p, Leave(a, p)
    PROVE  /\ Waiting' \subseteq Waiting \ {a} /\ prior' = prior \ {a}
           /\ a \in Waiting /\ queue # <<>>
<1>1. PICK i \in DOMAIN queue : queue[i] = a /\ queue' = Without(queue, i)
  BY DEF Leave
<1>2. queue \in Seq(Awaiters) /\ \A j, k \in DOMAIN queue : queue[j] = queue[k] => j = k
  BY DEF QueueInv, QueueTypeOK
<1>3. \A b : (\E j \in DOMAIN Without(queue, i) : Without(queue, i)[j] = b)
                <=> b # queue[i] /\ \E j \in DOMAIN queue : queue[j] = b
  BY <1>2, WithoutFacts, Zenon
<1>4. Waiting' \subseteq Waiting \ {a} /\ a \in Waiting
  BY <1>1, <1>3 DEF Waiting
<1> QED
  BY <1>1, <1>2, <1>4 DEF Leave

\* A step that lets nobody in, opens no gate, keeps HAS_WAITERS and sends no poll
\* to its retreat leaves everybody to the set() that was going to release them.
LEMMA StillReleased ==
    ASSUME NobodyPassedBy, Waiting' \subseteq Waiting, queue' # <<>> => queue # <<>>,
           \A a \in Waiting' : a \in prior => a \in prior',
           IsSet' => IsSet, HAS_WAITERS \in state => HAS_WAITERS \in state',
           \A f \in Awaiters : pc'[f] = "retract" => pc[f] = "retract" \/ IsSet,
           \A s \in Setters : pc[s] \in {"advance", "drain", "wake"} => pc'[s] = pc[s]
    PROVE  NobodyPassedBy'
  BY DEF NobodyPassedBy, Releasing

\* set(): from the moment the gate is open it is on its way to whoever waits.
LEMMA SetterPassesNobody ==
    ASSUME IInv, NobodyPassedBy, NEW s \in Setters, SetOr(s) \/ SetterStep(s)
    PROVE  NobodyPassedBy'
<1> USE ManualAssumption
<1>1. /\ s \in Procs /\ \A to : Goto(s, to) => pc'[s] = to
      /\ \A p \in Procs : p # s => pc'[p] = pc[p]
  BY DEF SetOr, SetterStep, SetAdvance, SetDrain, SetClear, SetWake, ReturnOrWake, Goto,
         IInv, TypeOK, Procs
<1>2. /\ \A t \in Setters : t # s => pc'[t] = pc[t]
      /\ \A f \in Awaiters : pc'[f] = pc[f]
  BY <1>1 DEF Procs
<1>3. CASE SetOr(s)
  <2>1. UNCHANGED <<queue, prior>> /\ Waiting' = Waiting
    BY <1>3 DEF SetOr, queueVars, Waiting
  <2>2. CASE HAS_WAITERS \in state
    BY <1>1, <1>3, <2>2 DEF SetOr, NobodyPassedBy, Releasing
  <2>3. CASE HAS_WAITERS \notin state /\ queue # <<>>
    BY <1>2, <1>3, <2>1, <2>3 DEF SetOr, NobodyPassedBy, Releasing
  <2> QED
    BY <2>1, <2>2, <2>3 DEF NobodyPassedBy
<1>4. CASE SetAdvance(s)
  BY <1>1, <1>4 DEF SetAdvance, AdvanceGeneration, NobodyPassedBy, Releasing, Waiting
<1>5. CASE SetDrain(s)
  <2>1. /\ \/ \E a \in Awaiters : NotifyOnePriorGeneration(a)
           \/ ~HasPrior /\ UNCHANGED queueVars
        /\ queue' # <<>> /\ HasPrior => pc'[s] = "wake"
        /\ state' = state /\ pc[s] = "drain"
    <3>1. \A a \in Awaiters : hand' = [hand EXCEPT ![s] = {<<a, stored[a]>>}] => hand'[s] # {}
      BY DEF IInv, TypeOK
    <3> QED
      BY <1>1, <1>5, <3>1 DEF SetDrain, ReturnOrWake
  <2>2. Waiting' \subseteq Waiting /\ (\A a \in Waiting' : a \in prior => a \in prior')
        /\ (queue' # <<>> => queue # <<>>)
    <3>1. CASE \E a \in Awaiters : NotifyOnePriorGeneration(a)
      BY <3>1, LeaveShrinks DEF NotifyOnePriorGeneration, IInv
    <3> QED
      BY <2>1, <3>1 DEF queueVars, Waiting
  <2>3. queue # <<>> => queue[1] \in Waiting
    BY DEF IInv, QueueInv, QueueTypeOK, Waiting
  <2>4. Releasing(s) /\ queue' # <<>> => Releasing(s)'
    BY <2>1, <2>2, <2>3 DEF Releasing, HasPrior
  <2>5. \A t \in Setters : t # s /\ Releasing(t) => Releasing(t)'
    BY <1>2, <2>2 DEF Releasing
  <2> QED
    BY <1>2, <2>1, <2>2, <2>4, <2>5 DEF NobodyPassedBy, IsSet
<1>6. CASE SetClear(s)
  <2>1. queue' = <<>>
    BY <1>1, <1>6 DEF SetClear, IInv, ClearsOnlyEmpty, queueVars
  <2> QED
    BY <2>1 DEF NobodyPassedBy
<1>7. CASE SetWake(s)
  <2>1. UNCHANGED <<queue, prior, state>> /\ Waiting' = Waiting
    BY <1>7 DEF SetWake, queueVars, Waiting
  <2>2. \A t \in Setters : Releasing(t) => Releasing(t)'
    BY <1>1, <1>2, <1>7, <2>1 DEF SetWake, Releasing
  <2> QED
    BY <1>2, <2>1, <2>2 DEF NobodyPassedBy, IsSet
<1> QED
  BY <1>3, <1>4, <1>5, <1>6, <1>7 DEF SetterStep

\* The wait future: it registers only behind a closed gate and announced.
LEMMA FuturePassesNobody ==
    ASSUME IInv, IInv', NobodyPassedBy, NEW f \in Awaiters,
           \/ Wait(f) \/ DropStart(f) \/ FutureStep(f)
           \/ \E w \in Wakers : PollStart(f, w)
    PROVE  NobodyPassedBy'
<1> USE ManualAssumption
<1>1. /\ f \in Procs /\ \A to : Goto(f, to) => pc'[f] = to
      /\ \A p \in Procs : p # f => pc'[p] = pc[p]
  BY DEF Wait, DropStart, FutureStep, PollStart, PollTake, PollLock, PollRecheck, PollAnnounce,
         PollFinal, PollRetract, DropLock, DropClear, Goto, IInv, TypeOK, Procs
<1>2. /\ \A s \in Setters : pc'[s] = pc[s]
      /\ \A g \in Awaiters : g # f => pc'[g] = pc[g]
  BY <1>1 DEF Procs
<1>3. CASE PollFinal(f) /\ ~IsSet
  <2>1. HAS_WAITERS \in state' /\ ~IsSet'
    BY <1>3 DEF PollFinal, IInv, FinalIsAnnounced, IsSet
  <2>2. \A g \in Awaiters : pc'[g] # "retract"
    <3>1. lock = {f} /\ pc'[f] = "pending"
      BY <1>1, <1>3 DEF PollFinal, IInv, MutexHeld, Locked
    <3>2. \A g \in Awaiters : g # f => pc[g] # "retract"
      BY <3>1 DEF IInv, MutexHeld, Locked, Procs
    <3> QED
      BY <1>2, <3>1, <3>2
  <2> QED
    BY <2>1, <2>2 DEF NobodyPassedBy
<1>4. CASE DropClear(f)
  BY <1>4 DEF DropClear, IInv, ClearsOnlyEmpty, queueVars, NobodyPassedBy, Procs
<1>5. CASE PollRetract(f)
  <2>1. UNCHANGED <<queue, prior>> /\ Waiting' = Waiting /\ pc[f] = "retract"
    BY <1>5 DEF PollRetract, queueVars, Waiting
  <2> QED
    BY <1>2, <2>1 DEF NobodyPassedBy, Releasing
<1>6. CASE DropLock(f)
  <2>1. Waiting' \subseteq Waiting /\ (\A a \in Waiting' : a \in prior => a \in prior')
        /\ (queue' # <<>> => queue # <<>>)
    <3>1. CASE phase[f] = "waiting"
      BY <1>6, <3>1, LeaveShrinks DEF DropLock, Unregister, IInv
    <3>2. CASE phase[f] # "waiting"
      BY <1>6, <3>2 DEF DropLock, Unregister, queueVars, Waiting
    <3> QED
      BY <3>1, <3>2
  <2>2. state' = state /\ pc'[f] # "retract"
    BY <1>1, <1>6 DEF DropLock
  <2> QED
    BY <1>2, <2>1, <2>2, StillReleased DEF IsSet
<1>7. ASSUME \/ Wait(f) \/ DropStart(f) \/ PollTake(f) \/ PollLock(f) \/ PollRecheck(f)
             \/ PollAnnounce(f) \/ (PollFinal(f) /\ IsSet)
             \/ \E w \in Wakers : PollStart(f, w)
      PROVE  NobodyPassedBy'
  <2>1. UNCHANGED <<queue, prior>> /\ Waiting' = Waiting
    BY <1>7
       DEF Wait, DropStart, PollTake, PollLock, PollRecheck, PollAnnounce, PollFinal, PollStart,
           TakeNotification, queueVars, Waiting
  <2>2. (IsSet' => IsSet) /\ (HAS_WAITERS \in state => HAS_WAITERS \in state')
    BY <1>7
       DEF Wait, DropStart, PollTake, PollLock, PollRecheck, PollAnnounce, PollFinal, PollStart,
           IsSet, IS_SET, HAS_WAITERS
  <2>3. pc'[f] = "retract" => IsSet
    BY <1>1, <1>7 DEF Wait, DropStart, PollTake, PollLock, PollRecheck, PollAnnounce, PollFinal,
           PollStart
  <2> QED
    BY <1>2, <2>1, <2>2, <2>3, StillReleased
<1> QED
  BY <1>3, <1>4, <1>5, <1>6, <1>7 DEF FutureStep

\* Both invariants hold in every behaviour of the event, for any number of
\* setters and of wait futures.
THEOREM SpecNobodyPassedBy == Spec => [](IInv /\ NobodyPassedBy)
<1>1. Init => IInv /\ NobodyPassedBy
  BY InitIInv DEF Init, QueueInit, NobodyPassedBy
<1>2. IInv /\ NobodyPassedBy /\ [Next]_vars => (IInv /\ NobodyPassedBy)'
  <2> SUFFICES ASSUME IInv, NobodyPassedBy, [Next]_vars PROVE IInv' /\ NobodyPassedBy'
    OBVIOUS
  <2>1. IInv'
    BY NextIInv
  <2>2. CASE Reset \/ UNCHANGED vars
    <3>1. UNCHANGED <<queue, prior, pc>> /\ (IsSet' => IsSet)
          /\ (HAS_WAITERS \in state => HAS_WAITERS \in state') /\ Waiting' = Waiting
      BY <2>2 DEF Reset, vars, eventVars, queueVars, IsSet, IS_SET, HAS_WAITERS, Waiting
    <3> QED
      BY <2>1, <3>1, StillReleased
  <2>3. ASSUME NEW s \in Setters, SetOr(s) \/ SetterStep(s) PROVE NobodyPassedBy'
    BY <2>3, SetterPassesNobody
  <2>4. ASSUME NEW f \in Awaiters,
               \/ Wait(f) \/ DropStart(f) \/ FutureStep(f)
               \/ \E w \in Wakers : PollStart(f, w)
        PROVE  NobodyPassedBy'
    BY <2>1, <2>4, FuturePassesNobody
  <2> QED
    BY <2>1, <2>2, <2>3, <2>4 DEF Next
<1> QED
  BY <1>1, <1>2, PTL DEF Spec

\* Registered waiters that HAS_WAITERS does not show belong to a set() that has
\* seen it and is about to release them: the lock-free path of set() loses nobody.
THEOREM SetPassesNobodyBy == Spec => []WaitersCovered
<1>1. NobodyPassedBy => WaitersCovered
  BY DEF NobodyPassedBy, WaitersCovered
<1> QED
  BY <1>1, SpecNobodyPassedBy, PTL

\* With the gate open and no set() under way nobody is registered.
THEOREM OpenGateIsEmpty == Spec => []OpenGateHoldsNobody
<1>1. NobodyPassedBy => OpenGateHoldsNobody
  BY DEF NobodyPassedBy, OpenGateHoldsNobody, Releasing
<1> QED
  BY <1>1, SpecNobodyPassedBy, PTL

----------------------------------------------------------------------------
(* Whoever was notified is woken. *)

\* set() hands on the waker the awaiter it notifies was registered with.
LEMMA SetterWakes ==
    ASSUME IInv, WakeInv, NEW s \in Setters, SetOr(s) \/ SetterStep(s)
    PROVE  WakeInv'
<1> USE ManualAssumption
<1>1. /\ s \in Procs /\ \A to : Goto(s, to) => pc'[s] = to
      /\ \A p \in Procs : p # s => pc'[p] = pc[p]
  BY DEF SetOr, SetterStep, SetAdvance, SetDrain, SetClear, SetWake, ReturnOrWake, Goto,
         IInv, TypeOK, Procs
<1>2. /\ \A t \in Setters : t # s => pc'[t] = pc[t]
      /\ \A f \in Awaiters : pc'[f] = pc[f]
      /\ armed' = armed
  BY <1>1 DEF Procs, SetOr, SetterStep, SetAdvance, SetDrain, SetClear, SetWake
<1>3. CASE SetOr(s) \/ SetAdvance(s) \/ SetClear(s)
  <2>1. UNCHANGED <<phase, stored, hand, woken>>
    BY <1>3 DEF SetOr, SetAdvance, AdvanceGeneration, SetClear, queueVars
  <2>2. pc'[s] \notin {"clear", "wake"} => hand[s] = {}
    BY <1>1, <1>3 DEF SetOr, SetAdvance, SetClear, ReturnOrWake, WakeInv, HandsEmpty
  <2>3. RegisteredArmed'
    BY <1>2, <2>1 DEF WakeInv, RegisteredArmed
  <2>4. HandsEmpty'
    BY <1>2, <2>1, <2>2 DEF WakeInv, HandsEmpty
  <2>5. NotifiedIsWoken'
    BY <1>2, <2>1 DEF WakeInv, NotifiedIsWoken
  <2> QED
    BY <2>3, <2>4, <2>5 DEF WakeInv
<1>4. CASE SetWake(s)
  <2>1. /\ UNCHANGED <<phase, stored>> /\ pc[s] = "wake" /\ hand'[s] = {}
        /\ woken' = woken \cup {f \in Awaiters : <<f, armed[f]>> \in hand[s]}
        /\ \A t \in Setters : t # s => hand'[t] = hand[t]
    BY <1>4 DEF SetWake, queueVars, IInv, TypeOK
  <2>2. RegisteredArmed'
    BY <1>2, <2>1 DEF WakeInv, RegisteredArmed
  <2>3. HandsEmpty'
    BY <1>2, <2>1 DEF WakeInv, HandsEmpty
  <2>4. NotifiedIsWoken'
    <3> SUFFICES ASSUME NEW f \in Awaiters, pc'[f] = "pending", phase'[f] = "notified"
                 PROVE  f \in woken' \/ \E t \in Setters : <<f, armed'[f]>> \in hand'[t]
      BY DEF NotifiedIsWoken
    <3>1. CASE f \in woken
      BY <2>1, <3>1
    <3>2. ASSUME NEW t \in Setters, <<f, armed[f]>> \in hand[t]
          PROVE  f \in woken' \/ <<f, armed'[f]>> \in hand'[t]
      BY <1>2, <2>1, <3>2
    <3> QED
      BY <1>2, <2>1, <3>1, <3>2 DEF WakeInv, NotifiedIsWoken
  <2> QED
    BY <2>2, <2>3, <2>4 DEF WakeInv
<1>5. CASE SetDrain(s)
  <2>1. woken' = woken /\ hand[s] = {}
    BY <1>5 DEF SetDrain, WakeInv, HandsEmpty
  <2>2. CASE ~HasPrior /\ UNCHANGED <<queueVars, hand>>
    <3>1. UNCHANGED <<phase, stored, hand>>
      BY <2>2 DEF queueVars
    <3>2. HandsEmpty'
      BY <1>2, <2>1, <3>1 DEF WakeInv, HandsEmpty
    <3>3. RegisteredArmed' /\ NotifiedIsWoken'
      BY <1>2, <2>1, <3>1 DEF WakeInv, RegisteredArmed, NotifiedIsWoken
    <3> QED
      BY <3>2, <3>3 DEF WakeInv
  <2>3. ASSUME NEW a \in Awaiters, NotifyOnePriorGeneration(a), phase[a] = "waiting",
               hand' = [hand EXCEPT ![s] = {<<a, stored[a]>>}]
        PROVE  WakeInv'
    <3>1. /\ hand'[s] = {<<a, stored[a]>>} /\ \A t \in Setters : t # s => hand'[t] = hand[t]
          /\ phase'[a] = "notified"
          /\ \A f \in Awaiters : f # a => phase'[f] = phase[f] /\ stored'[f] = stored[f]
      BY <2>3 DEF NotifyOnePriorGeneration, Leave, IInv, TypeOK, QueueTypeOK
    <3>2. HandsEmpty'
      <4>1. pc'[s] \in {"clear", "wake"}
        BY <1>1, <1>5, <3>1 DEF SetDrain, ReturnOrWake
      <4> QED
        BY <1>2, <3>1, <4>1 DEF WakeInv, HandsEmpty
    <3>3. RegisteredArmed'
      BY <1>2, <3>1 DEF WakeInv, RegisteredArmed
    <3>4. NotifiedIsWoken'
      <4> SUFFICES ASSUME NEW f \in Awaiters, pc'[f] = "pending", phase'[f] = "notified"
                   PROVE  f \in woken' \/ \E t \in Setters : <<f, armed'[f]>> \in hand'[t]
        BY DEF NotifiedIsWoken
      <4>1. CASE f = a
        BY <1>2, <2>3, <3>1, <4>1 DEF WakeInv, RegisteredArmed
      <4>2. CASE f # a
        <5>1. f \in woken \/ \E t \in Setters : t # s /\ <<f, armed[f]>> \in hand[t]
          BY <1>2, <2>1, <3>1, <4>2 DEF WakeInv, NotifiedIsWoken
        <5> QED
          BY <1>2, <2>1, <3>1, <5>1
      <4> QED
        BY <4>1, <4>2
    <3> QED
      BY <3>2, <3>3, <3>4 DEF WakeInv
  <2> QED
    BY <1>5, <2>2, <2>3, SetDrainEffect
<1> QED
  BY <1>3, <1>4, <1>5 DEF SetterStep

\* A future becomes pending only with the waker of that poll registered.
LEMMA FutureStaysReachable ==
    ASSUME IInv, WakeInv, NEW f \in Awaiters,
           \/ Wait(f) \/ DropStart(f) \/ FutureStep(f)
           \/ \E w \in Wakers : PollStart(f, w)
    PROVE  WakeInv'
<1> USE ManualAssumption
<1>1. /\ f \in Procs /\ \A to : Goto(f, to) => pc'[f] = to
      /\ \A p \in Procs : p # f => pc'[p] = pc[p]
  BY DEF Wait, DropStart, FutureStep, PollStart, PollTake, PollLock, PollRecheck, PollAnnounce,
         PollFinal, PollRetract, DropLock, DropClear, Goto, IInv, TypeOK, Procs
<1>2. /\ hand' = hand /\ \A s \in Setters : pc'[s] = pc[s]
      /\ \A g \in Awaiters : g # f => pc'[g] = pc[g] /\ armed'[g] = armed[g]
      /\ \A g \in woken : g # f => g \in woken'
  BY <1>1 DEF Wait, DropStart, FutureStep, PollStart, PollTake, PollLock, PollRecheck, PollAnnounce,
         PollFinal, PollRetract, DropLock, DropClear, IInv, TypeOK, Procs
<1>3. \A g \in Awaiters : g # f => phase'[g] = phase[g] /\ stored'[g] = stored[g]
  <2>1. CASE \/ Wait(f) \/ PollTake(f) \/ PollLock(f) \/ DropStart(f)
             \/ \E w \in Wakers : PollStart(f, w)
    BY <2>1 DEF Wait, PollTake, PollLock, DropStart, PollStart, TakeNotification, queueVars,
           IInv, TypeOK, QueueTypeOK
  <2>2. CASE PollRecheck(f) \/ PollAnnounce(f) \/ PollFinal(f) \/ PollRetract(f) \/ DropClear(f)
    BY <2>2 DEF PollRecheck, PollAnnounce, PollFinal, PollRetract, DropClear, Register, queueVars,
           IInv, TypeOK, QueueTypeOK
  <2>3. CASE DropLock(f)
    BY <2>3 DEF DropLock, Unregister, Leave, queueVars, IInv, TypeOK, QueueTypeOK
  <2> QED
    BY <2>1, <2>2, <2>3 DEF FutureStep
<1>4. pc'[f] = "pending" => phase'[f] = "waiting" /\ stored'[f] = armed'[f]
  <2>1. pc'[f] = "pending" => PollFinal(f)
    BY <1>1 DEF Wait, DropStart, FutureStep, PollStart, PollTake, PollLock, PollRecheck,
           PollAnnounce, PollRetract, DropLock, DropClear
  <2> QED
    BY <1>1, <2>1 DEF PollFinal, Register, IInv, TypeOK, QueueTypeOK
<1>5. RegisteredArmed'
  BY <1>2, <1>3, <1>4 DEF WakeInv, RegisteredArmed
<1>6. HandsEmpty'
  BY <1>2 DEF WakeInv, HandsEmpty
<1>7. NotifiedIsWoken'
  BY <1>2, <1>3, <1>4 DEF WakeInv, NotifiedIsWoken
<1> QED
  BY <1>5, <1>6, <1>7 DEF WakeInv

\* A future that set() notified is woken through the waker of its latest poll, or
\* a setter holds that waker and is about to wake it.
THEOREM NotifiedAreWoken == Spec => []NotifiedIsWoken
<1>1. Init => IInv /\ WakeInv
  <2>1. Init => RegisteredArmed /\ HandsEmpty /\ NotifiedIsWoken
    <3> SUFFICES ASSUME Init PROVE RegisteredArmed /\ HandsEmpty /\ NotifiedIsWoken
      OBVIOUS
    <3>1. \A p \in Procs : pc[p] \in {"idle", "new"}
      BY DEF Init, Procs
    <3>2. \A s \in Setters : hand[s] = {}
      BY DEF Init
    <3> QED
      BY <3>1, <3>2 DEF RegisteredArmed, HandsEmpty, NotifiedIsWoken, Procs
  <2> QED
    BY <2>1, InitIInv DEF WakeInv
<1>2. IInv /\ WakeInv /\ [Next]_vars => (IInv /\ WakeInv)'
  <2> SUFFICES ASSUME IInv, WakeInv, [Next]_vars PROVE IInv' /\ WakeInv'
    OBVIOUS
  <2>1. CASE Reset \/ UNCHANGED vars
    <3>1. UNCHANGED <<pc, hand, armed, woken, phase, stored>>
      BY <2>1 DEF Reset, vars, eventVars, queueVars
    <3>2. RegisteredArmed' /\ HandsEmpty'
      BY <3>1 DEF WakeInv, RegisteredArmed, HandsEmpty
    <3>3. NotifiedIsWoken'
      BY <3>1 DEF WakeInv, NotifiedIsWoken
    <3> QED
      BY <3>2, <3>3, NextIInv DEF WakeInv
  <2> QED
    BY <2>1, NextIInv, SetterWakes, FutureStaysReachable DEF Next
<1>3. WakeInv => NotifiedIsWoken
  BY DEF WakeInv
<1> QED
  BY <1>1, <1>2, <1>3, PTL DEF Spec
=============================================================================
