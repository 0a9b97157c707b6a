------------------------ MODULE AutoResetEventProofs ------------------------
(***************************************************************************)
(* Proofs about the auto-reset event, for any number of futures, setters,  *)
(* wakers and set() calls: the two halves of its lock-free handshake,      *)
(* WaitersAnnounced and NoWaiterBesideSignal, and type correctness.        *)
(*                                                                         *)
(* IInv is split into the awaiter set (QueueInv, proved first), the       *)
(* control state and the two bits; every action has one lemma.             *)
(***************************************************************************)
EXTENDS AutoResetEvent, FiniteSetTheorems, TLAPS

(***************************************************************************)
(* The awaiter queue: every operation of it preserves QueueInv, for any    *)
(* number of awaiters, whatever the event does between them.               *)
(***************************************************************************)

\* A fresh queue.
LEMMA QueueInitInv == QueueInit => QueueInv
  BY AwaiterWakerAssumption DEF QueueInit, QueueInv, QueueTypeOK, Phases

\* register(): the awaiter is appended once, or keeps its place.
LEMMA RegisterInv ==
    ASSUME QueueInv, NEW a \in Awaiters, NEW w \in Wakers, Register(a, w)
    PROVE  QueueInv'
<1> USE DEF Phases
<1>1. QueueTypeOK'
  BY DEF QueueInv, QueueTypeOK, Register
<1>2. CASE phase[a] = "waiting"
  BY <1>1, <1>2 DEF QueueInv, QueueTypeOK, Register
<1>3. CASE phase[a] # "waiting"
  <2>1. queue' = Append(queue, a) /\ queue \in Seq(Awaiters)
    BY <1>3 DEF QueueInv, QueueTypeOK, Register
  <2>2. /\ DOMAIN queue' = DOMAIN queue \cup {Len(queue) + 1}
        /\ \A i \in DOMAIN queue : queue'[i] = queue[i] /\ i # Len(queue) + 1
        /\ queue'[Len(queue) + 1] = a
    BY <2>1
  <2> QED
    BY <1>1, <1>3, <2>2 DEF QueueInv, QueueTypeOK, Register
<1> QED
  BY <1>2, <1>3

\* Taking the i-th element out of a sequence without repetitions loses that
\* element only, and leaves no repetition.
LEMMA WithoutFacts ==
    ASSUME NEW S, NEW s \in Seq(S), NEW i \in DOMAIN s,
           \A j, k \in DOMAIN s : s[j] = s[k] => j = k
    PROVE  /\ Without(s, i) \in Seq(S)
           /\ \A j, k \in DOMAIN Without(s, i) : Without(s, i)[j] = Without(s, i)[k] => j = k
           /\ \A x : (\E j \in DOMAIN Without(s, i) : Without(s, i)[j] = x)
                         <=> x # s[i] /\ \E j \in DOMAIN s : s[j] = x
<1> DEFINE t == Without(s, i)
           from(j) == IF j < i THEN j ELSE j + 1
<1>1. Len(s) \in Nat /\ DOMAIN s = 1 .. Len(s) /\ DOMAIN t = 1 .. (Len(s) - 1)
  BY DEF Without
<1>2. \A j \in DOMAIN t : from(j) \in DOMAIN s \ {i} /\ t[j] = s[from(j)]
  BY <1>1 DEF Without
<1>3. \A j \in DOMAIN s \ {i} : \E k \in DOMAIN t : from(k) = j
  <2> TAKE j \in DOMAIN s \ {i}
  <2>1. CASE j < i
    BY <1>1, <2>1
  <2>2. CASE j > i
    <3>1. j - 1 \in DOMAIN t /\ from(j - 1) = j
      BY <1>1, <2>2
    <3> QED
      BY <3>1
  <2> QED
    BY <1>1, <2>1, <2>2
<1>4. \A j, k \in DOMAIN t : from(j) = from(k) => j = k
  BY <1>1
<1>5. t \in Seq(S)
  <2>1. t = [j \in 1 .. (Len(s) - 1) |-> s[from(j)]] /\ Len(s) - 1 \in Nat
    BY <1>1 DEF Without
  <2> QED
    BY <1>1, <1>2, <2>1
<1> HIDE DEF t, from
<1> QED
  BY <1>2, <1>3, <1>4, <1>5 DEF t

\* Removal from any place: the others keep their order and nobody is lost.
LEMMA LeaveInv ==
    ASSUME QueueInv, NEW a \in Awaiters, NEW p \in Phases \ {"waiting"}, Leave(a, p)
    PROVE  QueueInv' /\ phase[a] = "waiting"
<1>1. PICK i \in DOMAIN queue : queue[i] = a /\ queue' = Without(queue, i)
  BY DEF Leave
<1> DEFINE q == queue'
<1>2. q = Without(queue, i)
  BY <1>1
<1>3. queue \in Seq(Awaiters) /\ \A j, k \in DOMAIN queue : queue[j] = queue[k] => j = k
  BY DEF QueueInv, QueueTypeOK
<1> HIDE DEF q
<1>4. /\ q \in Seq(Awaiters)
      /\ \A j, k \in DOMAIN q : q[j] = q[k] => j = k
      /\ \A b : (\E j \in DOMAIN q : q[j] = b) <=> b # a /\ \E j \in DOMAIN queue : queue[j] = b
  <2>1. /\ Without(queue, i) \in Seq(Awaiters)
        /\ \A j, k \in DOMAIN Without(queue, i) :
               Without(queue, i)[j] = Without(queue, i)[k] => j = k
        /\ \A b : (\E j \in DOMAIN Without(queue, i) : Without(queue, i)[j] = b)
                      <=> b # queue[i] /\ \E j \in DOMAIN queue : queue[j] = b
    BY <1>3, WithoutFacts, Zenon
  <2> QED
    BY <1>1, <1>2, <2>1
<1>5. QueueTypeOK' /\ phase[a] = "waiting"
  BY <1>1, <1>4 DEF Leave, QueueInv, QueueTypeOK, q
<1>6. \A b \in Awaiters : phase'[b] = "waiting" <=> \E j \in DOMAIN q : q[j] = b
  BY <1>4 DEF Leave, QueueInv, QueueTypeOK
<1> QED
  BY <1>4, <1>5, <1>6, AwaiterWakerAssumption DEF Leave, QueueInv, QueueTypeOK, q

\* unregister(), advance_generation() and the awaiter's own transition.
LEMMA UnregisterInv ==
    ASSUME QueueInv, NEW a \in Awaiters, Unregister(a)
    PROVE  QueueInv'
<1>1. CASE phase[a] = "waiting"
  BY <1>1, LeaveInv DEF Unregister, Phases
<1>2. CASE phase[a] # "waiting"
  BY <1>2 DEF Unregister, queueVars, QueueInv, QueueTypeOK
<1> QED
  BY <1>1, <1>2

\* notify_one() and the drain only ever notify an awaiter that is waiting.
LEMMA NotifyOneInv ==
    ASSUME QueueInv, NEW a \in Awaiters, NotifyOne(a) \/ NotifyOnePriorGeneration(a)
    PROVE  QueueInv' /\ phase[a] = "waiting"
  BY LeaveInv DEF NotifyOne, NotifyOnePriorGeneration, Phases

\* advance_generation() changes nobody's place in the queue.
LEMMA AdvanceGenerationInv == QueueInv /\ AdvanceGeneration => QueueInv'
  BY DEF AdvanceGeneration, QueueInv, QueueTypeOK, Waiting

\* take_notification() makes a notified awaiter idle, outside the queue.
LEMMA TakeNotificationInv ==
    ASSUME QueueInv, NEW a \in Awaiters, TakeNotification(a)
    PROVE  QueueInv'
  BY DEF TakeNotification, QueueInv, QueueTypeOK, Phases

\* In every behaviour of the queue exactly the waiting awaiters are queued, each
\* once and with its waker, however many there are.
THEOREM QueueConsistent == QueueSpec => []QueueInv
<1>1. QueueInv /\ [QueueNext]_queueVars => QueueInv'
  <2> SUFFICES ASSUME QueueInv, [QueueNext]_queueVars PROVE QueueInv'
    OBVIOUS
  <2>1. CASE AdvanceGeneration
    BY <2>1, AdvanceGenerationInv
  <2>2. ASSUME NEW a \in Awaiters, NEW w \in Wakers, Register(a, w) PROVE QueueInv'
    BY <2>2, RegisterInv
  <2>3. ASSUME NEW a \in Awaiters, Unregister(a) PROVE QueueInv'
    BY <2>3, UnregisterInv
  <2>4. ASSUME NEW a \in Awaiters, NotifyOne(a) \/ NotifyOnePriorGeneration(a) PROVE QueueInv'
    BY <2>4, NotifyOneInv
  <2>5. ASSUME NEW a \in Awaiters, TakeNotification(a) PROVE QueueInv'
    BY <2>5, TakeNotificationInv
  <2>6. CASE UNCHANGED queueVars
    BY <2>6 DEF queueVars, QueueInv, QueueTypeOK
  <2> QED
    BY <2>1, <2>2, <2>3, <2>4, <2>5, <2>6 DEF QueueNext
<1> QED
  BY QueueInitInv, <1>1, PTL DEF QueueSpec

(***************************************************************************)
(* The handshake.                                                          *)
(***************************************************************************)

\* The event as it is built.
LEMMA InitIInv == Init => IInv
<1> SUFFICES ASSUME Init PROVE IInv
  OBVIOUS
<1>1. QueueInv /\ QueueTypeOK
  BY QueueInitInv DEF Init, QueueInv
<1>2. \A s \in Setters : s \notin Awaiters
  BY AutoAssumption
<1>3. TypeOK
  BY <1>1 DEF Init, TypeOK, Procs, SetterPcs, FuturePcs
<1>4. OwnCode
  BY <1>2 DEF Init, OwnCode, Procs, SetterPcs, FuturePcs
<1>5. \A p \in Procs : pc[p] \in {"idle", "new"}
  BY DEF Init, Procs
<1>6. queue = <<>>
  BY DEF Init, QueueInit
<1> QED
  BY <1>1, <1>3, <1>4, <1>5, <1>6
     DEF Init, IInv, PollingArmed, GoneIsOut, MutexHeld, Locked, ClearsOnlyEmpty,
         FinalIsAnnounced, WaitersAnnounced, NoWaiterBesideSignal, Procs

\* A step that leaves the awaiter set alone.
LEMMA SameQueueInv == QueueInv /\ UNCHANGED queueVars => QueueInv'
  BY DEF QueueInv, QueueTypeOK, queueVars

\* set(), the fast path: the word is zero, so by WaitersAnnounced nobody waits.
LEMMA SetCasInv ==
    ASSUME IInv, NEW s \in Setters, SetCas(s)
    PROVE  IInv'
<1>1. QueueInv'
  BY SameQueueInv DEF IInv, SetCas, queueVars
<1>2. TypeOK'
  BY <1>1 DEF IInv, TypeOK, QueueInv, SetCas, Goto,
         SetterPcs, FuturePcs, Procs, ghostVars
<1>3. OwnCode' /\ PollingArmed' /\ GoneIsOut' /\ MutexHeld'
  BY AutoAssumption
     DEF IInv, TypeOK, QueueTypeOK, OwnCode, PollingArmed, GoneIsOut, MutexHeld, Locked, SetCas,
         Goto, Free, SetterPcs, FuturePcs, Procs, queueVars
<1>4. ClearsOnlyEmpty' /\ FinalIsAnnounced'
  BY AutoAssumption
     DEF IInv, TypeOK, QueueTypeOK, OwnCode, MutexHeld, Locked, ClearsOnlyEmpty, FinalIsAnnounced,
         WaitersAnnounced, NoWaiterBesideSignal, SetCas,
         Goto, Free, SIGNALED, HAS_WAITERS, SetterPcs, FuturePcs, Procs, queueVars
<1>5. WaitersAnnounced' /\ NoWaiterBesideSignal'
  BY AutoAssumption
     DEF IInv, TypeOK, QueueTypeOK, ClearsOnlyEmpty, FinalIsAnnounced,
         WaitersAnnounced, NoWaiterBesideSignal, SetCas, SIGNALED, HAS_WAITERS, Procs, queueVars
<1> QED
  BY <1>1, <1>2, <1>3, <1>4, <1>5 DEF IInv

\* set() finds a signal or goes on.
LEMMA SetLoadInv ==
    ASSUME IInv, NEW s \in Setters, SetLoad(s)
    PROVE  IInv'
<1>1. QueueInv'
  BY SameQueueInv DEF IInv, SetLoad, queueVars
<1>2. TypeOK'
  BY <1>1 DEF IInv, TypeOK, QueueInv, SetLoad, Goto,
         SetterPcs, FuturePcs, Procs, ghostVars
<1>3. OwnCode' /\ PollingArmed' /\ GoneIsOut' /\ MutexHeld'
  BY AutoAssumption
     DEF IInv, TypeOK, QueueTypeOK, OwnCode, PollingArmed, GoneIsOut, MutexHeld, Locked, SetLoad,
         Goto, Free, SetterPcs, FuturePcs, Procs, queueVars
<1>4. ClearsOnlyEmpty' /\ FinalIsAnnounced'
  BY AutoAssumption
     DEF IInv, TypeOK, QueueTypeOK, OwnCode, MutexHeld, Locked, ClearsOnlyEmpty, FinalIsAnnounced,
         WaitersAnnounced, NoWaiterBesideSignal, SetLoad,
         Goto, Free, SIGNALED, HAS_WAITERS, SetterPcs, FuturePcs, Procs, queueVars
<1>5. WaitersAnnounced' /\ NoWaiterBesideSignal'
  BY AutoAssumption
     DEF IInv, TypeOK, QueueTypeOK, ClearsOnlyEmpty, FinalIsAnnounced,
         WaitersAnnounced, NoWaiterBesideSignal, SetLoad, SIGNALED, HAS_WAITERS, Procs, queueVars
<1> QED
  BY <1>1, <1>2, <1>3, <1>4, <1>5 DEF IInv

\* set() clears HAS_WAITERS in the mutex.
LEMMA SetClearInv ==
    ASSUME IInv, NEW s \in Setters, SetClear(s)
    PROVE  IInv'
<1>1. QueueInv'
  BY SameQueueInv DEF IInv, SetClear, ClearHasWaiters, queueVars
<1>2. TypeOK'
  BY <1>1 DEF IInv, TypeOK, QueueInv, SetClear, ClearHasWaiters, Goto,
         SetterPcs, FuturePcs, Procs, ghostVars
<1>3. OwnCode' /\ PollingArmed' /\ GoneIsOut' /\ MutexHeld'
  BY AutoAssumption
     DEF IInv, TypeOK, QueueTypeOK, OwnCode, PollingArmed, GoneIsOut, MutexHeld, Locked, SetClear, ClearHasWaiters,
         Goto, Free, SetterPcs, FuturePcs, Procs, queueVars
<1>4. ClearsOnlyEmpty' /\ FinalIsAnnounced'
  BY AutoAssumption
     DEF IInv, TypeOK, QueueTypeOK, OwnCode, MutexHeld, Locked, ClearsOnlyEmpty, FinalIsAnnounced,
         WaitersAnnounced, NoWaiterBesideSignal, SetClear, ClearHasWaiters,
         Goto, Free, SIGNALED, HAS_WAITERS, SetterPcs, FuturePcs, Procs, queueVars
<1>5. WaitersAnnounced' /\ NoWaiterBesideSignal'
  BY AutoAssumption
     DEF IInv, TypeOK, QueueTypeOK, ClearsOnlyEmpty, FinalIsAnnounced,
         WaitersAnnounced, NoWaiterBesideSignal, SetClear, ClearHasWaiters, SIGNALED, HAS_WAITERS, Procs, queueVars
<1> QED
  BY <1>1, <1>2, <1>3, <1>4, <1>5 DEF IInv

\* set() stores the signal in the mutex.
LEMMA SetStoreInv ==
    ASSUME IInv, NEW s \in Setters, SetStore(s)
    PROVE  IInv'
<1>1. QueueInv'
  BY SameQueueInv DEF IInv, SetStore, StoreSignaled, queueVars
<1>2. TypeOK'
  BY <1>1 DEF IInv, TypeOK, QueueInv, SetStore, StoreSignaled, Goto,
         SetterPcs, FuturePcs, Procs, ghostVars
<1>3. OwnCode' /\ PollingArmed' /\ GoneIsOut' /\ MutexHeld'
  BY AutoAssumption, ZenonT(60)
     DEF IInv, TypeOK, QueueTypeOK, OwnCode, PollingArmed, GoneIsOut, MutexHeld, Locked, SetStore, StoreSignaled,
         Goto, Free, SetterPcs, FuturePcs, Procs, queueVars
<1>4. ClearsOnlyEmpty' /\ FinalIsAnnounced'
  BY AutoAssumption
     DEF IInv, TypeOK, QueueTypeOK, OwnCode, MutexHeld, Locked, ClearsOnlyEmpty, FinalIsAnnounced,
         WaitersAnnounced, NoWaiterBesideSignal, SetStore, StoreSignaled,
         Goto, Free, SIGNALED, HAS_WAITERS, SetterPcs, FuturePcs, Procs, queueVars
<1>5. WaitersAnnounced' /\ NoWaiterBesideSignal'
  BY AutoAssumption
     DEF IInv, TypeOK, QueueTypeOK, ClearsOnlyEmpty, FinalIsAnnounced,
         WaitersAnnounced, NoWaiterBesideSignal, SetStore, StoreSignaled, SIGNALED, HAS_WAITERS, Procs, queueVars
<1> QED
  BY <1>1, <1>2, <1>3, <1>4, <1>5 DEF IInv

\* set() wakes.
LEMMA SetWakeInv ==
    ASSUME IInv, NEW s \in Setters, SetWake(s)
    PROVE  IInv'
<1>1. QueueInv'
  BY SameQueueInv DEF IInv, SetWake, WakeHand, Put, queueVars
<1>2. TypeOK'
  BY <1>1 DEF IInv, TypeOK, QueueInv, SetWake, WakeHand, Put, Goto,
         SetterPcs, FuturePcs, Procs, ghostVars
<1>3. OwnCode' /\ PollingArmed' /\ GoneIsOut' /\ MutexHeld'
  BY AutoAssumption
     DEF IInv, TypeOK, QueueTypeOK, OwnCode, PollingArmed, GoneIsOut, MutexHeld, Locked, SetWake, WakeHand, Put,
         Goto, Free, SetterPcs, FuturePcs, Procs, queueVars
<1>4. ClearsOnlyEmpty' /\ FinalIsAnnounced'
  BY AutoAssumption
     DEF IInv, TypeOK, QueueTypeOK, OwnCode, MutexHeld, Locked, ClearsOnlyEmpty, FinalIsAnnounced,
         WaitersAnnounced, NoWaiterBesideSignal, SetWake, WakeHand, Put,
         Goto, Free, SIGNALED, HAS_WAITERS, SetterPcs, FuturePcs, Procs, queueVars
<1>5. WaitersAnnounced' /\ NoWaiterBesideSignal'
  BY AutoAssumption
     DEF IInv, TypeOK, QueueTypeOK, ClearsOnlyEmpty, FinalIsAnnounced,
         WaitersAnnounced, NoWaiterBesideSignal, SetWake, WakeHand, Put, SIGNALED, HAS_WAITERS, Procs, queueVars
<1> QED
  BY <1>1, <1>2, <1>3, <1>4, <1>5 DEF IInv

\* wait() makes a new future in place of one that is gone.
LEMMA WaitInv ==
    ASSUME IInv, NEW f \in Awaiters, Wait(f)
    PROVE  IInv'
<1>1. QueueInv'
  BY DEF IInv, GoneIsOut, Wait, QueueInv, QueueTypeOK, Phases
<1>2. TypeOK'
  BY <1>1 DEF IInv, TypeOK, QueueInv, Wait, Goto,
         SetterPcs, FuturePcs, Procs, ghostVars
<1>3. OwnCode' /\ PollingArmed' /\ GoneIsOut' /\ MutexHeld'
  BY AutoAssumption
     DEF IInv, TypeOK, QueueTypeOK, OwnCode, PollingArmed, GoneIsOut, MutexHeld, Locked, Wait,
         Goto, Free, SetterPcs, FuturePcs, Procs, queueVars
<1>4. ClearsOnlyEmpty' /\ FinalIsAnnounced'
  BY AutoAssumption
     DEF IInv, TypeOK, QueueTypeOK, OwnCode, MutexHeld, Locked, ClearsOnlyEmpty, FinalIsAnnounced,
         WaitersAnnounced, NoWaiterBesideSignal, Wait,
         Goto, Free, SIGNALED, HAS_WAITERS, SetterPcs, FuturePcs, Procs, queueVars
<1>5. WaitersAnnounced' /\ NoWaiterBesideSignal'
  BY AutoAssumption
     DEF IInv, TypeOK, QueueTypeOK, ClearsOnlyEmpty, FinalIsAnnounced,
         WaitersAnnounced, NoWaiterBesideSignal, Wait, SIGNALED, HAS_WAITERS, Procs, queueVars
<1> QED
  BY <1>1, <1>2, <1>3, <1>4, <1>5 DEF IInv

\* poll_wait() looks for its notification.
LEMMA PollTakeInv ==
    ASSUME IInv, NEW f \in Awaiters, PollTake(f)
    PROVE  IInv'
<1>1. QueueInv'
  BY SameQueueInv, TakeNotificationInv DEF IInv, PollTake, Accept, queueVars
<1>2. TypeOK'
  BY <1>1 DEF IInv, TypeOK, QueueInv, PollTake, Accept, TakeNotification, Goto,
         SetterPcs, FuturePcs, Procs, ghostVars
<1>3. OwnCode' /\ PollingArmed' /\ GoneIsOut' /\ MutexHeld'
  BY AutoAssumption
     DEF IInv, TypeOK, QueueTypeOK, OwnCode, PollingArmed, GoneIsOut, MutexHeld, Locked, PollTake, Accept, TakeNotification,
         Goto, Free, SetterPcs, FuturePcs, Procs, queueVars
<1>4. ClearsOnlyEmpty' /\ FinalIsAnnounced'
  BY AutoAssumption
     DEF IInv, TypeOK, QueueTypeOK, OwnCode, MutexHeld, Locked, ClearsOnlyEmpty, FinalIsAnnounced,
         WaitersAnnounced, NoWaiterBesideSignal, PollTake, Accept, TakeNotification,
         Goto, Free, SIGNALED, HAS_WAITERS, SetterPcs, FuturePcs, Procs, queueVars
<1>5. WaitersAnnounced' /\ NoWaiterBesideSignal'
  BY AutoAssumption
     DEF IInv, TypeOK, QueueTypeOK, ClearsOnlyEmpty, FinalIsAnnounced,
         WaitersAnnounced, NoWaiterBesideSignal, PollTake, Accept, TakeNotification, SIGNALED, HAS_WAITERS, Procs, queueVars
<1> QED
  BY <1>1, <1>2, <1>3, <1>4, <1>5 DEF IInv

\* poll_wait() takes the mutex.
LEMMA PollLockInv ==
    ASSUME IInv, NEW f \in Awaiters, PollLock(f)
    PROVE  IInv'
<1>1. QueueInv'
  BY SameQueueInv, TakeNotificationInv DEF IInv, PollLock, Accept, queueVars
<1>2. TypeOK'
  BY <1>1 DEF IInv, TypeOK, QueueInv, PollLock, Accept, TakeNotification, Goto,
         SetterPcs, FuturePcs, Procs, ghostVars
<1>3. OwnCode' /\ PollingArmed' /\ GoneIsOut' /\ MutexHeld'
  BY AutoAssumption
     DEF IInv, TypeOK, QueueTypeOK, OwnCode, PollingArmed, GoneIsOut, MutexHeld, Locked, PollLock, Accept, TakeNotification,
         Goto, Free, SetterPcs, FuturePcs, Procs, queueVars
<1>4. ClearsOnlyEmpty' /\ FinalIsAnnounced'
  BY AutoAssumption
     DEF IInv, TypeOK, QueueTypeOK, OwnCode, MutexHeld, Locked, ClearsOnlyEmpty, FinalIsAnnounced,
         WaitersAnnounced, NoWaiterBesideSignal, PollLock, Accept, TakeNotification,
         Goto, Free, SIGNALED, HAS_WAITERS, SetterPcs, FuturePcs, Procs, queueVars
<1>5. WaitersAnnounced' /\ NoWaiterBesideSignal'
  BY AutoAssumption
     DEF IInv, TypeOK, QueueTypeOK, ClearsOnlyEmpty, FinalIsAnnounced,
         WaitersAnnounced, NoWaiterBesideSignal, PollLock, Accept, TakeNotification, SIGNALED, HAS_WAITERS, Procs, queueVars
<1> QED
  BY <1>1, <1>2, <1>3, <1>4, <1>5 DEF IInv

\* poll_wait() looks for a signal under the mutex.
LEMMA PollRecheckInv ==
    ASSUME IInv, NEW f \in Awaiters, PollRecheck(f)
    PROVE  IInv'
<1>1. QueueInv'
  BY SameQueueInv DEF IInv, PollRecheck, ConsumeSignal, NoSignal, queueVars
<1>2. TypeOK'
  BY <1>1 DEF IInv, TypeOK, QueueInv, PollRecheck, ConsumeSignal, NoSignal, Goto,
         SetterPcs, FuturePcs, Procs, ghostVars
<1>3. OwnCode' /\ PollingArmed' /\ GoneIsOut' /\ MutexHeld'
  BY AutoAssumption
     DEF IInv, TypeOK, QueueTypeOK, OwnCode, PollingArmed, GoneIsOut, MutexHeld, Locked, PollRecheck, ConsumeSignal, NoSignal,
         Goto, Free, SetterPcs, FuturePcs, Procs, queueVars
<1>4. ClearsOnlyEmpty' /\ FinalIsAnnounced'
  BY AutoAssumption
     DEF IInv, TypeOK, QueueTypeOK, OwnCode, MutexHeld, Locked, ClearsOnlyEmpty, FinalIsAnnounced,
         WaitersAnnounced, NoWaiterBesideSignal, PollRecheck, ConsumeSignal, NoSignal,
         Goto, Free, SIGNALED, HAS_WAITERS, SetterPcs, FuturePcs, Procs, queueVars
<1>5. WaitersAnnounced' /\ NoWaiterBesideSignal'
  BY AutoAssumption
     DEF IInv, TypeOK, QueueTypeOK, ClearsOnlyEmpty, FinalIsAnnounced,
         WaitersAnnounced, NoWaiterBesideSignal, PollRecheck, ConsumeSignal, NoSignal, SIGNALED, HAS_WAITERS, Procs, queueVars
<1> QED
  BY <1>1, <1>2, <1>3, <1>4, <1>5 DEF IInv

\* poll_wait() announces itself.
LEMMA PollAnnounceInv ==
    ASSUME IInv, NEW f \in Awaiters, PollAnnounce(f)
    PROVE  IInv'
<1>1. QueueInv'
  BY SameQueueInv DEF IInv, PollAnnounce, queueVars
<1>2. TypeOK'
  BY <1>1 DEF IInv, TypeOK, QueueInv, PollAnnounce, Goto,
         SetterPcs, FuturePcs, Procs, ghostVars
<1>3. OwnCode' /\ PollingArmed' /\ GoneIsOut' /\ MutexHeld'
  BY AutoAssumption
     DEF IInv, TypeOK, QueueTypeOK, OwnCode, PollingArmed, GoneIsOut, MutexHeld, Locked, PollAnnounce,
         Goto, Free, SetterPcs, FuturePcs, Procs, queueVars
<1>4. ClearsOnlyEmpty' /\ FinalIsAnnounced'
  BY AutoAssumption
     DEF IInv, TypeOK, QueueTypeOK, OwnCode, MutexHeld, Locked, ClearsOnlyEmpty, FinalIsAnnounced,
         WaitersAnnounced, NoWaiterBesideSignal, PollAnnounce,
         Goto, Free, SIGNALED, HAS_WAITERS, SetterPcs, FuturePcs, Procs, queueVars
<1>5. WaitersAnnounced' /\ NoWaiterBesideSignal'
  BY AutoAssumption
     DEF IInv, TypeOK, QueueTypeOK, ClearsOnlyEmpty, FinalIsAnnounced,
         WaitersAnnounced, NoWaiterBesideSignal, PollAnnounce, SIGNALED, HAS_WAITERS, Procs, queueVars
<1> QED
  BY <1>1, <1>2, <1>3, <1>4, <1>5 DEF IInv

\* poll_wait() takes the signal of a set() it raced with (then, by
\* NoWaiterBesideSignal, nobody is registered) or registers (HAS_WAITERS is set).
LEMMA PollFinalInv ==
    ASSUME IInv, NEW f \in Awaiters, PollFinal(f)
    PROVE  IInv'
<1>1. QueueInv'
  BY SameQueueInv, RegisterInv DEF IInv, PollingArmed, PollFinal, queueVars
<1>2. TypeOK'
  BY <1>1 DEF IInv, TypeOK, QueueInv, PollFinal, ConsumeSignal, NoSignal, Goto,
         SetterPcs, FuturePcs, Procs
<1>3. pc[f] = "final" /\ f \in Procs /\ f \notin Setters /\ lock = {f} /\ HAS_WAITERS \in state
  BY AutoAssumption DEF IInv, PollFinal, MutexHeld, Locked, FinalIsAnnounced, Procs
<1>4. \A p \in Procs : pc[p] \in Locked => p = f
  BY <1>3 DEF IInv, MutexHeld
<1>5. CASE ConsumeSignal /\ Goto(f, "retract") /\ UNCHANGED <<queueVars, lock>>
  <2>1. queue = <<>> /\ queue' = <<>>
    BY <1>5 DEF IInv, NoWaiterBesideSignal, ConsumeSignal, queueVars
  <2>2. OwnCode' /\ PollingArmed' /\ GoneIsOut' /\ MutexHeld'
    BY <1>3, <1>5
       DEF IInv, TypeOK, OwnCode, PollingArmed, GoneIsOut, MutexHeld, Locked, PollFinal,
           Goto, SetterPcs, FuturePcs, Procs, queueVars
  <2>3. ClearsOnlyEmpty' /\ FinalIsAnnounced'
    BY <1>3, <1>5, <2>1
       DEF IInv, TypeOK, FinalIsAnnounced, ClearsOnlyEmpty, ConsumeSignal, Goto, SIGNALED, HAS_WAITERS, Procs
  <2> QED
    BY <1>1, <1>2, <2>1, <2>2, <2>3 DEF IInv, WaitersAnnounced, NoWaiterBesideSignal
<1>6. CASE NoSignal /\ Register(f, armed[f]) /\ lock' = {} /\ Goto(f, "pending")
  <2>1. pc' = [pc EXCEPT ![f] = "pending"] /\ lock' = {} /\ state' = state /\ armed' = armed
    BY <1>6 DEF Goto, NoSignal, PollFinal
  <2>2. \A g \in Awaiters : g # f => phase'[g] = phase[g]
    BY <1>6 DEF Register, IInv, TypeOK, QueueTypeOK
  <2>3. \A p \in Procs : p # f => pc'[p] = pc[p] /\ pc[p] \notin Locked
    BY <1>4, <2>1 DEF IInv, TypeOK
  <2>4. pc'[f] = "pending"
    BY <1>3, <2>1 DEF IInv, TypeOK
  <2>5. OwnCode' /\ PollingArmed' /\ GoneIsOut'
    BY <1>3, <2>1, <2>2, <2>3, <2>4 DEF IInv, OwnCode, PollingArmed, GoneIsOut, FuturePcs, Procs
  <2>6. MutexHeld' /\ ClearsOnlyEmpty' /\ FinalIsAnnounced'
    BY <2>3, <2>4 DEF MutexHeld, ClearsOnlyEmpty, FinalIsAnnounced, Locked, Procs
  <2>7. WaitersAnnounced' /\ NoWaiterBesideSignal'
    BY <1>3, <1>6, <2>1 DEF WaitersAnnounced, NoWaiterBesideSignal, NoSignal
  <2> QED
    BY <1>1, <1>2, <2>5, <2>6, <2>7 DEF IInv
<1> QED
  BY <1>5, <1>6 DEF PollFinal

\* poll_wait() takes its announcement back.
LEMMA PollRetractInv ==
    ASSUME IInv, NEW f \in Awaiters, PollRetract(f)
    PROVE  IInv'
<1>1. QueueInv'
  BY SameQueueInv DEF IInv, PollRetract, ClearHasWaiters, queueVars
<1>2. TypeOK'
  BY <1>1 DEF IInv, TypeOK, QueueInv, PollRetract, ClearHasWaiters, Goto,
         SetterPcs, FuturePcs, Procs, ghostVars
<1>3. OwnCode' /\ PollingArmed' /\ GoneIsOut' /\ MutexHeld'
  BY AutoAssumption
     DEF IInv, TypeOK, QueueTypeOK, OwnCode, PollingArmed, GoneIsOut, MutexHeld, Locked, PollRetract, ClearHasWaiters,
         Goto, Free, SetterPcs, FuturePcs, Procs, queueVars
<1>4. ClearsOnlyEmpty' /\ FinalIsAnnounced'
  BY AutoAssumption
     DEF IInv, TypeOK, QueueTypeOK, OwnCode, MutexHeld, Locked, ClearsOnlyEmpty, FinalIsAnnounced,
         WaitersAnnounced, NoWaiterBesideSignal, PollRetract, ClearHasWaiters,
         Goto, Free, SIGNALED, HAS_WAITERS, SetterPcs, FuturePcs, Procs, queueVars
<1>5. WaitersAnnounced' /\ NoWaiterBesideSignal'
  BY AutoAssumption
     DEF IInv, TypeOK, QueueTypeOK, ClearsOnlyEmpty, FinalIsAnnounced,
         WaitersAnnounced, NoWaiterBesideSignal, PollRetract, ClearHasWaiters, SIGNALED, HAS_WAITERS, Procs, queueVars
<1> QED
  BY <1>1, <1>2, <1>3, <1>4, <1>5 DEF IInv

\* drop_wait() begins.
LEMMA DropStartInv ==
    ASSUME IInv, NEW f \in Awaiters, DropStart(f)
    PROVE  IInv'
<1>1. QueueInv'
  BY SameQueueInv DEF IInv, DropStart, queueVars
<1>2. TypeOK'
  BY <1>1 DEF IInv, TypeOK, QueueInv, DropStart, Goto,
         SetterPcs, FuturePcs, Procs, ghostVars
<1>3. OwnCode' /\ PollingArmed' /\ GoneIsOut' /\ MutexHeld'
  BY AutoAssumption
     DEF IInv, TypeOK, QueueTypeOK, OwnCode, PollingArmed, GoneIsOut, MutexHeld, Locked, DropStart,
         Goto, Free, SetterPcs, FuturePcs, Procs, queueVars
<1>4. ClearsOnlyEmpty' /\ FinalIsAnnounced'
  BY AutoAssumption
     DEF IInv, TypeOK, QueueTypeOK, OwnCode, MutexHeld, Locked, ClearsOnlyEmpty, FinalIsAnnounced,
         WaitersAnnounced, NoWaiterBesideSignal, DropStart,
         Goto, Free, SIGNALED, HAS_WAITERS, SetterPcs, FuturePcs, Procs, queueVars
<1>5. WaitersAnnounced' /\ NoWaiterBesideSignal'
  BY AutoAssumption
     DEF IInv, TypeOK, QueueTypeOK, ClearsOnlyEmpty, FinalIsAnnounced,
         WaitersAnnounced, NoWaiterBesideSignal, DropStart, SIGNALED, HAS_WAITERS, Procs, queueVars
<1> QED
  BY <1>1, <1>2, <1>3, <1>4, <1>5 DEF IInv

\* drop_wait() clears HAS_WAITERS.
LEMMA DropClearInv ==
    ASSUME IInv, NEW f \in Awaiters, DropClear(f)
    PROVE  IInv'
<1>1. QueueInv'
  BY SameQueueInv DEF IInv, DropClear, ClearHasWaiters, queueVars
<1>2. TypeOK'
  BY <1>1 DEF IInv, TypeOK, QueueInv, DropClear, ClearHasWaiters, Goto,
         SetterPcs, FuturePcs, Procs, ghostVars
<1>3. OwnCode' /\ PollingArmed' /\ GoneIsOut' /\ MutexHeld'
  BY AutoAssumption, SMTT(20)
     DEF IInv, TypeOK, QueueTypeOK, OwnCode, PollingArmed, GoneIsOut, MutexHeld, Locked, DropClear, ClearHasWaiters,
         Goto, Free, SetterPcs, FuturePcs, Procs, queueVars
<1>4. ClearsOnlyEmpty' /\ FinalIsAnnounced'
  BY AutoAssumption
     DEF IInv, TypeOK, QueueTypeOK, OwnCode, MutexHeld, Locked, ClearsOnlyEmpty, FinalIsAnnounced,
         WaitersAnnounced, NoWaiterBesideSignal, DropClear, ClearHasWaiters,
         Goto, Free, SIGNALED, HAS_WAITERS, SetterPcs, FuturePcs, Procs, queueVars
<1>5. WaitersAnnounced' /\ NoWaiterBesideSignal'
  BY AutoAssumption
     DEF IInv, TypeOK, QueueTypeOK, ClearsOnlyEmpty, FinalIsAnnounced,
         WaitersAnnounced, NoWaiterBesideSignal, DropClear, ClearHasWaiters, SIGNALED, HAS_WAITERS, Procs, queueVars
<1> QED
  BY <1>1, <1>2, <1>3, <1>4, <1>5 DEF IInv

\* drop_wait() restores the signal.
LEMMA DropStoreInv ==
    ASSUME IInv, NEW f \in Awaiters, DropStore(f)
    PROVE  IInv'
<1>1. QueueInv'
  BY SameQueueInv DEF IInv, DropStore, StoreSignaled, queueVars
<1>2. TypeOK'
  BY <1>1 DEF IInv, TypeOK, QueueInv, DropStore, StoreSignaled, Goto,
         SetterPcs, FuturePcs, Procs, ghostVars
<1>3. OwnCode' /\ PollingArmed' /\ GoneIsOut' /\ MutexHeld'
  BY AutoAssumption
     DEF IInv, TypeOK, QueueTypeOK, OwnCode, PollingArmed, GoneIsOut, MutexHeld, Locked, DropStore, StoreSignaled,
         Goto, Free, SetterPcs, FuturePcs, Procs, queueVars
<1>4. ClearsOnlyEmpty' /\ FinalIsAnnounced'
  BY AutoAssumption
     DEF IInv, TypeOK, QueueTypeOK, OwnCode, MutexHeld, Locked, ClearsOnlyEmpty, FinalIsAnnounced,
         WaitersAnnounced, NoWaiterBesideSignal, DropStore, StoreSignaled,
         Goto, Free, SIGNALED, HAS_WAITERS, SetterPcs, FuturePcs, Procs, queueVars
<1>5. WaitersAnnounced' /\ NoWaiterBesideSignal'
  BY AutoAssumption
     DEF IInv, TypeOK, QueueTypeOK, ClearsOnlyEmpty, FinalIsAnnounced,
         WaitersAnnounced, NoWaiterBesideSignal, DropStore, StoreSignaled, SIGNALED, HAS_WAITERS, Procs, queueVars
<1> QED
  BY <1>1, <1>2, <1>3, <1>4, <1>5 DEF IInv

\* drop_wait() wakes the awaiter it forwarded to.
LEMMA DropWakeInv ==
    ASSUME IInv, NEW f \in Awaiters, DropWake(f)
    PROVE  IInv'
<1>1. QueueInv'
  BY SameQueueInv DEF IInv, DropWake, WakeHand, Put, queueVars
<1>2. TypeOK'
  BY <1>1 DEF IInv, TypeOK, QueueInv, DropWake, WakeHand, Put, Goto,
         SetterPcs, FuturePcs, Procs, ghostVars
<1>3. OwnCode' /\ PollingArmed' /\ GoneIsOut' /\ MutexHeld'
  BY AutoAssumption
     DEF IInv, TypeOK, QueueTypeOK, OwnCode, PollingArmed, GoneIsOut, MutexHeld, Locked, DropWake, WakeHand, Put,
         Goto, Free, SetterPcs, FuturePcs, Procs, queueVars
<1>4. ClearsOnlyEmpty' /\ FinalIsAnnounced'
  BY AutoAssumption
     DEF IInv, TypeOK, QueueTypeOK, OwnCode, MutexHeld, Locked, ClearsOnlyEmpty, FinalIsAnnounced,
         WaitersAnnounced, NoWaiterBesideSignal, DropWake, WakeHand, Put,
         Goto, Free, SIGNALED, HAS_WAITERS, SetterPcs, FuturePcs, Procs, queueVars
<1>5. WaitersAnnounced' /\ NoWaiterBesideSignal'
  BY AutoAssumption
     DEF IInv, TypeOK, QueueTypeOK, ClearsOnlyEmpty, FinalIsAnnounced,
         WaitersAnnounced, NoWaiterBesideSignal, DropWake, WakeHand, Put, SIGNALED, HAS_WAITERS, Procs, queueVars
<1> QED
  BY <1>1, <1>2, <1>3, <1>4, <1>5 DEF IInv

\* try_wait() consumes a signal.
LEMMA TryWaitInv ==
    ASSUME IInv, TryWait
    PROVE  IInv'
<1>1. QueueInv'
  BY SameQueueInv DEF IInv, TryWait, queueVars
<1>2. TypeOK'
  BY <1>1 DEF IInv, TypeOK, QueueInv, TryWait, ConsumeSignal, eventVars
<1> QED
  BY <1>1, <1>2
     DEF IInv, TryWait, ConsumeSignal, eventVars, queueVars, OwnCode, PollingArmed, GoneIsOut,
         MutexHeld, ClearsOnlyEmpty, FinalIsAnnounced, WaitersAnnounced, NoWaiterBesideSignal,
         SIGNALED, HAS_WAITERS

\* A poll begins, with some waker.
LEMMA PollStartInv ==
    ASSUME IInv, NEW f \in Awaiters, NEW w \in Wakers, PollStart(f, w)
    PROVE  IInv'
<1>1. QueueInv'
  BY SameQueueInv DEF IInv, PollStart, queueVars
<1>2. TypeOK'
  BY <1>1 DEF IInv, TypeOK, QueueInv, PollStart, ConsumeSignal, NoSignal, Goto, SetterPcs, FuturePcs, Procs
<1>3. OwnCode' /\ PollingArmed' /\ GoneIsOut' /\ MutexHeld'
  BY AutoAssumption
     DEF IInv, TypeOK, OwnCode, PollingArmed, GoneIsOut, MutexHeld, Locked, PollStart,
         Goto, SetterPcs, FuturePcs, Procs, queueVars
<1>4. ClearsOnlyEmpty' /\ FinalIsAnnounced'
  BY AutoAssumption
     DEF IInv, TypeOK, ClearsOnlyEmpty, FinalIsAnnounced, PollStart, ConsumeSignal, NoSignal,
         Goto, SIGNALED, HAS_WAITERS, Procs, queueVars
<1>5. WaitersAnnounced' /\ NoWaiterBesideSignal'
  BY DEF IInv, WaitersAnnounced, NoWaiterBesideSignal, PollStart, ConsumeSignal, NoSignal,
         SIGNALED, HAS_WAITERS, queueVars
<1> QED
  BY <1>1, <1>2, <1>3, <1>4, <1>5 DEF IInv

\* notify_one() under the mutex: whoever stays in the mutex leaves the set empty.
LEMMA ForwardEffect ==
    ASSUME IInv, NEW p \in Procs, NEW clear, NEW store, NEW wake, Forward(p, clear, store, wake)
    PROVE  /\ QueueInv'
           /\ hand' \in [Procs -> SUBSET (Awaiters \X Wakers)]
           /\ \A f \in Awaiters : phase'[f] = "waiting" => phase[f] = "waiting"
           /\ queue = <<>> => queue' = <<>>
           /\ lock = {}
           /\ \/ lock' = {p} /\ queue' = <<>> /\ (Goto(p, clear) \/ Goto(p, store))
              \/ lock' = {} /\ Goto(p, wake)
<1>1. CASE queue = <<>>
  BY <1>1, SameQueueInv DEF Forward, Free, IInv, TypeOK, queueVars
<1>2. CASE queue # <<>>
  <2>1. PICK a \in Awaiters :
            /\ NotifyOne(a) /\ Put(p, {<<a, stored[a]>>})
            /\ IF queue' = <<>> THEN lock' = {p} /\ Goto(p, clear)
                                ELSE Goto(p, wake) /\ UNCHANGED lock
    BY <1>2 DEF Forward
  <2>2. QueueInv' /\ phase[a] = "waiting"
    BY <2>1, NotifyOneInv DEF IInv
  <2>3. stored[a] \in Wakers
    BY <2>2 DEF IInv, QueueInv
  <2>4. hand' \in [Procs -> SUBSET (Awaiters \X Wakers)]
    BY <2>1, <2>3 DEF Put, IInv, TypeOK
  <2>5. \A f \in Awaiters : phase'[f] = "waiting" => phase[f] = "waiting"
    BY <2>1 DEF NotifyOne, Leave, IInv, TypeOK, QueueTypeOK
  <2> QED
    BY <1>2, <2>1, <2>2, <2>4, <2>5 DEF Forward, Free
<1> QED
  BY <1>1, <1>2

\* set() notifies an awaiter, or finds none.
LEMMA SetLockInv ==
    ASSUME IInv, NEW s \in Setters, SetLock(s)
    PROVE  IInv'
<1>1. s \in Procs /\ s \notin Awaiters /\ pc[s] = "lock"
  BY AutoAssumption DEF SetLock, Procs
<1>2. /\ QueueInv'
      /\ hand' \in [Procs -> SUBSET (Awaiters \X Wakers)]
      /\ \A f \in Awaiters : phase'[f] = "waiting" => phase[f] = "waiting"
      /\ queue = <<>> => queue' = <<>>
      /\ lock = {}
      /\ \/ lock' = {s} /\ queue' = <<>> /\ (Goto(s, "clear") \/ Goto(s, "store"))
         \/ lock' = {} /\ Goto(s, "wake")
  BY <1>1, ForwardEffect DEF SetLock
<1>3. /\ \A p \in Procs : p # s => pc'[p] = pc[p]
      /\ pc'[s] \in {"clear", "store", "wake"} /\ (pc'[s] # "wake" => lock' = {s} /\ queue' = <<>>)
      /\ pc' \in [Procs -> SetterPcs \cup FuturePcs] /\ lock' \subseteq Procs
  BY <1>1, <1>2 DEF Goto, IInv, TypeOK, SetterPcs
<1>4. TypeOK'
  BY <1>2, <1>3 DEF IInv, TypeOK, QueueInv, SetLock, ghostVars
<1>5. OwnCode' /\ PollingArmed' /\ GoneIsOut'
  BY <1>1, <1>2, <1>3 DEF IInv, OwnCode, PollingArmed, GoneIsOut, SetLock, SetterPcs, Procs
<1>6. MutexHeld' /\ ClearsOnlyEmpty'
  BY <1>2, <1>3 DEF IInv, MutexHeld, ClearsOnlyEmpty, Locked
<1>7. FinalIsAnnounced' /\ WaitersAnnounced' /\ NoWaiterBesideSignal'
  BY <1>1, <1>2, <1>3 DEF IInv, FinalIsAnnounced, WaitersAnnounced, NoWaiterBesideSignal, SetLock, Procs
<1> QED
  BY <1>2, <1>4, <1>5, <1>6, <1>7 DEF IInv

\* drop_wait() forwards its notification, or leaves the set.
LEMMA DropLockInv ==
    ASSUME IInv, NEW f \in Awaiters, DropLock(f)
    PROVE  IInv'
<1>1. f \in Procs /\ f \notin Setters /\ pc[f] = "drop_lock"
  BY AutoAssumption DEF DropLock, Procs
<1>2. /\ QueueInv'
      /\ hand' \in [Procs -> SUBSET (Awaiters \X Wakers)]
      /\ \A g \in Awaiters : phase'[g] = "waiting" => phase[g] = "waiting" /\ g # f
      /\ queue = <<>> => queue' = <<>>
      /\ lock = {}
      /\ \/ lock' = {f} /\ queue' = <<>> /\ (Goto(f, "drop_clear") \/ Goto(f, "drop_store"))
         \/ lock' = {} /\ (Goto(f, "drop_wake") \/ Goto(f, "gone"))
  <2>1. CASE phase[f] = "notified"
    BY <1>1, <2>1, ForwardEffect DEF DropLock
  <2>2. CASE phase[f] # "notified"
    <3>1. QueueInv'
      BY <2>2, UnregisterInv DEF DropLock, IInv
    <3>2. phase' = [phase EXCEPT ![f] = "idle"] /\ (queue = <<>> => queue' = <<>>)
      BY <2>2 DEF DropLock, Unregister, Leave, IInv, TypeOK, QueueTypeOK, Phases
    <3> QED
      BY <2>2, <3>1, <3>2 DEF DropLock, Free, IInv, TypeOK, QueueTypeOK
  <2> QED
    BY <2>1, <2>2
<1>3. /\ \A p \in Procs : p # f => pc'[p] = pc[p]
      /\ pc'[f] \in {"drop_clear", "drop_store", "drop_wake", "gone"}
      /\ pc'[f] \in {"drop_clear", "drop_store"} => lock' = {f} /\ queue' = <<>>
      /\ pc' \in [Procs -> SetterPcs \cup FuturePcs] /\ lock' \subseteq Procs
  BY <1>1, <1>2 DEF Goto, IInv, TypeOK, FuturePcs
<1>4. TypeOK'
  BY <1>2, <1>3 DEF IInv, TypeOK, QueueInv, DropLock, ghostVars
<1>5. OwnCode' /\ PollingArmed' /\ GoneIsOut'
  BY <1>1, <1>2, <1>3 DEF IInv, OwnCode, PollingArmed, GoneIsOut, DropLock, FuturePcs, Procs
<1>6. MutexHeld' /\ ClearsOnlyEmpty'
  BY <1>2, <1>3 DEF IInv, MutexHeld, ClearsOnlyEmpty, Locked
<1>7. FinalIsAnnounced' /\ WaitersAnnounced' /\ NoWaiterBesideSignal'
  BY <1>1, <1>2, <1>3 DEF IInv, FinalIsAnnounced, WaitersAnnounced, NoWaiterBesideSignal, DropLock, Procs
<1> QED
  BY <1>2, <1>4, <1>5, <1>6, <1>7 DEF IInv

\* Every step preserves the invariant.
LEMMA NextIInv == IInv /\ [Next]_vars => IInv'
<1> SUFFICES ASSUME IInv, [Next]_vars PROVE IInv'
  OBVIOUS
<1>1. CASE TryWait
  BY <1>1, TryWaitInv
<1>2. ASSUME NEW s \in Setters, SetCas(s) \/ SetterStep(s) PROVE IInv'
  BY <1>2, SetCasInv, SetLoadInv, SetLockInv, SetClearInv, SetStoreInv, SetWakeInv DEF SetterStep
<1>3. ASSUME NEW f \in Awaiters, Wait(f) \/ DropStart(f) \/ FutureStep(f) PROVE IInv'
  BY <1>3, WaitInv, DropStartInv, PollTakeInv, PollLockInv, PollRecheckInv, PollAnnounceInv,
     PollFinalInv, PollRetractInv, DropLockInv, DropClearInv, DropStoreInv, DropWakeInv
     DEF FutureStep
<1>4. ASSUME NEW f \in Awaiters, NEW w \in Wakers, PollStart(f, w) PROVE IInv'
  BY <1>4, PollStartInv
<1>5. CASE UNCHANGED vars
  <2>1. QueueInv'
    BY <1>5, SameQueueInv DEF IInv, vars
  <2> QED
    BY <1>5, <2>1
       DEF vars, eventVars, ghostVars, queueVars, IInv, TypeOK, QueueInv, OwnCode, PollingArmed,
           GoneIsOut, MutexHeld, ClearsOnlyEmpty, FinalIsAnnounced, WaitersAnnounced,
           NoWaiterBesideSignal
<1> QED
  BY <1>1, <1>2, <1>3, <1>4, <1>5 DEF Next

\* The inductive invariant of set(), poll_wait() and drop_wait() holds in every
\* behaviour of the event, for any number of setters and of wait futures.
THEOREM SpecIInv == Spec => []IInv
  BY InitIInv, NextIInv, PTL DEF Spec

\* The event's state has its type, in particular every waker that set() or
\* drop_wait() takes out of the awaiter set is a waker some poll() left there.
THEOREM TypeCorrect == Spec => []TypeOK
<1>1. IInv => TypeOK
  BY DEF IInv
<1> QED
  BY <1>1, SpecIInv, PTL

\* The key invariant of auto.rs: with HAS_WAITERS clear nobody is registered, so
\* the compare_exchange of set() may store its signal without the mutex.
THEOREM FastPathSound == Spec => []WaitersAnnounced
<1>1. IInv => WaitersAnnounced
  BY DEF IInv
<1> QED
  BY <1>1, SpecIInv, PTL

\* No registered waiter sleeps beside a stored signal.
THEOREM NoWaiterLeftBehind == Spec => []NoWaiterBesideSignal
<1>1. IInv => NoWaiterBesideSignal
  BY DEF IInv
<1> QED
  BY <1>1, SpecIInv, PTL

----------------------------------------------------------------------------
(* The wakers, on top of the invariant above: a pending future can be       *)
(* reached, and one that was notified is woken through the waker of its     *)
(* latest poll.  WakeInv is inductive relative to IInv: the mutex keeps     *)
(* set() out while a poll registers, and the registration leaves the        *)
(* poll's own waker.                                                        *)

\* The event as it is built.
LEMMA InitWakeInv == Init => WakeInv
<1> SUFFICES ASSUME Init PROVE WakeInv
  OBVIOUS
<1>1. \A p \in Procs : pc[p] \in {"idle", "new"} /\ hand[p] = {}
  BY DEF Init, Procs
<1> QED
  BY <1>1 DEF WakeInv, HandsEmpty, InsideUnnotified, PendingIsReachable, NotifiedIsWoken, Procs

\* A step that touches no awaiter, waker or hand, lets nobody become pending
\* and nobody with wakers in hand forget them.
LEMMA QuietStep ==
    ASSUME WakeInv, UNCHANGED <<queue, phase, stored, armed, woken, hand>>,
           \A p \in Procs :
              /\ pc'[p] \notin HandsFull => pc[p] \notin HandsFull \/ hand[p] = {}
              /\ pc'[p] = "pending" => pc[p] = "pending"
              /\ pc'[p] \in {"recheck", "announce", "final"} =>
                    pc[p] \in {"recheck", "announce", "final"}
    PROVE  WakeInv'
<1>1. HandsEmpty'
  BY DEF WakeInv, HandsEmpty
<1>2. InsideUnnotified'
  BY DEF WakeInv, InsideUnnotified, Procs
<1>3. PendingIsReachable'
  BY DEF WakeInv, PendingIsReachable, Waiting, Procs
<1>4. NotifiedIsWoken'
  BY DEF WakeInv, NotifiedIsWoken, Procs
<1> QED
  BY <1>1, <1>2, <1>3, <1>4 DEF WakeInv

\* set(): everything but the notification and the wake.
LEMMA SetQuiet ==
    ASSUME IInv, WakeInv, NEW s \in Setters,
           SetCas(s) \/ SetLoad(s) \/ SetClear(s) \/ SetStore(s)
    PROVE  WakeInv'
<1>1. UNCHANGED <<queue, phase, stored, armed, woken, hand>>
  BY DEF SetCas, SetLoad, SetClear, SetStore, queueVars
<1>2. s \in Procs /\ \A p \in Procs : p # s => pc'[p] = pc[p]
  BY DEF SetCas, SetLoad, SetClear, SetStore, Goto, IInv, TypeOK, Procs
<1>3. pc'[s] = pc[s] \/ pc'[s] = "load" \/ (pc[s] = "load" /\ pc'[s] \in {"idle", "lock"})
      \/ pc'[s] = "wake" \/ (pc[s] = "store" /\ pc'[s] = "idle")
  BY <1>2 DEF SetCas, SetLoad, SetClear, SetStore, Goto, IInv, TypeOK
<1>4. SetCas(s) => pc[s] = "idle"
  BY DEF SetCas
<1>5. pc'[s] = "load" => pc[s] \notin HandsFull
  <2>1. CASE SetCas(s)
    BY <2>1 DEF SetCas, HandsFull
  <2>2. CASE ~SetCas(s)
    BY <2>2, <1>2 DEF SetLoad, SetClear, SetStore, Goto, IInv, TypeOK
  <2> QED
    BY <2>1, <2>2
<1> QED
  BY <1>1, <1>2, <1>3, <1>5, QuietStep DEF HandsFull

\* try_wait() and the steps of a future that change nothing but the word, its
\* place in the code and the mutex.
LEMMA FutureQuiet ==
    ASSUME IInv, WakeInv, NEW f \in Awaiters,
           \/ PollRecheck(f) \/ PollAnnounce(f) \/ PollRetract(f)
           \/ DropStart(f) \/ DropClear(f) \/ DropStore(f)
    PROVE  WakeInv'
<1>1. UNCHANGED <<queue, phase, stored, armed, woken, hand>>
  BY DEF PollRecheck, PollAnnounce, PollRetract, DropStart, DropClear, DropStore, queueVars
<1>2. f \in Procs /\ \A p \in Procs : p # f => pc'[p] = pc[p]
  BY DEF PollRecheck, PollAnnounce, PollRetract, DropStart, DropClear, DropStore, Goto, IInv,
         TypeOK, Procs
<1>3. \/ pc[f] = "recheck" /\ pc'[f] \in {"ready", "announce"}
      \/ pc[f] = "announce" /\ pc'[f] = "final"
      \/ pc[f] = "retract" /\ pc'[f] = "ready"
      \/ pc[f] \in {"new", "pending", "ready"} /\ pc'[f] \in {"gone", "drop_lock"}
      \/ pc[f] = "drop_clear" /\ (pc'[f] = "drop_wake" \/ (pc'[f] = "gone" /\ hand[f] = {}))
      \/ pc[f] = "drop_store" /\ pc'[f] = "gone"
  <2>1. \A to : Goto(f, to) => pc'[f] = to
    BY <1>2 DEF Goto, IInv, TypeOK
  <2>2. CASE PollRecheck(f) \/ PollAnnounce(f) \/ PollRetract(f)
    BY <2>1, <2>2 DEF PollRecheck, PollAnnounce, PollRetract
  <2>3. CASE DropStart(f) \/ DropStore(f)
    BY <2>1, <2>3 DEF DropStart, DropStore
  <2>4. CASE DropClear(f)
    BY <2>1, <2>4 DEF DropClear
  <2> QED
    BY <2>2, <2>3, <2>4
<1> QED
  BY <1>1, <1>2, <1>3, QuietStep DEF HandsFull

\* w.wake(): whoever the woken waker belongs to is now woken.
LEMMA WakeHandInv ==
    ASSUME IInv, WakeInv, NEW p \in Procs, NEW to, WakeHand(p, to),
           to \in {"idle", "gone"}
    PROVE  WakeInv'
<1>1. /\ UNCHANGED <<queue, phase, stored, armed>>
      /\ hand' = [hand EXCEPT ![p] = {}] /\ pc' = [pc EXCEPT ![p] = to]
      /\ woken' = woken \cup {f \in Awaiters : <<f, armed[f]>> \in hand[p]}
  BY DEF WakeHand, Put, Goto, queueVars
<1>2. /\ hand'[p] = {} /\ pc'[p] = to
      /\ \A q \in Procs : q # p => hand'[q] = hand[q] /\ pc'[q] = pc[q]
  BY <1>1 DEF IInv, TypeOK
<1>3. HandsEmpty'
  BY <1>2 DEF WakeInv, HandsEmpty
<1>4. InsideUnnotified'
  BY <1>1, <1>2 DEF WakeInv, InsideUnnotified, Procs
<1>5. PendingIsReachable'
  BY <1>1, <1>2 DEF WakeInv, PendingIsReachable, Waiting, Procs
<1>6. NotifiedIsWoken'
  <2> SUFFICES ASSUME NEW f \in Awaiters, pc'[f] = "pending", phase'[f] = "notified"
               PROVE  f \in woken' \/ \E q \in Procs : <<f, armed'[f]>> \in hand'[q]
    BY DEF NotifiedIsWoken
  <2>1. pc[f] = "pending" /\ phase[f] = "notified"
    BY <1>1, <1>2 DEF Procs
  <2>2. CASE f \in woken
    BY <2>2, <1>1
  <2>3. ASSUME NEW q \in Procs, <<f, armed[f]>> \in hand[q]
        PROVE  f \in woken' \/ <<f, armed'[f]>> \in hand'[q]
    BY <2>3, <1>1, <1>2
  <2> QED
    BY <2>1, <2>2, <2>3 DEF WakeInv, NotifiedIsWoken
<1> QED
  BY <1>3, <1>4, <1>5, <1>6 DEF WakeInv

\* A step of one future on its own awaiter: it becomes pending only with the
\* waker of this poll registered.
LEMMA OwnStep ==
    ASSUME IInv', WakeInv, NEW f \in Awaiters, hand' = hand,
           \A g \in Awaiters : g # f =>
              /\ phase'[g] = phase[g] /\ stored'[g] = stored[g] /\ armed'[g] = armed[g]
              /\ g \in woken => g \in woken',
           \A p \in Procs : p # f => pc'[p] = pc[p],
           pc[f] \notin HandsFull,
           pc'[f] \in {"recheck", "announce", "final"} => phase'[f] # "notified",
           pc'[f] = "pending" => phase'[f] = "waiting" /\ stored'[f] = armed'[f]
    PROVE  WakeInv'
<1>1. HandsEmpty'
  BY DEF WakeInv, HandsEmpty
<1>2. InsideUnnotified'
  BY DEF WakeInv, InsideUnnotified, Procs
<1>3. PendingIsReachable'
  <2>1. \A g \in Awaiters : phase'[g] = "waiting" => g \in Waiting'
    BY DEF IInv, QueueInv, Waiting
  <2> QED
    BY <2>1 DEF WakeInv, PendingIsReachable, Procs
<1>4. NotifiedIsWoken'
  BY DEF WakeInv, NotifiedIsWoken, Procs
<1> QED
  BY <1>1, <1>2, <1>3, <1>4 DEF WakeInv

\* poll_wait() up to the mutex, and wait().
LEMMA PollBegins ==
    ASSUME IInv, WakeInv, NEW f \in Awaiters,
           \/ Wait(f) \/ PollTake(f) \/ PollLock(f)
           \/ \E w \in Wakers : PollStart(f, w)
    PROVE  WakeInv'
<1>1. IInv'
  BY WaitInv, PollTakeInv, PollLockInv, PollStartInv
<1>2. f \in Procs /\ hand' = hand /\ \A p \in Procs : p # f => pc'[p] = pc[p]
  BY DEF Wait, PollTake, PollLock, Accept, PollStart, Goto, IInv, TypeOK, Procs
<1>3. \A g \in Awaiters : g # f =>
         /\ phase'[g] = phase[g] /\ stored'[g] = stored[g] /\ armed'[g] = armed[g]
         /\ g \in woken => g \in woken'
  BY DEF Wait, PollTake, PollLock, Accept, TakeNotification, PollStart, queueVars, IInv, TypeOK,
         QueueTypeOK
<1>4. pc[f] \notin HandsFull /\ pc'[f] # "pending"
  BY <1>2 DEF Wait, PollTake, PollLock, Accept, PollStart, Goto, HandsFull, IInv, TypeOK
<1>5. pc'[f] \in {"recheck", "announce", "final"} => phase'[f] # "notified"
  BY <1>2 DEF Wait, PollTake, PollLock, Accept, PollStart, Goto, queueVars, IInv, TypeOK
<1> QED
  BY <1>1, <1>2, <1>3, <1>4, <1>5, OwnStep

\* The poll's last look for a signal: it registers with the waker it was given.
LEMMA PollFinalWake ==
    ASSUME IInv, WakeInv, NEW f \in Awaiters, PollFinal(f)
    PROVE  WakeInv'
<1>1. IInv'
  BY PollFinalInv
<1>2. f \in Procs /\ hand' = hand /\ \A p \in Procs : p # f => pc'[p] = pc[p]
  BY DEF PollFinal, Goto, IInv, TypeOK, Procs
<1>3. \A g \in Awaiters : g # f =>
         /\ phase'[g] = phase[g] /\ stored'[g] = stored[g] /\ armed'[g] = armed[g]
         /\ g \in woken => g \in woken'
  BY DEF PollFinal, Register, queueVars, IInv, TypeOK, QueueTypeOK
<1>4. /\ pc[f] \notin HandsFull /\ pc'[f] \in {"retract", "pending"}
      /\ pc'[f] = "pending" => phase'[f] = "waiting" /\ stored'[f] = armed'[f]
  BY <1>2 DEF PollFinal, Register, Goto, HandsFull, IInv, TypeOK, QueueTypeOK
<1> QED
  BY <1>1, <1>2, <1>3, <1>4, OwnStep

\* notify_one(): a pending future that is taken out of the awaiter set was
\* registered with the waker of its latest poll, and that waker is in hand.
LEMMA ForwardWake ==
    ASSUME IInv, IInv', WakeInv, NEW p \in Procs, NEW clear, NEW store, NEW wake,
           Forward(p, clear, store, wake), UNCHANGED <<armed, woken>>,
           pc[p] \notin HandsFull, clear \in HandsFull, wake \in HandsFull,
           {clear, store, wake} \cap {"recheck", "announce", "final", "pending"} = {}
    PROVE  WakeInv'
<1>1. CASE queue = <<>>
  <2>1. UNCHANGED <<queue, phase, stored, armed, woken, hand>> /\ Goto(p, store)
    BY <1>1 DEF Forward, queueVars
  <2>2. \A q \in Procs : q # p => pc'[q] = pc[q]
    BY <2>1 DEF Goto, IInv, TypeOK
  <2>3. pc'[p] = store
    BY <2>1 DEF Goto, IInv, TypeOK
  <2> QED
    BY <2>1, <2>2, <2>3, QuietStep
<1>2. CASE queue # <<>>
  <2>1. PICK a \in Awaiters : NotifyOne(a) /\ Put(p, {<<a, stored[a]>>})
                              /\ (Goto(p, clear) \/ Goto(p, wake))
    BY <1>2 DEF Forward
  <2>2. phase[a] = "waiting" /\ lock = {}
    BY <2>1, NotifyOneInv DEF IInv, Forward, Free
  <2>3. /\ phase'[a] = "notified" /\ hand'[p] = {<<a, stored[a]>>} /\ hand[p] = {}
        /\ pc'[p] \in {clear, wake}
        /\ \A q \in Procs : q # p => hand'[q] = hand[q] /\ pc'[q] = pc[q]
        /\ \A g \in Awaiters : g # a => phase'[g] = phase[g] /\ stored'[g] = stored[g]
    BY <2>1 DEF NotifyOne, Leave, Put, Goto, IInv, TypeOK, QueueTypeOK, WakeInv, HandsEmpty
  <2>4. HandsEmpty'
    BY <2>3 DEF WakeInv, HandsEmpty
  <2>5. InsideUnnotified'
    BY <2>2, <2>3 DEF WakeInv, InsideUnnotified, IInv, MutexHeld, Locked, Procs
  <2>6. \A g \in Awaiters : pc'[g] = "pending" => pc[g] = "pending"
    BY <2>3 DEF Procs
  <2>7. PendingIsReachable'
    <3>1. \A g \in Awaiters : phase'[g] = "waiting" => g \in Waiting'
      BY DEF IInv, QueueInv, Waiting
    <3> QED
      BY <2>3, <2>6, <3>1 DEF WakeInv, PendingIsReachable
  <2>8. NotifiedIsWoken'
    <3> SUFFICES ASSUME NEW f \in Awaiters, pc'[f] = "pending", phase'[f] = "notified"
                 PROVE  f \in woken' \/ \E q \in Procs : <<f, armed'[f]>> \in hand'[q]
      BY DEF NotifiedIsWoken
    <3>1. CASE f = a
      <4>1. stored[a] = armed[a]
        BY <2>2, <2>6, <3>1 DEF WakeInv, PendingIsReachable
      <4> QED
        BY <2>3, <3>1, <4>1
    <3>2. CASE f # a
      <4>1. f \in woken \/ \E q \in Procs : <<f, armed[f]>> \in hand[q]
        BY <2>3, <2>6, <3>2 DEF WakeInv, NotifiedIsWoken
      <4> QED
        BY <2>3, <4>1
    <3> QED
      BY <3>1, <3>2
  <2> QED
    BY <2>4, <2>5, <2>7, <2>8 DEF WakeInv
<1> QED
  BY <1>1, <1>2

\* set() under the mutex.
LEMMA SetLockWake ==
    ASSUME IInv, WakeInv, NEW s \in Setters, SetLock(s)
    PROVE  WakeInv'
<1>1. IInv' /\ s \in Procs /\ pc[s] = "lock"
  BY SetLockInv DEF SetLock, Procs
<1> QED
  BY <1>1, ForwardWake DEF SetLock, HandsFull

\* drop_wait() under the mutex.
LEMMA DropLockWake ==
    ASSUME IInv, WakeInv, NEW f \in Awaiters, DropLock(f)
    PROVE  WakeInv'
<1>1. IInv' /\ f \in Procs /\ pc[f] = "drop_lock"
  BY DropLockInv DEF DropLock, Procs
<1>2. CASE phase[f] = "notified"
  BY <1>1, <1>2, ForwardWake DEF DropLock, HandsFull
<1>3. CASE phase[f] # "notified"
  <2>1. hand' = hand /\ \A p \in Procs : p # f => pc'[p] = pc[p]
    BY <1>3 DEF DropLock, Goto, IInv, TypeOK
  <2>2. pc'[f] \in {"gone", "drop_clear"}
    BY <1>1, <1>3 DEF DropLock, Goto, IInv, TypeOK
  <2>3. \A g \in Awaiters : g # f =>
           /\ phase'[g] = phase[g] /\ stored'[g] = stored[g] /\ armed'[g] = armed[g]
           /\ g \in woken => g \in woken'
    BY <1>3 DEF DropLock, Unregister, Leave, queueVars, IInv, TypeOK, QueueTypeOK
  <2> QED
    BY <1>1, <2>1, <2>2, <2>3, OwnStep DEF HandsFull
<1> QED
  BY <1>2, <1>3

\* Every step preserves the invariant of the wakers.
LEMMA NextWakeInv == IInv /\ WakeInv /\ [Next]_vars => WakeInv'
<1> SUFFICES ASSUME IInv, WakeInv, [Next]_vars PROVE WakeInv'
  OBVIOUS
<1>1. CASE TryWait
  BY <1>1, QuietStep DEF TryWait, eventVars, queueVars
<1>2. ASSUME NEW s \in Setters, SetCas(s) \/ SetterStep(s) PROVE WakeInv'
  <2>1. CASE SetWake(s)
    BY <2>1, WakeHandInv DEF SetWake, Procs
  <2> QED
    BY <1>2, <2>1, SetQuiet, SetLockWake DEF SetterStep
<1>3. ASSUME NEW f \in Awaiters, Wait(f) \/ DropStart(f) \/ FutureStep(f) PROVE WakeInv'
  <2>1. CASE DropWake(f)
    BY <2>1, WakeHandInv DEF DropWake, Procs
  <2> QED
    BY <1>3, <2>1, FutureQuiet, PollBegins, PollFinalWake, DropLockWake DEF FutureStep
<1>4. ASSUME NEW f \in Awaiters, NEW w \in Wakers, PollStart(f, w) PROVE WakeInv'
  BY <1>4, PollBegins
<1>5. CASE UNCHANGED vars
  BY <1>5, QuietStep DEF vars, eventVars, queueVars
<1> QED
  BY <1>1, <1>2, <1>3, <1>4, <1>5 DEF Next

\* Both invariants hold in every behaviour of the event.
THEOREM SpecWakeInv == Spec => [](IInv /\ WakeInv)
<1>1. Init => IInv /\ WakeInv
  BY InitIInv, InitWakeInv
<1>2. IInv /\ WakeInv /\ [Next]_vars => (IInv /\ WakeInv)'
  BY NextIInv, NextWakeInv
<1> QED
  BY <1>1, <1>2, PTL DEF Spec

\* A future whose poll returned Pending is registered with the waker of that
\* very poll, or has been notified: set() can always reach it.
THEOREM WaitersReachable == Spec => []PendingIsReachable
<1>1. WakeInv => PendingIsReachable
  BY DEF WakeInv
<1> QED
  BY <1>1, SpecWakeInv, PTL

\* A future that set() or a cancelled wait has notified is woken through the
\* waker of its latest poll, or a thread holds that waker and is about to.
THEOREM NoLostWakeup == Spec => []NotifiedIsWoken
<1>1. WakeInv => NotifiedIsWoken
  BY DEF WakeInv
<1> QED
  BY <1>1, SpecWakeInv, PTL

\* Both at once: nobody whose poll returned Pending sleeps for good.
THEOREM NobodySleepsForGood == Spec => []NobodyOverslept
<1>1. WakeInv => NobodyOverslept
  BY DEF WakeInv, NobodyOverslept
<1> QED
  BY <1>1, SpecWakeInv, PTL

----------------------------------------------------------------------------
(* Conservation of signals.  A step moves at most one future in or out of    *)
(* Notified, or exchanges one for another, and at most one process in or out *)
(* of Placing; no set of futures or setters need be finite.                  *)

\* T has d elements more than S.
Grows(S, T, d) == IsFiniteSet(T) /\ Cardinality(T) = Cardinality(S) + d

\* A set that stays, gains one element, or loses one.
LEMMA SetGrows ==
    ASSUME NEW S, NEW T, NEW x, IsFiniteSet(S)
    PROVE  /\ T = S => Grows(S, T, 0)
           /\ T = S \cup {x} /\ x \notin S => Grows(S, T, 1)
           /\ T = S \ {x} /\ x \in S => Grows(S, T, -1)
<1>1. Cardinality(S) \in Nat
  BY FS_CardinalityType
<1> QED
  BY <1>1, FS_AddElement, FS_RemoveElement DEF Grows

\* A set that loses one element and gains another keeps its size.
LEMMA SetExchanges ==
    ASSUME NEW S, NEW T, NEW x \in S, NEW y, y \notin S, IsFiniteSet(S), T = (S \ {x}) \cup {y}
    PROVE  Grows(S, T, 0)
<1>1. IsFiniteSet(S \ {x}) /\ Cardinality(S \ {x}) = Cardinality(S) - 1 /\ y \notin S \ {x}
  BY FS_RemoveElement
<1>2. IsFiniteSet(T) /\ Cardinality(T) = Cardinality(S \ {x}) + 1
  BY <1>1, FS_AddElement
<1>3. Cardinality(S) \in Nat
  BY FS_CardinalityType
<1> QED
  BY <1>1, <1>2, <1>3 DEF Grows

\* The signal in the word, counted.
Stored(word) == IF SIGNALED \in word THEN 1 ELSE 0

\* A step by which the set() calls grow by ds, the waits served by da, the merged
\* signals by dm, and the signals in the word, with futures and being placed by
\* dw, dn and dp.
Account(ds, da, dm, dw, dn, dp) ==
    /\ sets' = sets + ds /\ acquired' = acquired + da /\ merged' = merged + dm
    /\ Stored(state') = Stored(state) + dw
    /\ Grows(Notified, Notified', dn) /\ Grows(Placing, Placing', dp)

\* What goes into the account comes out of it.
LEMMA Balance ==
    ASSUME TypeOK, SignalInv, NEW ds \in Int, NEW da \in Int, NEW dm \in Int,
           NEW dw \in Int, NEW dn \in Int, NEW dp \in Int,
           Account(ds, da, dm, dw, dn, dp), ds = da + dm + dw + dn + dp
    PROVE  SignalInv'
<1>1. Cardinality(Notified) \in Nat /\ Cardinality(Placing) \in Nat
  BY FS_CardinalityType DEF SignalInv
<1>2. sets \in Nat /\ acquired \in Nat /\ merged \in Nat /\ Stored(state) \in {0, 1}
  BY DEF TypeOK, Stored
<1>3. sets = acquired + merged + (Stored(state) + Cardinality(Notified) + Cardinality(Placing))
  BY DEF SignalInv, SignalsConserved, Tokens, Stored
<1>4. Tokens' = Stored(state') + Cardinality(Notified') + Cardinality(Placing')
  BY DEF Tokens, Stored
<1>5. sets' = acquired' + merged' + Tokens'
  BY <1>1, <1>2, <1>3, <1>4 DEF Account, Grows
<1> QED
  BY <1>5 DEF SignalInv, SignalsConserved, Account, Grows

\* Where a setter or a dropped future has a signal to place.
PlacingPcs == {"load", "lock", "store", "drop_store"}

\* Who is about to place a signal, by where one process goes.
LEMMA PlacingMoves ==
    ASSUME TypeOK, SignalInv, NEW p \in Procs, NEW to, Goto(p, to)
    PROVE  /\ pc[p] \in PlacingPcs /\ to \notin PlacingPcs => Grows(Placing, Placing', -1)
           /\ pc[p] \notin PlacingPcs /\ to \in PlacingPcs => Grows(Placing, Placing', 1)
           /\ (pc[p] \in PlacingPcs <=> to \in PlacingPcs) => Grows(Placing, Placing', 0)
<1>1. IsFiniteSet(Placing)
  BY DEF SignalInv
<1>2. pc'[p] = to /\ \A q \in Procs : q # p => pc'[q] = pc[q]
  BY DEF TypeOK, Goto
<1>3. CASE to \in PlacingPcs
  <2>1. Placing' = Placing \cup {p}
    BY <1>2, <1>3 DEF Placing, PlacingPcs
  <2> QED
    BY <1>1, <1>3, <2>1, SetGrows DEF Placing, PlacingPcs
<1>4. CASE to \notin PlacingPcs
  <2>1. Placing' = Placing \ {p}
    BY <1>2, <1>4 DEF Placing, PlacingPcs
  <2> QED
    BY <1>1, <1>4, <2>1, SetGrows DEF Placing, PlacingPcs
<1> QED
  BY <1>3, <1>4

\* The plain store of the word places the signal of who makes it, or merges it.
LEMMA StoreBalances ==
    ASSUME TypeOK, SignalInv, StoreSignaled, sets' = sets, acquired' = acquired,
           NEW p \in Procs, pc[p] \in PlacingPcs, NEW to, to \notin PlacingPcs, Goto(p, to),
           Grows(Notified, Notified', 0)
    PROVE  SignalInv'
<1>1. Grows(Placing, Placing', -1)
  BY PlacingMoves
<1>2. Stored(state') = 1
  BY DEF StoreSignaled, Stored
<1>3. CASE SIGNALED \in state
  <2>1. Account(0, 0, 1, 0, 0, -1)
    BY <1>1, <1>2, <1>3 DEF StoreSignaled, Account, Stored, TypeOK
  <2> QED
    BY <2>1, Balance
<1>4. CASE SIGNALED \notin state
  <2>1. Account(0, 0, 0, 1, 0, -1)
    BY <1>1, <1>2, <1>4 DEF StoreSignaled, Account, Stored, TypeOK
  <2> QED
    BY <2>1, Balance
<1> QED
  BY <1>3, <1>4

\* Where a future no longer counts as notified.
Left == {"gone", "drop_clear", "drop_store", "drop_wake"}

\* The notified, when no awaiter changes and nobody leaves that was notified.
LEMMA NotifiedStays ==
    ASSUME SignalInv,
           \A f \in Awaiters : /\ phase'[f] = phase[f] \/ (phase[f] # "notified" /\ phase'[f] # "notified")
                               /\ phase[f] # "notified" \/ (pc'[f] \in Left <=> pc[f] \in Left)
    PROVE  Grows(Notified, Notified', 0)
<1>1. Notified' = Notified
  BY DEF Notified, Left
<1> QED
  BY <1>1, SetGrows DEF SignalInv

\* set(), but for the notification: the signal is stored, merged, or kept in mind.
LEMMA SetterConserves ==
    ASSUME IInv, SignalInv, NEW s \in Setters,
           SetCas(s) \/ SetLoad(s) \/ SetClear(s) \/ SetStore(s) \/ SetWake(s)
    PROVE  SignalInv'
<1>1. TypeOK /\ s \in Procs /\ s \notin Awaiters
  BY AutoAssumption DEF IInv, Procs
<1>2. Grows(Notified, Notified', 0)
  <2>1. phase' = phase /\ \A f \in Awaiters : pc'[f] = pc[f]
    BY <1>1 DEF SetCas, SetLoad, SetClear, SetStore, SetWake, WakeHand, Goto, queueVars, TypeOK, Procs
  <2> QED
    BY <2>1, NotifiedStays
<1>3. CASE SetCas(s)
  <2>1. CASE state = {}
    <3>1. Placing' = Placing
      BY <1>3, <2>1 DEF SetCas, Placing
    <3>2. Grows(Placing, Placing', 0)
      BY <3>1, SetGrows DEF SignalInv
    <3>3. Account(1, 0, 0, 1, 0, 0)
      BY <1>1, <1>2, <1>3, <2>1, <3>2 DEF SetCas, Account, Stored, TypeOK
    <3> QED
      BY <1>1, <3>3, Balance
  <2>2. CASE state # {}
    <3>1. pc[s] = "idle" /\ Goto(s, "load")
      BY <1>3, <2>2 DEF SetCas
    <3>2. Grows(Placing, Placing', 1)
      BY <1>1, <3>1, PlacingMoves DEF PlacingPcs
    <3>3. Account(1, 0, 0, 0, 0, 1)
      BY <1>1, <1>2, <1>3, <2>2, <3>2 DEF SetCas, Account, Stored, TypeOK
    <3> QED
      BY <1>1, <3>3, Balance
  <2> QED
    BY <2>1, <2>2
<1>4. CASE SetLoad(s)
  <2>1. CASE SIGNALED \in state
    <3>1. pc[s] = "load" /\ Goto(s, "idle")
      BY <1>4, <2>1 DEF SetLoad
    <3>2. Grows(Placing, Placing', -1)
      BY <1>1, <3>1, PlacingMoves DEF PlacingPcs
    <3>3. Account(0, 0, 1, 0, 0, -1)
      BY <1>1, <1>2, <1>4, <2>1, <3>2 DEF SetLoad, Account, Stored, TypeOK
    <3> QED
      BY <1>1, <3>3, Balance
  <2>2. CASE SIGNALED \notin state
    <3>1. pc[s] = "load" /\ Goto(s, "lock")
      BY <1>4, <2>2 DEF SetLoad
    <3>2. Grows(Placing, Placing', 0)
      BY <1>1, <3>1, PlacingMoves DEF PlacingPcs
    <3>3. Account(0, 0, 0, 0, 0, 0)
      BY <1>1, <1>2, <1>4, <2>2, <3>2 DEF SetLoad, Account, Stored, TypeOK
    <3> QED
      BY <1>1, <3>3, Balance
  <2> QED
    BY <2>1, <2>2
<1>5. CASE SetClear(s) \/ SetWake(s)
  <2>1. PICK to \in {"wake", "idle"} : Goto(s, to) /\ pc[s] \in {"clear", "wake"}
    BY <1>5 DEF SetClear, SetWake, WakeHand
  <2>2. Grows(Placing, Placing', 0)
    BY <1>1, <2>1, PlacingMoves DEF PlacingPcs
  <2>3. SIGNALED \in state' <=> SIGNALED \in state
    BY <1>5 DEF SetClear, SetWake, WakeHand, ClearHasWaiters, SIGNALED, HAS_WAITERS
  <2>4. Account(0, 0, 0, 0, 0, 0)
    BY <1>1, <1>2, <1>5, <2>2, <2>3 DEF SetClear, SetWake, WakeHand, Account, Stored, TypeOK, ghostVars
  <2> QED
    BY <1>1, <2>4, Balance
<1>6. CASE SetStore(s)
  <2>1. /\ sets' = sets /\ acquired' = acquired /\ pc[s] = "store" /\ Goto(s, "idle")
        /\ StoreSignaled
    BY <1>6 DEF SetStore
  <2> QED
    BY <1>1, <1>2, <2>1, StoreBalances DEF PlacingPcs
<1> QED
  BY <1>3, <1>4, <1>5, <1>6

\* A poll that obtains a signal takes it from the word or from its awaiter; one
\* that does not, and wait(), leave the account alone.
LEMMA PollConserves ==
    ASSUME IInv, SignalInv, NEW f \in Awaiters,
           \/ Wait(f) \/ PollTake(f) \/ PollLock(f) \/ PollRecheck(f) \/ PollAnnounce(f)
           \/ PollFinal(f) \/ PollRetract(f) \/ \E w \in Wakers : PollStart(f, w)
    PROVE  SignalInv'
<1>1. TypeOK /\ f \in Procs /\ phase \in [Awaiters -> Phases]
  BY DEF IInv, TypeOK, QueueTypeOK, Procs
<1>2. PICK to \in {"new", "ready", "take", "poll_lock", "recheck", "announce", "final", "retract", "pending"} :
        Goto(f, to)
  BY DEF Wait, PollTake, PollLock, PollRecheck, PollAnnounce, PollFinal, PollRetract, PollStart, Accept
<1>3. pc[f] \notin PlacingPcs
  BY DEF Wait, PollTake, PollLock, PollRecheck, PollAnnounce, PollFinal, PollRetract, PollStart,
         PlacingPcs
<1>4. Grows(Placing, Placing', 0)
  BY <1>1, <1>2, <1>3, PlacingMoves DEF PlacingPcs
<1>5. pc'[f] = to /\ \A g \in Awaiters : g # f => pc'[g] = pc[g]
  BY <1>1, <1>2 DEF Goto, TypeOK, Procs
<1>6. sets' = sets + 0 /\ merged' = merged + 0
  BY <1>1
     DEF Wait, PollTake, PollLock, PollRecheck, PollAnnounce, PollFinal, PollRetract, PollStart, ghostVars,
         TypeOK
<1>7. CASE Accept(f) /\ pc[f] \in {"take", "poll_lock"} /\ state' = state
  <2>1. phase[f] = "notified" /\ phase' = [phase EXCEPT ![f] = "idle"] /\ acquired' = acquired + 1
    BY <1>7 DEF Accept, TakeNotification
  <2>2. Notified' = Notified \ {f} /\ f \in Notified
    BY <1>1, <1>5, <1>7, <2>1 DEF Notified
  <2>3. Grows(Notified, Notified', -1)
    BY <2>2, SetGrows DEF SignalInv
  <2>4. Account(0, 1, 0, 0, -1, 0)
    BY <1>4, <1>6, <1>7, <2>1, <2>3 DEF Account, Stored
  <2> QED
    BY <1>1, <2>4, Balance
<1>8. CASE ~(Accept(f) /\ pc[f] \in {"take", "poll_lock"} /\ state' = state)
  <2>1. Grows(Notified, Notified', 0)
    <3>1. CASE Wait(f)
      <4>1. Notified' = Notified
        BY <1>1, <1>5, <3>1 DEF Wait, Notified
      <4> QED
        BY <4>1, SetGrows DEF SignalInv
    <3>2. CASE ~Wait(f)
      <4>1. pc[f] \notin Left /\ to \notin Left
        BY <1>2, <3>2
           DEF PollTake, PollLock, PollRecheck, PollAnnounce, PollFinal, PollRetract, PollStart, Left
      <4>2. phase' = phase \/ (phase[f] # "notified" /\ phase' = [phase EXCEPT ![f] = "waiting"])
        <5>1. CASE PollFinal(f)
          BY <1>1, <5>1 DEF PollFinal, Register, queueVars, Phases
        <5>2. CASE PollTake(f) \/ PollLock(f)
          BY <1>8, <5>2 DEF PollTake, PollLock, queueVars
        <5> QED
          BY <3>2, <5>1, <5>2 DEF PollRecheck, PollAnnounce, PollRetract, PollStart, queueVars
      <4>3. \A g \in Awaiters : g # f => phase'[g] = phase[g]
        BY <1>1, <4>2
      <4>4. phase'[f] = phase[f] \/ (phase[f] # "notified" /\ phase'[f] # "notified")
        BY <1>1, <4>2
      <4> QED
        BY <1>5, <4>1, <4>3, <4>4, NotifiedStays
    <3> QED
      BY <3>1, <3>2
  <2>2. \/ acquired' = acquired /\ (SIGNALED \in state' <=> SIGNALED \in state)
        \/ acquired' = acquired + 1 /\ SIGNALED \in state /\ SIGNALED \notin state'
    <3>1. CASE Wait(f) \/ PollAnnounce(f) \/ PollRetract(f)
      BY <3>1 DEF Wait, PollAnnounce, PollRetract, ClearHasWaiters, ghostVars, SIGNALED, HAS_WAITERS
    <3>2. CASE PollTake(f) \/ PollLock(f)
      BY <1>8, <3>2 DEF PollTake, PollLock
    <3> QED
      BY <3>1, <3>2 DEF PollRecheck, PollFinal, PollStart, ConsumeSignal, NoSignal
  <2>3. CASE acquired' = acquired /\ (SIGNALED \in state' <=> SIGNALED \in state)
    <3>1. Account(0, 0, 0, 0, 0, 0)
      BY <1>1, <1>4, <1>6, <2>1, <2>3 DEF Account, Stored, TypeOK
    <3> QED
      BY <1>1, <3>1, Balance
  <2>4. CASE acquired' = acquired + 1 /\ SIGNALED \in state /\ SIGNALED \notin state'
    <3>1. Account(0, 1, 0, -1, 0, 0)
      BY <1>1, <1>4, <1>6, <2>1, <2>4 DEF Account, Stored, TypeOK
    <3> QED
      BY <1>1, <3>1, Balance
  <2> QED
    BY <2>2, <2>3, <2>4
<1> QED
  BY <1>7, <1>8

\* try_wait() takes the stored signal.
LEMMA TryWaitConserves ==
    ASSUME IInv, SignalInv, TryWait
    PROVE  SignalInv'
<1>1. TypeOK /\ Notified' = Notified /\ Placing' = Placing
  BY DEF IInv, TryWait, eventVars, queueVars, Notified, Placing
<1>2. Grows(Notified, Notified', 0) /\ Grows(Placing, Placing', 0)
  BY <1>1, SetGrows DEF SignalInv
<1>3. Account(0, 1, 0, -1, 0, 0)
  BY <1>1, <1>2 DEF TryWait, ConsumeSignal, Account, Stored, TypeOK
<1> QED
  BY <1>1, <1>3, Balance

\* notify_one() under the mutex: p finds nobody and keeps the signal in mind, or
\* a waiting future is notified.
LEMMA ForwardMoves ==
    ASSUME IInv, NEW p \in Procs, NEW clear, NEW store, NEW wake, Forward(p, clear, store, wake)
    PROVE  \/ Goto(p, store) /\ phase' = phase
           \/ /\ \E to \in {clear, wake} : Goto(p, to)
              /\ \E a \in Awaiters : /\ phase[a] = "waiting" /\ pc[a] \notin Left
                                     /\ phase' = [phase EXCEPT ![a] = "notified"]
<1>1. CASE queue = <<>>
  BY <1>1 DEF Forward, queueVars
<1>2. CASE queue # <<>>
  <2>1. PICK a \in Awaiters : NotifyOne(a) /\ (Goto(p, clear) \/ Goto(p, wake))
    BY <1>2 DEF Forward
  <2>2. phase[a] = "waiting"
    BY <2>1, NotifyOneInv DEF IInv
  <2>3. pc[a] \notin Left
    BY <2>2 DEF IInv, GoneIsOut, Left
  <2>4. phase' = [phase EXCEPT ![a] = "notified"]
    BY <2>1 DEF NotifyOne, Leave
  <2> QED
    BY <2>1, <2>2, <2>3, <2>4
<1> QED
  BY <1>1, <1>2

\* A step that changes neither the counts nor the word.
Uncounted == UNCHANGED <<state, sets, acquired, merged>>

\* In such a step what the notified gain, those about to place a signal lose.
LEMMA UncountedBalances ==
    ASSUME TypeOK, SignalInv, Uncounted, NEW d \in Int,
           Grows(Notified, Notified', d), Grows(Placing, Placing', -d)
    PROVE  SignalInv'
<1>1. Account(0, 0, 0, 0, d, -d)
  BY DEF Uncounted, Account, Stored, TypeOK
<1> QED
  BY <1>1, Balance

\* set() under the mutex: the signal goes to a waiting future, or is kept in mind.
LEMMA SetLockConserves ==
    ASSUME IInv, SignalInv, NEW s \in Setters, SetLock(s)
    PROVE  SignalInv'
<1>1. TypeOK /\ s \in Procs /\ s \notin Awaiters /\ pc[s] = "lock" /\ Uncounted
  BY AutoAssumption DEF IInv, Procs, SetLock, Uncounted, ghostVars
<1>2. \A to : Goto(s, to) => \A f \in Awaiters : pc'[f] = pc[f]
  BY <1>1 DEF Goto, TypeOK, Procs
<1>3. CASE Goto(s, "store") /\ phase' = phase
  <2>1. Grows(Notified, Notified', 0)
    BY <1>2, <1>3, NotifiedStays
  <2>2. Grows(Placing, Placing', 0)
    BY <1>1, <1>3, PlacingMoves DEF PlacingPcs
  <2> QED
    BY <1>1, <2>1, <2>2, UncountedBalances
<1>4. ASSUME NEW to \in {"clear", "wake"}, Goto(s, to), NEW a \in Awaiters,
             phase[a] = "waiting", pc[a] \notin Left, phase' = [phase EXCEPT ![a] = "notified"]
      PROVE  SignalInv'
  <2>1. Notified' = Notified \cup {a} /\ a \notin Notified
    BY <1>1, <1>2, <1>4 DEF Notified, Left, TypeOK, QueueTypeOK
  <2>2. Grows(Notified, Notified', 1)
    BY <2>1, SetGrows DEF SignalInv
  <2>3. Grows(Placing, Placing', -1)
    BY <1>1, <1>4, PlacingMoves DEF PlacingPcs
  <2> QED
    BY <1>1, <2>2, <2>3, UncountedBalances
<1> QED
  BY <1>1, <1>3, <1>4, ForwardMoves DEF SetLock

\* drop_wait() under the mutex: a notification nobody will consume goes to another
\* future or is kept in mind; a future without one takes nothing with it.
LEMMA DropLockConserves ==
    ASSUME IInv, SignalInv, NEW f \in Awaiters, DropLock(f)
    PROVE  SignalInv'
<1>1. TypeOK /\ f \in Procs /\ pc[f] = "drop_lock" /\ Uncounted
  BY DEF IInv, Procs, DropLock, Uncounted, ghostVars
<1>2. \A to : Goto(f, to) => pc'[f] = to /\ \A g \in Awaiters : g # f => pc'[g] = pc[g]
  BY <1>1 DEF Goto, TypeOK, Procs
<1>3. CASE phase[f] = "notified"
  <2>1. Forward(f, "drop_clear", "drop_store", "drop_wake") /\ f \in Notified
    BY <1>1, <1>3 DEF DropLock, Notified
  <2>2. CASE Goto(f, "drop_store") /\ phase' = phase
    <3>1. Notified' = Notified \ {f}
      BY <1>2, <2>2 DEF Notified
    <3>2. Grows(Notified, Notified', -1)
      BY <2>1, <3>1, SetGrows DEF SignalInv
    <3>3. Grows(Placing, Placing', 1)
      BY <1>1, <2>2, PlacingMoves DEF PlacingPcs
    <3> QED
      BY <1>1, <3>2, <3>3, UncountedBalances
  <2>3. ASSUME NEW to \in {"drop_clear", "drop_wake"}, Goto(f, to), NEW a \in Awaiters,
               phase[a] = "waiting", pc[a] \notin Left, phase' = [phase EXCEPT ![a] = "notified"]
        PROVE  SignalInv'
    <3>1. Notified' = (Notified \ {f}) \cup {a} /\ a \notin Notified
      BY <1>2, <1>3, <2>3 DEF Notified, Left, IInv, TypeOK, QueueTypeOK
    <3>2. Grows(Notified, Notified', 0)
      BY <2>1, <3>1, SetExchanges DEF SignalInv
    <3>3. Grows(Placing, Placing', 0)
      BY <1>1, <2>3, PlacingMoves DEF PlacingPcs
    <3> QED
      BY <1>1, <3>2, <3>3, UncountedBalances
  <2> QED
    BY <1>1, <2>1, <2>2, <2>3, ForwardMoves
<1>4. CASE phase[f] # "notified"
  <2>1. PICK to \in {"drop_clear", "gone"} : Goto(f, to)
    BY <1>4 DEF DropLock
  <2>2. \A g \in Awaiters : phase'[g] = phase[g] \/ (phase[g] # "notified" /\ phase'[g] # "notified")
    BY <1>1, <1>4 DEF DropLock, Unregister, Leave, TypeOK, QueueTypeOK, queueVars
  <2>3. \A g \in Awaiters : phase[g] # "notified" \/ (pc'[g] \in Left <=> pc[g] \in Left)
    BY <1>2, <1>4, <2>1
  <2>4. Grows(Notified, Notified', 0)
    BY <2>2, <2>3, NotifiedStays
  <2>5. Grows(Placing, Placing', 0)
    BY <1>1, <2>1, PlacingMoves DEF PlacingPcs
  <2> QED
    BY <1>1, <2>4, <2>5, UncountedBalances
<1> QED
  BY <1>3, <1>4

\* The rest of a drop: whoever leaves unnotified takes nothing, a forwarded signal
\* nobody waited for is stored, and clearing HAS_WAITERS leaves the signal alone.
LEMMA DropConserves ==
    ASSUME IInv, SignalInv, NEW f \in Awaiters,
           DropStart(f) \/ DropClear(f) \/ DropStore(f) \/ DropWake(f)
    PROVE  SignalInv'
<1>1. TypeOK /\ f \in Procs
  BY DEF IInv, Procs
<1>2. PICK to \in {"gone", "drop_lock", "drop_wake"} : Goto(f, to)
  BY DEF DropStart, DropClear, DropStore, DropWake, WakeHand
<1>3. pc'[f] = to /\ \A g \in Awaiters : g # f => pc'[g] = pc[g]
  BY <1>1, <1>2 DEF Goto, TypeOK, Procs
<1>4. phase' = phase
  BY DEF DropStart, DropClear, DropStore, DropWake, WakeHand, queueVars
<1>5. phase[f] # "notified" \/ (to \in Left <=> pc[f] \in Left)
  <2>1. CASE DropStart(f) /\ phase[f] = "notified"
    <3>1. Goto(f, "drop_lock") /\ pc[f] \in {"new", "pending", "ready"}
      BY <2>1 DEF DropStart
    <3>2. to = "drop_lock"
      BY <1>1, <1>2, <3>1 DEF Goto, TypeOK
    <3> QED
      BY <3>1, <3>2 DEF Left
  <2>2. CASE DropClear(f) \/ DropStore(f) \/ DropWake(f)
    <3>1. pc[f] \in Left
      BY <2>2 DEF DropClear, DropStore, DropWake, Left
    <3>2. Goto(f, "gone") \/ Goto(f, "drop_wake")
      BY <2>2 DEF DropClear, DropStore, DropWake, WakeHand
    <3>3. to \in Left
      BY <1>1, <1>2, <3>2 DEF Goto, TypeOK, Left
    <3> QED
      BY <3>1, <3>3
  <2> QED
    BY <2>1, <2>2
<1>6. Grows(Notified, Notified', 0)
  BY <1>3, <1>4, <1>5, NotifiedStays
<1>7. CASE DropStore(f)
  <2>1. sets' = sets /\ acquired' = acquired /\ pc[f] = "drop_store" /\ StoreSignaled
    BY <1>7 DEF DropStore
  <2> QED
    BY <1>1, <1>2, <1>6, <2>1, StoreBalances DEF PlacingPcs
<1>8. CASE DropStart(f) \/ DropClear(f) \/ DropWake(f)
  <2>1. pc[f] \notin PlacingPcs
    BY <1>8 DEF DropStart, DropClear, DropWake, PlacingPcs
  <2>2. Grows(Placing, Placing', 0)
    BY <1>1, <1>2, <2>1, PlacingMoves DEF PlacingPcs
  <2>3. SIGNALED \in state' <=> SIGNALED \in state
    BY <1>8 DEF DropStart, DropClear, DropWake, WakeHand, ClearHasWaiters, SIGNALED, HAS_WAITERS
  <2>4. Account(0, 0, 0, 0, 0, 0)
    BY <1>1, <1>6, <1>8, <2>2, <2>3
       DEF DropStart, DropClear, DropWake, WakeHand, Account, Stored, TypeOK, ghostVars
  <2> QED
    BY <1>1, <2>4, Balance
<1> QED
  BY <1>7, <1>8

\* The event as it is built: no signal anywhere.
LEMMA InitSignals == Init => SignalInv
<1> SUFFICES ASSUME Init PROVE SignalInv
  OBVIOUS
<1>1. \A f \in Awaiters : phase[f] = "idle"
  BY DEF Init, QueueInit
<1>2. \A p \in Procs : pc[p] \in {"idle", "new"}
  BY DEF Init
<1>3. Notified = {} /\ Placing = {}
  BY <1>1, <1>2 DEF Notified, Placing
<1>4. IsFiniteSet({}) /\ Cardinality({}) = 0
  BY FS_EmptySet
<1>5. Tokens = 0
  BY <1>3, <1>4 DEF Tokens, Init
<1> QED
  BY <1>3, <1>4, <1>5 DEF Init, SignalInv, SignalsConserved

\* Every step keeps the account.
LEMMA NextSignals == IInv /\ SignalInv /\ [Next]_vars => SignalInv'
<1> SUFFICES ASSUME IInv, SignalInv, [Next]_vars PROVE SignalInv'
  OBVIOUS
<1>1. CASE TryWait
  BY <1>1, TryWaitConserves
<1>2. ASSUME NEW s \in Setters, SetCas(s) \/ SetterStep(s) PROVE SignalInv'
  BY <1>2, SetterConserves, SetLockConserves DEF SetterStep
<1>3. ASSUME NEW f \in Awaiters, Wait(f) \/ DropStart(f) \/ FutureStep(f) PROVE SignalInv'
  BY <1>3, PollConserves, DropConserves, DropLockConserves DEF FutureStep
<1>4. ASSUME NEW f \in Awaiters, NEW w \in Wakers, PollStart(f, w) PROVE SignalInv'
  BY <1>4, PollConserves
<1>5. CASE UNCHANGED vars
  BY <1>5 DEF vars, eventVars, queueVars, ghostVars, SignalInv, SignalsConserved, Tokens, Notified, Placing
<1> QED
  BY <1>1, <1>2, <1>3, <1>4, <1>5 DEF Next

\* Every set() releases exactly one wait, now or later, or is merged into a signal
\* still stored; a cancelled wait neither loses nor duplicates one.
THEOREM SignalsAreConserved == Spec => []SignalsConserved
<1>1. Init => IInv /\ SignalInv
  BY InitIInv, InitSignals
<1>2. IInv /\ SignalInv /\ [Next]_vars => (IInv /\ SignalInv)'
  BY NextIInv, NextSignals
<1>3. SignalInv => SignalsConserved
  BY DEF SignalInv
<1> QED
  BY <1>1, <1>2, <1>3, PTL DEF Spec

=============================================================================
