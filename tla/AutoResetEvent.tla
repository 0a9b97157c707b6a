--------------------------- MODULE AutoResetEvent ---------------------------
(***************************************************************************)
(* The thread-safe auto-reset event of packages/events/src/auto.rs: an     *)
(* atomic word with the bits SIGNALED and HAS_WAITERS, flipped without a   *)
(* lock, and a set of awaiters under the mutex `slow`.                     *)
(*                                                                         *)
(* One action per atomic operation.  Taking the mutex is merged into the   *)
(* first step under it and releasing it into the last one; what the step   *)
(* does to the awaiter set is an operation of AwaiterQueue.  An awaiter is *)
(* identified with the wait future that owns it.  Atomic operations are    *)
(* sequentially consistent here: all of them are on the one word.          *)
(***************************************************************************)
EXTENDS AwaiterQueue, FiniteSets

CONSTANTS Setters,    \* threads that call set()
          MaxSets     \* bound on the number of set() calls

ASSUME AutoAssumption ==
    /\ MaxSets \in Nat /\ Setters \cap Awaiters = {} /\ Setters # {}

VARIABLES
    state,      \* the bits that are set in EventInner::state
    lock,       \* who holds `slow`: a set with at most one thread or future
    pc,         \* what each setter and each future does next
    hand,       \* the wakers (future, waker) a setter or future has to wake
    armed,      \* the waker of each future's last Pending poll
    woken,      \* the futures whose waker was woken since their last poll began
    sets,       \* set() calls that have taken effect
    acquired,   \* waits and try_waits that have obtained a signal
    merged      \* signals that met a stored signal and became one with it

eventVars == <<lock, pc, hand, armed, woken>>
ghostVars == <<sets, acquired, merged>>
vars == <<queueVars, state, eventVars, ghostVars>>

SIGNALED    == "SIGNALED"
HAS_WAITERS == "HAS_WAITERS"

Procs == Setters \cup Awaiters

\* A future is "new" or "pending" between polls, "ready" after its last one and
\* "gone" once dropped; wait() makes another one in its place.
SetterPcs == {"idle", "load", "lock", "clear", "store", "wake"}
FuturePcs == {"new", "pending", "ready", "gone", "take", "poll_lock", "recheck",
              "announce", "final", "retract", "drop_lock", "drop_clear",
              "drop_store", "drop_wake"}

TypeOK ==
    /\ QueueTypeOK
    /\ state \subseteq {SIGNALED, HAS_WAITERS}
    /\ lock \subseteq Procs
    /\ pc \in [Procs -> SetterPcs \cup FuturePcs]
    /\ hand \in [Procs -> SUBSET (Awaiters \X Wakers)]
    /\ armed \in [Awaiters -> Wakers \cup {NoWaker}]
    /\ woken \subseteq Awaiters
    /\ sets \in Nat /\ acquired \in Nat /\ merged \in Nat

Init ==
    /\ QueueInit
    /\ state = {} /\ lock = {}
    /\ pc = [p \in Procs |-> IF p \in Setters THEN "idle" ELSE "new"]
    /\ hand = [p \in Procs |-> {}]
    /\ armed = [f \in Awaiters |-> NoWaker] /\ woken = {}
    /\ sets = 0 /\ acquired = 0 /\ merged = 0

Goto(p, to) == pc' = [pc EXCEPT ![p] = to]
Free == lock = {}
Put(p, wakers) == hand' = [hand EXCEPT ![p] = wakers]

----------------------------------------------------------------------------
(* set() *)

\* The fast path: no signal, no waiters.
SetCas(s) ==
    /\ pc[s] = "idle" /\ sets < MaxSets
    /\ sets' = sets + 1
    /\ IF state = {} THEN state' = {SIGNALED} /\ UNCHANGED pc
                     ELSE Goto(s, "load") /\ UNCHANGED state
    /\ UNCHANGED <<queueVars, lock, hand, armed, woken, acquired, merged>>

\* A signal that is still stored absorbs this one.
SetLoad(s) ==
    /\ pc[s] = "load"
    /\ IF SIGNALED \in state THEN Goto(s, "idle") /\ merged' = merged + 1
                             ELSE Goto(s, "lock") /\ UNCHANGED merged
    /\ UNCHANGED <<queueVars, state, lock, hand, armed, woken, sets, acquired>>

\* notify_one() under the mutex, by a setter or by a future that forwards its
\* notification: who holds the mutex next, and what it does there.
Forward(p, clear, store, wake) ==
    /\ Free
    /\ IF queue = <<>>
         THEN lock' = {p} /\ Goto(p, store) /\ UNCHANGED <<queueVars, hand>>
         ELSE \E a \in Awaiters :
                /\ NotifyOne(a)
                /\ Put(p, {<<a, stored[a]>>})
                /\ IF queue' = <<>> THEN lock' = {p} /\ Goto(p, clear)
                                    ELSE Goto(p, wake) /\ UNCHANGED lock

SetLock(s) ==
    /\ pc[s] = "lock" /\ Forward(s, "clear", "store", "wake")
    /\ UNCHANGED <<state, armed, woken, ghostVars>>

ClearHasWaiters == state' = state \ {HAS_WAITERS}

SetClear(s) ==
    /\ pc[s] = "clear" /\ ClearHasWaiters
    /\ lock' = {} /\ Goto(s, "wake")
    /\ UNCHANGED <<queueVars, hand, armed, woken, ghostVars>>

\* No waiters despite HAS_WAITERS: the plain store replaces the whole word.
StoreSignaled ==
    /\ state' = {SIGNALED}
    /\ merged' = IF SIGNALED \in state THEN merged + 1 ELSE merged

SetStore(s) ==
    /\ pc[s] = "store" /\ StoreSignaled
    /\ lock' = {} /\ Goto(s, "idle")
    /\ UNCHANGED <<queueVars, hand, armed, woken, sets, acquired>>

\* Mutant: the waker is forgotten.
WakeNobody(p, to) ==
    /\ Put(p, {}) /\ Goto(p, to) /\ UNCHANGED woken
    /\ UNCHANGED <<queueVars, state, lock, armed, ghostVars>>

\* w.wake(), outside the mutex.  It reaches the future if the waker is the one
\* of the future's latest poll: an older one may belong to another task.
WakeHand(p, to) ==
    /\ woken' = woken \cup {f \in Awaiters : <<f, armed[f]>> \in hand[p]}
    /\ Put(p, {}) /\ Goto(p, to)
    /\ UNCHANGED <<queueVars, state, lock, armed, ghostVars>>

SetWake(s) == pc[s] = "wake" /\ WakeHand(s, "idle")

----------------------------------------------------------------------------
(* try_wait() and the wait future. *)

\* fetch_and(!SIGNALED): whether there was a signal to consume.
ConsumeSignal == SIGNALED \in state /\ state' = state \ {SIGNALED}
                                    /\ acquired' = acquired + 1
NoSignal == SIGNALED \notin state /\ UNCHANGED <<state, acquired>>

TryWait ==
    /\ ConsumeSignal
    /\ UNCHANGED <<queueVars, eventVars, sets, merged>>

\* wait(): another future, with an idle awaiter.
Wait(f) ==
    /\ pc[f] = "gone" /\ Goto(f, "new")
    /\ phase' = [phase EXCEPT ![f] = "idle"]
    /\ armed' = [armed EXCEPT ![f] = NoWaker]
    /\ woken' = woken \ {f}
    /\ UNCHANGED <<queue, prior, stored, state, lock, hand, ghostVars>>

\* poll_wait() begins with the lock-free attempt; the waker is remembered in
\* `armed` and forgotten again unless the poll returns Pending.
PollStart(f, w) ==
    /\ pc[f] \in {"new", "pending"}
    /\ armed' = [armed EXCEPT ![f] = w]
    /\ woken' = woken \ {f}
    /\ \/ ConsumeSignal /\ Goto(f, "ready")
       \/ NoSignal /\ Goto(f, "take")
    /\ UNCHANGED <<queueVars, lock, hand, sets, merged>>

\* Consumes a notification that set() made directly, before or under the mutex.
Accept(f) ==
    /\ TakeNotification(f) /\ Goto(f, "ready") /\ acquired' = acquired + 1

PollTake(f) ==
    /\ pc[f] = "take"
    /\ \/ Accept(f)
       \/ phase[f] # "notified" /\ Goto(f, "poll_lock") /\ UNCHANGED <<queueVars, acquired>>
    /\ UNCHANGED <<state, lock, hand, armed, woken, sets, merged>>

PollLock(f) ==
    /\ pc[f] = "poll_lock" /\ Free
    /\ \/ Accept(f) /\ UNCHANGED lock
       \/ /\ phase[f] # "notified" /\ lock' = {f} /\ Goto(f, "recheck")
          /\ UNCHANGED <<queueVars, acquired>>
    /\ UNCHANGED <<state, hand, armed, woken, sets, merged>>

PollRecheck(f) ==
    /\ pc[f] = "recheck"
    /\ \/ ConsumeSignal /\ lock' = {} /\ Goto(f, "ready")
       \/ NoSignal /\ Goto(f, "announce") /\ UNCHANGED lock
    /\ UNCHANGED <<queueVars, hand, armed, woken, sets, merged>>

\* fetch_or(HAS_WAITERS): from here on set() takes its slow path.
PollAnnounce(f) ==
    /\ pc[f] = "announce" /\ Goto(f, "final")
    /\ state' = state \cup {HAS_WAITERS}
    /\ UNCHANGED <<queueVars, lock, hand, armed, woken, ghostVars>>

\* Mutant: the signal is not looked for again after HAS_WAITERS is set.
PollFinalUnchecked(f) ==
    /\ pc[f] = "final"
    /\ Register(f, armed[f]) /\ lock' = {} /\ Goto(f, "pending")
    /\ UNCHANGED <<state, hand, armed, woken, ghostVars>>

\* Mutant: a poll that is already registered keeps its earlier waker.
PollFinalKeepingWaker(f) ==
    /\ pc[f] = "final"
    /\ \/ ConsumeSignal /\ Goto(f, "retract") /\ UNCHANGED <<queueVars, lock>>
       \/ /\ NoSignal
          /\ Register(f, IF phase[f] = "waiting" THEN stored[f] ELSE armed[f])
          /\ lock' = {} /\ Goto(f, "pending")
    /\ UNCHANGED <<hand, armed, woken, sets, merged>>

PollFinal(f) ==
    /\ pc[f] = "final"
    /\ \/ ConsumeSignal /\ Goto(f, "retract") /\ UNCHANGED <<queueVars, lock>>
       \/ NoSignal /\ Register(f, armed[f]) /\ lock' = {} /\ Goto(f, "pending")
    /\ UNCHANGED <<hand, armed, woken, sets, merged>>

PollRetract(f) ==
    /\ pc[f] = "retract" /\ ClearHasWaiters
    /\ lock' = {} /\ Goto(f, "ready")
    /\ UNCHANGED <<queueVars, hand, armed, woken, ghostVars>>

\* Drop, at any time between polls: nothing to do unless registered or notified.
DropStart(f) ==
    /\ pc[f] \in {"new", "pending", "ready"}
    /\ Goto(f, IF phase[f] = "idle" THEN "gone" ELSE "drop_lock")
    /\ UNCHANGED <<queueVars, state, lock, hand, armed, woken, ghostVars>>

\* Mutant: HAS_WAITERS is cleared by every departure.
DropLockClearing(f) ==
    /\ pc[f] = "drop_lock" /\ Free /\ Unregister(f)
    /\ lock' = {f} /\ Goto(f, "drop_clear")
    /\ UNCHANGED <<state, hand, armed, woken, ghostVars>>

\* Mutant: a cancelled future keeps its notification to itself.
DropLockSilently(f) ==
    /\ pc[f] = "drop_lock" /\ Free /\ Unregister(f) /\ UNCHANGED hand
    /\ IF queue' = <<>> THEN lock' = {f} /\ Goto(f, "drop_clear")
                        ELSE Goto(f, "gone") /\ UNCHANGED lock
    /\ UNCHANGED <<state, armed, woken, ghostVars>>

\* drop_wait(): forward a notification nobody will consume, or unregister.
DropLock(f) ==
    /\ pc[f] = "drop_lock"
    /\ IF phase[f] = "notified"
         THEN Forward(f, "drop_clear", "drop_store", "drop_wake")
         ELSE /\ Free /\ Unregister(f) /\ UNCHANGED hand
              /\ IF queue' = <<>> THEN lock' = {f} /\ Goto(f, "drop_clear")
                                  ELSE Goto(f, "gone") /\ UNCHANGED lock
    /\ UNCHANGED <<state, armed, woken, ghostVars>>

DropClear(f) ==
    /\ pc[f] = "drop_clear" /\ ClearHasWaiters
    /\ lock' = {} /\ Goto(f, IF hand[f] = {} THEN "gone" ELSE "drop_wake")
    /\ UNCHANGED <<queueVars, hand, armed, woken, ghostVars>>

DropStore(f) ==
    /\ pc[f] = "drop_store" /\ StoreSignaled
    /\ lock' = {} /\ Goto(f, "gone")
    /\ UNCHANGED <<queueVars, hand, armed, woken, sets, acquired>>

DropWake(f) == pc[f] = "drop_wake" /\ WakeHand(f, "gone")

SetterStep(s) ==
    SetLoad(s) \/ SetLock(s) \/ SetClear(s) \/ SetStore(s) \/ SetWake(s)

FutureStep(f) ==
    \/ PollTake(f) \/ PollLock(f) \/ PollRecheck(f) \/ PollAnnounce(f)
    \/ PollFinal(f) \/ PollRetract(f)
    \/ DropLock(f) \/ DropClear(f) \/ DropStore(f) \/ DropWake(f)

Next ==
    \/ TryWait
    \/ \E s \in Setters : SetCas(s) \/ SetterStep(s)
    \/ \E f \in Awaiters :
        \/ Wait(f) \/ DropStart(f) \/ FutureStep(f)
        \/ \E w \in Wakers : PollStart(f, w)

Spec == Init /\ [][Next]_vars

\* Threads inside an operation go on; an executor polls a future that is new or
\* whose waker was woken.  Nothing is assumed of how fair the mutex is.
ExecutorPoll(f) ==
    /\ pc[f] = "new" \/ f \in woken
    /\ \E w \in Wakers : PollStart(f, w)

Fairness == /\ \A s \in Setters : WF_vars(SetterStep(s))
            /\ \A f \in Awaiters : WF_vars(FutureStep(f)) /\ WF_vars(ExecutorPoll(f))

FairSpec == Spec /\ Fairness

----------------------------------------------------------------------------
(* Properties. *)

\* The key invariant that auto.rs states for its fast path: with HAS_WAITERS
\* clear nobody is registered, so set() may store the signal without looking.
WaitersAnnounced == HAS_WAITERS \notin state => queue = <<>>

\* A stored signal never sits beside a registered waiter: whichever of set()
\* and poll_wait() comes second sees the other.
NoWaiterBesideSignal == SIGNALED \in state => queue = <<>>

\* Why the two hold.  The thread inside the mutex is the only one there, ...
Locked == {"clear", "store", "recheck", "announce", "final", "retract",
           "drop_clear", "drop_store"}
MutexHeld == \A p \in Procs : pc[p] \in Locked => lock = {p}

\* ... it overwrites HAS_WAITERS only where the set of awaiters is empty ...
ClearsOnlyEmpty ==
    \A p \in Procs :
        pc[p] \in {"clear", "store", "retract", "drop_clear", "drop_store"} => queue = <<>>

\* ... and a future that is about to register has HAS_WAITERS still set.
FinalIsAnnounced == \A f \in Awaiters : pc[f] = "final" => HAS_WAITERS \in state

\* Setters and futures run code of their own.
OwnCode == /\ \A s \in Setters : pc[s] \in SetterPcs
           /\ \A f \in Awaiters : pc[f] \in FuturePcs

\* A future that is being polled knows its waker; one that is gone has left.
PollingArmed ==
    \A f \in Awaiters :
        pc[f] \in {"take", "poll_lock", "recheck", "announce", "final", "pending"} =>
            armed[f] \in Wakers
GoneIsOut ==
    \A f \in Awaiters :
        pc[f] \in {"gone", "drop_clear", "drop_store", "drop_wake"} => phase[f] # "waiting"

\* The inductive invariant of the mutex and the two bits: it carries the two
\* properties above through every interleaving of set(), poll_wait() and
\* drop_wait().
IInv == /\ TypeOK /\ QueueInv /\ OwnCode /\ PollingArmed /\ GoneIsOut /\ MutexHeld /\ ClearsOnlyEmpty /\ FinalIsAnnounced
        /\ WaitersAnnounced /\ NoWaiterBesideSignal

\* The signals in existence: the stored one, those of notified futures that
\* have not been dropped, and those that a set() or a drop is about to place.
Notified == {f \in Awaiters : /\ phase[f] = "notified"
                              /\ pc[f] \notin {"gone", "drop_clear", "drop_store", "drop_wake"}}
Placing == {p \in Procs : pc[p] \in {"load", "lock", "store", "drop_store"}}
Tokens == (IF SIGNALED \in state THEN 1 ELSE 0) + Cardinality(Notified) + Cardinality(Placing)

\* Every set() releases exactly one wait, now or later, or is merged into a
\* signal still stored; cancelling a wait neither loses nor duplicates one.
SignalsConserved == sets = acquired + merged + Tokens

\* A notified future is never left asleep: the waker of its latest poll has
\* been woken or is in the hand of a thread that is about to wake it.
NotifiedIsWoken ==
    \A f \in Awaiters :
        (pc[f] = "pending" /\ phase[f] = "notified") =>
            f \in woken \/ \E p \in Procs : <<f, armed[f]>> \in hand[p]

\* A pending future can always be reached by a set(): it is registered with
\* the waker of its latest poll, or has been notified.
PendingIsReachable ==
    \A f \in Awaiters : pc[f] = "pending" =>
        \/ phase[f] = "notified"
        \/ phase[f] = "waiting" /\ f \in Waiting /\ stored[f] = armed[f]

\* Nobody sleeps for good: set() can reach every pending future, and whoever it
\* has reached is woken through the right waker.
NobodyOverslept == PendingIsReachable /\ NotifiedIsWoken

\* Why the two hold.  Only a thread on its way from the mutex to the wake holds
\* wakers, and a poll that has looked for a notification inside the mutex is not
\* given one before it leaves.
HandsFull == {"clear", "wake", "drop_clear", "drop_wake"}
HandsEmpty == \A p \in Procs : pc[p] \notin HandsFull => hand[p] = {}
InsideUnnotified ==
    \A f \in Awaiters : pc[f] \in {"recheck", "announce", "final"} => phase[f] # "notified"

\* The inductive invariant of the wakers, beside IInv.
WakeInv == HandsEmpty /\ InsideUnnotified /\ PendingIsReachable /\ NotifiedIsWoken

\* The inductive invariant of the count, beside IInv: however many futures there
\* are, only finitely many of them and of the setters have a signal.
SignalInv == IsFiniteSet(Notified) /\ IsFiniteSet(Placing) /\ SignalsConserved

\* A notified wait completes, or its owner begins to drop it: waking and polling
\* it again needs nothing that another thread could withhold, the mutex least.
NotifiedCompletes ==
    \A f \in Awaiters :
        (pc[f] = "pending" /\ phase[f] = "notified") ~> pc[f] \in {"ready", "gone", "drop_lock"}
=============================================================================
