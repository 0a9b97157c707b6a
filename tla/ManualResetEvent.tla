-------------------------- MODULE ManualResetEvent --------------------------
(***************************************************************************)
(* The thread-safe manual-reset event of packages/events/src/manual.rs: a  *)
(* gate that set() opens and reset() closes.  The same layout as the       *)
(* auto-reset event, but set() drains every waiter, waking each outside    *)
(* the mutex, and opens a new generation first so that awaiters that       *)
(* register while it drains are left alone.                                *)
(*                                                                         *)
(* One action per atomic operation; the conventions are those of           *)
(* AutoResetEvent.                                                         *)
(***************************************************************************)
EXTENDS AwaiterQueue

CONSTANTS Setters,    \* threads that call set()
          MaxSets     \* bound on the number of set() calls

ASSUME ManualAssumption ==
    /\ MaxSets \in Nat /\ Setters \cap Awaiters = {} /\ Setters # {}

VARIABLES
    state,      \* the bits that are set in EventInner::state
    lock,       \* who holds `slow`: a set with at most one thread or future
    pc,         \* what each setter and each future does next
    hand,       \* the waker (future, waker) each setter has to wake
    armed,      \* the waker of each future's last poll
    woken,      \* the futures whose waker was woken since their last poll began
    sets        \* set() calls begun

eventVars == <<lock, pc, hand, armed, woken, sets>>
vars == <<queueVars, state, eventVars>>

IS_SET      == "IS_SET"
HAS_WAITERS == "HAS_WAITERS"

Procs == Setters \cup Awaiters

SetterPcs == {"idle", "advance", "drain", "clear", "wake"}
FuturePcs == {"new", "pending", "ready", "gone", "take", "poll_lock", "recheck",
              "announce", "final", "retract", "drop_lock", "drop_clear"}

TypeOK ==
    /\ QueueTypeOK
    /\ state \subseteq {IS_SET, HAS_WAITERS}
    /\ lock \subseteq Procs
    /\ pc \in [Procs -> SetterPcs \cup FuturePcs]
    /\ hand \in [Setters -> SUBSET (Awaiters \X Wakers)]
    /\ armed \in [Awaiters -> Wakers \cup {NoWaker}]
    /\ woken \subseteq Awaiters
    /\ sets \in 0 .. MaxSets

Init ==
    /\ QueueInit
    /\ state = {} /\ lock = {}
    /\ pc = [p \in Procs |-> IF p \in Setters THEN "idle" ELSE "new"]
    /\ hand = [s \in Setters |-> {}]
    /\ armed = [f \in Awaiters |-> NoWaker] /\ woken = {} /\ sets = 0

Goto(p, to) == pc' = [pc EXCEPT ![p] = to]
Free == lock = {}
ClearHasWaiters == state' = state \ {HAS_WAITERS}

\* A setter that has nothing in its hand returns, any other wakes.
ReturnOrWake(s, wakers) == Goto(s, IF wakers = {} THEN "idle" ELSE "wake")

----------------------------------------------------------------------------
(* set() and reset() *)

\* fetch_or(IS_SET): done, unless somebody is registered.
SetOr(s) ==
    /\ pc[s] = "idle" /\ sets < MaxSets /\ sets' = sets + 1
    /\ state' = state \cup {IS_SET}
    /\ Goto(s, IF HAS_WAITERS \in state THEN "advance" ELSE "idle")
    /\ UNCHANGED <<queueVars, lock, hand, armed, woken>>

SetAdvance(s) ==
    /\ pc[s] = "advance" /\ Free
    /\ AdvanceGeneration /\ Goto(s, "drain")
    /\ UNCHANGED <<state, lock, hand, armed, woken, sets>>

\* Mutant: the drain takes whoever is registered, new generation or not.
SetDrainEverybody(s) ==
    /\ pc[s] = "drain" /\ Free
    /\ \/ \E a \in Awaiters : NotifyOne(a) /\ hand' = [hand EXCEPT ![s] = {<<a, stored[a]>>}]
       \/ queue = <<>> /\ UNCHANGED <<queueVars, hand>>
    /\ IF queue' = <<>> THEN lock' = {s} /\ Goto(s, "clear")
                        ELSE ReturnOrWake(s, hand'[s]) /\ UNCHANGED lock
    /\ UNCHANGED <<state, armed, woken, sets>>

\* Mutant: set() notifies one awaiter and returns.
SetDrainOnce(s) ==
    /\ pc[s] = "drain" /\ Free
    /\ \/ \E a \in Awaiters : /\ hand[s] = {} /\ NotifyOnePriorGeneration(a)
                              /\ hand' = [hand EXCEPT ![s] = {<<a, stored[a]>>}]
       \/ ~HasPrior /\ UNCHANGED <<queueVars, hand>>
    /\ Goto(s, "idle")
    /\ UNCHANGED <<state, lock, armed, woken, sets>>

\* One round of the drain: the next awaiter of a prior generation, if any; the
\* last one to leave takes HAS_WAITERS along.
SetDrain(s) ==
    /\ pc[s] = "drain" /\ Free
    /\ \/ \E a \in Awaiters : /\ NotifyOnePriorGeneration(a)
                              /\ hand' = [hand EXCEPT ![s] = {<<a, stored[a]>>}]
       \/ ~HasPrior /\ UNCHANGED <<queueVars, hand>>
    /\ IF queue' = <<>> THEN lock' = {s} /\ Goto(s, "clear")
                        ELSE ReturnOrWake(s, hand'[s]) /\ UNCHANGED lock
    /\ UNCHANGED <<state, armed, woken, sets>>

SetClear(s) ==
    /\ pc[s] = "clear" /\ ClearHasWaiters
    /\ lock' = {} /\ ReturnOrWake(s, hand[s])
    /\ UNCHANGED <<queueVars, hand, armed, woken, sets>>

\* Mutant: the waker is forgotten.
SetWakeNobody(s) ==
    /\ pc[s] = "wake" /\ Goto(s, "drain")
    /\ hand' = [hand EXCEPT ![s] = {}]
    /\ UNCHANGED <<queueVars, state, lock, armed, woken, sets>>

\* w.wake(), outside the mutex; then the next round.
SetWake(s) ==
    /\ pc[s] = "wake" /\ Goto(s, "drain")
    /\ woken' = woken \cup {f \in Awaiters : <<f, armed[f]>> \in hand[s]}
    /\ hand' = [hand EXCEPT ![s] = {}]
    /\ UNCHANGED <<queueVars, state, lock, armed, sets>>

Reset ==
    /\ IS_SET \in state /\ state' = state \ {IS_SET}
    /\ UNCHANGED <<queueVars, eventVars>>

----------------------------------------------------------------------------
(* The wait future. *)

IsSet == IS_SET \in state

\* wait(): another future, with an idle awaiter.
Wait(f) ==
    /\ pc[f] = "gone" /\ Goto(f, "new")
    /\ phase' = [phase EXCEPT ![f] = "idle"]
    /\ armed' = [armed EXCEPT ![f] = NoWaker] /\ woken' = woken \ {f}
    /\ UNCHANGED <<queue, prior, stored, state, lock, hand, sets>>

\* poll_wait() begins with a look at the gate.
PollStart(f, w) ==
    /\ pc[f] \in {"new", "pending"}
    /\ armed' = [armed EXCEPT ![f] = w] /\ woken' = woken \ {f}
    /\ Goto(f, IF IsSet THEN "ready" ELSE "take")
    /\ UNCHANGED <<queueVars, state, lock, hand, sets>>

PollTake(f) ==
    /\ pc[f] = "take"
    /\ \/ TakeNotification(f) /\ Goto(f, "ready")
       \/ phase[f] # "notified" /\ Goto(f, "poll_lock") /\ UNCHANGED queueVars
    /\ UNCHANGED <<state, lock, hand, armed, woken, sets>>

PollLock(f) ==
    /\ pc[f] = "poll_lock" /\ Free
    /\ \/ TakeNotification(f) /\ Goto(f, "ready") /\ UNCHANGED lock
       \/ /\ phase[f] # "notified" /\ lock' = {f} /\ Goto(f, "recheck")
          /\ UNCHANGED queueVars
    /\ UNCHANGED <<state, hand, armed, woken, sets>>

PollRecheck(f) ==
    /\ pc[f] = "recheck"
    /\ IF IsSet THEN lock' = {} /\ Goto(f, "ready")
                ELSE Goto(f, "announce") /\ UNCHANGED lock
    /\ UNCHANGED <<queueVars, state, hand, armed, woken, sets>>

\* fetch_or(HAS_WAITERS): from here on set() takes its slow path.
PollAnnounce(f) ==
    /\ pc[f] = "announce" /\ Goto(f, "final")
    /\ state' = state \cup {HAS_WAITERS}
    /\ UNCHANGED <<queueVars, lock, hand, armed, woken, sets>>

\* Mutant: the gate is not looked at again after HAS_WAITERS is set.
PollFinalUnchecked(f) ==
    /\ pc[f] = "final"
    /\ Register(f, armed[f]) /\ lock' = {} /\ Goto(f, "pending")
    /\ UNCHANGED <<state, hand, armed, woken, sets>>

PollFinal(f) ==
    /\ pc[f] = "final"
    /\ IF IsSet
         THEN Goto(f, "retract") /\ UNCHANGED <<queueVars, lock>>
         ELSE Register(f, armed[f]) /\ lock' = {} /\ Goto(f, "pending")
    /\ UNCHANGED <<state, hand, armed, woken, sets>>

\* HAS_WAITERS is cleared without a look at who else is registered.
PollRetract(f) ==
    /\ pc[f] = "retract" /\ ClearHasWaiters
    /\ lock' = {} /\ Goto(f, "ready")
    /\ UNCHANGED <<queueVars, hand, armed, woken, sets>>

DropStart(f) ==
    /\ pc[f] \in {"new", "pending", "ready"}
    /\ Goto(f, IF phase[f] = "idle" THEN "gone" ELSE "drop_lock")
    /\ UNCHANGED <<queueVars, state, lock, hand, armed, woken, sets>>

\* Mutant: HAS_WAITERS is cleared by every departure.
DropLockClearing(f) ==
    /\ pc[f] = "drop_lock" /\ Free
    /\ Unregister(f) /\ lock' = {f} /\ Goto(f, "drop_clear")
    /\ UNCHANGED <<state, hand, armed, woken, sets>>

\* drop_wait(): a notification needs no forwarding, the gate released everyone.
DropLock(f) ==
    /\ pc[f] = "drop_lock" /\ Free
    /\ Unregister(f)
    /\ IF queue' = <<>> THEN lock' = {f} /\ Goto(f, "drop_clear")
                        ELSE Goto(f, "gone") /\ UNCHANGED lock
    /\ UNCHANGED <<state, hand, armed, woken, sets>>

DropClear(f) ==
    /\ pc[f] = "drop_clear" /\ ClearHasWaiters
    /\ lock' = {} /\ Goto(f, "gone")
    /\ UNCHANGED <<queueVars, hand, armed, woken, sets>>

SetterStep(s) == SetAdvance(s) \/ SetDrain(s) \/ SetClear(s) \/ SetWake(s)

FutureStep(f) ==
    \/ PollTake(f) \/ PollLock(f) \/ PollRecheck(f) \/ PollAnnounce(f)
    \/ PollFinal(f) \/ PollRetract(f) \/ DropLock(f) \/ DropClear(f)

Next ==
    \/ Reset
    \/ \E s \in Setters : SetOr(s) \/ SetterStep(s)
    \/ \E f \in Awaiters :
        \/ Wait(f) \/ DropStart(f) \/ FutureStep(f)
        \/ \E w \in Wakers : PollStart(f, w)

Spec == Init /\ [][Next]_vars

\* As for the auto-reset event: a thread inside an operation gets on with it,
\* and gets the mutex in the end however often others take it; a future is
\* polled once it is new or woken.
ExecutorPoll(f) ==
    /\ pc[f] = "new" \/ f \in woken
    /\ \E w \in Wakers : PollStart(f, w)

Fairness ==
    /\ \A s \in Setters : SF_vars(SetterStep(s))
    /\ \A f \in Awaiters : SF_vars(FutureStep(f)) /\ WF_vars(ExecutorPoll(f))

FairSpec == Spec /\ Fairness

----------------------------------------------------------------------------
(* Properties. *)

\* The comment at manual.rs:97: "HAS_WAITERS clear => slow is empty".
WaitersAnnounced == HAS_WAITERS \notin state => queue = <<>>

\* A set() that is sure to release everybody who is registered now.
Releasing(s) ==
    \/ pc[s] = "advance"
    \/ pc[s] \in {"drain", "wake"} /\ Waiting \subseteq prior

\* What the code relies on: registered waiters that HAS_WAITERS does not show
\* belong to a set() that has seen it and has not yet drained them.
WaitersCovered ==
    (HAS_WAITERS \notin state /\ queue # <<>>) => \E s \in Setters : Releasing(s)

\* An open gate holds nobody: once no set() is under way, nobody is registered.
OpenGateHoldsNobody ==
    (IsSet /\ \A s \in Setters : pc[s] = "idle") => queue = <<>>

\* A notified future is never left asleep (as for the auto-reset event).
NotifiedIsWoken ==
    \A f \in Awaiters :
        (pc[f] = "pending" /\ phase[f] = "notified") =>
            f \in woken \/ \E s \in Setters : <<f, armed[f]>> \in hand[s]

\* Why these hold.  The thread inside the mutex is the only one there, ...
Locked == {"clear", "recheck", "announce", "final", "retract", "drop_clear"}
MutexHeld == \A p \in Procs : pc[p] \in Locked => lock = {p}

\* ... set() and drop_wait() clear HAS_WAITERS only when nobody is registered ...
ClearsOnlyEmpty == \A p \in Procs : pc[p] \in {"clear", "drop_clear"} => queue = <<>>

\* ... a future about to register has HAS_WAITERS still set and knows its waker ...
FinalIsAnnounced == \A f \in Awaiters : pc[f] = "final" => HAS_WAITERS \in state
PollingArmed ==
    \A f \in Awaiters :
        pc[f] \in {"take", "poll_lock", "recheck", "announce", "final"} => armed[f] \in Wakers

\* ... one that is gone has left the set; setters and futures run their own code.
GoneIsOut == \A f \in Awaiters : pc[f] \in {"gone", "drop_clear"} => phase[f] # "waiting"
OwnCode == /\ \A s \in Setters : pc[s] \in SetterPcs
           /\ \A f \in Awaiters : pc[f] \in FuturePcs

IInv == /\ TypeOK /\ QueueInv /\ OwnCode /\ MutexHeld /\ ClearsOnlyEmpty
        /\ FinalIsAnnounced /\ PollingArmed /\ GoneIsOut

\* The heart of it: if set() may already have passed a registered awaiter by -
\* the gate is open, HAS_WAITERS is clear, or a poll is about to clear it - then
\* some set() is on its way to release everybody.
NobodyPassedBy ==
    /\ queue # <<>>
    /\ IsSet \/ HAS_WAITERS \notin state \/ \E f \in Awaiters : pc[f] = "retract"
    => \E s \in Setters : Releasing(s)

\* Why notified futures are woken: a pending one is registered with the waker of
\* its latest poll, and a setter between two rounds has no waker in hand.
RegisteredArmed ==
    \A f \in Awaiters : pc[f] = "pending" /\ phase[f] = "waiting" => stored[f] = armed[f]
HandsEmpty == \A s \in Setters : pc[s] \notin {"clear", "wake"} => hand[s] = {}

WakeInv == RegisteredArmed /\ HandsEmpty /\ NotifiedIsWoken

\* A future that waits when the gate opens completes, even if the gate closes
\* again before the future is polled.
OpeningReleases ==
    \A f \in Awaiters :
        (pc[f] = "pending" /\ IsSet) ~> pc[f] \in {"ready", "gone", "drop_lock"}

\* set() returns, also while futures keep waiting anew behind a gate that is
\* closed again: the drain is bounded by its generation.
SetReturns == \A s \in Setters : pc[s] # "idle" ~> pc[s] = "idle"
=============================================================================
