---------------------------- MODULE AwaiterQueue ----------------------------
(***************************************************************************)
(* What the awaiter_set package promises its users: a queue of awaiters,   *)
(* each idle, waiting in the queue with a waker, or notified and out of    *)
(* it.  A drain that opens a new generation sees only the awaiters that    *)
(* were waiting when it did; `prior` is the set of those.                  *)
(*                                                                         *)
(* The events compose these operations, under their mutex, into the steps  *)
(* of set(), poll_wait() and drop_wait(); AwaiterSet shows that the linked *)
(* list implements them.                                                   *)
(***************************************************************************)
EXTENDS Integers, Sequences

CONSTANTS Awaiters, Wakers, NoWaker

ASSUME AwaiterWakerAssumption == NoWaker \notin Wakers

VARIABLES queue,    \* the waiting awaiters, oldest first
          prior,    \* those that wait since before the current generation
          phase,    \* lifecycle of each awaiter
          stored    \* the waker each awaiter holds

queueVars == <<queue, prior, phase, stored>>

Phases == {"idle", "waiting", "notified"}

Waiting == {queue[i] : i \in DOMAIN queue}

QueueTypeOK ==
    /\ queue \in Seq(Awaiters) /\ prior \subseteq Awaiters
    /\ phase \in [Awaiters -> Phases]
    /\ stored \in [Awaiters -> Wakers \cup {NoWaker}]

QueueInit ==
    /\ queue = <<>> /\ prior = {}
    /\ phase = [a \in Awaiters |-> "idle"]
    /\ stored = [a \in Awaiters |-> NoWaker]

\* The sequence s without its i-th element.
Without(s, i) == [j \in 1 .. (Len(s) - 1) |-> IF j < i THEN s[j] ELSE s[j + 1]]

\* register(): insert at the tail, or replace the waker in place.
Register(a, w) ==
    /\ phase[a] # "notified"
    /\ queue' = IF phase[a] = "waiting" THEN queue ELSE Append(queue, a)
    /\ phase' = [phase EXCEPT ![a] = "waiting"]
    /\ stored' = [stored EXCEPT ![a] = w]
    /\ UNCHANGED prior

\* Takes awaiter a out of the queue, leaving it in phase p without a waker.
Leave(a, p) ==
    /\ \E i \in DOMAIN queue : queue[i] = a /\ queue' = Without(queue, i)
    /\ prior' = prior \ {a}
    /\ phase' = [phase EXCEPT ![a] = p]
    /\ stored' = [stored EXCEPT ![a] = NoWaker]

\* unregister(): a no-op on an awaiter that has been notified.
Unregister(a) ==
    /\ phase[a] # "idle"
    /\ IF phase[a] = "waiting" THEN Leave(a, "idle") ELSE UNCHANGED queueVars

\* notify_one(): the head; a debug build may pick the tail instead.
NotifyOne(a) ==
    /\ queue # <<>> /\ a \in {queue[1], queue[Len(queue)]}
    /\ Leave(a, "notified")

AdvanceGeneration == prior' = Waiting /\ UNCHANGED <<queue, phase, stored>>

\* notify_one_prior_generation(): the head, if it is of a prior generation.
HasPrior == queue # <<>> /\ queue[1] \in prior
NotifyOnePriorGeneration(a) == HasPrior /\ a = queue[1] /\ Leave(a, "notified")

\* take_notification() of the awaiter, when it finds one.
TakeNotification(a) ==
    /\ phase[a] = "notified"
    /\ phase' = [phase EXCEPT ![a] = "idle"]
    /\ UNCHANGED <<queue, prior, stored>>

QueueNext ==
    \/ AdvanceGeneration
    \/ \E a \in Awaiters :
        \/ \E w \in Wakers : Register(a, w)
        \/ Unregister(a) \/ NotifyOne(a) \/ NotifyOnePriorGeneration(a)
        \/ TakeNotification(a)

QueueSpec == QueueInit /\ [][QueueNext]_queueVars

\* Nobody waits twice, exactly the waiting awaiters are in the queue, exactly
\* they hold a waker, and only they can be of a prior generation: each awaiter
\* of awaiter_set is linked while its lifecycle is WAITING and at no other time.
QueueInv ==
    /\ QueueTypeOK
    /\ \A i, j \in DOMAIN queue : queue[i] = queue[j] => i = j
    /\ \A a \in Awaiters : phase[a] = "waiting" <=> \E i \in DOMAIN queue : queue[i] = a
    /\ \A a \in Awaiters : stored[a] \in Wakers <=> phase[a] = "waiting"
    /\ \A a \in prior : phase[a] = "waiting"
=============================================================================
