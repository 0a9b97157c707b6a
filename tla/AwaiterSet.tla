----------------------------- MODULE AwaiterSet -----------------------------
(***************************************************************************)
(* The intrusive doubly linked list of packages/awaiter_set/src/set.rs and *)
(* the awaiters of awaiter.rs that it links.  Every operation runs under   *)
(* the lock of the primitive that owns the set, so each is one step; only  *)
(* take_notification() runs without it.                                    *)
(*                                                                         *)
(* Awaiters are their addresses, 0 is the null pointer.  Link fields and   *)
(* generation of an awaiter that leaves the set keep their old contents,   *)
(* as in the code.  `order` is a ghost: the sequence of awaiters the list  *)
(* is meant to hold.                                                       *)
(***************************************************************************)
EXTENDS Integers, Sequences

CONSTANTS Awaiters, Wakers, NoWaker,
          DebugBuild,      \* pick_one() compares addresses
          MaxGeneration    \* bound on the u64 generation counter

ASSUME SetAssumption ==
    /\ Awaiters \subseteq Nat \ {0}
    /\ NoWaker \notin Wakers
    /\ DebugBuild \in BOOLEAN /\ MaxGeneration \in Nat \ {0}

VARIABLES head, tail, generation,               \* AwaiterSet
          next, prev, waker, stamp, lifecycle,  \* Inner and Awaiter, per awaiter
          order

vars == <<head, tail, generation, next, prev, waker, stamp, lifecycle, order>>

Null == 0
IDLE == 0
WAITING == 1
NOTIFIED == 2

TypeOK ==
    /\ head \in Awaiters \cup {Null} /\ tail \in Awaiters \cup {Null}
    /\ generation \in 1 .. MaxGeneration
    /\ next \in [Awaiters -> Awaiters \cup {Null}]
    /\ prev \in [Awaiters -> Awaiters \cup {Null}]
    /\ waker \in [Awaiters -> Wakers \cup {NoWaker}]
    /\ stamp \in [Awaiters -> 0 .. MaxGeneration]
    /\ lifecycle \in [Awaiters -> {IDLE, WAITING, NOTIFIED}]
    /\ order \in Seq(Awaiters)

Init ==
    /\ head = Null /\ tail = Null /\ generation = 1
    /\ next = [a \in Awaiters |-> Null] /\ prev = [a \in Awaiters |-> Null]
    /\ waker = [a \in Awaiters |-> NoWaker] /\ stamp = [a \in Awaiters |-> 0]
    /\ lifecycle = [a \in Awaiters |-> IDLE] /\ order = <<>>

Members == {order[i] : i \in DOMAIN order}

\* The ghost sequence without awaiter a.
OrderWithout(a) ==
    \E i \in DOMAIN order :
        /\ order[i] = a
        /\ order' = [j \in 1 .. (Len(order) - 1) |->
                        IF j < i THEN order[j] ELSE order[j + 1]]

\* register(): replace the waker in place, or append at the tail.
Register(a, w) ==
    /\ lifecycle[a] # NOTIFIED
    /\ waker' = [waker EXCEPT ![a] = w]
    /\ IF lifecycle[a] = WAITING
         THEN UNCHANGED <<head, tail, next, prev, stamp, lifecycle, order>>
         ELSE /\ next' = [b \in Awaiters |-> IF b = tail THEN a
                                            ELSE IF b = a THEN Null ELSE next[b]]
              /\ prev' = [prev EXCEPT ![a] = tail]
              /\ stamp' = [stamp EXCEPT ![a] = generation]
              /\ head' = IF tail = Null THEN a ELSE head
              /\ tail' = a /\ order' = Append(order, a)
              /\ lifecycle' = [lifecycle EXCEPT ![a] = WAITING]
    /\ UNCHANGED generation

\* Mutant: the successor keeps pointing back at the awaiter that left.
UnlinkForwardOnly(p, n) ==
    /\ head' = IF p = Null THEN n ELSE head
    /\ next' = IF p = Null THEN next ELSE [next EXCEPT ![p] = n]
    /\ tail' = IF n = Null THEN p ELSE tail
    /\ prev' = prev

\* unlink(): both neighbours, or the ends of the list, skip the awaiter.
Unlink(p, n) ==
    /\ head' = IF p = Null THEN n ELSE head
    /\ next' = IF p = Null THEN next ELSE [next EXCEPT ![p] = n]
    /\ tail' = IF n = Null THEN p ELSE tail
    /\ prev' = IF n = Null THEN prev ELSE [prev EXCEPT ![n] = p]

\* remove() and the body of unregister(): unlink, take the waker, publish.
TakeOut(a, phase) ==
    /\ Unlink(prev[a], next[a])
    /\ waker' = [waker EXCEPT ![a] = NoWaker]
    /\ lifecycle' = [lifecycle EXCEPT ![a] = phase]
    /\ OrderWithout(a)
    /\ UNCHANGED <<generation, stamp>>

\* Mutant: unregister() removes the way a notification does.
UnregisterNotifying(a) ==
    /\ lifecycle[a] # IDLE
    /\ IF lifecycle[a] = WAITING THEN TakeOut(a, NOTIFIED) ELSE UNCHANGED vars

Unregister(a) ==
    /\ lifecycle[a] # IDLE
    /\ IF lifecycle[a] = WAITING THEN TakeOut(a, IDLE) ELSE UNCHANGED vars

\* pick_one(): the head, or whichever end has the higher address.
PickOne == IF DebugBuild /\ tail > head THEN tail ELSE head

NotifyOne == head # Null /\ TakeOut(PickOne, NOTIFIED)

\* advance_generation(); the bound keeps clear of the wrap at 2^64.
AdvanceGeneration ==
    /\ generation < MaxGeneration /\ generation' = generation + 1
    /\ UNCHANGED <<head, tail, next, prev, waker, stamp, lifecycle, order>>

\* Mutant: the drain also takes an awaiter of its own generation.
NotifyOneCurrentGeneration ==
    /\ head # Null /\ stamp[head] <= generation
    /\ TakeOut(head, NOTIFIED)

\* notify_one_prior_generation(): only ever inspects the head.
NotifyOnePriorGeneration ==
    /\ head # Null /\ stamp[head] < generation
    /\ TakeOut(head, NOTIFIED)

\* take_notification(): the owner's compare-and-exchange.
TakeNotification(a) ==
    /\ lifecycle[a] = NOTIFIED
    /\ lifecycle' = [lifecycle EXCEPT ![a] = IDLE]
    /\ UNCHANGED <<head, tail, generation, next, prev, waker, stamp, order>>

Next ==
    \/ NotifyOne \/ AdvanceGeneration \/ NotifyOnePriorGeneration
    \/ \E a \in Awaiters :
        \/ \E w \in Wakers : Register(a, w)
        \/ Unregister(a) \/ TakeNotification(a)

Spec == Init /\ [][Next]_vars

----------------------------------------------------------------------------
(* Properties. *)

\* The pointers spell out the ghost sequence in both directions and end in null
\* at both ends, so a removal anywhere leaves no awaiter reachable or lost.
WellLinked ==
    /\ order = <<>> <=> head = Null
    /\ order = <<>> <=> tail = Null
    /\ order # <<>> => head = order[1] /\ tail = order[Len(order)]
    /\ \A i \in DOMAIN order :
        /\ next[order[i]] = IF i = Len(order) THEN Null ELSE order[i + 1]
        /\ prev[order[i]] = IF i = 1 THEN Null ELSE order[i - 1]

\* An awaiter is linked exactly while it is WAITING, once, and has a waker
\* exactly then: `waker.expect(..)` in remove() cannot fail.
LinkedIffWaiting ==
    /\ \A i, j \in DOMAIN order : order[i] = order[j] => i = j
    /\ \A a \in Awaiters : /\ lifecycle[a] = WAITING <=> a \in Members
                           /\ waker[a] # NoWaker <=> lifecycle[a] = WAITING

\* Generations do not decrease from head to tail, which is why a drain may
\* decide by the head alone.
GenerationsSorted ==
    /\ \A i, j \in DOMAIN order : i <= j => stamp[order[i]] <= stamp[order[j]]
    /\ \A i \in DOMAIN order : stamp[order[i]] <= generation

\* The list the code's pointer operations rely on: the three together.
ListSound == WellLinked /\ LinkedIffWaiting /\ GenerationsSorted

\* The inductive invariant: with the types.
IInv == TypeOK /\ WellLinked /\ LinkedIffWaiting /\ GenerationsSorted

\* The abstract view: who was registered before the open generation, and how far
\* each awaiter is.
PriorMembers == {a \in Members : stamp[a] < generation}
PhaseOf == [a \in Awaiters |-> IF lifecycle[a] = IDLE THEN "idle"
                               ELSE IF lifecycle[a] = WAITING THEN "waiting" ELSE "notified"]

Queue == INSTANCE AwaiterQueue WITH
    queue <- order, prior <- PriorMembers, phase <- PhaseOf, stored <- waker

\* Refinement: the list with its stamps is the queue with its drain snapshots.
ImplementsQueue == Queue!QueueSpec

\* Each operation is the queue operation of its name, not merely some step of
\* the queue: notify_one_prior_generation() takes nobody of the generation that
\* is open, and what it leaves behind is the oldest of what was there.
OperationsImplementQueue ==
    [][/\ NotifyOne => Queue!NotifyOne(PickOne)
       /\ AdvanceGeneration => Queue!AdvanceGeneration
       /\ NotifyOnePriorGeneration => Queue!NotifyOnePriorGeneration(head)
       /\ \A a \in Awaiters :
            /\ \A w \in Wakers : Register(a, w) => Queue!Register(a, w)
            /\ Unregister(a) => Queue!Unregister(a)
            /\ TakeNotification(a) => Queue!TakeNotification(a)]_vars
=============================================================================
