---------------------------- MODULE FutureDeque ----------------------------
(***************************************************************************)
(* The deque of futures of packages/future_deque/src/future_deque_core.rs  *)
(* and its wakers, waker_meta.rs: one owner pushes, polls, pops and drops; *)
(* each pending future has a pooled, reference-counted metadata block with *)
(* an activation flag, and any thread may clone, wake and drop the wakers  *)
(* that point to it, also after its future or the deque is gone.           *)
(*                                                                         *)
(* One action per atomic operation or critical section.  A polled future   *)
(* is user code: it may hand its waker to any thread and returns Ready,    *)
(* Pending or unwinds.  A future that wakes itself or keeps a waker inside *)
(* is the interleaving in which that thread runs during the poll.          *)
(***************************************************************************)
EXTENDS Integers, Sequences, FiniteSets

CONSTANTS Futures,   \* the futures that are pushed, each once
          Metas,     \* blocks of the metadata pool
          Threads,   \* threads that hold and wake wakers
          Parents,   \* wakers of the tasks that may poll the deque
          Nobody     \* no future, no block; the no-op waker

ASSUME DequeAssumption ==
    /\ Nobody \notin Futures \cup Metas \cup Parents
    /\ IsFiniteSet(Threads)

VARIABLES
    slots,      \* the deque: its futures, front first
    status,     \* each future's slot: pending, ready, ...
    meta,       \* the block of each future's slot
    refs,       \* WakerMeta::ref_count
    activated,  \* blocks whose WakerMeta::activated is 1
    owner,      \* the future each block was created for, while it is allocated
    parent,     \* the waker in shared_parent
    pc,         \* what the owner does next
    at,         \* index of the slot poll() has reached
    cx,         \* the waker poll() was called with
    op,         \* the variant of poll() in progress
    held,       \* the block each thread's waker points to
    source,     \* the future that waker was cloned for
    tpc,        \* what each thread does next
    hand,       \* the parent waker a thread has cloned and is about to wake
    woken,      \* task wakers woken since a poll with them began
    asleep,     \* the last poll returned Pending
    due         \* futures woken since their latest poll began

dequeVars  == <<slots, status, meta>>
poolVars   == <<refs, activated, owner>>
ownerVars  == <<pc, at, cx, op>>
threadVars == <<held, source, tpc, hand>>
taskVars   == <<woken, asleep, due>>
vars == <<dequeVars, poolVars, parent, ownerVars, threadVars, taskVars>>

Pcs == {"idle", "update", "scan", "polling", "replaced", "old_waker",
        "drop", "drop_waker", "dropped"}

TypeOK ==
    /\ slots \in Seq(Futures)
    /\ status \in [Futures -> {"new", "pending", "ready", "popped", "gone"}]
    /\ meta \in [Futures -> Metas \cup {Nobody}]
    /\ refs \in [Metas -> Nat] /\ activated \subseteq Metas
    /\ owner \in [Metas -> Futures \cup {Nobody}]
    /\ parent \in Parents \cup {Nobody}
    /\ pc \in Pcs /\ at \in 1 .. (Len(slots) + 1)
    /\ cx \in Parents \cup {Nobody} /\ op \in {"poll", "front", "back"}
    /\ held \in [Threads -> Metas \cup {Nobody}]
    /\ source \in [Threads -> Futures \cup {Nobody}]
    /\ tpc \in [Threads -> {"idle", "parent", "call"}]
    /\ hand \in [Threads -> Parents \cup {Nobody}]
    /\ woken \subseteq Parents \cup {Nobody}
    /\ asleep \in BOOLEAN /\ due \subseteq Futures

Init ==
    /\ slots = <<>> /\ status = [f \in Futures |-> "new"]
    /\ meta = [f \in Futures |-> Nobody]
    /\ refs = [m \in Metas |-> 0] /\ activated = {} /\ owner = [m \in Metas |-> Nobody]
    /\ parent = Nobody
    /\ pc = "idle" /\ at = 1 /\ cx = Nobody /\ op = "poll"
    /\ held = [t \in Threads |-> Nobody] /\ source = [t \in Threads |-> Nobody]
    /\ tpc = [t \in Threads |-> "idle"] /\ hand = [t \in Threads |-> Nobody]
    /\ woken = {} /\ asleep = FALSE /\ due = {}

----------------------------------------------------------------------------
(* The metadata pool. *)

\* create_waker_meta() and make_waker(): the slot's own reference and its waker's.
Create(m, f) ==
    /\ owner[m] = Nobody
    /\ owner' = [owner EXCEPT ![m] = f]
    /\ refs' = [refs EXCEPT ![m] = 2]
    /\ activated' = activated \cup {m}

\* Mutant: the block goes back to the pool with references left.
ReleaseEarly(m) ==
    /\ refs' = [refs EXCEPT ![m] = @ - 1]
    /\ owner' = [owner EXCEPT ![m] = IF refs[m] # 1 THEN Nobody ELSE @]

\* release_ref(): the last reference returns the block to the pool.
ReleaseRef(m) ==
    /\ refs' = [refs EXCEPT ![m] = @ - 1]
    /\ owner' = [owner EXCEPT ![m] = IF refs[m] = 1 THEN Nobody ELSE @]

\* clone_raw_waker() counts the clone.
AddRef(m) == refs' = [refs EXCEPT ![m] = @ + 1] /\ UNCHANGED <<activated, owner>>

----------------------------------------------------------------------------
(* The owner of the deque. *)

PushHandle(f, pushed) ==
    /\ pc = "idle" /\ status[f] = "new"
    /\ \E m \in Metas : Create(m, f) /\ meta' = [meta EXCEPT ![f] = m]
    /\ slots' = pushed
    /\ status' = [status EXCEPT ![f] = "pending"]
    /\ UNCHANGED <<parent, ownerVars, threadVars, taskVars>>

PushBack(f)  == PushHandle(f, Append(slots, f))
PushFront(f) == PushHandle(f, <<f>> \o slots)

Ready(i) == i \in DOMAIN slots /\ status[slots[i]] = "ready"

\* pop_front(), pop_back(): only a completed future's result leaves.
PopFrontIfReady ==
    /\ Ready(1)
    /\ slots' = Tail(slots) /\ status' = [status EXCEPT ![slots[1]] = "popped"]
    /\ UNCHANGED meta
PopBackIfReady ==
    /\ Ready(Len(slots))
    /\ slots' = SubSeq(slots, 1, Len(slots) - 1)
    /\ status' = [status EXCEPT ![slots[Len(slots)]] = "popped"]
    /\ UNCHANGED meta

Pop ==
    /\ pc = "idle" /\ (PopFrontIfReady \/ PopBackIfReady)
    /\ UNCHANGED <<poolVars, parent, ownerVars, threadVars, taskVars>>

\* poll(), poll_next() and poll_back() begin; a task that polls is awake.
Poll(w) ==
    /\ pc = "idle" /\ pc' = "update" /\ at' = 1 /\ cx' = w
    /\ op' \in {"poll", "front", "back"}
    /\ woken' = woken \ {w} /\ asleep' = FALSE
    /\ UNCHANGED <<dequeVars, poolVars, parent, threadVars, due>>

\* The parent waker is replaced before any activation flag is looked at.
UpdateParent ==
    /\ pc = "update" /\ pc' = "scan" /\ parent' = cx
    /\ UNCHANGED <<dequeVars, poolVars, at, cx, op, threadVars, taskVars>>

\* One slot: ready ones and those that nobody woke are passed over.
Scan ==
    /\ pc = "scan" /\ at <= Len(slots)
    /\ LET f == slots[at]
           m == meta[f]
       IN  IF status[f] = "pending" /\ m \in activated
             THEN /\ activated' = activated \ {m}
                  /\ pc' = "polling" /\ due' = due \ {f} /\ UNCHANGED at
             ELSE at' = at + 1 /\ UNCHANGED <<activated, pc, due>>
    /\ UNCHANGED <<dequeVars, refs, owner, parent, cx, op, threadVars, woken, asleep>>

\* The future clones the waker it is polled with for thread t.
FutureClonesWaker(t) ==
    /\ pc = "polling" /\ held[t] = Nobody
    /\ held' = [held EXCEPT ![t] = meta[slots[at]]]
    /\ source' = [source EXCEPT ![t] = slots[at]]
    /\ AddRef(meta[slots[at]])
    /\ UNCHANGED <<dequeVars, parent, ownerVars, tpc, hand, taskVars>>

\* Mutant: the flag is cleared when the poll of the future is over.
FuturePendingClearing ==
    /\ pc = "polling" /\ pc' = "scan" /\ at' = at + 1
    /\ activated' = activated \ {meta[slots[at]]}
    /\ UNCHANGED <<dequeVars, refs, owner, parent, cx, op, threadVars, taskVars>>

FuturePending ==
    /\ pc = "polling" /\ pc' = "scan" /\ at' = at + 1
    /\ UNCHANGED <<dequeVars, poolVars, parent, cx, op, threadVars, taskVars>>

\* The result replaces the future in its slot before anything is dropped.
FutureReady ==
    /\ pc = "polling" /\ pc' = "replaced"
    /\ status' = [status EXCEPT ![slots[at]] = "ready"]
    /\ UNCHANGED <<slots, meta, poolVars, parent, at, cx, op, threadVars, taskVars>>

\* A panic in the future leaves poll() with the slot as it was.
FutureUnwinds ==
    /\ pc = "polling" /\ pc' = "idle" /\ at' = 1
    /\ UNCHANGED <<dequeVars, poolVars, parent, cx, op, threadVars, taskVars>>

\* The slot's reference, then the future and the waker of the old slot, go.
ReleaseSlot ==
    /\ pc = "replaced" /\ pc' = "old_waker"
    /\ ReleaseRef(meta[slots[at]])
    /\ UNCHANGED <<dequeVars, activated, parent, at, cx, op, threadVars, taskVars>>
DropOldWaker ==
    /\ pc = "old_waker" /\ pc' = "scan" /\ at' = at + 1
    /\ ReleaseRef(meta[slots[at]])
    /\ meta' = [meta EXCEPT ![slots[at]] = Nobody]
    /\ UNCHANGED <<slots, status, activated, parent, cx, op, threadVars, taskVars>>

AnyPending == \E i \in DOMAIN slots : status[slots[i]] = "pending"

\* What poll() reports; poll_next() and poll_back() pop and report on their end.
PollEnds ==
    /\ pc = "scan" /\ at > Len(slots) /\ pc' = "idle" /\ at' = 1
    /\ \/ op = "poll" /\ asleep' = AnyPending /\ UNCHANGED dequeVars
       \/ op = "front" /\ PopFrontIfReady /\ asleep' = FALSE
       \/ op = "back" /\ PopBackIfReady /\ asleep' = FALSE
       \/ /\ \/ op = "front" /\ ~Ready(1)
             \/ op = "back" /\ ~Ready(Len(slots))
          /\ asleep' = (slots # <<>>) /\ UNCHANGED dequeVars
    /\ UNCHANGED <<poolVars, parent, cx, op, threadVars, woken, due>>

\* Drop: slot by slot, first the slot's reference, then the slot with its waker.
BeginDrop ==
    /\ pc = "idle" /\ pc' = "drop" /\ asleep' = FALSE
    /\ UNCHANGED <<dequeVars, poolVars, parent, at, cx, op, threadVars, woken, due>>

Discard(f) ==
    /\ slots' = Tail(slots) /\ status' = [status EXCEPT ![f] = "gone"]
    /\ meta' = [meta EXCEPT ![f] = Nobody]

\* Mutant: only the slots are dropped, not the references they stand for.
DropSlotSilently ==
    /\ pc = "drop"
    /\ \/ slots = <<>> /\ pc' = "dropped" /\ UNCHANGED <<refs, owner, dequeVars>>
       \/ Ready(1) /\ Discard(slots[1]) /\ UNCHANGED <<pc, refs, owner>>
       \/ /\ slots # <<>> /\ ~Ready(1) /\ pc' = "drop_waker"
          /\ UNCHANGED <<refs, owner, dequeVars>>
    /\ UNCHANGED <<activated, parent, at, cx, op, threadVars, taskVars>>

DropSlot ==
    /\ pc = "drop"
    /\ \/ slots = <<>> /\ pc' = "dropped" /\ UNCHANGED <<refs, owner, dequeVars>>
       \/ Ready(1) /\ Discard(slots[1]) /\ UNCHANGED <<pc, refs, owner>>
       \/ /\ slots # <<>> /\ ~Ready(1) /\ pc' = "drop_waker"
          /\ ReleaseRef(meta[slots[1]]) /\ UNCHANGED dequeVars
    /\ UNCHANGED <<activated, parent, at, cx, op, threadVars, taskVars>>

DropSlotWaker ==
    /\ pc = "drop_waker" /\ pc' = "drop"
    /\ ReleaseRef(meta[slots[1]]) /\ Discard(slots[1])
    /\ UNCHANGED <<activated, parent, at, cx, op, threadVars, taskVars>>

----------------------------------------------------------------------------
(* Threads that hold a waker. *)

\* clone_raw_waker(), for another thread.
CloneWaker(t, u) ==
    /\ held[t] # Nobody /\ held[u] = Nobody
    /\ held' = [held EXCEPT ![u] = held[t]]
    /\ source' = [source EXCEPT ![u] = source[t]]
    /\ AddRef(held[t])
    /\ UNCHANGED <<dequeVars, parent, ownerVars, tpc, hand, taskVars>>

\* wake() and wake_by_ref(): only the first to set the flag wakes the parent.
Wake(t) ==
    /\ tpc[t] = "idle" /\ held[t] # Nobody
    /\ activated' = activated \cup {held[t]}
    /\ tpc' = IF held[t] \in activated THEN tpc ELSE [tpc EXCEPT ![t] = "parent"]
    /\ due' = due \cup {source[t]}
    /\ UNCHANGED <<dequeVars, refs, owner, parent, ownerVars, held, source, hand, woken, asleep>>

\* The parent waker is cloned under its lock ...
CloneParent(t) ==
    /\ tpc[t] = "parent" /\ tpc' = [tpc EXCEPT ![t] = "call"]
    /\ hand' = [hand EXCEPT ![t] = parent]
    /\ UNCHANGED <<dequeVars, poolVars, parent, ownerVars, held, source, taskVars>>

\* ... and woken outside it.
WakeParent(t) ==
    /\ tpc[t] = "call" /\ tpc' = [tpc EXCEPT ![t] = "idle"]
    /\ woken' = woken \cup {hand[t]} /\ hand' = [hand EXCEPT ![t] = Nobody]
    /\ UNCHANGED <<dequeVars, poolVars, parent, ownerVars, held, source, asleep, due>>

\* drop_raw_waker(), also at the end of an owned wake().
DropWaker(t) ==
    /\ tpc[t] = "idle" /\ held[t] # Nobody
    /\ ReleaseRef(held[t]) /\ UNCHANGED activated
    /\ held' = [held EXCEPT ![t] = Nobody] /\ source' = [source EXCEPT ![t] = Nobody]
    /\ UNCHANGED <<dequeVars, parent, ownerVars, tpc, hand, taskVars>>

----------------------------------------------------------------------------
OwnerStep ==
    \/ UpdateParent \/ Scan \/ FuturePending \/ FutureReady \/ FutureUnwinds
    \/ ReleaseSlot \/ DropOldWaker \/ PollEnds \/ DropSlot \/ DropSlotWaker

ThreadStep(t) == CloneParent(t) \/ WakeParent(t)

Finished == pc = "dropped" /\ (\A t \in Threads : held[t] = Nobody) /\ UNCHANGED vars

Next ==
    \/ \E f \in Futures : PushBack(f) \/ PushFront(f)
    \/ Pop \/ BeginDrop \/ OwnerStep \/ Finished
    \/ \E w \in Parents : Poll(w)
    \/ \E t \in Threads :
        \/ FutureClonesWaker(t) \/ Wake(t) \/ ThreadStep(t) \/ DropWaker(t)
        \/ \E u \in Threads : CloneWaker(t, u)

Spec == Init /\ [][Next]_vars

----------------------------------------------------------------------------
(* Properties. *)

Pending(f) == status[f] = "pending"

\* A wake is never lost on a sleeping task.  If a pending future was woken since
\* its latest poll began, its flag is still set, and the waker of the latest
\* poll of the deque was woken or a thread is on its way to wake it: also if
\* the wake came during that poll, or the deque moved to another task between
\* the activation and the wake (wake_by_ref_raw_waker, FutureDequeCore::poll).
NoLostActivation ==
    \A f \in due : (asleep /\ Pending(f)) =>
        /\ meta[f] \in activated
        /\ \/ cx \in woken
           \/ \E t \in Threads : (tpc[t] = "parent" /\ parent = cx)
                               \/ (tpc[t] = "call" /\ hand[t] = cx)

\* A recycled block is never reached through an old pointer: every waker and
\* every pending slot points to a block that is still allocated for its future.
PointersAreCurrent ==
    /\ \A t \in Threads : held[t] # Nobody => owner[held[t]] = source[t]
    /\ \A f \in Futures : meta[f] # Nobody => owner[meta[f]] = f

\* When the deque and all wakers are gone, every block is back in the pool.
BlocksReturn ==
    (pc = "dropped" /\ \A t \in Threads : held[t] = Nobody) =>
        \A m \in Metas : owner[m] = Nobody

----------------------------------------------------------------------------
(* The inductive invariant. *)

Visiting == {"polling", "replaced", "old_waker"}
Distinct(s) == \A i, j \in DOMAIN s : s[i] = s[j] => i = j
Member(f, s) == \E i \in DOMAIN s : s[i] = f

\* The slots hold the pushed futures that have not left, each once, and a
\* pending one has a block, as has the one whose result was just stored.
SlotsInv ==
    /\ Distinct(slots)
    /\ \A f \in Futures : status[f] \in {"pending", "ready"} <=> Member(f, slots)
    /\ \A f \in Futures : meta[f] # Nobody <=>
         Pending(f) \/ (pc \in {"replaced", "old_waker"} /\ f = slots[at])
    /\ pc \in Visiting => at \in DOMAIN slots
         /\ status[slots[at]] = IF pc = "polling" THEN "pending" ELSE "ready"
    /\ pc \notin Visiting \cup {"scan"} => at = 1
    /\ pc = "drop_waker" => slots # <<>> /\ Pending(slots[1])
    /\ pc = "dropped" => slots = <<>>
    /\ asleep => pc = "idle"

Holders(m) == {t \in Threads : held[t] = m}

\* The slot's own reference is gone, its waker's is not.
HalfReleased(f) ==
    \/ pc = "old_waker" /\ f = slots[at]
    \/ pc = "drop_waker" /\ f = slots[1]

SlotRefs(m) ==
    IF owner[m] \in Futures /\ meta[owner[m]] = m
      THEN IF HalfReleased(owner[m]) THEN 1 ELSE 2 ELSE 0

\* A block counts exactly the pointers to it, is allocated while it has any,
\* and no future was ever given two.
BlocksInv ==
    /\ \A m \in Metas : refs[m] = Cardinality(Holders(m)) + SlotRefs(m)
    /\ \A m \in Metas : owner[m] = Nobody <=> refs[m] = 0
    /\ \A m, n \in Metas : owner[m] = owner[n] /\ owner[m] # Nobody => m = n
    /\ \A m \in Metas : \A f \in Futures : owner[m] = f => status[f] # "new"

\* The parent waker of the poll under way, or of the last one, is on its way.
Coming ==
    \/ cx \in woken
    \/ \E t \in Threads : (tpc[t] = "parent" /\ parent = cx)
                        \/ (tpc[t] = "call" /\ hand[t] = cx)

\* The poll under way has looked at the slot of f for the last time.
Passed(f) == \E i \in DOMAIN slots : slots[i] = f /\
    ((pc \in Visiting \cup {"scan"} /\ i < at) \/ (pc = "polling" /\ i = at))

\* Only a poll that began before a wake can still answer it; and the flag of a
\* future that anybody can wake is set only if it is due.
WakesInv ==
    /\ \A t \in Threads : held[t] = Nobody <=> source[t] = Nobody
    /\ \A f \in due : status[f] # "new" /\ (Pending(f) => meta[f] \in activated)
    /\ \A f \in Futures : /\ Pending(f) /\ meta[f] \in activated
                          /\ \/ pc = "polling" /\ f = slots[at]
                             \/ \E t \in Threads : source[t] = f
                          => f \in due
    /\ asleep \/ pc \in Visiting \cup {"scan"} => parent = cx
    /\ \A f \in due : Pending(f) /\ (asleep \/ Passed(f)) => Coming

IInv == TypeOK /\ SlotsInv /\ PointersAreCurrent /\ BlocksInv /\ WakesInv

=============================================================================
