----------------------------- MODULE OnceEvent -----------------------------
(***************************************************************************)
(* The thread-safe one-shot event of the events_once package: one sender,  *)
(* one receiver and a heap-allocated event of three fields (an atomic      *)
(* state, an awaiter cell and a value cell) that the two of them use and   *)
(* that exactly one of them must release.                                  *)
(*                                                                         *)
(* One action per atomic operation, cell access or user callback of        *)
(*   packages/events_once/src/core/sync/event.rs                           *)
(*   packages/events_once/src/core/sync_sender.rs, sync_receiver.rs        *)
(*   packages/events_once/src/core/sync_refs.rs (BoxedRef)                 *)
(* in a release build (the debug build adds a backtrace under a mutex).    *)
(* A Waker's clone, wake and drop and the payload's drop run user code:    *)
(* each is a step of its own, so the other endpoint may run during it (the *)
(* same-thread reentrancy of the code is one such interleaving), and where *)
(* the code can unwind from it the step has a second outcome.              *)
(***************************************************************************)
EXTENDS TwoPartyMemory

CONSTANTS Wakers,   \* the wakers the receiver may be polled with
          NoWaker   \* an awaiter cell that holds no waker

ASSUME WakerAssumption == NoWaker \notin Wakers

EVENT_BOUND        == 0
EVENT_SET          == 1
EVENT_AWAITING     == 2
EVENT_SIGNALING    == 3
EVENT_DISCONNECTED == 4

VARIABLES
    mo,        \* values of `state` in modification order, oldest one that the
               \* receiver may still read first
    mem,       \* what is ordered before what (TwoPartyMemory)
    awaiter,   \* the awaiter cell; NoWaker when uninitialized
    payload,   \* where the payload is
    freed,     \* the event has been deallocated
    spc,       \* sender: what it does next
    swaker,    \* sender: the waker it has moved out of the awaiter cell
    rpc,       \* receiver: what it does next
    rarg,      \* receiver: the waker of the poll in progress
    rheld,     \* receiver: the waker cancel() has moved out
    rcur,      \* receiver: `current` of the loop in cancel()
    rresult,   \* receiver: the outcome its operation has obtained
    armed,     \* the waker of the last poll, if that returned Pending
    woken,     \* wakers woken since they were last used to poll
    answer,    \* the last synchronous inspection's answer
    clones     \* number of clones of wakers that are alive

senderVars   == <<spc, swaker>>
receiverVars == <<rpc, rarg, rheld, rcur, rresult, armed, answer>>
vars == <<mo, mem, awaiter, payload, freed, spc, swaker, rpc, rarg, rheld,
          rcur, rresult, armed, woken, answer, clones>>

state == mo[Len(mo)]

SenderPcs   == {"idle", "fetch_add", "set_take", "set_store", "reclaim",
                "drop_take", "drop_store", "wake", "release_set", "release_drop",
                "drop_value", "done", "unreachable"}
ReceiverPcs == {"idle", "bound_write", "bound_cas", "unbind_set",
                "unbind_signaling", "unbind_disconnected", "awaiting_cas",
                "awaiting_drop", "signaling", "poll_set", "take_result",
                "release", "cancel_cas", "cancel_awaiter", "cancel_load",
                "cancel_swap", "cancel_value", "cancel_release", "cancel_drop",
                "done", "unreachable"}

\* What the protocol keeps; the memory that orders its accesses is apart.
ControlTypeOK ==
    /\ mo \in Seq(0..5) /\ Len(mo) \in 1..3
    /\ awaiter \in Wakers \cup {NoWaker}
    /\ payload \in {"unsent", "cell", "snd", "rcv", "delivered", "dropped"}
    /\ freed \in BOOLEAN
    /\ spc \in SenderPcs /\ swaker \in Wakers \cup {NoWaker}
    /\ rpc \in ReceiverPcs /\ rarg \in Wakers \cup {NoWaker}
    /\ rheld \in Wakers \cup {NoWaker} /\ rcur \in 0..5
    /\ rresult \in {"none", "value", "disconnected", "cancelled"}
    /\ armed \in Wakers \cup {NoWaker} /\ woken \subseteq Wakers
    /\ answer \in {"none", "ready", "pending"}
    /\ clones \in Nat

TypeOK == ControlTypeOK /\ mem \in Memory /\ Len(mem.carry) = Len(mo)

Init ==
    /\ mo = <<EVENT_BOUND>> /\ mem = FreshMemory
    /\ awaiter = NoWaker /\ payload = "unsent" /\ freed = FALSE
    /\ spc = "idle" /\ swaker = NoWaker
    /\ rpc = "idle" /\ rarg = NoWaker /\ rheld = NoWaker /\ rcur = EVENT_BOUND
    /\ rresult = "none" /\ armed = NoWaker /\ woken = {} /\ answer = "none"
    /\ clones = 0

----------------------------------------------------------------------------
(* The sender: send() and Drop of SenderCore. *)

SenderGoto(pc) == spc' = pc

\* send() enters set(): the value is written before anything else.
WriteValue ==
    /\ spc = "idle" /\ SenderGoto("fetch_add")
    /\ payload' = "cell"
    /\ mem' = Access(mem, "snd", {"value"}, "value_write")
    /\ UNCHANGED <<mo, awaiter, freed, swaker, receiverVars, woken, clones>>

\* The increment that is the whole of a set with nobody listening.
FetchAdd ==
    /\ spc = "fetch_add"
    /\ mo' = Append(mo, state + 1)
    /\ mem' = Rmw(mem, "snd", "Release")
    /\ SenderGoto(CASE state = EVENT_BOUND        -> "done"
                    [] state = EVENT_AWAITING     -> "set_take"
                    [] state = EVENT_DISCONNECTED -> "reclaim"
                    [] OTHER                      -> "unreachable")
    /\ UNCHANGED <<awaiter, payload, freed, swaker, receiverVars, woken, clones>>

\* Signaling: the sender alone may touch the awaiter and moves the waker out.
TakeWaker(site, from, to) ==
    /\ spc = from /\ SenderGoto(to)
    /\ swaker' = awaiter /\ awaiter' = NoWaker
    /\ mem' = Access(Fence(mem, "snd"), "snd", {"awaiter"}, site)
    /\ UNCHANGED <<mo, payload, freed, receiverVars, woken, clones>>

\* Mutant: the waker is used before the terminal state is stored.
WakeWhileSignaling == TakeWaker("set_take", "set_take", "wake")

TakeWakerToSet == TakeWaker("set_take", "set_take", "set_store")

\* The terminal state is published before the waker is used.
StoreSet ==
    /\ spc = "set_store" /\ SenderGoto("wake")
    /\ mo' = Append(mo, EVENT_SET) /\ mem' = StoreRelease(mem, "snd")
    /\ UNCHANGED <<awaiter, payload, freed, swaker, receiverVars, woken, clones>>

\* waker.wake() consumes the waker; unwinding from it changes nothing here.
Wake ==
    /\ spc = "wake" /\ SenderGoto("done")
    /\ woken' = woken \cup ({swaker} \ {NoWaker})
    /\ swaker' = NoWaker /\ clones' = clones - 1
    /\ UNCHANGED <<mo, mem, awaiter, payload, freed, receiverVars>>

\* Mutant: the event is released without the acquire fence.
ReclaimUnfenced ==
    /\ spc = "reclaim" /\ SenderGoto("release_set")
    /\ payload' = "snd"
    /\ mem' = Access(mem, "snd", {"value"}, "reclaim")
    /\ UNCHANGED <<mo, awaiter, freed, swaker, receiverVars, woken, clones>>

\* Mutant: the payload's destructor runs before the event is released.
ReclaimDroppingValue ==
    /\ spc = "reclaim" /\ SenderGoto("release_set")
    /\ payload' = "dropped"
    /\ mem' = Fence(Access(mem, "snd", {"value"}, "reclaim"), "snd")
    /\ UNCHANGED <<mo, awaiter, freed, swaker, receiverVars, woken, clones>>

\* The receiver left first: the sender takes its value back ...
Reclaim ==
    /\ spc = "reclaim" /\ SenderGoto("release_set")
    /\ payload' = "snd"
    /\ mem' = Fence(Access(mem, "snd", {"value"}, "reclaim"), "snd")
    /\ UNCHANGED <<mo, awaiter, freed, swaker, receiverVars, woken, clones>>

\* ... releases the event (also where the sender was dropped unused) ...
SenderRelease ==
    /\ \/ /\ spc = "release_set" /\ SenderGoto("drop_value")
          /\ mem' = Access(mem, "snd", Cells, "snd_release_set")
       \/ /\ spc = "release_drop" /\ SenderGoto("done")
          /\ mem' = Access(mem, "snd", Cells, "snd_release_drop")
    /\ freed' = TRUE
    /\ UNCHANGED <<mo, awaiter, payload, swaker, receiverVars, woken, clones>>

\* ... and only then lets the payload's destructor run.
DropValue ==
    /\ spc = "drop_value" /\ SenderGoto("done")
    /\ payload' = "dropped"
    /\ UNCHANGED <<mo, mem, awaiter, freed, swaker, receiverVars, woken, clones>>

\* Drop of an unused sender: one exchange locks the awaiter and tells what to do.
SenderDropped ==
    /\ spc = "idle"
    /\ mo' = Append(mo, EVENT_SIGNALING)
    /\ mem' = Rmw(mem, "snd", "Relaxed")
    /\ SenderGoto(CASE state = EVENT_BOUND        -> "drop_store"
                    [] state = EVENT_AWAITING     -> "drop_take"
                    [] state = EVENT_DISCONNECTED -> "release_drop"
                    [] OTHER                      -> "unreachable")
    /\ UNCHANGED <<awaiter, payload, freed, swaker, receiverVars, woken, clones>>

TakeWakerToDrop == TakeWaker("drop_take", "drop_take", "drop_store")

StoreDisconnected ==
    /\ spc = "drop_store"
    /\ SenderGoto(IF swaker = NoWaker THEN "done" ELSE "wake")
    /\ mo' = Append(mo, EVENT_DISCONNECTED) /\ mem' = StoreRelease(mem, "snd")
    /\ UNCHANGED <<awaiter, payload, freed, swaker, receiverVars, woken, clones>>

SenderStep ==
    \/ FetchAdd \/ TakeWakerToSet \/ StoreSet \/ Wake \/ Reclaim
    \/ SenderRelease \/ DropValue \/ TakeWakerToDrop \/ StoreDisconnected

Sender == WriteValue \/ SenderDropped \/ SenderStep

----------------------------------------------------------------------------
(* The receiver: poll(), is_ready(), into_value() and Drop of ReceiverCore. *)

ReceiverGoto(pc) == rpc' = pc

\* A load returns any value not older than the last one the receiver saw.
LoadState(i, order) ==
    /\ mo' = SubSeq(mo, i, Len(mo))
    /\ mem' = Load(mem, i, order)

\* A failing compare_exchange is a load of some value other than the expected.
CasFails(expected, i, order) ==
    /\ mo[i] # expected
    /\ LoadState(i, order)

\* A succeeding one reads the latest value.
CasSucceeds(expected, new, order) ==
    /\ state = expected
    /\ mo' = <<new>>
    /\ mem' = Rmw(mem, "rcv", order)

PollDispatch(v) ==
    CASE v = EVENT_BOUND        -> "bound_write"
      [] v = EVENT_SET          -> "poll_set"
      [] v = EVENT_AWAITING     -> "awaiting_cas"
      [] v = EVENT_SIGNALING    -> "signaling"
      [] v = EVENT_DISCONNECTED -> "release"
      [] OTHER                  -> "unreachable"

\* What release() will report: a disconnection, unless poll_set finds a value.
Poll(w) ==
    /\ rpc = "idle"
    /\ \E i \in DOMAIN mo :
          /\ LoadState(i, "Acquire")
          /\ ReceiverGoto(PollDispatch(mo[i]))
    /\ rarg' = w /\ rresult' = "disconnected" /\ armed' = NoWaker
    /\ woken' = woken \ {w}
    /\ UNCHANGED <<awaiter, payload, freed, senderVars, rheld, rcur, answer, clones>>

\* poll_bound: awaiter.write(waker.clone()); the clone may unwind out of poll.
WriteAwaiter ==
    /\ rpc = "bound_write"
    /\ \/ /\ ReceiverGoto("bound_cas")
          /\ awaiter' = rarg /\ clones' = clones + 1
          /\ mem' = Access(mem, "rcv", {"awaiter"}, "awaiter_write")
          /\ rresult' = rresult
       \/ /\ ReceiverGoto("idle") /\ rresult' = "none"
          /\ UNCHANGED <<awaiter, mem, clones>>
    /\ UNCHANGED <<mo, payload, freed, senderVars, rarg, rheld, rcur, armed,
                   woken, answer>>

\* Mutant: a lost race against set() forgets the waker just written.
BoundCasForgettingAwaiter ==
    /\ rpc = "bound_cas"
    /\ \/ /\ CasSucceeds(EVENT_BOUND, EVENT_AWAITING, "Release")
          /\ ReceiverGoto("idle") /\ armed' = rarg /\ rresult' = "none"
       \/ /\ \E i \in DOMAIN mo :
                /\ CasFails(EVENT_BOUND, i, "Acquire")
                /\ ReceiverGoto(PollDispatch(mo[i]))
          /\ UNCHANGED <<armed, rresult>>
    /\ UNCHANGED <<awaiter, payload, freed, senderVars, rarg, rheld, rcur,
                   woken, answer, clones>>

\* poll_bound: publish the awaiter, or find that the sender was faster.
BoundCas ==
    /\ rpc = "bound_cas"
    /\ \/ /\ CasSucceeds(EVENT_BOUND, EVENT_AWAITING, "Release")
          /\ ReceiverGoto("idle") /\ armed' = rarg /\ rresult' = "none"
       \/ /\ \E i \in DOMAIN mo :
                /\ CasFails(EVENT_BOUND, i, "Acquire")
                /\ ReceiverGoto(
                     CASE mo[i] = EVENT_SET          -> "unbind_set"
                       [] mo[i] = EVENT_SIGNALING    -> "unbind_signaling"
                       [] mo[i] = EVENT_DISCONNECTED -> "unbind_disconnected"
                       [] OTHER                      -> "unreachable")
          /\ UNCHANGED <<armed, rresult>>
    /\ UNCHANGED <<awaiter, payload, freed, senderVars, rarg, rheld, rcur,
                   woken, answer, clones>>

\* destroy_awaiter: the waker leaves the cell, then its destructor runs, which
\* may unwind out of poll.
DestroyAwaiter(to) ==
    /\ \/ ReceiverGoto(to) /\ rresult' = rresult
       \/ ReceiverGoto("idle") /\ rresult' = "none"
    /\ awaiter' = NoWaker /\ clones' = clones - 1
    /\ UNCHANGED <<mo, payload, freed, senderVars, rarg, rheld, rcur, armed,
                   woken, answer>>

\* poll_bound, after a lost race: the sender never touches this awaiter.
Unbind ==
    /\ \/ rpc = "unbind_set" /\ DestroyAwaiter("poll_set")
       \/ rpc = "unbind_signaling" /\ DestroyAwaiter("signaling")
       \/ rpc = "unbind_disconnected" /\ DestroyAwaiter("release")
    /\ mem' = Access(mem, "rcv", {"awaiter"}, "awaiter_drop")

\* Mutant: polling again keeps the waker of the earlier poll.
AwaitingKeepsOldWaker ==
    /\ rpc = "awaiting_cas" /\ ReceiverGoto("idle")
    /\ armed' = rarg /\ rresult' = "none"
    /\ UNCHANGED <<mo, mem, awaiter, payload, freed, senderVars, rarg, rheld,
                   rcur, woken, answer, clones>>

\* poll_awaiting: take the awaiter back from the sender, if it is still there.
AwaitingCas ==
    /\ rpc = "awaiting_cas"
    /\ \/ /\ CasSucceeds(EVENT_AWAITING, EVENT_BOUND, "Relaxed")
          /\ ReceiverGoto("awaiting_drop")
       \/ \E i \in DOMAIN mo :
            /\ mo[i] # EVENT_AWAITING
            /\ mo' = SubSeq(mo, i, Len(mo))
            /\ mem' = IF mo[i] \in {EVENT_SET, EVENT_DISCONNECTED}
                        THEN Fence(Load(mem, i, "Relaxed"), "rcv")
                        ELSE Load(mem, i, "Relaxed")
            /\ ReceiverGoto(
                 CASE mo[i] = EVENT_SET          -> "poll_set"
                   [] mo[i] = EVENT_SIGNALING    -> "signaling"
                   [] mo[i] = EVENT_DISCONNECTED -> "release"
                   [] OTHER                      -> "unreachable")
    /\ UNCHANGED <<awaiter, payload, freed, senderVars, rarg, rheld, rcur,
                   rresult, armed, woken, answer, clones>>

\* poll_awaiting: drop the old waker, then go on as poll_bound does.
DropOldAwaiter ==
    /\ rpc = "awaiting_drop" /\ DestroyAwaiter("bound_write")
    /\ mem' = Access(Fence(mem, "rcv"), "rcv", {"awaiter"}, "awaiter_drop")

\* poll_signaling: spin until the sender has published the terminal state.
SpinOnSignaling ==
    /\ rpc = "signaling"
    /\ \E i \in DOMAIN mo :
          /\ mo' = SubSeq(mo, i, Len(mo))
          /\ mem' = IF mo[i] = EVENT_SIGNALING THEN Load(mem, i, "Relaxed")
                                               ELSE Fence(Load(mem, i, "Relaxed"), "rcv")
          /\ ReceiverGoto(
               CASE mo[i] = EVENT_SIGNALING    -> "signaling"
                 [] mo[i] = EVENT_SET          -> "poll_set"
                 [] mo[i] = EVENT_DISCONNECTED -> "release"
                 [] OTHER                      -> "unreachable")
    /\ UNCHANGED <<awaiter, payload, freed, senderVars, rarg, rheld, rcur,
                   rresult, armed, woken, answer, clones>>

\* poll_set and take_value: move the payload out of its cell.
TakeValue ==
    /\ rpc = "poll_set" /\ ReceiverGoto("release")
    /\ payload' = "rcv" /\ rresult' = "value"
    /\ mem' = Access(mem, "rcv", {"value"}, "value_take")
    /\ UNCHANGED <<mo, awaiter, freed, senderVars, rarg, rheld, rcur, armed,
                   woken, answer, clones>>

\* The receiver releases the event and hands the outcome to its caller.
ReceiverRelease ==
    /\ rpc = "release" /\ ReceiverGoto("done")
    /\ freed' = TRUE
    /\ payload' = IF rresult = "value" THEN "delivered" ELSE payload
    /\ mem' = Access(mem, "rcv", Cells, "rcv_release")
    /\ UNCHANGED <<mo, awaiter, senderVars, rarg, rheld, rcur, rresult, armed,
                   woken, answer, clones>>

\* Mutant: the signaling state counts as ready (issue #462).
IsReadyWhileSignaling ==
    /\ rpc = "idle"
    /\ \E i \in DOMAIN mo :
          /\ LoadState(i, "Relaxed")
          /\ answer' = IF mo[i] \in {EVENT_BOUND, EVENT_AWAITING}
                         THEN "pending" ELSE "ready"
    /\ UNCHANGED <<awaiter, payload, freed, senderVars, rpc, rarg, rheld, rcur,
                   rresult, armed, woken, clones>>

\* is_ready(): only the terminal states count.
IsReady ==
    /\ rpc = "idle"
    /\ \E i \in DOMAIN mo :
          /\ LoadState(i, "Relaxed")
          /\ answer' = IF mo[i] \in {EVENT_SET, EVENT_DISCONNECTED}
                         THEN "ready" ELSE "pending"
    /\ UNCHANGED <<awaiter, payload, freed, senderVars, rpc, rarg, rheld, rcur,
                   rresult, armed, woken, clones>>

\* into_value(): gives the receiver back unless the event has completed.
IntoValue ==
    /\ rpc = "idle"
    /\ \E i \in DOMAIN mo :
          /\ LoadState(i, "Acquire")
          /\ IF mo[i] \in {EVENT_BOUND, EVENT_AWAITING, EVENT_SIGNALING}
               THEN ReceiverGoto("idle") /\ answer' = "pending"
               ELSE IF mo[i] \in {EVENT_SET, EVENT_DISCONNECTED}
                      THEN ReceiverGoto("take_result") /\ answer' = "ready"
                      ELSE ReceiverGoto("unreachable") /\ answer' = answer
    /\ UNCHANGED <<awaiter, payload, freed, senderVars, rarg, rheld, rcur,
                   rresult, armed, woken, clones>>

\* take_result(): the exchange that ends a completed event.
TakeResult ==
    /\ rpc = "take_result"
    /\ mo' = <<EVENT_DISCONNECTED>> /\ mem' = Rmw(mem, "rcv", "AcqRel")
    /\ ReceiverGoto(CASE state = EVENT_SET          -> "poll_set"
                      [] state = EVENT_DISCONNECTED -> "release"
                      [] OTHER                      -> "unreachable")
    /\ rresult' = "disconnected"
    /\ UNCHANGED <<awaiter, payload, freed, senderVars, rarg, rheld, rcur,
                   armed, woken, answer, clones>>

\* Drop of a receiver that has not completed.
BeginCancel ==
    /\ rpc = "idle" /\ ReceiverGoto("cancel_cas")
    /\ rresult' = "cancelled" /\ armed' = NoWaker
    /\ UNCHANGED <<mo, mem, awaiter, payload, freed, senderVars, rarg, rheld,
                   rcur, woken, answer, clones>>

\* cancel(): take the awaiter back, if it is still the receiver's.
CancelCas ==
    /\ rpc = "cancel_cas"
    /\ \/ /\ CasSucceeds(EVENT_AWAITING, EVENT_BOUND, "Acquire")
          /\ ReceiverGoto("cancel_awaiter")
       \/ /\ \E i \in DOMAIN mo : CasFails(EVENT_AWAITING, i, "Relaxed")
          /\ ReceiverGoto("cancel_load")
    /\ UNCHANGED <<awaiter, payload, freed, senderVars, rarg, rheld, rcur,
                   rresult, armed, woken, answer, clones>>

\* The waker's destructor is deferred past the handoff of the event.
CancelTakeAwaiter ==
    /\ rpc = "cancel_awaiter" /\ ReceiverGoto("cancel_load")
    /\ rheld' = awaiter /\ awaiter' = NoWaker
    /\ mem' = Access(mem, "rcv", {"awaiter"}, "awaiter_take")
    /\ UNCHANGED <<mo, payload, freed, senderVars, rarg, rcur, rresult, armed,
                   woken, answer, clones>>

\* cancel(): never write over a sender that is signaling; wait for it.
CancelLoad ==
    /\ rpc = "cancel_load"
    /\ \E i \in DOMAIN mo :
          /\ LoadState(i, "Relaxed")
          /\ IF mo[i] = EVENT_SIGNALING THEN UNCHANGED <<rpc, rcur>>
             ELSE ReceiverGoto("cancel_swap") /\ rcur' = mo[i]
    /\ UNCHANGED <<awaiter, payload, freed, senderVars, rarg, rheld, rresult,
                   armed, woken, answer, clones>>

\* cancel(): the transition that settles who releases the event.
CancelSwap ==
    /\ rpc = "cancel_swap"
    /\ \/ /\ state = rcur /\ mo' = <<EVENT_DISCONNECTED>>
          /\ LET m == Rmw(mem, "rcv", "Release")
             IN  mem' = IF rcur = EVENT_BOUND THEN m ELSE Fence(m, "rcv")
          /\ ReceiverGoto(CASE rcur = EVENT_BOUND        -> "cancel_drop"
                            [] rcur = EVENT_SET          -> "cancel_value"
                            [] rcur = EVENT_DISCONNECTED -> "cancel_release"
                            [] OTHER                     -> "unreachable")
       \/ /\ \E i \in DOMAIN mo : CasFails(rcur, i, "Relaxed")
          /\ ReceiverGoto("cancel_load")
    /\ UNCHANGED <<awaiter, payload, freed, senderVars, rarg, rheld, rcur,
                   rresult, armed, woken, answer, clones>>

CancelTakeValue ==
    /\ rpc = "cancel_value" /\ ReceiverGoto("cancel_release")
    /\ payload' = "rcv"
    /\ mem' = Access(mem, "rcv", {"value"}, "value_take")
    /\ UNCHANGED <<mo, awaiter, freed, senderVars, rarg, rheld, rcur, rresult,
                   armed, woken, answer, clones>>

CancelRelease ==
    /\ rpc = "cancel_release" /\ ReceiverGoto("cancel_drop")
    /\ freed' = TRUE
    /\ mem' = Access(mem, "rcv", Cells, "rcv_release")
    /\ UNCHANGED <<mo, awaiter, payload, senderVars, rarg, rheld, rcur, rresult,
                   armed, woken, answer, clones>>

\* drop(cancellation): the payload's and the waker's destructors run last.
CancelDrop ==
    /\ rpc = "cancel_drop" /\ ReceiverGoto("done")
    /\ payload' = IF payload = "rcv" THEN "dropped" ELSE payload
    /\ rheld' = NoWaker
    /\ clones' = IF rheld = NoWaker THEN clones ELSE clones - 1
    /\ UNCHANGED <<mo, mem, awaiter, freed, senderVars, rarg, rcur, rresult,
                   armed, woken, answer>>

ReceiverStep ==
    \/ WriteAwaiter \/ BoundCas \/ Unbind \/ AwaitingCas \/ DropOldAwaiter
    \/ SpinOnSignaling \/ TakeValue \/ ReceiverRelease \/ TakeResult \/ CancelCas
    \/ CancelTakeAwaiter \/ CancelLoad \/ CancelSwap \/ CancelTakeValue
    \/ CancelRelease \/ CancelDrop

Receiver ==
    \/ \E w \in Wakers : Poll(w)
    \/ IsReady \/ IntoValue \/ BeginCancel \/ ReceiverStep

\* The hardware makes a store visible to the receiver.
Visible ==
    /\ Len(mo) > 1
    /\ mo' = Tail(mo) /\ mem' = Expose(mem)
    /\ UNCHANGED <<awaiter, payload, freed, senderVars, receiverVars, woken, clones>>

Finished == spc = "done" /\ rpc = "done" /\ Len(mo) = 1 /\ UNCHANGED vars

Next == Sender \/ Receiver \/ Visible \/ Finished

Spec == Init /\ [][Next]_vars

\* A thread that is inside an operation keeps running; a store becomes visible
\* in finite time; an executor polls a task that was never polled, whose last
\* poll unwound, or whose waker was woken.
ExecutorPoll == /\ armed = NoWaker \/ armed \in woken
                /\ \E w \in Wakers : Poll(w)

Fairness == /\ WF_vars(SenderStep)
            /\ WF_vars(ReceiverStep)
            /\ WF_vars(Visible)
            /\ WF_vars(ExecutorPoll)

FairSpec == Spec /\ Fairness

----------------------------------------------------------------------------
(* Properties. *)

\* No endpoint touches the event once it is deallocated, and no endpoint
\* deallocates it a second time: after a release the sender can only be
\* waking, dropping its own payload or gone, the receiver only running the
\* deferred destructors or gone (the cleanup ownership rules of state.rs).
NoUseAfterRelease ==
    freed => /\ spc \in {"wake", "drop_value", "done"}
             /\ rpc \in {"cancel_drop", "done"}

\* Every assume_init_read finds an initialized cell, and no write buries a
\* waker that nobody dropped (the field initialization rules of state.rs).
CellsInitialized ==
    /\ spc \in {"set_take", "drop_take"} => awaiter # NoWaker
    /\ spc = "reclaim" => payload = "cell"
    /\ rpc \in {"unbind_set", "unbind_signaling", "unbind_disconnected",
               "awaiting_drop", "cancel_awaiter"} => awaiter # NoWaker
    /\ rpc = "bound_write" => awaiter = NoWaker
    /\ rpc \in {"poll_set", "cancel_value"} => payload = "cell"

\* When both endpoints are gone the event is released, the payload was
\* delivered or dropped once and every cloned waker was woken or dropped.
NothingLeaks ==
    (spc = "done" /\ rpc = "done") =>
        /\ freed /\ awaiter = NoWaker /\ clones = 0
        /\ payload \in {"unsent", "delivered", "dropped"}

\* The branches that the code marks unreachable!() are.
DefensiveBranchesUnreachable == spc # "unreachable" /\ rpc # "unreachable"

\* A receiver whose last poll returned Pending is never left asleep: once the
\* sender is gone, the waker of exactly that poll has been woken.
NoLostWakeup == (spc = "done" /\ rpc = "idle" /\ armed # NoWaker) => armed \in woken

\* Plain accesses to the value and awaiter cells are ordered by the atomics.
CellsRaceFree == mem.races \subseteq {"snd_release_set", "snd_release_drop", "rcv_release"}

\* Deallocation happens after every access of the other endpoint, on the
\* receiver's paths and on the sender's path through set().
ReleaseOrderedAfterUse == mem.races \cap {"snd_release_set", "rcv_release"} = {}

\* All of these at once: the storage rules that the code's unsafe blocks rely on,
\* in every interleaving and under every order of loads the memory model allows.
StorageSound ==
    /\ NoUseAfterRelease /\ CellsInitialized /\ DefensiveBranchesUnreachable
    /\ CellsRaceFree /\ ReleaseOrderedAfterUse

\* The comment in set() (event.rs:433) states for the sender's cleanup that
\* "we need to synchronize with whatever writes the receiver may have done";
\* on the path through sender_dropped_without_set() nothing does.
SenderDropReleaseOrdered == "snd_release_drop" \notin mem.races

\* Once an inspection has answered that the event is ready, no later is_ready()
\* or into_value() answers that it is not (issue #462), stale loads included.
ReadinessIsStable == [][answer = "ready" => answer' = "ready"]_answer

\* Once the sender is gone the receiver completes, also when it sleeps until
\* its waker is woken.
ReceiverCompletes == spc = "done" ~> rpc = "done"

\* An operation returns: neither spin loop waits for anything but the sender's
\* few steps.
ReceiverReturns == rpc # "idle" ~> rpc \in {"idle", "done"}

\* Both at once: no receiver is stranded, in an operation or between two.
NoReceiverStranded == ReceiverCompletes /\ ReceiverReturns

\* The event implements the exchange it promises.  A value counts as sent, and
\* an outcome as obtained, by the atomic operation that settles it.
Sent    == IF payload = "unsent" THEN (IF spc = "idle" THEN "open" ELSE "closed")
           ELSE IF spc = "fetch_add" THEN "open" ELSE "value"
Got     == IF rpc \in {"release", "cancel_value", "cancel_release", "cancel_drop", "done"}
             THEN rresult ELSE "open"
Storage == IF freed THEN "freed" ELSE "live"
Parcel  == IF payload = "unsent" \/ spc = "fetch_add" THEN "none"
           ELSE IF payload \in {"cell", "snd", "rcv"} THEN "in_transit" ELSE payload

Exchange == INSTANCE OnceExchange WITH
    sent <- Sent, got <- Got, storage <- Storage, parcel <- Parcel

\* Refinement: every behaviour of the event is one of the exchange.
ImplementsExchange == Exchange!Spec

----------------------------------------------------------------------------
(* Why the invariants above hold, in any order of loads. *)

\* The receiver is done with the event, or only its deferred destructors are left.
Over == {"cancel_drop", "done"}
Locking == {"set_take", "set_store", "drop_take", "drop_store"}
Untouched == {"idle", "fetch_add"}

\* The word has its value from the receiver until the sender's first operation on
\* it, then it is locked while the sender signals, then it is terminal.
WordInv ==
    /\ rpc \in Over => state \notin {EVENT_BOUND, EVENT_AWAITING}
    /\ spc \in Untouched =>
          /\ Len(mo) = 1
          /\ state \in IF rpc \in Over THEN {EVENT_DISCONNECTED} ELSE {EVENT_BOUND, EVENT_AWAITING}
    /\ spc \in Locking => Len(mo) <= 2 /\ state = EVENT_SIGNALING /\ rpc \notin Over
    /\ spc \in {"wake", "done"} => rpc \in Over \/ state \in {EVENT_SET, EVENT_DISCONNECTED}
    /\ spc \in {"reclaim", "release_set", "release_drop", "drop_value"} => rpc \in Over
    /\ spc # "unreachable"

\* Only the latest value is terminal, and only the oldest readable one is of the
\* receiver's own making.
HistoryInv ==
    rpc \notin Over => \A i \in DOMAIN mo :
        /\ mo[i] \in {EVENT_SET, EVENT_DISCONNECTED} => i = Len(mo)
        /\ mo[i] \in {EVENT_BOUND, EVENT_AWAITING} => i = 1
        /\ mo[i] \in 0..4

\* What the receiver can no longer read, and what it has come to know.
Unread(vs) == \A i \in DOMAIN mo : mo[i] \notin vs
Holding == {"bound_cas", "unbind_set", "unbind_signaling", "unbind_disconnected",
            "awaiting_drop", "cancel_awaiter"}
SawInv ==
    /\ rpc \in {"bound_write", "bound_cas", "awaiting_drop", "cancel_awaiter", "cancel_load",
                "cancel_swap"} => Unread({EVENT_AWAITING})
    /\ rpc = "awaiting_cas" => Unread({EVENT_BOUND})
    /\ rpc \in {"unbind_signaling", "signaling"} => Unread({EVENT_BOUND, EVENT_AWAITING})
    /\ rpc = "unbind_set" => mo[1] = EVENT_SET
    /\ rpc \in {"unbind_disconnected", "cancel_value", "cancel_release"} =>
          mo[1] = EVENT_DISCONNECTED
    /\ rpc \in {"take_result", "poll_set", "release"} => mo[1] \in {EVENT_SET, EVENT_DISCONNECTED}
    /\ rpc = "cancel_swap" => /\ rcur \in {EVENT_BOUND, EVENT_SET, EVENT_DISCONNECTED}
                              /\ rcur # EVENT_BOUND => mo[1] = rcur
    /\ rpc # "unreachable"
    /\ answer = "ready" =>
          \/ rpc = "idle" /\ mo[1] \in {EVENT_SET, EVENT_DISCONNECTED}
          \/ rpc \in {"take_result", "poll_set", "release", "cancel_cas", "cancel_awaiter",
                      "cancel_load", "cancel_swap", "cancel_value", "cancel_release"} \cup Over

\* Who has the awaiter: the receiver while it writes or takes back, else the word.
Own == Holding \cup {"bound_write"}
AwaiterInv ==
    /\ awaiter # NoWaker <=> \/ rpc \in Holding \/ state = EVENT_AWAITING
                             \/ spc \in {"set_take", "drop_take"}
    /\ rpc \in Own \/ ~Unread({EVENT_BOUND}) =>
          spc \notin {"set_take", "drop_take", "set_store"} /\ swaker = NoWaker
    /\ rpc \in {"bound_write", "bound_cas", "awaiting_cas", "awaiting_drop"} => rarg \in Wakers
    /\ rpc = "bound_cas" => awaiter = rarg

\* Every clone of a waker is in the cell or in one hand, and a receiver that
\* sleeps has its waker in the cell, with the sender, or woken.
Held(w) == IF w = NoWaker THEN 0 ELSE 1
WakersInv ==
    /\ clones = Held(awaiter) + Held(swaker) + Held(rheld)
    /\ swaker # NoWaker => spc \in {"set_store", "drop_store", "wake"}
    /\ spc \in {"set_store", "wake"} => swaker # NoWaker
    /\ rheld # NoWaker => rpc \in {"cancel_load", "cancel_swap", "cancel_value", "cancel_release",
                                   "cancel_drop"}
    /\ armed # NoWaker => rpc \in {"idle", "take_result", "poll_set", "release", "done"}
    /\ rpc = "idle" /\ armed # NoWaker => armed \in {awaiter, swaker} \cup woken

\* Who has the payload, and what the receiver will report.
PayloadInv ==
    /\ spc \in {"idle", "drop_take", "drop_store", "release_drop"} => payload = "unsent"
    /\ spc \in {"fetch_add", "set_take", "set_store", "reclaim"} => payload = "cell"
    /\ spc \in {"release_set", "drop_value"} => payload = "snd"
    /\ spc \in {"wake", "done"} =>
          CASE rpc = "cancel_drop" -> payload \in {"unsent", "rcv", "dropped"}
            [] rpc = "done" -> payload \in {"unsent", "delivered", "dropped"}
            [] rpc = "release" -> payload = IF rresult = "value" THEN "rcv" ELSE "unsent"
            [] rpc = "cancel_release" -> payload \in {"unsent", "rcv"}
            [] rpc \in {"poll_set", "cancel_value"} -> payload = "cell"
            [] OTHER -> payload = IF state = EVENT_SET THEN "cell" ELSE "unsent"
ResultInv ==
    /\ rpc \in {"bound_write", "bound_cas", "unbind_set", "unbind_signaling", "unbind_disconnected",
                "awaiting_cas", "awaiting_drop", "signaling", "poll_set"} =>
          rresult = "disconnected"
    /\ rpc \in {"cancel_cas", "cancel_awaiter", "cancel_load", "cancel_swap", "cancel_value",
                "cancel_release", "cancel_drop"} => rresult = "cancelled"
    /\ rpc = "release" => rresult \in {"value", "disconnected"}
    /\ rpc = "done" => rresult # "none"
    /\ rpc \in Over => /\ freed <=> spc \in {"wake", "drop_value", "done"}
                       /\ spc \in {"wake", "done"} \/ rresult = "cancelled"
    /\ rpc \notin Over => ~freed

\* Why no access races: a terminal value carries all that the sender did to whoever
\* acquires it, and the receiver acquires it before it touches what it guards; an
\* announced awaiter and a departure carry what the receiver did.
Settled == {"poll_set", "release", "cancel_value", "cancel_release"}
TerminalCarries ==
    rpc \notin Over \cup Settled => \A i \in DOMAIN mo :
        mo[i] \in {EVENT_SET, EVENT_DISCONNECTED} => Carried(mem, i, "snd") = Cells
OutcomeKnown ==
    rpc \in {"unbind_set", "unbind_disconnected"} \cup Settled => Known(mem, "rcv") = Cells
AwaiterKnown ==
    /\ rpc \in Own => "awaiter" \in Known(mem, "rcv")
    /\ /\ spc \in Untouched \cup {"set_take", "drop_take"} \/ ~Unread({EVENT_BOUND})
       /\ rpc \notin Over
       => "awaiter" \in Known(mem, "rcv")
ValueKnown == spc \in Untouched \cup {"reclaim"} => "value" \in Known(mem, "snd")
AnnouncedCarries ==
    /\ spc \in Untouched /\ state = EVENT_AWAITING => "awaiter" \in Carried(mem, Len(mo), "rcv")
    /\ spc \in {"set_take", "drop_take"} => "awaiter" \in Pend(mem, "snd")
DepartureCarries ==
    /\ spc \in Untouched /\ rpc \in Over => Carried(mem, Len(mo), "rcv") = Cells
    /\ spc = "reclaim" => Pend(mem, "snd") = Cells
    /\ spc = "release_set" => Known(mem, "snd") = Cells
RacesInv == Races(mem) \subseteq {"snd_release_drop"}

OrderInv == /\ TerminalCarries /\ OutcomeKnown /\ AwaiterKnown /\ ValueKnown
            /\ AnnouncedCarries /\ DepartureCarries /\ RacesInv

\* The inductive invariant: the protocol's, which speaks of no memory, and what
\* orders the accesses.
ControlInv == /\ ControlTypeOK /\ WordInv /\ HistoryInv /\ SawInv /\ AwaiterInv
              /\ WakersInv /\ PayloadInv /\ ResultInv

IInv == ControlInv /\ TypeOK /\ OrderInv

=============================================================================
