-------------------------- MODULE SessionSupervisor --------------------------
(***************************************************************************)
(* The supervisor of a dure session: packages/dure/src/supervisor          *)
(* (ownership.rs, shared.rs, relay.rs, record_writer.rs) and outbox.rs.    *)
(* A session's threads meet here: one relay and one outbox writer per      *)
(* client connection, the pump that reads the app's output, the thread     *)
(* that waits for the app and tears the session down, and the writer of    *)
(* the published record.  Clients connect, attach, type and leave whenever *)
(* they like; a client that stops reading blocks the write to it.          *)
(*                                                                         *)
(* The attach lock is held across steps; what runs under the client slot,  *)
(* an outbox's lock or the first-attach lock is one step.  Steps of a      *)
(* thread that no other can tell apart from their neighbours are joined    *)
(* with them.  Output bursts are numbered and of one unit; the backlog     *)
(* limit counts units.                                                     *)
(***************************************************************************)
EXTENDS Naturals, Sequences, FiniteSets, SequencesExt

CONSTANTS
    Clients, Initiator, NoClient,
    Backlog,  \* MAX_CLIENT_BACKLOG_BYTES
    Budgets   \* bounds on what the surroundings do, one of which a behaviour has

ASSUME ClientsAssumption == Initiator \in Clients /\ NoClient \notin Clients
ASSUME BoundsAssumption ==
    /\ Backlog \in Nat
    /\ Budgets \subseteq [output : Nat, faults : Nat, typists : SUBSET Clients, leavers : SUBSET Clients]

VARIABLES
    client,  \* a client's connection, its Attach and its keystroke; its relay thread
    outbox,  \* a client's outbox, its writer thread and what it has written
    shared,  \* the Shared struct: who owns the console, the gate, the opening output
    app,     \* the app, its console and the pump
    serve,   \* the thread of serve()
    store,   \* the record writer, its queue, and the record under this session's id
    budget,  \* how much the app writes, how often a call fails, which clients type and leave
    faults,  \* failures so far
    history  \* who was installed, whose input arrived, what each client was promised
state == <<client, outbox, shared, app, serve, store, faults, history>>
vars == <<state, budget>>

Attached == [kind |-> "Attached", n |-> 0]
Displaced == [kind |-> "Displaced", n |-> 0]
AppExited == [kind |-> "AppExited", n |-> 0]
Output(n) == [kind |-> "Output", n |-> n]
NoMessage == [kind |-> "none", n |-> 0]
NoOutbox == [queue |-> <<>>, abandoned |-> FALSE, finished |-> FALSE,
             writer |-> "none", hand |-> NoMessage, got |-> <<>>]

SetAttached(g, a) == [generation |-> g, attached |-> a]
Stop == [generation |-> 0, attached |-> FALSE]

Init ==
    /\ client = [c \in Clients |-> [conn |-> "none", asked |-> FALSE, typed |-> "no",
                                    relay |-> "none", generation |-> 0]]
    /\ outbox = [c \in Clients |-> NoOutbox]
    /\ shared = [attach |-> NoClient, slot |-> NoClient, previous |-> NoClient, generation |-> 0,
                 held |-> TRUE, preamble |-> <<>>, claimed |-> FALSE,
                 stopping |-> FALSE]
    /\ app = [produced |-> 0, jobClosed |-> FALSE, finishing |-> FALSE,
              pump |-> "read", to |-> NoClient, routed |-> 0]
    /\ serve = [at |-> "wait", listening |-> TRUE, waited |-> TRUE, pumped |-> TRUE, final |-> NoClient]
    /\ store = [updates |-> <<>>, at |-> "recv", attached |-> FALSE,
                exists |-> TRUE, flag |-> FALSE]
    /\ budget \in Budgets
    /\ faults = 0
    /\ history = [installs |-> <<>>, inputs |-> <<>>, overflowed |-> {}, left |-> {},
                  joined |-> [c \in Clients |-> [held |-> <<>>, after |-> 0]]]

Fault == faults < budget.faults /\ faults' = faults + 1

-----------------------------------------------------------------------------
(* The outbox of a client. *)

Bursts(messages) == {i \in DOMAIN messages : messages[i].kind = "Output"}
Payload(messages) == Cardinality(Bursts(messages))

Abandon(b) == [b EXCEPT !.queue = <<>>, !.abandoned = TRUE]
Finish(b) == [b EXCEPT !.finished = TRUE]

\* send() of one message after another: ignored once the outbox is closed, queued
\* whatever the backlog.  Under the same lock the backlog is found above the limit
\* or not; if it is, the sender calls abandon(), which locks once more and looks
\* at nothing but whether somebody else has been faster.
Queue(b, messages) ==
    IF b.abandoned \/ b.finished THEN b ELSE [b EXCEPT !.queue = @ \o messages]
Overflows(b, messages) ==
    ~(b.abandoned \/ b.finished) /\ Payload(b.queue \o messages) > Backlog

\* Both in one step, for a sender that cannot meet the limit (AccountsInv).
Send(b, messages) == IF Overflows(b, messages) THEN Abandon(b) ELSE Queue(b, messages)

\* Giving an outbox up disconnects it: a write that completes between the two
\* might as well have completed before.
Dropped == {c \in Clients : outbox'[c].abandoned /\ ~outbox[c].abandoned}
Disconnected(ends) == [c \in Clients |-> IF c \in ends THEN [client[c] EXCEPT !.conn = "closed"] ELSE client[c]]

\* The writer takes a message, writes it, or ends.
Taken(b) == [b EXCEPT !.hand = Head(b.queue), !.queue = Tail(b.queue), !.writer = "write"]
Written(b) == [b EXCEPT !.got = Append(b.got, b.hand), !.hand = NoMessage, !.writer = "take"]
Ended(b) == [b EXCEPT !.writer = "done", !.hand = NoMessage]

TakeNext(c) ==
    /\ outbox[c].writer = "take" /\ ~outbox[c].abandoned /\ outbox[c].queue # <<>>
    /\ outbox' = [outbox EXCEPT ![c] = Taken(@)]
    /\ UNCHANGED <<client, shared, app, serve, store, faults, history>>

\* A write completes when the client has room for it: nobody promises that.
Write(c) ==
    /\ outbox[c].writer = "write" /\ client[c].conn = "open"
    /\ outbox' = [outbox EXCEPT ![c] = Written(@)]
    /\ UNCHANGED <<client, shared, app, serve, store, faults, history>>

\* The writer stops: its outbox is done, or the write fails.
WriterEnds(c) ==
    /\ \/ /\ outbox[c].writer = "take"
          /\ outbox[c].abandoned \/ (outbox[c].queue = <<>> /\ outbox[c].finished)
       \/ outbox[c].writer = "write" /\ client[c].conn # "open"
    /\ outbox' = [outbox EXCEPT ![c] = Ended(@)]
    /\ client' = [client EXCEPT ![c].conn = "closed"]
    /\ UNCHANGED <<shared, app, serve, store, faults, history>>

-----------------------------------------------------------------------------
(* The clients, and the watcher of the startup connection. *)

\* accept() hands out a connection and its client_loop starts; the client sends
\* its Attach, or stalls.
Connect(c) ==
    /\ client[c].conn = "none" /\ serve.listening /\ ~shared.stopping
    /\ \E asks \in BOOLEAN :
          client' = [client EXCEPT ![c] = [@ EXCEPT !.conn = "open", !.relay = "handshake", !.asked = asks]]
    /\ UNCHANGED <<outbox, shared, app, serve, store, faults, history>>

\* accept() fails: the connection is dropped and no other client is accepted.
AcceptFails(c) ==
    /\ client[c].conn = "none" /\ serve.listening /\ ~shared.stopping /\ Fault
    /\ client' = [client EXCEPT ![c].conn = "closed"]
    /\ serve' = [serve EXCEPT !.listening = FALSE]
    /\ UNCHANGED <<outbox, shared, app, store, history>>

\* A client types once its attach is acknowledged.
Type(c) ==
    /\ c \in budget.typists /\ client[c].conn = "open" /\ client[c].typed = "no" /\ outbox[c].got # <<>>
    /\ client' = [client EXCEPT ![c].typed = "sent"]
    /\ UNCHANGED <<outbox, shared, app, serve, store, faults, history>>

\* A client closes its end, or `dure run` gives up before it has connected.
Leave(c) ==
    /\ \/ client[c].conn = "open" /\ c \in budget.leavers
       \/ client[c].conn = "none" /\ c = Initiator
    /\ client' = [client EXCEPT ![c].conn = "left"]
    /\ history' = [history EXCEPT !.left = @ \cup {c}]
    /\ UNCHANGED <<outbox, shared, app, serve, store, faults>>

\* The startup connection has closed: the initiating `dure run` keeps it open
\* until its own attach has ended.  Only the gate reads what its watcher notes.
InitiatorGone == client[Initiator].conn \in {"left", "closed"}

-----------------------------------------------------------------------------
(* client_loop, attach_client, apply_client_message, detach_client. *)

GoTo(c, there) == client' = [client EXCEPT ![c].relay = there]
Moved(r, there, generation) == [r EXCEPT !.relay = there, !.generation = generation]
Spent(r, there) == [r EXCEPT !.typed = "read", !.relay = there]
CloseAndEnd(c) == client' = [client EXCEPT ![c] = [@ EXCEPT !.conn = "closed", !.relay = "done"]]

\* A pipe delivers what was sent before its client left; the supervisor reads
\* nothing from a connection that it has closed itself.
Readable(c) == client[c].conn \in {"open", "left"}

\* No Attach within the connect budget, or a failed or panicking receive.
HandshakeFails(c) ==
    /\ client[c].relay = "handshake"
    /\ \/ ~client[c].asked /\ UNCHANGED faults
       \/ Fault
    /\ CloseAndEnd(c)
    /\ UNCHANGED <<outbox, shared, app, serve, store, history>>

\* The Attach has arrived and the attach lock is free.
MayLock(c) == client[c].relay = "handshake" /\ client[c].asked /\ Readable(c) /\ shared.attach = NoClient

AttachRefused(c) ==
    /\ MayLock(c) /\ shared.stopping
    /\ CloseAndEnd(c)
    /\ UNCHANGED <<outbox, shared, app, serve, store, faults, history>>

\* The lock is taken and the outbox started; under the slot the acknowledgement
\* and the opening output, which is within the limit, are queued and the client is
\* installed.
Install(c) ==
    /\ MayLock(c) /\ ~shared.stopping
    /\ outbox' = [outbox EXCEPT ![c] = [Send(@, <<Attached>> \o shared.preamble) EXCEPT !.writer = "take"]]
    /\ shared' = [shared EXCEPT !.attach = c, !.preamble = <<>>, !.held = FALSE, !.previous = shared.slot,
                                !.slot = c, !.generation = @ + 1]
    /\ client' = [Disconnected(Dropped) EXCEPT ![c] = Moved(@, "displace", shared.generation + 1)]
    /\ history' = [history EXCEPT !.installs = Append(@, c), !.overflowed = @ \cup Dropped,
                                  !.joined[c] = [held |-> shared.preamble, after |-> app.routed]]
    /\ UNCHANGED <<app, serve, store, faults>>

Displace(c) ==
    /\ client[c].relay = "displace"
    /\ shared' = [shared EXCEPT !.claimed = TRUE]
    /\ outbox' = [d \in Clients |-> IF d = shared.previous THEN Queue(outbox[d], <<Displaced>>) ELSE outbox[d]]
    /\ LET over == {d \in Clients : d = shared.previous /\ Overflows(outbox[d], <<Displaced>>)}
       IN /\ GoTo(c, IF over = {} THEN "resize" ELSE "abandon")
          /\ history' = [history EXCEPT !.overflowed = @ \cup over]
    /\ UNCHANGED <<app, serve, store, faults>>

\* The pump has just found the displaced client above the limit, and has yet to
\* give it up: the notice finds the same.
AbandonDisplaced(c) ==
    /\ client[c].relay = "abandon"
    /\ outbox' = [d \in Clients |-> IF d = shared.previous THEN Abandon(outbox[d]) ELSE outbox[d]]
    /\ client' = [Disconnected(Dropped) EXCEPT ![c].relay = "resize"]
    /\ UNCHANGED <<shared, app, serve, store, faults, history>>

ResizeAfterDelivery(c) ==
    /\ client[c].relay = "resize"
    /\ \A d \in Clients : d = shared.previous => outbox[d].writer = "done"
MayResize(c) == client[c].relay = "resize"

\* The displaced outbox is finished, the console resized and the lock released;
\* a resize that panics gives the new connection up.
EndAttach(c) ==
    /\ MayResize(c)
    /\ LET finished == [d \in Clients |-> IF d = shared.previous THEN Finish(outbox[d]) ELSE outbox[d]]
       IN \/ /\ outbox' = finished
             /\ GoTo(c, "announce")
             /\ UNCHANGED faults
          \/ /\ Fault
             /\ outbox' = [finished EXCEPT ![c] = Abandon(@)]
             /\ client' = [Disconnected({c}) EXCEPT ![c].relay = "panicked"]
    /\ shared' = [shared EXCEPT !.attach = NoClient, !.previous = NoClient]
    /\ UNCHANGED <<app, serve, store, history>>

AnnounceAttached(c) ==
    /\ client[c].relay = "announce"
    /\ store' = [store EXCEPT !.updates = Append(@, SetAttached(client[c].generation, TRUE))]
    /\ client' = [client EXCEPT ![c] = Moved(@, "relaying", 0)]
    /\ UNCHANGED <<outbox, shared, app, serve, faults, history>>

OwnsUnchecked(c) == TRUE
Owns(c) == shared.slot = c

\* Input reaches the app only while its sender owns the slot; a relay that lost
\* it, or whose write panics, ends.
Apply(c) ==
    /\ client[c].relay = "relaying" /\ client[c].typed = "sent" /\ Readable(c)
    /\ \/ /\ Owns(c)
          /\ client' = [client EXCEPT ![c] = Spent(@, "relaying")]
          /\ history' = [history EXCEPT !.inputs = Append(@, c)]
          /\ UNCHANGED faults
       \/ /\ ~Owns(c)
          /\ client' = [client EXCEPT ![c] = Spent(@, "detach")]
          /\ UNCHANGED <<faults, history>>
       \/ /\ Owns(c) /\ Fault
          /\ client' = [client EXCEPT ![c] = Spent(@, "panicked")]
          /\ UNCHANGED history
    /\ UNCHANGED <<outbox, shared, app, serve, store>>

\* The connection has ended, or receiving from it fails or panics.
ReceiveFails(c) ==
    /\ client[c].relay = "relaying"
    /\ \/ /\ client[c].conn = "closed" \/ (client[c].conn = "left" /\ client[c].typed # "sent")
          /\ GoTo(c, "detach")
          /\ UNCHANGED faults
       \/ /\ Fault
          /\ \E there \in {"detach", "panicked"} : GoTo(c, there)
    /\ UNCHANGED <<outbox, shared, app, serve, store, history>>

\* The slot is given back by its owner; a relay that was displaced leaves what is
\* queued to its outbox, unless it panicked.
Detach(c) ==
    /\ client[c].relay \in {"detach", "panicked"}
    /\ IF shared.slot = c
       THEN /\ shared' = [shared EXCEPT !.slot = NoClient, !.generation = @ + 1]
            /\ client' = [client EXCEPT ![c] = Moved(@, "release", shared.generation + 1)]
       ELSE /\ IF client[c].relay = "panicked" THEN CloseAndEnd(c) ELSE GoTo(c, "done")
            /\ UNCHANGED shared
    /\ UNCHANGED <<outbox, app, serve, store, faults, history>>

ReleaseConnection(c) ==
    /\ client[c].relay = "release"
    /\ outbox' = [outbox EXCEPT ![c] = Abandon(@)]
    /\ client' = [Disconnected(Dropped) EXCEPT ![c] = Moved(@, "done", 0)]
    /\ store' = [store EXCEPT !.updates = Append(@, SetAttached(client[c].generation, FALSE))]
    /\ UNCHANGED <<shared, app, serve, faults, history>>

-----------------------------------------------------------------------------
(* The app and the pump of its output. *)

\* The app's descendants may write until the job is closed; the console holds one
\* burst that the pump has not read.
AppWrites ==
    /\ ~app.jobClosed /\ app.produced < budget.output /\ app.routed = app.produced
    /\ app' = [app EXCEPT !.produced = @ + 1]
    /\ UNCHANGED <<client, outbox, shared, serve, store, faults, history>>

HoldOneMore == shared.held /\ Len(shared.preamble) <= Backlog
HoldForFirstClient == shared.held /\ Len(shared.preamble) < Backlog

\* A burst is read and, under the slot, meant for the owner or held while there
\* is room.
Route ==
    /\ app.pump = "read" /\ app.routed < app.produced
    /\ IF shared.slot = NoClient
       THEN /\ shared' = IF HoldForFirstClient
                         THEN [shared EXCEPT !.preamble = Append(@, Output(app.routed + 1))]
                         ELSE shared
            /\ app' = [app EXCEPT !.routed = @ + 1]
       ELSE /\ app' = [app EXCEPT !.routed = @ + 1, !.pump = "send", !.to = shared.slot]
            /\ UNCHANGED shared
    /\ UNCHANGED <<client, outbox, serve, store, faults, history>>

\* Outside the slot, to whoever owned it when the burst was routed.
SendOutput ==
    /\ app.pump = "send"
    /\ outbox' = [outbox EXCEPT ![app.to] = Queue(@, <<Output(app.routed)>>)]
    /\ IF Overflows(outbox[app.to], <<Output(app.routed)>>)
       THEN /\ app' = [app EXCEPT !.pump = "abandon"]
            /\ history' = [history EXCEPT !.overflowed = @ \cup {app.to}]
       ELSE /\ app' = [app EXCEPT !.pump = "read", !.to = NoClient]
            /\ UNCHANGED history
    /\ UNCHANGED <<client, shared, serve, store, faults>>

\* The connection is given up, whatever the writer has delivered meanwhile.
AbandonOverflowed ==
    /\ app.pump = "abandon"
    /\ outbox' = [outbox EXCEPT ![app.to] = Abandon(@)]
    /\ client' = Disconnected(Dropped)
    /\ app' = [app EXCEPT !.pump = "read", !.to = NoClient]
    /\ UNCHANGED <<shared, serve, store, faults, history>>

PumpEnds ==
    /\ app.pump = "read" /\ app.finishing /\ app.routed = app.produced
    /\ app' = [app EXCEPT !.pump = "done"]
    /\ UNCHANGED <<client, outbox, shared, serve, store, faults, history>>

\* A failed read closes the job, which ends the app.
PumpFails ==
    /\ app.pump = "read" /\ Fault
    /\ app' = [app EXCEPT !.pump = "done", !.jobClosed = TRUE]
    /\ serve' = [serve EXCEPT !.pumped = FALSE]
    /\ UNCHANGED <<client, outbox, shared, store, history>>

-----------------------------------------------------------------------------
(* serve(): the wait for the app and the teardown. *)

ServeAt(from, to) == serve.at = from /\ serve' = [serve EXCEPT !.at = to]

\* The app exits.  Whether an outcome is to be waited for is decided at once: a
\* pump that fails later does not open the gate.
WaitApp ==
    /\ ServeAt("wait", IF serve.pumped THEN "gate" ELSE "close")
    /\ UNCHANGED <<client, outbox, shared, app, store, faults, history>>

WaitFails ==
    /\ serve.at = "wait" /\ Fault
    /\ serve' = [serve EXCEPT !.at = "close", !.waited = FALSE]
    /\ UNCHANGED <<client, outbox, shared, app, store, history>>

\* The gate waits for somebody to deliver the outcome to.  Then the listener and
\* the job are closed and the pseudoconsole is finished.
CloseSession ==
    /\ \/ serve.at = "gate" /\ (shared.claimed \/ InitiatorGone)
       \/ serve.at = "close"
    /\ serve' = [serve EXCEPT !.at = "stop", !.listening = FALSE]
    /\ app' = [app EXCEPT !.jobClosed = TRUE, !.finishing = TRUE]
    /\ UNCHANGED <<client, outbox, shared, store, faults, history>>

Complete == serve.waited /\ serve.pumped

PumpNotAwaited == TRUE
PumpJoined == app.pump = "done"

\* The pump is joined; under the attach lock admission ends and the last owner is
\* taken out; a complete outcome is queued behind its output; the record writer is
\* told to stop.
StopClients ==
    /\ serve.at = "stop" /\ PumpJoined /\ shared.attach = NoClient
    /\ shared' = [shared EXCEPT !.stopping = TRUE, !.slot = NoClient]
    /\ serve' = [serve EXCEPT !.at = "delete", !.final = shared.slot]
    /\ outbox' = [c \in Clients |->
                    IF c # shared.slot THEN outbox[c]
                    ELSE Finish(IF Complete THEN Send(outbox[c], <<AppExited>>) ELSE outbox[c])]
    /\ store' = [store EXCEPT !.updates = Append(@, Stop)]
    /\ UNCHANGED <<client, app, faults, history>>

DeleteUnjoined == TRUE
DeleteAfterDelivery == store.at = "stopped" /\ \A c \in Clients : c = serve.final => outbox[c].writer = "done"
MayDelete == store.at = "stopped"

\* The writer is joined and the record deleted, which may fail.
DeleteRecord ==
    /\ ServeAt("delete", "flush") /\ MayDelete
    /\ \/ store' = [store EXCEPT !.exists = FALSE, !.flag = FALSE] /\ UNCHANGED faults
       \/ Fault /\ UNCHANGED store
    /\ UNCHANGED <<client, outbox, shared, app, history>>

\* The process ends once the last owner's writer has; all other threads end with it.
Exit ==
    /\ ServeAt("flush", "exited")
    /\ \A c \in Clients : c = serve.final => outbox[c].writer = "done"
    /\ client' = Disconnected({c \in Clients : client[c].conn = "open"})
    /\ UNCHANGED <<outbox, shared, app, store, faults, history>>

-----------------------------------------------------------------------------
(* publish_updates: the writer of the record. *)

AnyGeneration(update) == update # Stop
IsCurrent(update) == update # Stop /\ update.generation = shared.generation

\* The next update is considered: one of another generation than the current is
\* skipped, for another the record is read, which may fail.
ReceiveUpdate ==
    /\ store.at = "recv" /\ store.updates # <<>>
    /\ LET update == Head(store.updates)
           next == [store EXCEPT !.updates = Tail(@)]
       IN \/ /\ update = Stop
             /\ store' = [next EXCEPT !.at = "stopped"]
             /\ UNCHANGED faults
          \/ /\ IsCurrent(update) /\ store.exists
             /\ store' = [next EXCEPT !.at = "publish", !.attached = update.attached]
             /\ UNCHANGED faults
          \/ /\ update # Stop /\ store' = next
             /\ IF IsCurrent(update) /\ store.exists THEN Fault ELSE UNCHANGED faults
    /\ UNCHANGED <<client, outbox, shared, app, serve, history>>

PublishRecord ==
    /\ store.at = "publish"
    /\ LET next == [store EXCEPT !.at = "recv", !.attached = FALSE]
       IN \/ store' = [next EXCEPT !.exists = TRUE, !.flag = store.attached] /\ UNCHANGED faults
          \/ Fault /\ store' = next
    /\ UNCHANGED <<client, outbox, shared, app, serve, history>>

-----------------------------------------------------------------------------
Relay(c) ==
    \/ HandshakeFails(c) \/ AttachRefused(c) \/ Install(c) \/ Displace(c) \/ AbandonDisplaced(c)
    \/ EndAttach(c) \/ AnnounceAttached(c)
    \/ Apply(c) \/ ReceiveFails(c) \/ Detach(c) \/ ReleaseConnection(c)
Pump == Route \/ SendOutput \/ AbandonOverflowed \/ PumpEnds
Serve == CloseSession \/ StopClients \/ DeleteRecord \/ Exit
Recorder == ReceiveUpdate \/ PublishRecord
Process ==
    \/ \E c \in Clients : Relay(c)
    \/ \E c \in Clients : TakeNext(c) \/ Write(c) \/ WriterEnds(c)
    \/ \E c \in Clients : Connect(c) \/ AcceptFails(c)
    \/ Pump \/ PumpFails \/ Serve \/ WaitApp \/ WaitFails \/ Recorder \/ AppWrites
Terminated == serve.at = "exited" /\ UNCHANGED vars

Next ==
    \/ serve.at # "exited" /\ Process /\ UNCHANGED budget
    \/ \E c \in Clients : (Type(c) \/ Leave(c)) /\ UNCHANGED budget
    \/ Terminated

Spec == Init /\ [][Next]_vars

-----------------------------------------------------------------------------
Installed == ToSet(history.installs)
Told(c) == \E i \in DOMAIN outbox[c].got : outbox[c].got[i] \in {Displaced, AppExited}

\* All output that is routed to a client from its installation on: the opening
\* output it was given and every later burst.
Promised(c) ==
    history.joined[c].held \o [i \in 1..(app.routed - history.joined[c].after) |->
                                 Output(history.joined[c].after + i)]

\* The k-th burst among the messages is the k-th of those promised.
InOrder(messages, promised) ==
    \A i \in Bursts(messages) :
        LET k == Cardinality({j \in Bursts(messages) : j <= i})
        IN k \in DOMAIN promised /\ messages[i] = promised[k]

\* What a client reads is its acknowledgement, then its opening output and the
\* output from its installation on without gap, repetition or reordering, then at
\* most one of Displaced and AppExited; AppExited comes behind all output of the
\* app and its descendants (attach_client, route_output, serve).
StreamIntact ==
    \A c \in Clients :
        LET got == outbox[c].got IN
        got # <<>> =>
            /\ got[1] = Attached
            /\ InOrder(got, Promised(c))
            /\ \A i \in DOMAIN got : i > 1 => got[i] # Attached
            /\ \A i, j \in DOMAIN got : {got[i], got[j]} \subseteq {Displaced, AppExited} => i = j
            /\ \A i \in DOMAIN got : got[i] = AppExited =>
                   /\ i = Len(got) /\ Payload(got) = Len(Promised(c)) /\ app.routed = app.produced

\* While nothing fails, the supervisor closes an installed client's connection
\* only behind a word of explanation: the exit for the last owner, the
\* displacement for others.  The exceptions are a client that fell too far behind
\* and a displaced one that had not yet read its notice when the session ended.
ClosedWithReason ==
    \A c \in Installed \ (history.overflowed \cup history.left) :
        client[c].conn = "closed" /\ faults = 0 =>
            Told(c) \/ (serve.at = "exited" /\ c # serve.final)

\* Nobody is given up for its backlog unless a burst of live output has found it
\* further behind than the limit allows: what it had not received by then was more.
\* The opening output it is handed on arrival and the notices never do (Outbox::send,
\* hold_for_first_client).  It may catch up before it is disconnected.
OnlyLaggardsDropped ==
    [][\A c \in history'.overflowed \ history.overflowed :
          /\ Len(Promised(c)') - Payload(outbox'[c].got) > Backlog
          /\ app'.routed > history'.joined[c].after]_state

\* Keystrokes reach the app in the order of their senders' attaches: what a
\* client sent before it was displaced never arrives behind its successor's
\* (apply_client_message against attach_client).
InputFollowsOwnership ==
    \A i, j \in DOMAIN history.inputs :
        i < j => \E k, l \in DOMAIN history.installs :
                    k < l /\ history.installs[k] = history.inputs[i]
                          /\ history.installs[l] = history.inputs[j]

\* Once every update that a relay owes has been handed over and considered, the
\* published flag says whether somebody is attached, in whatever order the
\* updates were queued (set_attached against publish_updates).
OwesUpdate(c) == client[c].relay \in {"displace", "abandon", "resize", "announce", "release"}
FlagSettles ==
    /\ store.updates = <<>> /\ store.at = "recv" /\ faults = 0
    /\ ~shared.stopping /\ \A c \in Clients : ~OwesUpdate(c)
    => store.flag = (shared.slot # NoClient)

\* Deleting the record is final: no update that is still queued or in flight
\* brings it back, possibly over the record of a session that took the id over
\* (RecordWriter::finish before delete_owned_by).
DeleteIsFinal ==
    serve.at \in {"flush", "exited"} /\ faults = 0 =>
        ~store.exists

-----------------------------------------------------------------------------
\* The threads of the supervisor run; a write to a client may block for ever;
\* `dure run` attaches or gives up; nothing else is expected of a client.
Fairness ==
    /\ \A c \in Clients : /\ WF_state(serve.at # "exited" /\ Relay(c))
                          /\ WF_state(serve.at # "exited" /\ (TakeNext(c) \/ WriterEnds(c)))
    /\ WF_state(serve.at # "exited" /\ Pump)
    /\ WF_state(serve.at # "exited" /\ Serve)
    /\ WF_state(serve.at # "exited" /\ Recorder)
    /\ WF_state(app.jobClosed /\ WaitApp)
    /\ WF_state(~shared.claimed /\ (Connect(Initiator) \/ Leave(Initiator)))
FairSpec == Spec /\ Fairness

\* An attach is refused or completed, with the attach lock released, although the
\* present owner may have stopped reading: a steal does not wait for it.
AttachDecided ==
    \A c \in Clients :
        client[c].asked /\ client[c].relay = "handshake" ~>
            client[c].relay \notin {"handshake", "displace", "abandon", "resize"} \/ serve.at = "exited"

\* An app that has exited has its session removed, whatever failed and whoever
\* does not read.
ExitedIsRemoved == serve.at \in {"gate", "close"} \/ app.jobClosed ~> serve.at \in {"flush", "exited"}

-----------------------------------------------------------------------------
(* Ranges, and why the last three safety properties hold. *)

Kinds == {"Attached", "Displaced", "AppExited", "Output", "none"}
Messages == [kind : Kinds, n : Nat]
Owners == Clients \cup {NoClient}
Connections == [conn : {"none", "open", "left", "closed"}, asked : BOOLEAN,
                typed : {"no", "sent", "read"}, generation : Nat,
                relay : {"none", "handshake", "displace", "abandon", "resize", "announce",
                         "relaying", "detach", "panicked", "release", "done"}]
Outboxes == [queue : Seq(Messages), abandoned : BOOLEAN, finished : BOOLEAN,
             writer : {"none", "take", "write", "done"}, hand : Messages, got : Seq(Messages)]
Gates == [attach : Owners, slot : Owners, previous : Owners, generation : Nat, held : BOOLEAN,
          preamble : Seq(Messages), claimed : BOOLEAN, stopping : BOOLEAN]
Apps == [produced : Nat, jobClosed : BOOLEAN, finishing : BOOLEAN,
         pump : {"read", "send", "abandon", "done"}, to : Owners, routed : Nat]
Serves == [at : {"wait", "gate", "close", "stop", "delete", "flush", "exited"}, listening : BOOLEAN,
           waited : BOOLEAN, pumped : BOOLEAN, final : Owners]
Updates == [generation : Nat, attached : BOOLEAN]
Stores == [updates : Seq(Updates), attached : BOOLEAN, at : {"recv", "publish", "stopped"},
           exists : BOOLEAN, flag : BOOLEAN]
Starts == [held : Seq(Messages), after : Nat]
Histories == [installs : Seq(Clients), inputs : Seq(Clients), overflowed : SUBSET Owners,
              left : SUBSET Clients, joined : [Clients -> Starts]]
TypeOK ==
    /\ client \in [Clients -> Connections] /\ outbox \in [Clients -> Outboxes]
    /\ shared \in Gates /\ app \in Apps /\ serve \in Serves /\ store \in Stores
    /\ faults \in Nat /\ history \in Histories

\* The record writer has stopped before the record is deleted, and it stops only
\* once admission has ended.
WriterStopsFirst ==
    /\ serve.at \in {"delete", "flush", "exited"} <=> shared.stopping
    /\ \/ store.at = "stopped"
       \/ \E i \in DOMAIN store.updates : store.updates[i] = Stop
       => shared.stopping
    /\ IF serve.at \in {"flush", "exited"}
       THEN store.at = "stopped" /\ (faults = 0 => ~store.exists)
       ELSE store.exists

\* Who owns the slot was installed last, and whose input arrived has been
\* installed and types no more.
LastInstalledOwns ==
    shared.slot # NoClient =>
        history.installs # <<>> /\ history.installs[Len(history.installs)] = shared.slot
InputsAreSpent ==
    \A i \in DOMAIN history.inputs :
        /\ client[history.inputs[i]].typed = "read"
        /\ \E k \in DOMAIN history.installs : history.installs[k] = history.inputs[i]

\* Who has not connected has no relay.
NewcomersIdle == \A c \in Clients : client[c].conn = "none" => client[c].relay = "none"

\* An update of the current generation, owed or queued, tells the truth, ...
Truthful(generation, attached) ==
    /\ generation \in 1 .. shared.generation
    /\ generation = shared.generation /\ ~shared.stopping => attached = (shared.slot # NoClient)
UpdatesAreTrue ==
    /\ \A c \in Clients : OwesUpdate(c) => Truthful(client[c].generation, client[c].relay # "release")
    /\ \A i \in DOMAIN store.updates :
          store.updates[i] # Stop => Truthful(store.updates[i].generation, store.updates[i].attached)

\* ... and until it is true the published flag has such an update ahead of it.
FlagCatchesUp ==
    faults = 0 /\ ~shared.stopping =>
        \/ \E c \in Clients : OwesUpdate(c) /\ client[c].generation = shared.generation
        \/ \E i \in DOMAIN store.updates : store.updates[i].generation = shared.generation
        \/ store.at = "publish" /\ store.attached = (shared.slot # NoClient)
        \/ store.at = "recv" /\ store.flag = (shared.slot # NoClient)

IInv == /\ TypeOK /\ WriterStopsFirst /\ LastInstalledOwns /\ InputsAreSpent /\ InputFollowsOwnership
        /\ NewcomersIdle /\ UpdatesAreTrue /\ FlagCatchesUp

-----------------------------------------------------------------------------
(* Why the streams are intact: what is true between the steps of an attach,  *)
(* of a burst on its way and of the teardown.                                *)

Joined(c) == outbox[c].writer # "none"
Writing(b) == b.writer \in {"take", "write"} /\ ~b.abandoned
Hand(b) == IF b.writer = "write" THEN <<b.hand>> ELSE <<>>

\* What a client has been given and can still read, in order.
Stream(b) == IF b.writer = "done" THEN b.got ELSE b.got \o (Hand(b) \o b.queue)

\* A client has an outbox from its installation on; every place is held by such
\* a client or by nobody.
JoinedInv ==
    /\ \A c \in Clients : /\ ~Joined(c) => outbox[c] = NoOutbox
                          /\ client[c].relay \in {"none", "handshake"} => ~Joined(c)
                          /\ client[c].relay \notin {"none", "handshake", "done"} => Joined(c)
                          /\ Joined(c) <=> c \in Installed
    /\ \A c \in Clients : c \in {shared.slot, shared.previous, app.to, serve.final} => Joined(c)

\* Who holds the attach lock owns the slot, having displaced another.
AttachInv ==
    /\ \A c \in Clients : shared.attach = c <=> client[c].relay \in {"displace", "abandon", "resize"}
    /\ shared.attach # NoClient => shared.slot = shared.attach
    /\ shared.previous # NoClient => shared.attach # NoClient /\ shared.previous # shared.slot

\* The pump carries a burst to somebody exactly while it sends it; admission ends
\* behind the last burst.
PumpInv ==
    /\ app.to # NoClient <=> app.pump \in {"send", "abandon"}
    /\ app.routed <= app.produced
    /\ app.finishing \/ app.pump = "done" => app.jobClosed
    /\ app.pump = "done" /\ serve.pumped => app.routed = app.produced
    /\ shared.stopping => app.pump = "done" /\ shared.slot = NoClient /\ shared.attach = NoClient

\* The opening output is within the backlog; a client's share of the output
\* starts where it was installed.
OpeningInv ==
    /\ \A i \in DOMAIN shared.preamble : shared.preamble[i].kind = "Output"
    /\ Len(shared.preamble) <= Backlog
    /\ \A c \in Clients : /\ history.joined[c].after <= app.routed
                          /\ app.to = c => history.joined[c].after < app.routed

\* Every burst for a client is read, held for it, on its way to it, or lost; none
\* is lost while the client is served.
Carried(c) == IF app.pump = "send" /\ app.to = c THEN 1 ELSE 0
Given(b) == Payload(b.got) + Payload(Hand(b)) + Payload(b.queue)
AccountsInv ==
    \A c \in Clients :
        /\ Payload(outbox[c].queue) > Backlog => app.pump = "abandon" /\ app.to = c
        /\ outbox[c].abandoned => outbox[c].queue = <<>>
        /\ Joined(c) => Given(outbox[c]) + Carried(c) <= Len(Promised(c))
        /\ Writing(outbox[c]) /\ ~outbox[c].finished /\ c \in {shared.slot, app.to} =>
              Given(outbox[c]) + Carried(c) = Len(Promised(c))

\* The stream of a client is well-formed ...
NoticeFree(messages) == \A i \in DOMAIN messages : messages[i] \notin {Displaced, AppExited}
ExitFree(messages) == \A i \in DOMAIN messages : messages[i] # AppExited
WellFormed(messages, promised) ==
    /\ messages # <<>> => messages[1] = Attached
    /\ \A i \in DOMAIN messages : i > 1 => messages[i] # Attached
    /\ InOrder(messages, promised)
    /\ \A i, j \in DOMAIN messages : {messages[i], messages[j]} \subseteq {Displaced, AppExited} => i = j
    /\ \A i \in DOMAIN messages : messages[i] = AppExited =>
           i = Len(messages) /\ Payload(messages) = Len(promised)
ShapeInv ==
    \A c \in Clients : /\ WellFormed(Stream(outbox[c]), Promised(c))
                       /\ Writing(outbox[c]) => Stream(outbox[c]) # <<>>

\* ... and has no notice before its client's time as the owner ends.
Displacing == \E d \in Clients : client[d].relay = "displace"
NoticesInv ==
    \A c \in Clients :
        /\ c = shared.slot \/ (c = shared.previous /\ Displacing) => NoticeFree(Stream(outbox[c]))
        /\ c = shared.slot \/ c = shared.previous => ~outbox[c].finished
        /\ ~ExitFree(Stream(outbox[c])) => shared.stopping /\ serve.pumped /\ outbox[c].finished
StreamInv == JoinedInv /\ AttachInv /\ PumpInv /\ OpeningInv /\ AccountsInv /\ ShapeInv /\ NoticesInv

\* Who is about to be given up is known as a laggard; while nothing fails, any
\* other client that is served to the end has been told why it ends, and is given
\* up only when its connection is gone.
Explained(c) == Writing(outbox[c]) => ~NoticeFree(Stream(outbox[c]))
ReasonsInv ==
    /\ \A c \in Clients : /\ client[c].conn = "left" => c \in history.left
                          /\ Joined(c) => client[c].conn # "none"
                          /\ outbox[c].writer = "done" => client[c].conn # "open"
    /\ app.pump = "abandon" => app.to \in history.overflowed
    /\ \A c \in Clients : client[c].relay = "abandon" => shared.previous \in history.overflowed
    /\ faults = 0 => serve.waited /\ serve.pumped
    /\ faults = 0 => \A c \in Clients \ history.overflowed :
          /\ outbox[c].finished \/ (c = shared.previous /\ ~Displacing) => Explained(c)
          /\ outbox[c].abandoned => client[c].conn # "open"
          /\ client[c].relay # "panicked"
          /\ client[c].relay = "release" => client[c].conn # "open"
          /\ client[c].relay = "detach" /\ c = shared.slot => client[c].conn # "open"
    /\ ClosedWithReason
============================================================================
