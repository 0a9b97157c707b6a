------------------------ MODULE SessionSupervisorProofs ------------------------
(***************************************************************************)
(* Safety of SessionSupervisor for any number of clients, any backlog and  *)
(* any budget: types, the final deletion, the order of input, the attached *)
(* flag, and then what clients read and why they are closed.               *)
(*                                                                         *)
(* The first three follow from IInv, split into Deletion, Input and Flag;  *)
(* most steps leave all three alone, and the Quiet lemmas say so once.     *)
(* The streams need StreamInv.  An outbox is a record, and what its        *)
(* operations do to the stream it stands for (QueueStream, TakeStream, ..) *)
(* is proved for records alone; a step of the supervisor then moves one    *)
(* such record, and either leaves the streams alone (StreamsSteady), only  *)
(* passes them on or cuts them off (Reduced), or is one of the five that   *)
(* lengthen what is promised or sent.  Who is given up for its backlog     *)
(* (LaggardsOnly) and why a connection is closed (ReasonsInv) rest on      *)
(* StreamInv in turn.                                                      *)
(***************************************************************************)
EXTENDS SessionSupervisor, FiniteSetTheorems, SequenceTheorems, TLAPS

-----------------------------------------------------------------------------
(* Types. *)

\* A value of the range in one place keeps a function in its space.
LEMMA UpdateAt ==
    ASSUME NEW S, NEW T, NEW f \in [S -> T], NEW c \in S, NEW v \in T
    PROVE  [f EXCEPT ![c] = v] \in [S -> T]
  OBVIOUS

\* The messages and updates that the code makes are of their types.
LEMMA MessageTypes ==
    /\ Attached \in Messages /\ Displaced \in Messages /\ AppExited \in Messages /\ NoMessage \in Messages
    /\ \A n \in Nat : Output(n) \in Messages
    /\ Stop \in Updates
    /\ \A g \in Nat, a \in BOOLEAN : SetAttached(g, a) \in Updates
    /\ <<>> \in Seq(Messages)
  BY DEF Attached, Displaced, AppExited, NoMessage, Output, Stop, SetAttached, Messages, Kinds, Updates

\* Giving up, finishing and sending keep an outbox an outbox.
LEMMA AbandonType == \A b \in Outboxes : Abandon(b) \in Outboxes
  BY MessageTypes DEF Abandon, Outboxes

\* A finished outbox is an outbox.
LEMMA FinishType == \A b \in Outboxes : Finish(b) \in Outboxes
  BY DEF Finish, Outboxes

\* So is one that was sent messages, ...
LEMMA SendType ==
    ASSUME NEW b \in Outboxes, NEW messages \in Seq(Messages)
    PROVE  Queue(b, messages) \in Outboxes /\ Send(b, messages) \in Outboxes
<1>1. b.queue \o messages \in Seq(Messages)
  BY DEF Outboxes
<1>2. [b EXCEPT !.queue = @ \o messages] \in Outboxes
  BY <1>1 DEF Outboxes
<1> QED
  BY <1>2, AbandonType DEF Send, Queue, Overflows

\* ... or one message.
LEMMA SendOneType ==
    \A b \in Outboxes, m \in Messages : Queue(b, <<m>>) \in Outboxes /\ Send(b, <<m>>) \in Outboxes
<1>1. \A m \in Messages : <<m>> \in Seq(Messages)
  OBVIOUS
<1> QED
  BY <1>1, SendType

\* Clients whose connections are closed are clients.
LEMMA DisconnectedType ==
    ASSUME client \in [Clients -> Connections], NEW ends
    PROVE  Disconnected(ends) \in [Clients -> Connections]
<1>1. \A r \in Connections : [r EXCEPT !.conn = "closed"] \in Connections
  BY DEF Connections
<1> QED
  BY <1>1 DEF Disconnected

\* The types hold at the start, ...
LEMMA InitType == Init => TypeOK
<1> SUFFICES ASSUME Init PROVE TypeOK
  OBVIOUS
<1>1. client \in [Clients -> Connections]
  BY DEF Init, Connections
<1>2. outbox \in [Clients -> Outboxes]
  BY MessageTypes DEF Init, NoOutbox, Outboxes
<1>3. shared \in Gates
  BY MessageTypes DEF Init, Gates, Owners
<1>4. app \in Apps /\ serve \in Serves
  BY DEF Init, Apps, Serves, Owners
<1>5. store \in Stores
  BY DEF Init, Stores
<1>6. history \in Histories
  BY DEF Init, Histories, Starts
<1> QED
  BY <1>1, <1>2, <1>3, <1>4, <1>5, <1>6 DEF Init, TypeOK

\* ... and the writers keep them, ...
LEMMA WritersType ==
    ASSUME TypeOK, NEW c \in Clients, TakeNext(c) \/ Write(c) \/ WriterEnds(c)
    PROVE  TypeOK'
<1>1. outbox[c] \in Outboxes /\ client[c] \in Connections
  BY DEF TypeOK
<1>2. CASE TakeNext(c)
  <2>1. Head(outbox[c].queue) \in Messages /\ Tail(outbox[c].queue) \in Seq(Messages)
    BY <1>1, <1>2 DEF TakeNext, Outboxes
  <2>2. Taken(outbox[c]) \in Outboxes
    BY <1>1, <2>1 DEF Outboxes, Taken
  <2> QED
    BY <1>2, <2>2, UpdateAt DEF TakeNext, TypeOK
<1>3. CASE Write(c)
  <2>1. Append(outbox[c].got, outbox[c].hand) \in Seq(Messages)
    BY <1>1 DEF Outboxes
  <2>2. Written(outbox[c]) \in Outboxes
    BY <1>1, <2>1, MessageTypes DEF Outboxes, Written
  <2> QED
    BY <1>3, <2>2, UpdateAt DEF Write, TypeOK
<1>4. CASE WriterEnds(c)
  <2>1. Ended(outbox[c]) \in Outboxes
    BY <1>1, MessageTypes DEF Outboxes, Ended
  <2>2. [client[c] EXCEPT !.conn = "closed"] \in Connections
    BY <1>1 DEF Connections
  <2> QED
    BY <1>4, <2>1, <2>2, UpdateAt DEF WriterEnds, TypeOK
<1> QED
  BY <1>2, <1>3, <1>4

\* ... the clients, ...
LEMMA ClientsType ==
    ASSUME TypeOK, NEW c \in Clients, Connect(c) \/ AcceptFails(c) \/ Type(c) \/ Leave(c)
    PROVE  TypeOK'
<1>1. client[c] \in Connections
  BY DEF TypeOK
<1>2. /\ \A b \in BOOLEAN :
            [client[c] EXCEPT !.conn = "open", !.relay = "handshake", !.asked = b] \in Connections
      /\ [client[c] EXCEPT !.conn = "closed"] \in Connections
      /\ [client[c] EXCEPT !.conn = "left"] \in Connections
      /\ [client[c] EXCEPT !.typed = "sent"] \in Connections
  BY <1>1 DEF Connections
<1>3. CASE Connect(c)
  <2>1. PICK b \in BOOLEAN :
          client' = [client EXCEPT ![c] = [client[c] EXCEPT !.conn = "open", !.relay = "handshake",
                                                            !.asked = b]]
    BY <1>3 DEF Connect, TypeOK
  <2>2. client' \in [Clients -> Connections]
    BY <1>2, <2>1, UpdateAt DEF TypeOK
  <2> QED
    BY <1>3, <2>2 DEF Connect, TypeOK
<1>4. CASE AcceptFails(c)
  <2>1. serve' \in Serves
    BY <1>4 DEF AcceptFails, TypeOK, Serves
  <2>2. client' \in [Clients -> Connections]
    BY <1>2, <1>4, UpdateAt DEF AcceptFails, TypeOK
  <2> QED
    BY <1>4, <2>1, <2>2 DEF AcceptFails, Fault, TypeOK
<1>5. CASE Type(c)
  BY <1>2, <1>5, UpdateAt DEF Type, TypeOK
<1>6. CASE Leave(c)
  <2>1. history' \in Histories
    BY <1>6 DEF Leave, TypeOK, Histories
  <2> QED
    BY <1>2, <1>6, <2>1, UpdateAt DEF Leave, TypeOK
<1> QED
  BY <1>3, <1>4, <1>5, <1>6

\* ... the relays outside of an attach, ...
LEMMA RelayEndsType ==
    ASSUME TypeOK, NEW c \in Clients,
           HandshakeFails(c) \/ AttachRefused(c) \/ AnnounceAttached(c) \/ Apply(c)
               \/ ReceiveFails(c) \/ Detach(c) \/ ReleaseConnection(c)
    PROVE  TypeOK'
<1>1. client[c] \in Connections /\ shared.generation \in Nat
  BY DEF TypeOK, Gates
<1>2. /\ [client[c] EXCEPT !.conn = "closed", !.relay = "done"] \in Connections
      /\ Moved(client[c], "relaying", 0) \in Connections
      /\ \A there \in {"relaying", "detach", "panicked"} : Spent(client[c], there) \in Connections
      /\ \A there \in {"detach", "panicked", "done"} : [client[c] EXCEPT !.relay = there] \in Connections
      /\ \A n \in Nat : Moved(client[c], "release", n) \in Connections
  BY <1>1 DEF Connections, Moved, Spent
<1>3. \A a \in BOOLEAN : Append(store.updates, SetAttached(client[c].generation, a)) \in Seq(Updates)
  BY <1>1, MessageTypes DEF TypeOK, Stores, Connections
<1>4. CASE HandshakeFails(c) \/ AttachRefused(c)
  <2>1. client' \in [Clients -> Connections]
    BY <1>2, <1>4, UpdateAt DEF HandshakeFails, AttachRefused, CloseAndEnd, TypeOK
  <2> QED
    BY <1>4, <2>1 DEF HandshakeFails, AttachRefused, Fault, TypeOK
<1>5. CASE AnnounceAttached(c)
  <2>1. client' \in [Clients -> Connections]
    BY <1>2, <1>5, UpdateAt DEF AnnounceAttached, TypeOK
  <2>2. store' \in Stores
    BY <1>3, <1>5 DEF AnnounceAttached, TypeOK, Stores
  <2> QED
    BY <1>5, <2>1, <2>2 DEF AnnounceAttached, TypeOK
<1>6. CASE Apply(c)
  <2>1. client' \in [Clients -> Connections]
    BY <1>2, <1>6, UpdateAt DEF Apply, TypeOK
  <2>2. history' \in Histories
    <3>1. Append(history.inputs, c) \in Seq(Clients)
      BY DEF TypeOK, Histories
    <3> QED
      BY <1>6, <3>1 DEF Apply, TypeOK, Histories
  <2> QED
    BY <1>6, <2>1, <2>2 DEF Apply, Fault, TypeOK
<1>7. CASE ReceiveFails(c)
  <2>1. client' \in [Clients -> Connections]
    <3>1. \A there \in {"detach", "panicked"} :
            [client EXCEPT ![c] = [client[c] EXCEPT !.relay = there]] \in [Clients -> Connections]
      BY <1>2, UpdateAt DEF TypeOK
    <3> QED
      BY <1>7, <3>1 DEF ReceiveFails, GoTo, TypeOK
  <2> QED
    BY <1>7, <2>1 DEF ReceiveFails, Fault, TypeOK
<1>8. CASE Detach(c)
  <2>0. shared.generation + 1 \in Nat
    BY <1>1
  <2>1. client' \in [Clients -> Connections]
    <3>1. CASE shared.slot = c
      <4>1. Moved(client[c], "release", shared.generation + 1) \in Connections
        BY <1>2, <2>0
      <4> QED
        BY <1>8, <3>1, <4>1, UpdateAt DEF Detach, TypeOK
    <3>2. CASE shared.slot # c
      BY <1>2, <1>8, <3>2, UpdateAt DEF Detach, GoTo, CloseAndEnd, TypeOK
    <3> QED
      BY <3>1, <3>2
  <2>2. shared' \in Gates
    <3>1. \A n \in Nat : [shared EXCEPT !.slot = NoClient, !.generation = n] \in Gates
      BY DEF TypeOK, Gates, Owners
    <3>2. [shared EXCEPT !.slot = NoClient, !.generation = shared.generation + 1] \in Gates
      BY <2>0, <3>1, Zenon
    <3> QED
      BY <1>8, <3>2 DEF Detach, TypeOK
  <2> QED
    BY <1>8, <2>1, <2>2 DEF Detach, TypeOK
<1>9. CASE ReleaseConnection(c)
  <2>1. Disconnected(Dropped) \in [Clients -> Connections]
    BY DisconnectedType DEF TypeOK
  <2>2. client' \in [Clients -> Connections]
    <3>1. Moved(Disconnected(Dropped)[c], "done", 0) \in Connections
      BY <2>1 DEF Connections, Moved
    <3> QED
      BY <1>9, <2>1, <3>1, UpdateAt DEF ReleaseConnection
  <2>3. outbox' \in [Clients -> Outboxes]
    BY <1>9, AbandonType, UpdateAt DEF ReleaseConnection, TypeOK
  <2>4. store' \in Stores
    BY <1>3, <1>9 DEF ReleaseConnection, TypeOK, Stores
  <2> QED
    BY <1>9, <2>2, <2>3, <2>4 DEF ReleaseConnection, TypeOK
<1> QED
  BY <1>4, <1>5, <1>6, <1>7, <1>8, <1>9

\* ... a client's installation ...
LEMMA InstallType ==
    ASSUME TypeOK, NEW c \in Clients, Install(c)
    PROVE  TypeOK'
<1>1. outbox[c] \in Outboxes /\ shared.preamble \in Seq(Messages) /\ shared.generation \in Nat
  BY DEF TypeOK, Gates
<1>2. outbox' \in [Clients -> Outboxes]
  <2>1. <<Attached>> \o shared.preamble \in Seq(Messages)
    BY <1>1, MessageTypes
  <2>2. Send(outbox[c], <<Attached>> \o shared.preamble) \in Outboxes
    BY <1>1, <2>1, SendType
  <2>3. [Send(outbox[c], <<Attached>> \o shared.preamble) EXCEPT !.writer = "take"] \in Outboxes
    BY <2>2 DEF Outboxes
  <2> QED
    BY <2>3, UpdateAt DEF Install, TypeOK
<1>3. client' \in [Clients -> Connections]
  <2>1. Disconnected(Dropped) \in [Clients -> Connections]
    BY DisconnectedType DEF TypeOK
  <2>2. Moved(Disconnected(Dropped)[c], "displace", shared.generation + 1) \in Connections
    <3>1. Disconnected(Dropped)[c] \in Connections /\ shared.generation + 1 \in Nat
      BY <1>1, <2>1
    <3> QED
      BY <3>1 DEF Connections, Moved
  <2> QED
    BY <2>1, <2>2, UpdateAt DEF Install
<1>4. shared' \in Gates
  <2>1. shared.slot \in Owners /\ c \in Owners /\ shared.generation + 1 \in Nat
    BY DEF TypeOK, Gates, Owners
  <2> QED
    BY <2>1, MessageTypes DEF Install, TypeOK, Gates
<1>5. history' \in Histories
  <2>1. [held |-> shared.preamble, after |-> app.routed] \in Starts
    BY <1>1 DEF TypeOK, Apps, Starts
  <2>2. [history.joined EXCEPT ![c] = [held |-> shared.preamble, after |-> app.routed]] \in [Clients -> Starts]
    BY <2>1, UpdateAt DEF TypeOK, Histories
  <2>3. Append(history.installs, c) \in Seq(Clients) /\ history.overflowed \cup Dropped \in SUBSET Owners
    BY DEF TypeOK, Histories, Dropped, Owners
  <2> QED
    BY <2>2, <2>3 DEF Install, TypeOK, Histories
<1> QED
  BY <1>2, <1>3, <1>4, <1>5 DEF Install, TypeOK

\* ... and the rest of its attach, ...
LEMMA AttachType ==
    ASSUME TypeOK, NEW c \in Clients, Displace(c) \/ AbandonDisplaced(c) \/ EndAttach(c)
    PROVE  TypeOK'
<1>1. client[c] \in Connections
  BY DEF TypeOK
<1>2. \A there \in {"resize", "abandon", "announce"} : [client[c] EXCEPT !.relay = there] \in Connections
  BY <1>1 DEF Connections
<1>3. CASE Displace(c)
  <2>1. \A d \in Clients : Queue(outbox[d], <<Displaced>>) \in Outboxes
    BY SendOneType, MessageTypes DEF TypeOK
  <2>2. outbox' \in [Clients -> Outboxes]
    BY <1>3, <2>1 DEF Displace, TypeOK
  <2>3. client' \in [Clients -> Connections]
    <3>1. \A there \in {"resize", "abandon"} :
            [client EXCEPT ![c] = [client[c] EXCEPT !.relay = there]] \in [Clients -> Connections]
      BY <1>2, UpdateAt DEF TypeOK
    <3> QED
      BY <1>3, <3>1 DEF Displace, GoTo, TypeOK
  <2>4. shared' \in Gates
    BY <1>3 DEF Displace, TypeOK, Gates
  <2>5. history' \in Histories
    BY <1>3 DEF Displace, TypeOK, Histories, Owners
  <2> QED
    BY <1>3, <2>2, <2>3, <2>4, <2>5 DEF Displace, TypeOK
<1>5. CASE AbandonDisplaced(c)
  <2>1. Disconnected(Dropped) \in [Clients -> Connections]
    BY DisconnectedType DEF TypeOK
  <2>2. client' \in [Clients -> Connections]
    <3>1. [Disconnected(Dropped)[c] EXCEPT !.relay = "resize"] \in Connections
      BY <2>1 DEF Connections
    <3> QED
      BY <1>5, <2>1, <3>1, UpdateAt DEF AbandonDisplaced
  <2>3. outbox' \in [Clients -> Outboxes]
    BY <1>5, AbandonType DEF AbandonDisplaced, TypeOK
  <2> QED
    BY <1>5, <2>2, <2>3 DEF AbandonDisplaced, TypeOK
<1>4. CASE EndAttach(c)
  <2> DEFINE finished == [d \in Clients |-> IF d = shared.previous THEN Finish(outbox[d]) ELSE outbox[d]]
  <2>1. finished \in [Clients -> Outboxes]
    BY FinishType DEF TypeOK
  <2>2. [finished EXCEPT ![c] = Abandon(@)] \in [Clients -> Outboxes]
    BY <2>1, AbandonType, UpdateAt
  <2>3. outbox' \in [Clients -> Outboxes]
    BY <1>4, <2>1, <2>2 DEF EndAttach
  <2>4. [Disconnected({c}) EXCEPT ![c].relay = "panicked"] \in [Clients -> Connections]
    <3>1. Disconnected({c}) \in [Clients -> Connections]
      BY DisconnectedType DEF TypeOK
    <3>2. [Disconnected({c})[c] EXCEPT !.relay = "panicked"] \in Connections
      BY <3>1 DEF Connections
    <3> QED
      BY <3>1, <3>2, UpdateAt
  <2>5. [client EXCEPT ![c].relay = "announce"] \in [Clients -> Connections]
    BY <1>2, UpdateAt DEF TypeOK
  <2>6. client' \in [Clients -> Connections]
    BY <1>4, <2>4, <2>5 DEF EndAttach, GoTo
  <2>7. shared' \in Gates
    BY <1>4 DEF EndAttach, TypeOK, Gates, Owners
  <2>8. faults' \in Nat
    BY <1>4 DEF EndAttach, Fault, TypeOK
  <2> QED
    BY <1>4, <2>3, <2>6, <2>7, <2>8 DEF EndAttach, TypeOK
<1> QED
  BY <1>3, <1>4, <1>5

\* ... the app and its pump, ...
LEMMA PumpType ==
    ASSUME TypeOK, AppWrites \/ Pump \/ PumpFails
    PROVE  TypeOK'
<1>1. Output(app.routed) \in Messages /\ Output(app.routed + 1) \in Messages
  BY MessageTypes DEF TypeOK, Apps
<1>2. CASE AppWrites
  <2>1. app' \in Apps
    BY <1>2 DEF AppWrites, TypeOK, Apps
  <2> QED
    BY <1>2, <2>1 DEF AppWrites, TypeOK
<1>3. CASE Route
  <2>1. app' \in Apps
    <3>1. [app EXCEPT !.routed = @ + 1] \in Apps
      BY DEF TypeOK, Apps
    <3>2. [app EXCEPT !.routed = @ + 1, !.pump = "send", !.to = shared.slot] \in Apps
      <4>1. shared.slot \in Owners /\ app.routed + 1 \in Nat
        BY DEF TypeOK, Gates, Apps
      <4>2. \A n \in Nat, o \in Owners :
              [app EXCEPT !.routed = n, !.pump = "send", !.to = o] \in Apps
        BY DEF TypeOK, Apps
      <4> QED
        BY <4>1, <4>2
    <3> QED
      BY <1>3, <3>1, <3>2 DEF Route
  <2>2. Append(shared.preamble, Output(app.routed + 1)) \in Seq(Messages)
    BY <1>1 DEF TypeOK, Gates
  <2>3. shared' \in Gates
    BY <1>3, <2>2 DEF Route, TypeOK, Gates
  <2> QED
    BY <1>3, <2>1, <2>3 DEF Route, TypeOK
<1>4. CASE SendOutput
  <2>1. \A d \in Clients : Queue(outbox[d], <<Output(app.routed)>>) \in Outboxes
    BY <1>1, SendOneType DEF TypeOK
  <2>2. outbox' \in [Clients -> Outboxes]
    BY <1>4, <2>1 DEF SendOutput, TypeOK
  <2>4. app' \in Apps
    BY <1>4 DEF SendOutput, TypeOK, Apps, Owners
  <2>5. history' \in Histories
    <3>1. app.to \in Owners /\ history.overflowed \in SUBSET Owners
      BY DEF TypeOK, Apps, Histories
    <3>2. [history EXCEPT !.overflowed = @ \cup {app.to}] \in Histories
      BY <3>1 DEF TypeOK, Histories
    <3> QED
      BY <1>4, <3>2 DEF SendOutput, TypeOK
  <2> QED
    BY <1>4, <2>2, <2>4, <2>5 DEF SendOutput, TypeOK
<1>7. CASE AbandonOverflowed
  <2>1. outbox' \in [Clients -> Outboxes]
    BY <1>7, AbandonType DEF AbandonOverflowed, TypeOK
  <2>2. client' \in [Clients -> Connections]
    BY <1>7, DisconnectedType DEF AbandonOverflowed, TypeOK
  <2>3. app' \in Apps
    BY <1>7 DEF AbandonOverflowed, TypeOK, Apps, Owners
  <2> QED
    BY <1>7, <2>1, <2>2, <2>3 DEF AbandonOverflowed, TypeOK
<1>5. CASE PumpEnds
  <2>1. app' \in Apps
    BY <1>5 DEF PumpEnds, TypeOK, Apps
  <2> QED
    BY <1>5, <2>1 DEF PumpEnds, TypeOK
<1>6. CASE PumpFails
  <2>1. app' \in Apps /\ serve' \in Serves
    BY <1>6 DEF PumpFails, TypeOK, Apps, Serves
  <2> QED
    BY <1>6, <2>1 DEF PumpFails, Fault, TypeOK
<1> QED
  BY <1>2, <1>3, <1>4, <1>5, <1>6, <1>7 DEF Pump

\* ... the wait and the teardown, ...
LEMMA ServeType ==
    ASSUME TypeOK, WaitApp \/ WaitFails \/ Serve
    PROVE  TypeOK'
<1>1. CASE WaitApp \/ WaitFails
  <2>1. serve' \in Serves
    BY <1>1 DEF WaitApp, ServeAt, WaitFails, TypeOK, Serves
  <2> QED
    BY <1>1, <2>1 DEF WaitApp, WaitFails, Fault, TypeOK
<1>2. CASE CloseSession
  <2>1. serve' \in Serves /\ app' \in Apps
    BY <1>2 DEF CloseSession, TypeOK, Serves, Apps
  <2> QED
    BY <1>2, <2>1 DEF CloseSession, TypeOK
<1>3. CASE StopClients
  <2>1. outbox' \in [Clients -> Outboxes]
    <3>1. \A c \in Clients : outbox[c] \in Outboxes /\ Send(outbox[c], <<AppExited>>) \in Outboxes
      BY SendOneType, MessageTypes DEF TypeOK
    <3>2. \A c \in Clients :
            Finish(IF Complete THEN Send(outbox[c], <<AppExited>>) ELSE outbox[c]) \in Outboxes
      BY <3>1, FinishType
    <3> QED
      BY <1>3, <3>1, <3>2 DEF StopClients
  <2>2. shared' \in Gates /\ serve' \in Serves
    BY <1>3 DEF StopClients, TypeOK, Gates, Serves, Owners
  <2>3. store' \in Stores
    <3>1. Append(store.updates, Stop) \in Seq(Updates)
      BY MessageTypes DEF TypeOK, Stores
    <3> QED
      BY <1>3, <3>1 DEF StopClients, TypeOK, Stores
  <2> QED
    BY <1>3, <2>1, <2>2, <2>3 DEF StopClients, TypeOK
<1>4. CASE DeleteRecord
  <2>1. serve' \in Serves /\ store' \in Stores
    BY <1>4 DEF DeleteRecord, ServeAt, TypeOK, Serves, Stores
  <2> QED
    BY <1>4, <2>1 DEF DeleteRecord, Fault, TypeOK
<1>5. CASE Exit
  <2>1. serve' \in Serves
    BY <1>5 DEF Exit, ServeAt, TypeOK, Serves
  <2>2. client' \in [Clients -> Connections]
    BY <1>5, DisconnectedType DEF Exit, TypeOK
  <2> QED
    BY <1>5, <2>1, <2>2 DEF Exit, TypeOK
<1> QED
  BY <1>1, <1>2, <1>3, <1>4, <1>5 DEF Serve

\* ... the record writer, ...
LEMMA RecorderType ==
    ASSUME TypeOK, Recorder
    PROVE  TypeOK'
<1>1. CASE ReceiveUpdate
  <2>1. Head(store.updates) \in Updates /\ Tail(store.updates) \in Seq(Updates)
    BY <1>1 DEF ReceiveUpdate, TypeOK, Stores
  <2>2. Head(store.updates).attached \in BOOLEAN
    BY <2>1 DEF Updates
  <2>3. store' \in Stores
    BY <1>1, <2>1, <2>2 DEF ReceiveUpdate, TypeOK, Stores
  <2>4. faults' \in Nat
    BY <1>1 DEF ReceiveUpdate, Fault, TypeOK
  <2> QED
    BY <1>1, <2>3, <2>4 DEF ReceiveUpdate, TypeOK
<1>2. CASE PublishRecord
  <2>1. store' \in Stores
    BY <1>2 DEF PublishRecord, TypeOK, Stores
  <2> QED
    BY <1>2, <2>1 DEF PublishRecord, Fault, TypeOK
<1> QED
  BY <1>1, <1>2 DEF Recorder

\* ... and so every step.
LEMMA NextType == TypeOK /\ [Next]_vars => TypeOK'
<1> SUFFICES ASSUME TypeOK, [Next]_vars PROVE TypeOK'
  OBVIOUS
<1>1. CASE UNCHANGED vars
  BY <1>1 DEF vars, state, TypeOK
<1>2. CASE Process
  BY <1>2, RelayEndsType, InstallType, AttachType, WritersType, ClientsType, PumpType, ServeType,
     RecorderType DEF Process, Relay
<1>3. CASE \E c \in Clients : Type(c) \/ Leave(c)
  BY <1>3, ClientsType
<1> QED
  BY <1>1, <1>2, <1>3 DEF Next, Terminated

-----------------------------------------------------------------------------
(* What the steps leave alone.  Most steps of a client, of the pump and of the  *)
(* teardown change nothing that the three arguments below are about.            *)

\* Nothing is queued or written by the record writer, admission goes on as
\* before, and the deletion is neither begun nor done.
StoreSteady ==
    /\ store' = store /\ shared'.stopping = shared.stopping /\ faults' \in Nat /\ faults' >= faults
    /\ serve'.at \in {"delete", "flush", "exited"} <=> serve.at \in {"delete", "flush", "exited"}
    /\ serve'.at \in {"flush", "exited"} <=> serve.at \in {"flush", "exited"}

\* No generation begins, and the relays owe the updates they owed, unless a
\* fault is on record.
RelaysSteady ==
    /\ shared'.generation = shared.generation /\ shared'.slot = shared.slot
    /\ \A c \in Clients :
          /\ OwesUpdate(c)' => /\ OwesUpdate(c)
                               /\ client'[c].relay = "release" <=> client[c].relay = "release"
          /\ OwesUpdate(c) => client'[c].generation = client[c].generation
          /\ OwesUpdate(c) => OwesUpdate(c)' \/ faults' > 0

\* Nobody is installed and no input arrives.
InputSteady ==
    /\ shared'.slot \in {shared.slot, NoClient}
    /\ history'.installs = history.installs /\ history'.inputs = history.inputs
    /\ \A c \in Clients : client[c].typed = "read" => client'[c].typed = "read"

\* Closing connections changes nothing else of a client.
LEMMA DisconnectedKeeps ==
    ASSUME TypeOK, NEW ends, NEW c \in Clients
    PROVE  /\ Disconnected(ends)[c].relay = client[c].relay
           /\ Disconnected(ends)[c].generation = client[c].generation
           /\ Disconnected(ends)[c].typed = client[c].typed
  BY DEF Disconnected, TypeOK, Connections

\* Relays that queue no update and give nobody the slot are quiet, ...
LEMMA QuietRelay ==
    ASSUME TypeOK, NEW c \in Clients,
           HandshakeFails(c) \/ AttachRefused(c) \/ Displace(c) \/ AbandonDisplaced(c)
               \/ EndAttach(c) \/ ReceiveFails(c)
    PROVE  StoreSteady /\ RelaysSteady /\ InputSteady
<1>0. client \in [Clients -> Connections] /\ shared \in Gates /\ faults \in Nat /\ history \in Histories
  BY DEF TypeOK
<1>1. CASE HandshakeFails(c) \/ AttachRefused(c)
  <2>1. /\ \A d \in Clients : /\ client'[d].generation = client[d].generation
                              /\ client'[d].typed = client[d].typed
                              /\ d # c => client'[d].relay = client[d].relay
        /\ client[c].relay = "handshake" /\ client'[c].relay = "done"
    <3>1. client' = [client EXCEPT ![c] = [@ EXCEPT !.conn = "closed", !.relay = "done"]]
      BY <1>1 DEF HandshakeFails, AttachRefused, CloseAndEnd
    <3>2. client[c].relay = "handshake"
      BY <1>1 DEF HandshakeFails, AttachRefused, MayLock
    <3> QED
      BY <1>0, <3>1, <3>2 DEF Connections
  <2> QED
    BY <1>0, <1>1, <2>1
    DEF HandshakeFails, AttachRefused, Fault, StoreSteady, RelaysSteady, InputSteady, OwesUpdate
<1>2. CASE Displace(c)
  <2>1. /\ \A d \in Clients : /\ client'[d].generation = client[d].generation
                              /\ client'[d].typed = client[d].typed
                              /\ d # c => client'[d].relay = client[d].relay
        /\ client[c].relay = "displace" /\ client'[c].relay \in {"resize", "abandon"}
    BY <1>0, <1>2 DEF Displace, GoTo, Connections
  <2>2. shared'.generation = shared.generation /\ shared'.slot = shared.slot /\ shared'.stopping = shared.stopping
    BY <1>0, <1>2 DEF Displace, Gates
  <2>3. history'.installs = history.installs /\ history'.inputs = history.inputs
    BY <1>0, <1>2 DEF Displace, Histories
  <2> QED
    BY <1>0, <1>2, <2>1, <2>2, <2>3 DEF Displace, StoreSteady, RelaysSteady, InputSteady, OwesUpdate
<1>5. CASE AbandonDisplaced(c)
  <2>1. /\ \A d \in Clients : /\ client'[d].generation = client[d].generation
                              /\ client'[d].typed = client[d].typed
                              /\ d # c => client'[d].relay = client[d].relay
        /\ client[c].relay = "abandon" /\ client'[c].relay = "resize"
    <3>1. Disconnected(Dropped) \in [Clients -> Connections]
      BY <1>0, DisconnectedType
    <3>2. client' = [Disconnected(Dropped) EXCEPT ![c].relay = "resize"]
      BY <1>5 DEF AbandonDisplaced
    <3> QED
      BY <1>5, <3>1, <3>2, DisconnectedKeeps DEF AbandonDisplaced, Connections
  <2> QED
    BY <1>0, <1>5, <2>1 DEF AbandonDisplaced, StoreSteady, RelaysSteady, InputSteady, OwesUpdate
<1>3. CASE EndAttach(c)
  <2>1. /\ \A d \in Clients : /\ client'[d].generation = client[d].generation
                              /\ client'[d].typed = client[d].typed
                              /\ d # c => client'[d].relay = client[d].relay
        /\ client[c].relay = "resize"
        /\ \/ client'[c].relay = "announce" /\ faults' = faults
           \/ client'[c].relay = "panicked" /\ faults' = faults + 1
    <3>1. Disconnected({c}) \in [Clients -> Connections]
      BY <1>0, DisconnectedType
    <3>2. CASE client' = [client EXCEPT ![c].relay = "announce"] /\ faults' = faults
      BY <1>0, <1>3, <3>2 DEF EndAttach, MayResize, Connections
    <3>3. CASE client' = [Disconnected({c}) EXCEPT ![c].relay = "panicked"] /\ faults' = faults + 1
      BY <1>0, <1>3, <3>1, <3>3, DisconnectedKeeps DEF EndAttach, MayResize, Connections
    <3> QED
      BY <1>3, <3>2, <3>3 DEF EndAttach, GoTo, Fault
  <2>2. shared'.generation = shared.generation /\ shared'.slot = shared.slot /\ shared'.stopping = shared.stopping
    BY <1>0, <1>3 DEF EndAttach, Gates
  <2> QED
    BY <1>0, <1>3, <2>1, <2>2 DEF EndAttach, StoreSteady, RelaysSteady, InputSteady, OwesUpdate
<1>4. CASE ReceiveFails(c)
  <2>1. /\ \A d \in Clients : /\ client'[d].generation = client[d].generation
                              /\ client'[d].typed = client[d].typed
                              /\ d # c => client'[d].relay = client[d].relay
        /\ client[c].relay = "relaying" /\ client'[c].relay \in {"detach", "panicked"}
    BY <1>0, <1>4 DEF ReceiveFails, GoTo, Connections
  <2> QED
    BY <1>0, <1>4, <2>1 DEF ReceiveFails, Fault, StoreSteady, RelaysSteady, InputSteady, OwesUpdate
<1> QED
  BY <1>1, <1>2, <1>3, <1>4, <1>5

\* ... as are the writers and the clients, ...
LEMMA QuietClient ==
    ASSUME TypeOK, NewcomersIdle, NEW c \in Clients,
           TakeNext(c) \/ Write(c) \/ WriterEnds(c)
               \/ Connect(c) \/ AcceptFails(c) \/ Type(c) \/ Leave(c)
    PROVE  StoreSteady /\ RelaysSteady /\ InputSteady
<1>0. /\ client \in [Clients -> Connections] /\ shared \in Gates /\ faults \in Nat /\ history \in Histories
      /\ serve \in Serves
  BY DEF TypeOK
<1>1. CASE TakeNext(c) \/ Write(c)
  BY <1>0, <1>1 DEF TakeNext, Write, StoreSteady, RelaysSteady, InputSteady, OwesUpdate
<1>2. CASE WriterEnds(c) \/ Connect(c) \/ AcceptFails(c) \/ Type(c) \/ Leave(c)
  <2>1. \A d \in Clients : /\ client'[d].generation = client[d].generation
                           /\ client[d].typed = "read" => client'[d].typed = "read"
                           /\ \/ client'[d].relay = client[d].relay
                              \/ client[d].relay = "none" /\ client'[d].relay = "handshake"
    <3>1. CASE Connect(c)
      <4>1. PICK asks : client' = [client EXCEPT ![c] = [@ EXCEPT !.conn = "open", !.relay = "handshake",
                                                                  !.asked = asks]]
        BY <3>1 DEF Connect
      <4>2. client[c].relay = "none"
        BY <3>1 DEF Connect, NewcomersIdle
      <4> QED
        BY <1>0, <4>1, <4>2 DEF Connections
    <3>2. CASE WriterEnds(c) \/ AcceptFails(c) \/ Type(c) \/ Leave(c)
      BY <1>0, <3>2 DEF WriterEnds, AcceptFails, Type, Leave, Connections
    <3> QED
      BY <1>2, <3>1, <3>2
  <2>2. /\ serve'.at = serve.at /\ faults' \in Nat /\ faults' >= faults
        /\ history'.installs = history.installs /\ history'.inputs = history.inputs
    <3>1. CASE WriterEnds(c) \/ Connect(c) \/ Type(c)
      <4>1. serve' = serve /\ faults' = faults /\ history' = history
        BY <3>1, Zenon DEF WriterEnds, Connect, Type
      <4> QED
        BY <1>0, <4>1
    <3>2. CASE AcceptFails(c) \/ Leave(c)
      BY <1>0, <3>2 DEF AcceptFails, Fault, Leave, Serves, Histories
    <3> QED
      BY <1>2, <3>1, <3>2
  <2>3. shared' = shared /\ store' = store
    BY <1>2 DEF WriterEnds, Connect, AcceptFails, Type, Leave
  <2> QED
    BY <1>0, <1>2, <2>1, <2>2, <2>3 DEF StoreSteady, RelaysSteady, InputSteady, OwesUpdate
<1> QED
  BY <1>1, <1>2

\* ... the app and its pump, ...
LEMMA QuietPump ==
    ASSUME TypeOK, AppWrites \/ Pump \/ PumpFails
    PROVE  StoreSteady /\ RelaysSteady /\ InputSteady
<1>0. /\ client \in [Clients -> Connections] /\ shared \in Gates /\ faults \in Nat /\ history \in Histories
      /\ serve \in Serves
  BY DEF TypeOK
<1>1. CASE AppWrites \/ PumpEnds
  BY <1>0, <1>1 DEF AppWrites, PumpEnds, StoreSteady, RelaysSteady, InputSteady, OwesUpdate
<1>2. CASE Route
  <2>1. shared'.generation = shared.generation /\ shared'.slot = shared.slot /\ shared'.stopping = shared.stopping
    BY <1>0, <1>2 DEF Route, Gates
  <2> QED
    BY <1>0, <1>2, <2>1 DEF Route, StoreSteady, RelaysSteady, InputSteady, OwesUpdate
<1>3. CASE SendOutput
  <2>1. history'.installs = history.installs /\ history'.inputs = history.inputs
    BY <1>0, <1>3 DEF SendOutput, Histories
  <2> QED
    BY <1>0, <1>3, <2>1 DEF SendOutput, StoreSteady, RelaysSteady, InputSteady, OwesUpdate
<1>5. CASE AbandonOverflowed
  BY <1>0, <1>5, DisconnectedKeeps DEF AbandonOverflowed, StoreSteady, RelaysSteady, InputSteady, OwesUpdate
<1>4. CASE PumpFails
  <2>1. serve'.at = serve.at
    BY <1>0, <1>4 DEF PumpFails, Serves
  <2> QED
    BY <1>0, <1>4, <2>1 DEF PumpFails, Fault, StoreSteady, RelaysSteady, InputSteady, OwesUpdate
<1> QED
  BY <1>1, <1>2, <1>3, <1>4, <1>5 DEF Pump

\* ... and the teardown but for its end of admission and the deletion.
LEMMA QuietServe ==
    ASSUME TypeOK, WaitApp \/ WaitFails \/ CloseSession \/ Exit
    PROVE  StoreSteady /\ RelaysSteady /\ InputSteady
<1>0. faults \in Nat /\ serve \in Serves
  BY DEF TypeOK
<1>1. CASE WaitApp \/ WaitFails \/ CloseSession
  <2>1. serve.at \in {"wait", "gate", "close"} /\ serve'.at \in {"gate", "close", "stop"}
    BY <1>0, <1>1 DEF WaitApp, WaitFails, CloseSession, ServeAt, Serves
  <2> QED
    BY <1>0, <1>1, <2>1
    DEF WaitApp, WaitFails, CloseSession, Fault, StoreSteady, RelaysSteady, InputSteady, OwesUpdate
<1>2. CASE Exit
  <2>1. serve.at = "flush" /\ serve'.at = "exited"
    BY <1>0, <1>2 DEF Exit, ServeAt, Serves
  <2> QED
    BY <1>0, <1>2, <2>1, DisconnectedKeeps DEF Exit, StoreSteady, RelaysSteady, InputSteady, OwesUpdate
<1> QED
  BY <1>1, <1>2

\* Only clients connect, and only connected ones have a relay.
LEMMA NewcomersStayIdle ==
    ASSUME TypeOK, NewcomersIdle, [Next]_vars
    PROVE  NewcomersIdle'
<1>0. client \in [Clients -> Connections]
  BY DEF TypeOK
<1>1. ASSUME NEW ends, NEW c \in Clients, Disconnected(ends)[c].conn = "none"
      PROVE  client[c].conn = "none"
  BY <1>0, <1>1 DEF Disconnected, Connections
<1>2. ASSUME NEW c \in Clients, Relay(c)
      PROVE  NewcomersIdle'
  <2>1. client[c].relay # "none" /\ client[c].conn # "none"
    BY <1>2 DEF Relay, HandshakeFails, AttachRefused, MayLock, Install, Displace, AbandonDisplaced, EndAttach, MayResize,
       AnnounceAttached, Apply, ReceiveFails, Detach, ReleaseConnection, NewcomersIdle
  <2>2. \A d \in Clients : /\ client'[d].conn = "none" => client[d].conn = "none"
                           /\ d # c => client'[d].relay = client[d].relay
    <3>1. CASE HandshakeFails(c) \/ AttachRefused(c)
      BY <1>0, <3>1 DEF HandshakeFails, AttachRefused, CloseAndEnd, Connections
    <3>2. CASE Displace(c) \/ ReceiveFails(c)
      BY <1>0, <3>2 DEF Displace, ReceiveFails, GoTo, Connections
    <3>7. CASE AnnounceAttached(c)
      BY <1>0, <3>7 DEF AnnounceAttached, Moved, Connections
    <3>3. CASE Apply(c)
      <4>1. PICK there : client' = [client EXCEPT ![c] = Spent(@, there)]
        BY <3>3 DEF Apply
      <4> QED
        BY <1>0, <4>1 DEF Spent, Connections
    <3>4. CASE Detach(c)
      <4>1. \/ client' = [client EXCEPT ![c] = Moved(@, "release", shared.generation + 1)]
            \/ client' = [client EXCEPT ![c].relay = "done"]
            \/ client' = [client EXCEPT ![c] = [@ EXCEPT !.conn = "closed", !.relay = "done"]]
        BY <3>4 DEF Detach, GoTo, CloseAndEnd
      <4>2. CASE client' = [client EXCEPT ![c] = Moved(@, "release", shared.generation + 1)]
        BY <1>0, <4>2 DEF Moved, Connections
      <4>3. CASE client' = [client EXCEPT ![c].relay = "done"]
        BY <1>0, <4>3 DEF Connections
      <4>4. CASE client' = [client EXCEPT ![c] = [@ EXCEPT !.conn = "closed", !.relay = "done"]]
        BY <1>0, <4>4 DEF Connections
      <4> QED
        BY <4>1, <4>2, <4>3, <4>4
    <3>8. CASE AbandonDisplaced(c)
      <4>1. Disconnected(Dropped) \in [Clients -> Connections]
        BY <1>0, DisconnectedType
      <4>2. \A d \in Clients : /\ Disconnected(Dropped)[d].conn = "none" => client[d].conn = "none"
                               /\ Disconnected(Dropped)[d].relay = client[d].relay
        BY <1>1, DisconnectedKeeps
      <4>3. client' = [Disconnected(Dropped) EXCEPT ![c].relay = "resize"]
        BY <3>8 DEF AbandonDisplaced
      <4> QED
        BY <4>1, <4>2, <4>3 DEF Connections
    <3>5. CASE Install(c) \/ ReleaseConnection(c)
      <4> DEFINE f == Disconnected(Dropped)
      <4>1. /\ f \in [Clients -> Connections]
            /\ \A d \in Clients : f[d].conn = "none" => client[d].conn = "none"
        BY <1>0, <1>1, DisconnectedType
      <4>2. PICK there, n : client' = [f EXCEPT ![c] = Moved(@, there, n)]
        BY <3>5 DEF Install, ReleaseConnection
      <4>3. \A d \in Clients : f[d].relay = client[d].relay
        BY DisconnectedKeeps
      <4> HIDE DEF f
      <4>4. /\ \A d \in Clients : client'[d].conn = f[d].conn
            /\ \A d \in Clients : d # c => client'[d] = f[d]
        BY <4>1, <4>2 DEF Moved, Connections
      <4> QED
        BY <4>1, <4>3, <4>4
    <3>6. CASE EndAttach(c)
      <4>1. CASE client' = [client EXCEPT ![c].relay = "announce"]
        BY <1>0, <4>1 DEF Connections
      <4>2. CASE client' = [Disconnected({c}) EXCEPT ![c].relay = "panicked"]
        <5>1. Disconnected({c}) \in [Clients -> Connections]
          BY <1>0, DisconnectedType
        <5>2. \A d \in Clients : /\ Disconnected({c})[d].conn = "none" => client[d].conn = "none"
                                 /\ Disconnected({c})[d].relay = client[d].relay
          BY <1>1, DisconnectedKeeps
        <5> QED
          BY <4>2, <5>1, <5>2 DEF Connections
      <4> QED
        BY <3>6, <4>1, <4>2 DEF EndAttach, GoTo
    <3> QED
      BY <1>2, <3>1, <3>2, <3>3, <3>4, <3>5, <3>6, <3>7, <3>8 DEF Relay
  <2> QED
    BY <2>1, <2>2 DEF NewcomersIdle
<1>3. ASSUME NEW c \in Clients, TakeNext(c) \/ Write(c) \/ WriterEnds(c)
                                  \/ Connect(c) \/ AcceptFails(c) \/ Type(c) \/ Leave(c)
      PROVE  NewcomersIdle'
  <2>1. \A d \in Clients : client'[d].conn = "none" =>
            client[d].conn = "none" /\ client'[d].relay = client[d].relay
    BY <1>0, <1>3 DEF TakeNext, Write, WriterEnds, Connect, AcceptFails, Type, Leave, Connections
  <2> QED
    BY <2>1 DEF NewcomersIdle
<1>4. ASSUME AppWrites \/ Pump \/ PumpFails \/ WaitApp \/ WaitFails \/ Serve \/ Recorder
                 \/ UNCHANGED vars
      PROVE  NewcomersIdle'
  <2>1. client' = client \/ \E ends : client' = Disconnected(ends)
    BY <1>4 DEF AppWrites, Pump, Route, SendOutput, AbandonOverflowed, PumpEnds, PumpFails, WaitApp, WaitFails, Serve,
       CloseSession, StopClients, DeleteRecord, Exit, Recorder, ReceiveUpdate, PublishRecord, vars, state
  <2>2. CASE client' = client
    BY <2>2 DEF NewcomersIdle
  <2>3. ASSUME NEW ends, client' = Disconnected(ends)
        PROVE  NewcomersIdle'
    <3>1. \A c \in Clients : /\ Disconnected(ends)[c].relay = client[c].relay
                             /\ Disconnected(ends)[c].conn = "none" => client[c].conn = "none"
      BY <1>1, DisconnectedKeeps
    <3> QED
      BY <2>3, <3>1 DEF NewcomersIdle
  <2> QED
    BY <2>1, <2>2, <2>3
<1> QED
  BY <1>2, <1>3, <1>4 DEF Next, Process, Terminated

-----------------------------------------------------------------------------
(* The three arguments, and the steps that they are about. *)

Deletion == WriterStopsFirst
Input == LastInstalledOwns /\ InputsAreSpent /\ InputFollowsOwnership
Flag == UpdatesAreTrue /\ FlagCatchesUp

\* A quiet step keeps the order of the teardown, ...
LEMMA SteadyDeletion ==
    ASSUME TypeOK, Deletion, StoreSteady
    PROVE  Deletion'
  BY DEF TypeOK, Deletion, WriterStopsFirst, StoreSteady

\* ... the order of the input, ...
LEMMA SteadyInput ==
    ASSUME TypeOK, Input, InputSteady
    PROVE  Input'
<1>1. history \in Histories
  BY DEF TypeOK
<1>2. LastInstalledOwns' /\ InputsAreSpent'
  <2>1. \A i \in DOMAIN history.inputs : history.inputs[i] \in Clients
    BY <1>1 DEF Histories
  <2> QED
    BY <2>1 DEF Input, InputSteady, LastInstalledOwns, InputsAreSpent
<1>3. InputFollowsOwnership'
  BY DEF Input, InputSteady, InputFollowsOwnership
<1> QED
  BY <1>2, <1>3 DEF Input

\* ... and the truth of the updates.
LEMMA SteadyFlag ==
    ASSUME TypeOK, Flag, StoreSteady, RelaysSteady
    PROVE  Flag'
<1>1. UpdatesAreTrue'
  BY DEF Flag, StoreSteady, RelaysSteady, UpdatesAreTrue, Truthful
<1>2. FlagCatchesUp'
  <2> SUFFICES ASSUME faults' = 0, ~shared'.stopping
               PROVE  \/ \E c \in Clients : OwesUpdate(c)' /\ client'[c].generation = shared'.generation
                      \/ \E i \in DOMAIN store'.updates : store'.updates[i].generation = shared'.generation
                      \/ store'.at = "publish" /\ store'.attached = (shared'.slot # NoClient)
                      \/ store'.at = "recv" /\ store'.flag = (shared'.slot # NoClient)
    BY DEF FlagCatchesUp
  <2>1. faults = 0 /\ ~shared.stopping
    BY DEF StoreSteady, TypeOK
  <2>2. \A c \in Clients : OwesUpdate(c) => OwesUpdate(c)' /\ client'[c].generation = client[c].generation
    BY DEF RelaysSteady
  <2> QED
    BY <2>1, <2>2 DEF Flag, FlagCatchesUp, StoreSteady, RelaysSteady
<1> QED
  BY <1>1, <1>2 DEF Flag

\* A new owner: it is installed last, and owes the only update of its generation.
LEMMA InstallStep ==
    ASSUME TypeOK, Deletion, Input, Flag, NEW c \in Clients, Install(c)
    PROVE  Deletion' /\ Input' /\ Flag'
<1>0. /\ client \in [Clients -> Connections] /\ shared \in Gates /\ faults \in Nat /\ history \in Histories
      /\ shared.generation \in Nat /\ history.installs \in Seq(Clients) /\ NoClient \notin Clients
  BY ClientsAssumption DEF TypeOK, Gates, Histories
<1>1. /\ shared'.slot = c /\ shared'.generation = shared.generation + 1 /\ shared'.stopping = shared.stopping
      /\ ~shared.stopping /\ store' = store /\ serve' = serve /\ faults' = faults
  BY <1>0 DEF Install, Gates
<1>2. history'.installs = Append(history.installs, c) /\ history'.inputs = history.inputs
  BY <1>0 DEF Install, Histories
<1>3. /\ \A d \in Clients : client'[d].typed = client[d].typed
      /\ \A d \in Clients : d # c => client'[d].relay = client[d].relay
                                     /\ client'[d].generation = client[d].generation
      /\ client'[c].relay = "displace" /\ client'[c].generation = shared.generation + 1
  <2> DEFINE f == Disconnected(Dropped)
  <2>1. f \in [Clients -> Connections]
    BY <1>0, DisconnectedType
  <2>2. \A d \in Clients : /\ f[d].relay = client[d].relay /\ f[d].generation = client[d].generation
                           /\ f[d].typed = client[d].typed
    BY DisconnectedKeeps
  <2>3. client' = [f EXCEPT ![c] = Moved(@, "displace", shared.generation + 1)]
    BY DEF Install
  <2> HIDE DEF f
  <2> QED
    BY <2>1, <2>2, <2>3 DEF Moved, Connections
<1>4. Deletion'
  BY <1>1 DEF Deletion, WriterStopsFirst
<1>5. Input'
  <2>1. /\ history'.installs # <<>> /\ history'.installs[Len(history'.installs)] = c
        /\ \A k \in DOMAIN history.installs : /\ k \in DOMAIN history'.installs
                                             /\ history'.installs[k] = history.installs[k]
    BY <1>0, <1>2
  <2>2. LastInstalledOwns'
    BY <1>1, <2>1 DEF LastInstalledOwns
  <2>3. InputsAreSpent'
    <3>1. \A i \in DOMAIN history.inputs : history.inputs[i] \in Clients
      BY <1>0 DEF Histories
    <3> QED
      BY <1>2, <1>3, <2>1, <3>1 DEF Input, InputsAreSpent
  <2>4. InputFollowsOwnership'
    BY <1>2, <2>1 DEF Input, InputFollowsOwnership
  <2> QED
    BY <2>2, <2>3, <2>4 DEF Input
<1>6. Flag'
  <2>1. UpdatesAreTrue'
    <3>1. ASSUME NEW d \in Clients, OwesUpdate(d)'
          PROVE  Truthful(client[d].generation, client[d].relay # "release")'
      <4>1. CASE d = c
        BY <1>0, <1>1, <1>3, <4>1 DEF Truthful
      <4>2. CASE d # c
        <5>1. OwesUpdate(d)
          BY <1>3, <3>1, <4>2 DEF OwesUpdate
        <5>2. client[d].generation \in 1 .. shared.generation
          BY <5>1 DEF Flag, UpdatesAreTrue, Truthful
        <5> QED
          BY <1>0, <1>1, <1>3, <4>2, <5>2 DEF Truthful
      <4> QED
        BY <4>1, <4>2
    <3>2. ASSUME NEW i \in DOMAIN store.updates, store.updates[i] # Stop
          PROVE  Truthful(store.updates[i].generation, store.updates[i].attached)'
      <4>1. store.updates[i].generation \in 1 .. shared.generation
        BY <3>2 DEF Flag, UpdatesAreTrue, Truthful
      <4> QED
        BY <1>0, <1>1, <4>1 DEF Truthful
    <3> QED
      BY <1>1, <3>1, <3>2 DEF UpdatesAreTrue
  <2>2. FlagCatchesUp'
    BY <1>1, <1>3 DEF FlagCatchesUp, OwesUpdate
  <2> QED
    BY <2>1, <2>2 DEF Flag
<1> QED
  BY <1>4, <1>5, <1>6

\* An owed update is queued: it stays truthful, and ahead of the flag.
LEMMA QueueUpdate ==
    ASSUME TypeOK, Deletion, Flag, NEW c \in Clients, OwesUpdate(c),
           NEW attached \in BOOLEAN, attached = (client[c].relay # "release"),
           store' = [store EXCEPT !.updates = Append(@, SetAttached(client[c].generation, attached))],
           shared' = shared, serve' = serve, faults' = faults,
           \A d \in Clients : d # c => client'[d] = client[d],
           client'[c].relay \in {"relaying", "done"}
    PROVE  Deletion' /\ Flag'
<1> DEFINE update == SetAttached(client[c].generation, attached)
<1>0. /\ store \in Stores /\ shared \in Gates /\ store.updates \in Seq(Updates) /\ update \in Updates
      /\ client[c] \in Connections /\ client[c].generation \in Nat
  BY MessageTypes DEF TypeOK, Gates, Stores, Connections
<1>1. /\ store'.updates = Append(store.updates, update) /\ store'.at = store.at
      /\ store'.exists = store.exists /\ store'.flag = store.flag /\ store'.attached = store.attached
  BY <1>0 DEF Stores
<1>2. /\ Len(store'.updates) = Len(store.updates) + 1 /\ DOMAIN store'.updates = 1 .. Len(store'.updates)
      /\ store'.updates[Len(store'.updates)] = update
      /\ \A i \in DOMAIN store.updates : i \in DOMAIN store'.updates /\ store'.updates[i] = store.updates[i]
      /\ \A i \in DOMAIN store'.updates : i \in DOMAIN store.updates \/ i = Len(store'.updates)
  BY <1>0, <1>1
<1>3. Truthful(client[c].generation, attached) /\ client[c].generation >= 1
  BY <1>0 DEF Flag, UpdatesAreTrue, Truthful
<1>4. update.generation = client[c].generation /\ update.attached = attached /\ update # Stop
  BY <1>3 DEF SetAttached, Stop
<1> HIDE DEF update
<1>5. Deletion'
  BY <1>1, <1>2, <1>4 DEF Deletion, WriterStopsFirst
<1>6. UpdatesAreTrue'
  <2>1. \A d \in Clients : OwesUpdate(d)' => d # c /\ OwesUpdate(d) /\ client'[d] = client[d]
    BY DEF OwesUpdate
  <2>2. \A g, a : Truthful(g, a) => Truthful(g, a)'
    BY DEF Truthful
  <2>3. \A d \in Clients : OwesUpdate(d)' => Truthful(client[d].generation, client[d].relay # "release")'
    BY <2>1 DEF Flag, UpdatesAreTrue, Truthful
  <2>4. ASSUME NEW i \in DOMAIN store'.updates, store'.updates[i] # Stop
        PROVE  Truthful(store.updates[i].generation, store.updates[i].attached)'
    <3>1. CASE i \in DOMAIN store.updates
      <4>1. Truthful(store.updates[i].generation, store.updates[i].attached)
        BY <1>2, <2>4, <3>1 DEF Flag, UpdatesAreTrue
      <4> QED
        BY <1>2, <3>1, <4>1 DEF Truthful
    <3>2. CASE i = Len(store'.updates)
      BY <1>2, <1>3, <1>4, <3>2 DEF Truthful
    <3> QED
      BY <1>2, <2>4, <3>1, <3>2
  <2> QED
    BY <2>3, <2>4 DEF UpdatesAreTrue
<1>7. FlagCatchesUp'
  <2> SUFFICES ASSUME faults = 0, ~shared.stopping
               PROVE  FlagCatchesUp'
    BY DEF FlagCatchesUp
  <2>1. CASE client[c].generation = shared.generation
    BY <1>2, <1>4, <2>1 DEF FlagCatchesUp
  <2>2. CASE \E d \in Clients : d # c /\ OwesUpdate(d) /\ client[d].generation = shared.generation
    BY <2>2 DEF FlagCatchesUp, OwesUpdate
  <2>3. CASE \E i \in DOMAIN store.updates : store.updates[i].generation = shared.generation
    BY <1>2, <2>3 DEF FlagCatchesUp
  <2>4. CASE \/ store.at = "publish" /\ store.attached = (shared.slot # NoClient)
             \/ store.at = "recv" /\ store.flag = (shared.slot # NoClient)
    BY <1>1, <2>4 DEF FlagCatchesUp
  <2> QED
    BY <2>1, <2>2, <2>3, <2>4 DEF Flag, FlagCatchesUp
<1> QED
  BY <1>5, <1>6, <1>7 DEF Flag

\* A relay that has attached queues the update it owes, ...
LEMMA AnnounceStep ==
    ASSUME TypeOK, Deletion, Input, Flag, NEW c \in Clients, AnnounceAttached(c)
    PROVE  Deletion' /\ Input' /\ Flag'
<1>0. client \in [Clients -> Connections]
  BY DEF TypeOK
<1>1. /\ \A d \in Clients : client'[d].typed = client[d].typed
      /\ \A d \in Clients : d # c => client'[d] = client[d]
      /\ client'[c].relay = "relaying"
  BY <1>0 DEF AnnounceAttached, Moved, Connections
<1>2. InputSteady
  BY <1>1 DEF AnnounceAttached, InputSteady
<1>3. OwesUpdate(c) /\ client[c].relay = "announce"
  BY DEF AnnounceAttached, OwesUpdate
<1>4. Deletion' /\ Flag'
  BY <1>1, <1>3, QueueUpdate DEF AnnounceAttached
<1> QED
  BY <1>2, <1>4, SteadyInput

\* ... and so does one that has left the slot.
LEMMA ReleaseStep ==
    ASSUME TypeOK, Deletion, Input, Flag, NEW c \in Clients, ReleaseConnection(c)
    PROVE  Deletion' /\ Input' /\ Flag'
<1> DEFINE f == Disconnected(Dropped)
<1>0. f \in [Clients -> Connections]
  BY DisconnectedType DEF TypeOK
<1>1. Dropped \subseteq {c}
  BY DEF ReleaseConnection, Dropped, TypeOK
<1>2. \A d \in Clients : d # c => f[d] = client[d]
  BY <1>1 DEF Disconnected
<1>3. \A d \in Clients : f[d].typed = client[d].typed
  BY DisconnectedKeeps
<1>4. client' = [f EXCEPT ![c] = Moved(@, "done", 0)]
  BY DEF ReleaseConnection
<1> HIDE DEF f
<1>5. /\ \A d \in Clients : client'[d].typed = client[d].typed
      /\ \A d \in Clients : d # c => client'[d] = client[d]
      /\ client'[c].relay = "done"
  BY <1>0, <1>2, <1>3, <1>4 DEF Moved, Connections
<1>6. InputSteady
  BY <1>5 DEF ReleaseConnection, InputSteady
<1>7. OwesUpdate(c) /\ client[c].relay = "release"
  BY DEF ReleaseConnection, OwesUpdate
<1>8. Deletion' /\ Flag'
  BY <1>5, <1>7, QueueUpdate DEF ReleaseConnection
<1> QED
  BY <1>6, <1>8, SteadyInput

\* Input arrives from the owner, who was installed last and typed nothing before.
LEMMA ApplyStep ==
    ASSUME TypeOK, Deletion, Input, Flag, NEW c \in Clients, Apply(c)
    PROVE  Deletion' /\ Input' /\ Flag'
<1>0. /\ client \in [Clients -> Connections] /\ faults \in Nat /\ history \in Histories
      /\ history.inputs \in Seq(Clients) /\ history.installs \in Seq(Clients) /\ NoClient \notin Clients
  BY ClientsAssumption DEF TypeOK, Histories
<1>1. /\ \A d \in Clients : client'[d].generation = client[d].generation
      /\ \A d \in Clients : d # c => client'[d] = client[d]
      /\ client[c].relay = "relaying" /\ client'[c].relay \in {"relaying", "detach", "panicked"}
      /\ client[c].typed = "sent" /\ client'[c].typed = "read"
  <2>1. PICK there \in {"relaying", "detach", "panicked"} : client' = [client EXCEPT ![c] = Spent(@, there)]
    BY DEF Apply
  <2> QED
    BY <1>0, <2>1 DEF Apply, Spent, Connections
<1>2. StoreSteady /\ RelaysSteady
  BY <1>0, <1>1 DEF Apply, Fault, StoreSteady, RelaysSteady, OwesUpdate
<1>3. Deletion' /\ Flag'
  BY <1>2, SteadyDeletion, SteadyFlag
<1>4. CASE history' = history
  <2>1. InputSteady
    BY <1>1, <1>4 DEF Apply, InputSteady
  <2> QED
    BY <1>3, <2>1, SteadyInput
<1>5. CASE Owns(c) /\ history' = [history EXCEPT !.inputs = Append(@, c)]
  <2>1. history'.inputs = Append(history.inputs, c) /\ history'.installs = history.installs
    BY <1>0, <1>5 DEF Histories
  <2>2. /\ Len(history'.inputs) = Len(history.inputs) + 1 /\ history'.inputs[Len(history'.inputs)] = c
        /\ DOMAIN history'.inputs = 1 .. Len(history'.inputs)
        /\ \A i \in DOMAIN history'.inputs :
              \/ i \in DOMAIN history.inputs /\ history'.inputs[i] = history.inputs[i]
              \/ i = Len(history'.inputs)
        /\ Len(history.inputs) \in Nat /\ DOMAIN history.inputs = 1 .. Len(history.inputs)
        /\ \A i \in DOMAIN history.inputs : history.inputs[i] \in Clients
    BY <1>0, <2>1
  <2>3. /\ Len(history.installs) \in DOMAIN history.installs
        /\ history.installs[Len(history.installs)] = c
        /\ \A k \in DOMAIN history.installs : k \in Nat /\ k <= Len(history.installs)
        /\ Len(history.installs) \in Nat
    BY <1>0, <1>5 DEF Owns, Input, LastInstalledOwns
  <2>4. LastInstalledOwns'
    BY <2>1 DEF Apply, Input, LastInstalledOwns
  <2>5. InputsAreSpent'
    BY <1>1, <2>1, <2>2, <2>3 DEF Input, InputsAreSpent
  <2>6. InputFollowsOwnership'
    <3> SUFFICES ASSUME NEW i \in DOMAIN history'.inputs, NEW j \in DOMAIN history'.inputs, i < j
                 PROVE  \E k, l \in DOMAIN history'.installs :
                            k < l /\ history'.installs[k] = history'.inputs[i]
                                  /\ history'.installs[l] = history'.inputs[j]
      BY DEF InputFollowsOwnership
    <3>1. i \in DOMAIN history.inputs /\ history'.inputs[i] = history.inputs[i]
      BY <2>2
    <3>2. CASE j \in DOMAIN history.inputs /\ history'.inputs[j] = history.inputs[j]
      BY <2>1, <3>1, <3>2 DEF Input, InputFollowsOwnership
    <3>3. CASE j = Len(history'.inputs)
      <4>1. PICK k \in DOMAIN history.installs : history.installs[k] = history.inputs[i]
        BY <3>1 DEF Input, InputsAreSpent
      <4>2. history.inputs[i] # c
        BY <1>1, <3>1 DEF Input, InputsAreSpent
      <4>3. k < Len(history.installs)
        BY <2>3, <4>1, <4>2
      <4> QED
        BY <2>1, <2>2, <2>3, <3>1, <3>3, <4>1, <4>3
    <3> QED
      BY <2>2, <3>2, <3>3
  <2> QED
    BY <1>3, <2>4, <2>5, <2>6 DEF Input
<1> QED
  BY <1>4, <1>5 DEF Apply

\* An owner that leaves owes the only update of the new generation.
LEMMA DetachStep ==
    ASSUME TypeOK, Deletion, Input, Flag, NEW c \in Clients, Detach(c)
    PROVE  Deletion' /\ Input' /\ Flag'
<1>0. /\ client \in [Clients -> Connections] /\ shared \in Gates /\ faults \in Nat
      /\ shared.generation \in Nat /\ NoClient \notin Clients
  BY ClientsAssumption DEF TypeOK, Gates
<1>1. CASE shared.slot # c
  <2>1. /\ \A d \in Clients : client'[d].generation = client[d].generation /\ client'[d].typed = client[d].typed
        /\ \A d \in Clients : d # c => client'[d].relay = client[d].relay
        /\ client[c].relay \in {"detach", "panicked"} /\ client'[c].relay = "done"
    <3>1. \/ client' = [client EXCEPT ![c].relay = "done"]
          \/ client' = [client EXCEPT ![c] = [@ EXCEPT !.conn = "closed", !.relay = "done"]]
      BY <1>1 DEF Detach, GoTo, CloseAndEnd
    <3>2. client[c].relay \in {"detach", "panicked"}
      BY DEF Detach
    <3>3. CASE client' = [client EXCEPT ![c].relay = "done"]
      BY <1>0, <3>2, <3>3 DEF Connections
    <3>4. CASE client' = [client EXCEPT ![c] = [@ EXCEPT !.conn = "closed", !.relay = "done"]]
      BY <1>0, <3>2, <3>4 DEF Connections
    <3> QED
      BY <3>1, <3>3, <3>4
  <2>2. StoreSteady /\ RelaysSteady /\ InputSteady
    BY <1>0, <1>1, <2>1 DEF Detach, StoreSteady, RelaysSteady, InputSteady, OwesUpdate
  <2> QED
    BY <2>2, SteadyDeletion, SteadyInput, SteadyFlag
<1>2. CASE shared.slot = c
  <2>1. /\ \A d \in Clients : client'[d].typed = client[d].typed
        /\ \A d \in Clients : d # c => client'[d] = client[d]
        /\ client'[c].relay = "release" /\ client'[c].generation = shared.generation + 1
    <3>1. client' = [client EXCEPT ![c] = Moved(@, "release", shared.generation + 1)]
      BY <1>2 DEF Detach
    <3> QED
      BY <1>0, <3>1 DEF Moved, Connections
  <2>2. /\ shared'.slot = NoClient /\ shared'.generation = shared.generation + 1
        /\ shared'.stopping = shared.stopping
    BY <1>0, <1>2 DEF Detach, Gates
  <2>3. StoreSteady /\ InputSteady
    BY <1>0, <2>1, <2>2 DEF Detach, StoreSteady, InputSteady
  <2>4. UpdatesAreTrue'
    <3>1. ASSUME NEW d \in Clients, OwesUpdate(d)'
          PROVE  Truthful(client[d].generation, client[d].relay # "release")'
      <4>1. CASE d = c
        BY <1>0, <2>1, <2>2, <4>1 DEF Truthful
      <4>2. CASE d # c
        <5>1. client[d].generation \in 1 .. shared.generation
          BY <2>1, <3>1, <4>2 DEF OwesUpdate, Flag, UpdatesAreTrue, Truthful
        <5> QED
          BY <1>0, <2>1, <2>2, <4>2, <5>1 DEF Truthful
      <4> QED
        BY <4>1, <4>2
    <3>2. ASSUME NEW i \in DOMAIN store.updates, store.updates[i] # Stop
          PROVE  Truthful(store.updates[i].generation, store.updates[i].attached)'
      <4>1. store.updates[i].generation \in 1 .. shared.generation
        BY <3>2 DEF Flag, UpdatesAreTrue, Truthful
      <4>2. store' = store
        BY DEF Detach
      <4> QED
        BY <1>0, <2>2, <4>1, <4>2 DEF Truthful
    <3> QED
      BY <3>1, <3>2 DEF UpdatesAreTrue, Detach
  <2>5. FlagCatchesUp'
    BY <2>1, <2>2 DEF FlagCatchesUp, OwesUpdate
  <2> QED
    BY <2>3, <2>4, <2>5, SteadyDeletion, SteadyInput DEF Flag
<1> QED
  BY <1>1, <1>2

\* Admission ends: from here on only the range of the generations matters.
LEMMA StopStep ==
    ASSUME TypeOK, Deletion, Input, Flag, StopClients
    PROVE  Deletion' /\ Input' /\ Flag'
<1>0. /\ shared \in Gates /\ serve \in Serves /\ store \in Stores /\ store.updates \in Seq(Updates)
      /\ Stop \in Updates
  BY MessageTypes DEF TypeOK, Stores
<1>1. /\ shared'.stopping /\ shared'.slot = NoClient /\ shared'.generation = shared.generation
      /\ serve.at = "stop" /\ serve'.at = "delete" /\ client' = client /\ history' = history
  BY <1>0 DEF StopClients, Gates, Serves
<1>2. /\ store'.updates = Append(store.updates, Stop) /\ store'.exists = store.exists
  BY <1>0 DEF StopClients, Stores
<1>3. \A i \in DOMAIN store'.updates :
        \/ i \in DOMAIN store.updates /\ store'.updates[i] = store.updates[i]
        \/ store'.updates[i] = Stop
  BY <1>0, <1>2
<1>4. Deletion'
  BY <1>1, <1>2 DEF Deletion, WriterStopsFirst
<1>5. Input'
  BY <1>1, SteadyInput DEF InputSteady
<1>6. UpdatesAreTrue'
  BY <1>1, <1>3 DEF Flag, UpdatesAreTrue, Truthful, OwesUpdate
<1> QED
  BY <1>1, <1>4, <1>5, <1>6 DEF Flag, FlagCatchesUp

\* The record is deleted behind the last step of its writer.
LEMMA DeleteStep ==
    ASSUME TypeOK, Deletion, Input, Flag, DeleteRecord
    PROVE  Deletion' /\ Input' /\ Flag'
<1>0. serve \in Serves /\ store \in Stores /\ faults \in Nat
  BY DEF TypeOK
<1>1. /\ serve.at = "delete" /\ serve'.at = "flush" /\ store.at = "stopped"
      /\ client' = client /\ shared' = shared /\ history' = history
  BY <1>0 DEF DeleteRecord, ServeAt, MayDelete, Serves
<1>2. /\ store'.at = store.at /\ store'.updates = store.updates
      /\ \/ ~store'.exists /\ faults' = faults
         \/ store' = store /\ faults' = faults + 1
  BY <1>0 DEF DeleteRecord, Fault, Stores
<1>3. shared.stopping
  BY <1>1 DEF Deletion, WriterStopsFirst
<1>4. Deletion'
  BY <1>0, <1>1, <1>2, <1>3 DEF Deletion, WriterStopsFirst
<1>5. Input'
  BY <1>1, SteadyInput DEF InputSteady
<1>6. Flag'
  BY <1>1, <1>2, <1>3 DEF Flag, UpdatesAreTrue, FlagCatchesUp, Truthful, OwesUpdate
<1> QED
  BY <1>4, <1>5, <1>6

\* The writer takes an update: a current one is about to be published, another
\* one was not ahead of the flag.
LEMMA ReceiveStep ==
    ASSUME TypeOK, Deletion, Input, Flag, ReceiveUpdate
    PROVE  Deletion' /\ Input' /\ Flag'
<1> DEFINE update == Head(store.updates)
<1>0. /\ store \in Stores /\ store.updates \in Seq(Updates) /\ store.updates # <<>> /\ faults \in Nat
      /\ store.at = "recv" /\ update \in Updates
  BY DEF ReceiveUpdate, TypeOK, Stores
<1>1. client' = client /\ shared' = shared /\ serve' = serve /\ history' = history
  BY DEF ReceiveUpdate
<1>2. store'.updates = Tail(store.updates) /\ store'.exists = store.exists /\ store'.flag = store.flag
  BY <1>0 DEF ReceiveUpdate, Stores
<1>3. \/ update = Stop /\ store'.at = "stopped" /\ faults' = faults
      \/ IsCurrent(update) /\ store'.at = "publish" /\ store'.attached = update.attached /\ faults' = faults
      \/ /\ update # Stop /\ store'.at = "recv"
         /\ IF IsCurrent(update) /\ store.exists THEN faults' = faults + 1 ELSE faults' = faults
  BY <1>0 DEF ReceiveUpdate, Fault, Stores
<1>4. /\ 1 \in DOMAIN store.updates /\ store.updates[1] = update
      /\ \A i \in DOMAIN store'.updates : /\ i + 1 \in DOMAIN store.updates
                                          /\ store'.updates[i] = store.updates[i + 1]
      /\ \A i \in DOMAIN store.updates : i = 1 \/ /\ i - 1 \in DOMAIN store'.updates
                                                  /\ store'.updates[i - 1] = store.updates[i]
  BY <1>0, <1>2
<1> HIDE DEF update
<1>5. Deletion'
  BY <1>0, <1>1, <1>2, <1>3, <1>4 DEF Deletion, WriterStopsFirst
<1>6. Input'
  BY <1>1, SteadyInput DEF InputSteady
<1>7. UpdatesAreTrue'
  BY <1>1, <1>4 DEF Flag, UpdatesAreTrue, Truthful, OwesUpdate
<1>8. FlagCatchesUp'
  <2> SUFFICES ASSUME faults' = 0, ~shared.stopping
               PROVE  FlagCatchesUp'
    BY <1>1 DEF FlagCatchesUp
  <2>1. faults = 0 /\ store.exists /\ update # Stop
    BY <1>0, <1>3, <1>4 DEF Deletion, WriterStopsFirst
  <2>2. CASE update.generation = shared.generation
    <3>1. update.attached = (shared.slot # NoClient)
      BY <1>4, <2>1, <2>2 DEF Flag, UpdatesAreTrue, Truthful
    <3>2. IsCurrent(update)
      BY <2>1, <2>2 DEF IsCurrent
    <3>3. store'.at = "publish" /\ store'.attached = update.attached
      BY <1>3, <2>1, <3>2
    <3> QED
      BY <1>1, <3>1, <3>3 DEF FlagCatchesUp
  <2>3. CASE update.generation # shared.generation
    <3>1. store'.at = "recv"
      BY <1>3, <2>1, <2>3 DEF IsCurrent
    <3>2. CASE \E c \in Clients : OwesUpdate(c) /\ client[c].generation = shared.generation
      BY <1>1, <3>2 DEF FlagCatchesUp, OwesUpdate
    <3>3. CASE \E i \in DOMAIN store.updates : store.updates[i].generation = shared.generation
      <4>1. PICK i \in DOMAIN store.updates : store.updates[i].generation = shared.generation
        BY <3>3
      <4>2. i # 1
        BY <1>4, <2>3, <4>1
      <4> QED
        BY <1>1, <1>4, <4>1, <4>2 DEF FlagCatchesUp
    <3>4. CASE store.flag = (shared.slot # NoClient)
      BY <1>1, <1>2, <3>1, <3>4 DEF FlagCatchesUp
    <3> QED
      BY <1>0, <2>1, <3>2, <3>3, <3>4 DEF Flag, FlagCatchesUp
  <2> QED
    BY <2>2, <2>3
<1> QED
  BY <1>5, <1>6, <1>7, <1>8 DEF Flag

\* The considered update is published: the flag is true, or a newer one is ahead.
LEMMA PublishStep ==
    ASSUME TypeOK, Deletion, Input, Flag, PublishRecord
    PROVE  Deletion' /\ Input' /\ Flag'
<1>0. store \in Stores /\ faults \in Nat
  BY DEF TypeOK
<1>1. client' = client /\ shared' = shared /\ serve' = serve /\ history' = history
  BY DEF PublishRecord
<1>2. /\ store.at = "publish" /\ store'.at = "recv" /\ store'.updates = store.updates
      /\ \/ store'.exists /\ store'.flag = store.attached /\ faults' = faults
         \/ store'.exists = store.exists /\ faults' = faults + 1
  BY <1>0 DEF PublishRecord, Fault, Stores
<1>3. Deletion'
  BY <1>0, <1>1, <1>2 DEF Deletion, WriterStopsFirst
<1>4. Input'
  BY <1>1, SteadyInput DEF InputSteady
<1>5. Flag'
  BY <1>0, <1>1, <1>2 DEF Flag, UpdatesAreTrue, FlagCatchesUp, Truthful, OwesUpdate
<1> QED
  BY <1>3, <1>4, <1>5

-----------------------------------------------------------------------------
(* The invariant, and the properties that follow from it. *)

\* The invariant holds at the start ...
LEMMA InitIInv == Init => IInv
<1> SUFFICES ASSUME Init PROVE IInv
  OBVIOUS
<1>1. TypeOK
  BY InitType
<1>2. WriterStopsFirst /\ NewcomersIdle /\ LastInstalledOwns /\ InputsAreSpent /\ InputFollowsOwnership
  BY DEF Init, WriterStopsFirst, NewcomersIdle, LastInstalledOwns, InputsAreSpent, InputFollowsOwnership
<1>3. UpdatesAreTrue /\ FlagCatchesUp
  <2>1. /\ store.updates = <<>> /\ store.at = "recv" /\ store.flag = FALSE /\ shared.slot = NoClient
        /\ \A c \in Clients : ~OwesUpdate(c)
    BY DEF Init, OwesUpdate
  <2>2. DOMAIN store.updates = {}
    BY <2>1
  <2>3. UpdatesAreTrue
    BY <2>1, <2>2 DEF UpdatesAreTrue
  <2>4. store.flag = (shared.slot # NoClient)
    BY <2>1
  <2> QED
    BY <2>1, <2>3, <2>4 DEF FlagCatchesUp
<1> QED
  BY <1>1, <1>2, <1>3 DEF IInv

\* ... and every step keeps it.
LEMMA NextIInv == IInv /\ [Next]_vars => IInv'
<1> SUFFICES ASSUME IInv, [Next]_vars PROVE IInv'
  OBVIOUS
<1>0. TypeOK /\ NewcomersIdle /\ Deletion /\ Input /\ Flag
  BY DEF IInv, Deletion, Input, Flag
<1>1. TypeOK' /\ NewcomersIdle'
  BY <1>0, NextType, NewcomersStayIdle
<1>2. StoreSteady /\ RelaysSteady /\ InputSteady => Deletion' /\ Input' /\ Flag'
  BY <1>0, SteadyDeletion, SteadyInput, SteadyFlag
<1>3. ASSUME NEW c \in Clients, Relay(c)
      PROVE  Deletion' /\ Input' /\ Flag'
  BY <1>0, <1>2, <1>3, QuietRelay, InstallStep, AnnounceStep, ApplyStep, DetachStep, ReleaseStep DEF Relay
<1>4. ASSUME NEW c \in Clients, TakeNext(c) \/ Write(c) \/ WriterEnds(c)
                                  \/ Connect(c) \/ AcceptFails(c) \/ Type(c) \/ Leave(c)
      PROVE  Deletion' /\ Input' /\ Flag'
  BY <1>0, <1>2, <1>4, QuietClient
<1>5. ASSUME AppWrites \/ Pump \/ PumpFails
      PROVE  Deletion' /\ Input' /\ Flag'
  BY <1>0, <1>2, <1>5, QuietPump
<1>6. ASSUME WaitApp \/ WaitFails \/ Serve \/ Recorder
      PROVE  Deletion' /\ Input' /\ Flag'
  BY <1>0, <1>2, <1>6, QuietServe, StopStep, DeleteStep, ReceiveStep, PublishStep DEF Serve, Recorder
<1>7. CASE UNCHANGED vars
  <2>1. StoreSteady /\ RelaysSteady /\ InputSteady
    BY <1>0, <1>7 DEF TypeOK, vars, state, StoreSteady, RelaysSteady, InputSteady, OwesUpdate
  <2> QED
    BY <1>1, <1>2, <2>1 DEF IInv, Deletion, Input, Flag
<1>8. Deletion' /\ Input' /\ Flag'
  BY <1>2, <1>3, <1>4, <1>5, <1>6, <1>7 DEF Next, Process, Terminated, IInv, Deletion, Input, Flag
<1> QED
  BY <1>1, <1>8 DEF IInv, Deletion, Input, Flag

\* The order of the teardown, the order of the input and the truth of the updates
\* hold together at every moment.
THEOREM SpecIInv == Spec => []IInv
<1>1. Init => IInv
  BY InitIInv
<1>2. IInv /\ [Next]_vars => IInv'
  BY NextIInv
<1> QED
  BY <1>1, <1>2, PTL DEF Spec

\* The supervisor's parts keep to their ranges.
THEOREM TypeCorrect == Spec => []TypeOK
<1>1. IInv => TypeOK
  BY DEF IInv
<1> QED
  BY <1>1, SpecIInv, PTL

\* The record of a session that has ended does not come back, since its writer
\* has stopped for good before it is deleted (RecordWriter::finish, serve).
THEOREM DeletedStaysDeleted == Spec => []DeleteIsFinal
<1>1. IInv => DeleteIsFinal
  BY DEF IInv, WriterStopsFirst, DeleteIsFinal
<1> QED
  BY <1>1, SpecIInv, PTL

\* Input arrives in the order in which its senders were installed
\* (apply_client_message against attach_client).
THEOREM InputInOrder == Spec => []InputFollowsOwnership
<1>1. IInv => InputFollowsOwnership
  BY DEF IInv
<1> QED
  BY <1>1, SpecIInv, PTL

\* With no update owed, queued or in flight, the published flag is the truth
\* (set_attached against publish_updates).
THEOREM FlagTellsTheTruth == Spec => []FlagSettles
<1>1. IInv => FlagSettles
  BY DEF IInv, FlagCatchesUp, FlagSettles
<1> QED
  BY <1>1, SpecIInv, PTL

-----------------------------------------------------------------------------
(* Bursts among messages, and how many there are. *)

\* The bursts among messages are finitely many, at most as many as the messages.
LEMMA BurstsFinite ==
    ASSUME NEW s \in Seq(Messages)
    PROVE  /\ Bursts(s) \subseteq 1 .. Len(s) /\ IsFiniteSet(Bursts(s))
           /\ Payload(s) \in Nat /\ Payload(s) <= Len(s)
<1>1. Bursts(s) \subseteq 1 .. Len(s)
  BY DEF Bursts
<1>2. Len(s) \in Nat /\ IsFiniteSet(1 .. Len(s)) /\ Cardinality(1 .. Len(s)) = Len(s)
  <2>1. Len(s) \in Nat
    OBVIOUS
  <2> QED
    BY <2>1, FS_Interval
<1> QED
  BY <1>1, <1>2, FS_Subset, FS_CardinalityType DEF Payload

\* No message, no burst.
LEMMA NoBursts == Bursts(<<>>) = {} /\ Payload(<<>>) = 0
  BY FS_EmptySet DEF Bursts, Payload

\* A message at the end is a burst more, or none.
LEMMA BurstsAppended ==
    ASSUME NEW s \in Seq(Messages), NEW m \in Messages
    PROVE  /\ Append(s, m) \in Seq(Messages)
           /\ m.kind = "Output" => /\ Bursts(Append(s, m)) = Bursts(s) \cup {Len(s) + 1}
                                   /\ Payload(Append(s, m)) = Payload(s) + 1
           /\ m.kind # "Output" => /\ Bursts(Append(s, m)) = Bursts(s)
                                   /\ Payload(Append(s, m)) = Payload(s)
<1>1. /\ Append(s, m) \in Seq(Messages) /\ DOMAIN s = 1 .. Len(s) /\ DOMAIN Append(s, m) = 1 .. (Len(s) + 1)
      /\ \A i \in DOMAIN s : Append(s, m)[i] = s[i]
      /\ Append(s, m)[Len(s) + 1] = m /\ Len(s) \in Nat
  OBVIOUS
<1>2. CASE m.kind = "Output"
  <2>1. Bursts(Append(s, m)) = Bursts(s) \cup {Len(s) + 1}
    BY <1>1, <1>2 DEF Bursts
  <2>2. Len(s) + 1 \notin Bursts(s)
    BY <1>1 DEF Bursts
  <2> QED
    BY <1>1, <1>2, <2>1, <2>2, BurstsFinite, FS_AddElement DEF Payload
<1>3. CASE m.kind # "Output"
  <2>1. Bursts(Append(s, m)) = Bursts(s)
    BY <1>1, <1>3 DEF Bursts
  <2> QED
    BY <1>1, <1>3, <2>1 DEF Payload
<1> QED
  BY <1>2, <1>3

\* One message is one burst, or none.
LEMMA OneBurst ==
    ASSUME NEW m \in Messages
    PROVE  <<m>> \in Seq(Messages) /\ Payload(<<m>>) = IF m.kind = "Output" THEN 1 ELSE 0
<1>1. <<m>> \in Seq(Messages) /\ DOMAIN <<m>> = {1} /\ <<m>>[1] = m
  OBVIOUS
<1>2. Bursts(<<m>>) = IF m.kind = "Output" THEN {1} ELSE {}
  BY <1>1 DEF Bursts
<1> QED
  BY <1>1, <1>2, FS_Singleton, FS_EmptySet DEF Payload

\* The bursts of a concatenation are those of its parts.
LEMMA BurstsConcatenated ==
    ASSUME NEW s \in Seq(Messages), NEW t \in Seq(Messages)
    PROVE  s \o t \in Seq(Messages) /\ Payload(s \o t) = Payload(s) + Payload(t)
<1> DEFINE Behind == {Len(s) + i : i \in Bursts(t)}
           Shift == [i \in Bursts(t) |-> Len(s) + i]
<1>1. /\ s \o t \in Seq(Messages) /\ Len(s) \in Nat /\ Len(t) \in Nat
      /\ DOMAIN s = 1 .. Len(s) /\ DOMAIN t = 1 .. Len(t) /\ DOMAIN (s \o t) = 1 .. (Len(s) + Len(t))
      /\ \A i \in 1 .. Len(s) : (s \o t)[i] = s[i]
      /\ \A i \in 1 .. Len(t) : (s \o t)[Len(s) + i] = t[i]
  OBVIOUS
<1>2. Bursts(s \o t) = Bursts(s) \cup Behind
  <2>1. ASSUME NEW k \in Bursts(s \o t) PROVE k \in Bursts(s) \cup Behind
    <3>1. k \in 1 .. (Len(s) + Len(t)) /\ (s \o t)[k].kind = "Output"
      BY <1>1 DEF Bursts
    <3>2. CASE k <= Len(s)
      BY <1>1, <3>1, <3>2 DEF Bursts
    <3>3. CASE ~(k <= Len(s))
      <4>1. k - Len(s) \in 1 .. Len(t) /\ k = Len(s) + (k - Len(s))
        BY <1>1, <3>1, <3>3
      <4>2. t[k - Len(s)] = (s \o t)[k]
        BY <1>1, <4>1
      <4>3. k - Len(s) \in Bursts(t)
        BY <1>1, <3>1, <4>1, <4>2 DEF Bursts
      <4> QED
        BY <4>1, <4>3
    <3> QED
      BY <3>2, <3>3
  <2>2. ASSUME NEW k \in Bursts(s) PROVE k \in Bursts(s \o t)
    BY <1>1 DEF Bursts
  <2>3. ASSUME NEW i \in Bursts(t) PROVE Len(s) + i \in Bursts(s \o t)
    BY <1>1 DEF Bursts
  <2> QED
    BY <2>1, <2>2, <2>3
<1>3. Bursts(s) \cap Behind = {}
  BY <1>1 DEF Bursts
<1>4. IsFiniteSet(Bursts(s)) /\ IsFiniteSet(Bursts(t)) /\ Payload(s) \in Nat /\ Payload(t) \in Nat
      /\ Bursts(t) \subseteq 1 .. Len(t)
  BY BurstsFinite
<1>5. IsFiniteSet(Behind) /\ Cardinality(Behind) = Cardinality(Bursts(t))
  <2>1. Shift \in [Bursts(t) -> Behind]
    OBVIOUS
  <2>2. \A x \in Bursts(t), y \in Bursts(t) : Shift[x] = Shift[y] => x = y
    BY <1>1, <1>4
  <2>3. Shift \in Bijection(Bursts(t), Behind)
    BY <2>1, <2>2 DEF Bijection, Injection, Surjection, IsInjective
  <2> QED
    BY <1>4, <2>3, FS_Bijection DEF ExistsBijection
<1>6. Cardinality(Bursts(s) \cup Behind) = Cardinality(Bursts(s)) + Cardinality(Behind)
  <2>1. Cardinality(Bursts(s)) \in Nat /\ Cardinality(Behind) \in Nat
    BY <1>4, <1>5 DEF Payload
  <2>2. Cardinality(Bursts(s) \cap Behind) = 0
    BY <1>3, FS_EmptySet
  <2>3. Cardinality(Bursts(s) \cup Behind)
           = Cardinality(Bursts(s)) + Cardinality(Behind) - Cardinality(Bursts(s) \cap Behind)
    BY <1>4, <1>5, FS_Union
  <2> QED
    BY <2>1, <2>2, <2>3
<1> QED
  BY <1>1, <1>2, <1>5, <1>6 DEF Payload

\* What is taken from the front of a queue leaves the rest of its bursts.
LEMMA BurstsTaken ==
    ASSUME NEW s \in Seq(Messages), s # <<>>
    PROVE  /\ Head(s) \in Messages /\ Tail(s) \in Seq(Messages) /\ s = <<Head(s)>> \o Tail(s)
           /\ Payload(s) = Payload(<<Head(s)>>) + Payload(Tail(s))
<1>1. Head(s) \in Messages /\ Tail(s) \in Seq(Messages) /\ <<Head(s)>> \in Seq(Messages)
      /\ s = <<Head(s)>> \o Tail(s)
  OBVIOUS
<1> QED
  BY <1>1, BurstsConcatenated

-----------------------------------------------------------------------------
(* Well-formed streams. *)

Begins(g, s) == Len(g) <= Len(s) /\ \A i \in DOMAIN g : g[i] = s[i]

\* The beginning of a stream in order is in order.
LEMMA OrderOfPrefix ==
    ASSUME NEW s \in Seq(Messages), NEW g \in Seq(Messages), NEW p, Begins(g, s), InOrder(s, p)
    PROVE  InOrder(g, p)
<1>1. /\ DOMAIN g = 1 .. Len(g) /\ DOMAIN s = 1 .. Len(s) /\ Len(g) \in Nat /\ Len(s) \in Nat
      /\ DOMAIN g \subseteq DOMAIN s
  BY DEF Begins
<1>2. \A i \in DOMAIN g : i \in Bursts(g) <=> i \in Bursts(s)
  BY <1>1 DEF Bursts, Begins
<1>3. ASSUME NEW i \in Bursts(g)
      PROVE  {j \in Bursts(g) : j <= i} = {j \in Bursts(s) : j <= i}
  <2>1. i \in DOMAIN g
    BY DEF Bursts
  <2>2. ASSUME NEW j \in Bursts(s), j <= i PROVE j \in DOMAIN g
    BY <1>1, <2>1, <2>2 DEF Bursts
  <2>3. Bursts(g) \subseteq DOMAIN g
    BY DEF Bursts
  <2> QED
    BY <1>2, <2>2, <2>3
<1>4. ASSUME NEW i \in Bursts(g) PROVE i \in Bursts(s) /\ g[i] = s[i]
  BY <1>2 DEF Bursts, Begins
<1> QED
  BY <1>3, <1>4 DEF InOrder

\* A message at the end keeps the order if it is no burst or the next one promised.
LEMMA OrderOfAppended ==
    ASSUME NEW s \in Seq(Messages), NEW m \in Messages, NEW p, InOrder(s, p),
           m.kind = "Output" => Payload(s) + 1 \in DOMAIN p /\ m = p[Payload(s) + 1]
    PROVE  InOrder(Append(s, m), p)
<1>1. /\ DOMAIN s = 1 .. Len(s) /\ Len(s) \in Nat
      /\ \A i \in DOMAIN s : Append(s, m)[i] = s[i]
      /\ Append(s, m)[Len(s) + 1] = m
  OBVIOUS
<1>2. Bursts(s) \subseteq 1 .. Len(s)
  BY BurstsFinite
<1>3. ASSUME NEW i \in Bursts(s)
      PROVE  /\ {j \in Bursts(Append(s, m)) : j <= i} = {j \in Bursts(s) : j <= i}
             /\ Append(s, m)[i] = s[i]
  <2>1. i \in 1 .. Len(s) /\ ~(Len(s) + 1 <= i)
    BY <1>1, <1>2
  <2>2. Bursts(Append(s, m)) = Bursts(s) \/ Bursts(Append(s, m)) = Bursts(s) \cup {Len(s) + 1}
    BY BurstsAppended
  <2> QED
    BY <1>1, <2>1, <2>2
<1>4. ASSUME NEW i \in Bursts(s)
      PROVE  LET k == Cardinality({j \in Bursts(Append(s, m)) : j <= i})
             IN  k \in DOMAIN p /\ Append(s, m)[i] = p[k]
  BY <1>3 DEF InOrder
<1>5. CASE m.kind # "Output"
  BY <1>4, <1>5, BurstsAppended DEF InOrder
<1>6. CASE m.kind = "Output"
  <2>1. Bursts(Append(s, m)) = Bursts(s) \cup {Len(s) + 1} /\ Payload(Append(s, m)) = Payload(s) + 1
    BY <1>6, BurstsAppended
  <2>2. {j \in Bursts(Append(s, m)) : j <= Len(s) + 1} = Bursts(Append(s, m))
    BY <1>1, <1>2, <2>1
  <2>3. LET k == Cardinality({j \in Bursts(Append(s, m)) : j <= Len(s) + 1})
        IN  k \in DOMAIN p /\ Append(s, m)[Len(s) + 1] = p[k]
    BY <1>1, <1>6, <2>1, <2>2 DEF Payload
  <2> QED
    BY <1>4, <2>1, <2>3 DEF InOrder
<1> QED
  BY <1>5, <1>6

\* The acknowledgement and the opening output are in order.
LEMMA OrderOfOpening ==
    ASSUME NEW held \in Seq(Messages), \A i \in DOMAIN held : held[i].kind = "Output"
    PROVE  /\ <<Attached>> \o held \in Seq(Messages)
           /\ Payload(<<Attached>> \o held) = Len(held)
           /\ InOrder(<<Attached>> \o held, held)
<1> DEFINE s == <<Attached>> \o held
<1>1. Attached \in Messages /\ Attached.kind = "Attached" /\ <<Attached>> \in Seq(Messages)
  BY MessageTypes, OneBurst DEF Attached
<1>2. /\ s \in Seq(Messages) /\ Len(held) \in Nat /\ DOMAIN held = 1 .. Len(held)
      /\ DOMAIN s = 1 .. (Len(held) + 1) /\ s[1] = Attached
      /\ \A i \in 2 .. (Len(held) + 1) : s[i] = held[i - 1]
  BY <1>1
<1>3. Bursts(s) = 2 .. (Len(held) + 1)
  <2>1. ASSUME NEW i \in Bursts(s) PROVE i \in 2 .. (Len(held) + 1)
    BY <1>1, <1>2 DEF Bursts
  <2>2. ASSUME NEW i \in 2 .. (Len(held) + 1) PROVE i \in Bursts(s)
    <3>1. i - 1 \in DOMAIN held /\ i \in DOMAIN s /\ s[i] = held[i - 1]
      BY <1>2
    <3> QED
      BY <3>1 DEF Bursts
  <2> QED
    BY <2>1, <2>2
<1>4. Payload(s) = Len(held)
  <2>1. Cardinality(2 .. (Len(held) + 1)) = Len(held)
    BY <1>2, FS_Interval
  <2> QED
    BY <1>3, <2>1 DEF Payload
<1>5. ASSUME NEW i \in Bursts(s)
      PROVE  LET k == Cardinality({j \in Bursts(s) : j <= i}) IN k \in DOMAIN held /\ s[i] = held[k]
  <2>1. i \in 2 .. (Len(held) + 1)
    BY <1>3
  <2>2. {j \in Bursts(s) : j <= i} = 2 .. i
    BY <1>2, <1>3, <2>1
  <2>3. Cardinality(2 .. i) = i - 1
    BY <2>1, FS_Interval
  <2>4. i - 1 \in DOMAIN held /\ s[i] = held[i - 1]
    BY <1>2, <2>1
  <2> QED
    BY <2>2, <2>3, <2>4
<1> QED
  BY <1>2, <1>4, <1>5 DEF InOrder

\* A stream that is cut off is well-formed still.
LEMMA ShapeOfPrefix ==
    ASSUME NEW s \in Seq(Messages), NEW g \in Seq(Messages), NEW p, Begins(g, s), WellFormed(s, p)
    PROVE  /\ WellFormed(g, p) /\ (NoticeFree(s) => NoticeFree(g)) /\ (ExitFree(s) => ExitFree(g))
<1>1. /\ DOMAIN g = 1 .. Len(g) /\ DOMAIN s = 1 .. Len(s) /\ Len(g) \in Nat /\ Len(s) \in Nat
      /\ \A i \in DOMAIN g : i \in DOMAIN s /\ g[i] = s[i]
  BY DEF Begins
<1>2. InOrder(g, p)
  BY OrderOfPrefix DEF WellFormed
<1>3. g # <<>> => s # <<>> /\ g[1] = s[1]
  BY <1>1
<1>4. ASSUME NEW i \in DOMAIN g, g[i] = AppExited
      PROVE  i = Len(g) /\ Payload(g) = Len(p)
  <2>1. i = Len(s) /\ Payload(s) = Len(p)
    BY <1>1, <1>4 DEF WellFormed
  <2>2. Len(g) = Len(s)
    <3>1. Len(g) <= Len(s) /\ Len(g) \in Nat /\ Len(s) \in Nat
      BY DEF Begins
    <3>2. i <= Len(g)
      BY <1>1
    <3> QED
      BY <2>1, <3>1, <3>2
  <2>3. g = s
    BY <1>1, <2>2
  <2> QED
    BY <2>1, <2>2, <2>3
<1>5. \A i, j \in DOMAIN g : {g[i], g[j]} \subseteq {Displaced, AppExited} => i = j
  BY <1>1 DEF WellFormed
<1>6. \A i \in DOMAIN g : i > 1 => g[i] # Attached
  BY <1>1 DEF WellFormed
<1>7. (NoticeFree(s) => NoticeFree(g)) /\ (ExitFree(s) => ExitFree(g))
  BY <1>1 DEF NoticeFree, ExitFree
<1> QED
  BY <1>2, <1>3, <1>4, <1>5, <1>6, <1>7 DEF WellFormed

\* More is promised to a stream that has not ended.
LEMMA ShapeOfLonger ==
    ASSUME NEW s \in Seq(Messages), NEW p, NEW q, WellFormed(s, p), ExitFree(s),
           \A k \in DOMAIN p : k \in DOMAIN q /\ q[k] = p[k]
    PROVE  WellFormed(s, q)
  BY DEF WellFormed, InOrder, ExitFree

\* The next burst fits a stream that has begun and has not ended.
LEMMA ShapeOfBurst ==
    ASSUME NEW s \in Seq(Messages), NEW m \in Messages, NEW p, WellFormed(s, p), ExitFree(s), s # <<>>,
           m.kind = "Output", Payload(s) + 1 \in DOMAIN p, m = p[Payload(s) + 1]
    PROVE  WellFormed(Append(s, m), p) /\ ExitFree(Append(s, m)) /\ (NoticeFree(s) => NoticeFree(Append(s, m)))
<1>1. InOrder(Append(s, m), p)
  BY OrderOfAppended DEF WellFormed
<1>2. m \notin {Attached, Displaced, AppExited}
  BY DEF Attached, Displaced, AppExited
<1>3. /\ DOMAIN s = 1 .. Len(s) /\ Len(s) \in Nat /\ Len(s) > 0 /\ DOMAIN Append(s, m) = 1 .. (Len(s) + 1)
      /\ \A i \in DOMAIN s : Append(s, m)[i] = s[i]
      /\ Append(s, m)[Len(s) + 1] = m
  OBVIOUS
<1>4. Append(s, m)[1] = Attached
  BY <1>3 DEF WellFormed
<1>5. \A i \in DOMAIN Append(s, m) : i \in DOMAIN s \/ Append(s, m)[i] = m
  BY <1>3
<1>6. ExitFree(Append(s, m)) /\ (NoticeFree(s) => NoticeFree(Append(s, m)))
  BY <1>2, <1>3, <1>5 DEF ExitFree, NoticeFree
<1>7. \A i \in DOMAIN Append(s, m) : i > 1 => Append(s, m)[i] # Attached
  BY <1>2, <1>3, <1>5 DEF WellFormed
<1>8. \A i, j \in DOMAIN Append(s, m) :
         {Append(s, m)[i], Append(s, m)[j]} \subseteq {Displaced, AppExited} => i = j
  BY <1>2, <1>3, <1>5 DEF WellFormed
<1> QED
  BY <1>1, <1>4, <1>6, <1>7, <1>8 DEF WellFormed, ExitFree

\* A notice fits a stream that has begun and had none; the exit fits one that has
\* all its bursts.
LEMMA ShapeOfNotice ==
    ASSUME NEW s \in Seq(Messages), NEW m \in {Displaced, AppExited}, NEW p,
           WellFormed(s, p), NoticeFree(s), s # <<>>, m = AppExited => Payload(s) = Len(p)
    PROVE  WellFormed(Append(s, m), p) /\ ~NoticeFree(Append(s, m))
           /\ (m = Displaced => ExitFree(Append(s, m)))
<1>1. m \in Messages /\ m.kind # "Output" /\ m # Attached /\ Displaced # AppExited
  BY MessageTypes DEF Attached, Displaced, AppExited
<1>2. InOrder(Append(s, m), p) /\ Payload(Append(s, m)) = Payload(s)
  BY <1>1, OrderOfAppended, BurstsAppended DEF WellFormed
<1>3. /\ DOMAIN s = 1 .. Len(s) /\ Len(s) \in Nat /\ Len(s) > 0 /\ DOMAIN Append(s, m) = 1 .. (Len(s) + 1)
      /\ \A i \in DOMAIN s : Append(s, m)[i] = s[i]
      /\ Append(s, m)[Len(s) + 1] = m /\ Len(Append(s, m)) = Len(s) + 1
  BY <1>1
<1>4. Append(s, m)[1] = Attached
  BY <1>3 DEF WellFormed
<1>5. \A i \in DOMAIN Append(s, m) : i \in DOMAIN s \/ (i = Len(s) + 1 /\ Append(s, m)[i] = m)
  BY <1>3
<1>6. \A i \in DOMAIN Append(s, m) : Append(s, m)[i] \in {Displaced, AppExited} => i = Len(s) + 1
  BY <1>3, <1>5 DEF NoticeFree
<1>7. \A i \in DOMAIN Append(s, m) : i > 1 => Append(s, m)[i] # Attached
  BY <1>1, <1>3, <1>5 DEF WellFormed
<1>8. ~NoticeFree(Append(s, m))
  BY <1>3 DEF NoticeFree
<1>9. m = Displaced => ExitFree(Append(s, m))
  BY <1>1, <1>3, <1>5 DEF NoticeFree, ExitFree
<1>10. \A i \in DOMAIN Append(s, m) : Append(s, m)[i] = AppExited =>
          i = Len(Append(s, m)) /\ Payload(Append(s, m)) = Len(p)
  BY <1>1, <1>2, <1>3, <1>5, <1>6
<1> QED
  BY <1>2, <1>4, <1>6, <1>7, <1>8, <1>9, <1>10 DEF WellFormed

\* The acknowledgement and the opening output begin a stream.
LEMMA ShapeOfOpening ==
    ASSUME NEW held \in Seq(Messages), \A i \in DOMAIN held : held[i].kind = "Output"
    PROVE  /\ WellFormed(<<Attached>> \o held, held) /\ NoticeFree(<<Attached>> \o held)
           /\ ExitFree(<<Attached>> \o held) /\ <<Attached>> \o held # <<>>
<1> DEFINE s == <<Attached>> \o held
<1>1. s \in Seq(Messages) /\ InOrder(s, held)
  BY OrderOfOpening
<1>2. /\ Len(held) \in Nat /\ DOMAIN held = 1 .. Len(held) /\ DOMAIN s = 1 .. (Len(held) + 1)
      /\ s[1] = Attached /\ \A i \in 2 .. (Len(held) + 1) : s[i] = held[i - 1] /\ i - 1 \in DOMAIN held
  BY MessageTypes
<1>3. \A i \in DOMAIN s : i = 1 \/ s[i].kind = "Output"
  BY <1>2
<1>4. /\ Attached \notin {Displaced, AppExited} /\ Attached.kind = "Attached" /\ Displaced.kind = "Displaced"
      /\ AppExited.kind = "AppExited"
  BY DEF Attached, Displaced, AppExited
<1>5. \A i \in DOMAIN s : s[i] \notin {Displaced, AppExited}
  BY <1>2, <1>3, <1>4
<1>6. \A i \in DOMAIN s : i > 1 => s[i] # Attached
  BY <1>2, <1>3, <1>4
<1> QED
  BY <1>1, <1>2, <1>5, <1>6 DEF WellFormed, NoticeFree, ExitFree

-----------------------------------------------------------------------------
(* What the operations on an outbox do to its stream. *)

Units(m) == IF m.kind = "Output" THEN 1 ELSE 0

\* A stream consists of messages; while its writer lives, it has the bursts that
\* were given; what was read is its beginning.
LEMMA StreamType ==
    ASSUME NEW b \in Outboxes
    PROVE  /\ Hand(b) \in Seq(Messages) /\ Stream(b) \in Seq(Messages)
           /\ Payload(b.got) \in Nat /\ Payload(Hand(b)) \in Nat /\ Payload(b.queue) \in Nat /\ Given(b) \in Nat
           /\ b.writer # "done" => Payload(Stream(b)) = Given(b)
           /\ Payload(b.got) <= Given(b) /\ Begins(b.got, Stream(b))
<1>1. b.got \in Seq(Messages) /\ b.queue \in Seq(Messages) /\ b.hand \in Messages
  BY DEF Outboxes
<1>2. Hand(b) \in Seq(Messages)
  BY <1>1, MessageTypes, OneBurst DEF Hand
<1>3. /\ Payload(b.got) \in Nat /\ Payload(Hand(b)) \in Nat /\ Payload(b.queue) \in Nat
      /\ Given(b) \in Nat /\ Payload(b.got) <= Given(b)
  <2>1. Payload(b.got) \in Nat /\ Payload(Hand(b)) \in Nat /\ Payload(b.queue) \in Nat
    BY <1>1, <1>2, BurstsFinite
  <2> QED
    BY <2>1 DEF Given
<1>4. /\ Hand(b) \o b.queue \in Seq(Messages) /\ b.got \o (Hand(b) \o b.queue) \in Seq(Messages)
      /\ Payload(b.got \o (Hand(b) \o b.queue)) = Given(b)
  <2>1. Hand(b) \o b.queue \in Seq(Messages) /\ Payload(Hand(b) \o b.queue) = Payload(Hand(b)) + Payload(b.queue)
    BY <1>1, <1>2, BurstsConcatenated
  <2>2. /\ b.got \o (Hand(b) \o b.queue) \in Seq(Messages)
        /\ Payload(b.got \o (Hand(b) \o b.queue)) = Payload(b.got) + Payload(Hand(b) \o b.queue)
    BY <1>1, <2>1, BurstsConcatenated
  <2> QED
    BY <1>3, <2>1, <2>2 DEF Given
<1>5. \A s, t \in Seq(Messages) : Begins(s, s \o t) /\ Begins(s, s)
  BY ConcatProperties, LenProperties DEF Begins
<1> QED
  BY <1>1, <1>2, <1>3, <1>4, <1>5 DEF Stream

\* A longer end lengthens the whole.
LEMMA AppendedToEnd ==
    ASSUME NEW s \in Seq(Messages), NEW t \in Seq(Messages), NEW m \in Messages
    PROVE  s \o Append(t, m) = Append(s \o t, m) /\ t \o <<m>> = Append(t, m)
  OBVIOUS

\* Concatenation of messages is associative, with the empty sequence as neutral.
LEMMA Associativity ==
    ASSUME NEW s \in Seq(Messages), NEW t \in Seq(Messages), NEW u \in Seq(Messages)
    PROVE  (s \o t) \o u = s \o (t \o u)
  BY ConcatAssociative

\* The empty sequence adds nothing; a whole begins with its first part.
LEMMA Concatenations ==
    /\ \A s \in Seq(Messages) : s \o <<>> = s /\ <<>> \o s = s
    /\ \A s, t \in Seq(Messages) : s \o t \in Seq(Messages) /\ Begins(s, s \o t)
<1>2. \A s \in Seq(Messages) : s \o <<>> = s /\ <<>> \o s = s
  BY ConcatEmptySeq
<1>3. \A s, t \in Seq(Messages) : s \o t \in Seq(Messages) /\ Begins(s, s \o t)
  BY ConcatProperties, LenProperties DEF Begins
<1> QED
  BY <1>2, <1>3

\* Giving up cuts the stream off.
LEMMA AbandonStream ==
    ASSUME NEW b \in Outboxes
    PROVE  /\ Abandon(b).queue = <<>> /\ Abandon(b).abandoned /\ Abandon(b).finished = b.finished
           /\ Abandon(b).writer = b.writer /\ Abandon(b).got = b.got /\ Abandon(b).hand = b.hand
           /\ Payload(Abandon(b).queue) = 0 /\ Given(Abandon(b)) <= Given(b)
           /\ Begins(Stream(Abandon(b)), Stream(b))
<1>1. /\ Abandon(b).queue = <<>> /\ Abandon(b).abandoned /\ Abandon(b).finished = b.finished
      /\ Abandon(b).writer = b.writer /\ Abandon(b).got = b.got /\ Abandon(b).hand = b.hand
  BY DEF Abandon, Outboxes
<1>2. Hand(Abandon(b)) = Hand(b) /\ Hand(b) \in Seq(Messages) /\ b.got \in Seq(Messages) /\ b.queue \in Seq(Messages)
  BY <1>1, StreamType DEF Hand, Outboxes
<1>3. Payload(Abandon(b).queue) = 0 /\ Given(Abandon(b)) <= Given(b)
  <2>1. Payload(b.got) \in Nat /\ Payload(Hand(b)) \in Nat /\ Payload(b.queue) \in Nat
    BY StreamType
  <2> QED
    BY <1>1, <1>2, <2>1, NoBursts DEF Given
<1>4. Begins(Stream(Abandon(b)), Stream(b))
  <2>1. CASE b.writer = "done"
    BY <1>1, <1>2, <2>1 DEF Stream, Begins
  <2>2. CASE b.writer # "done"
    <3>1. Stream(Abandon(b)) = b.got \o (Hand(b) \o <<>>) /\ Stream(b) = b.got \o (Hand(b) \o b.queue)
      BY <1>1, <1>2, <2>2 DEF Stream
    <3>2. (b.got \o Hand(b)) \o b.queue = b.got \o (Hand(b) \o b.queue)
      BY <1>2, Associativity, Zenon
    <3>3. Begins(b.got \o Hand(b), (b.got \o Hand(b)) \o b.queue)
      BY <1>2, Concatenations
    <3>4. Hand(b) \o <<>> = Hand(b)
      BY <1>2, Concatenations
    <3> QED
      BY <3>1, <3>2, <3>3, <3>4
  <2> QED
    BY <2>1, <2>2
<1> QED
  BY <1>1, <1>3, <1>4

\* Finishing leaves it.
LEMMA FinishStream ==
    ASSUME NEW b \in Outboxes
    PROVE  /\ Stream(Finish(b)) = Stream(b) /\ Given(Finish(b)) = Given(b) /\ Finish(b).finished
           /\ Finish(b).queue = b.queue /\ Finish(b).abandoned = b.abandoned
           /\ Finish(b).writer = b.writer /\ Finish(b).got = b.got /\ Finish(b).hand = b.hand
<1>1. /\ Finish(b).queue = b.queue /\ Finish(b).abandoned = b.abandoned /\ Finish(b).finished
      /\ Finish(b).writer = b.writer /\ Finish(b).got = b.got /\ Finish(b).hand = b.hand
  BY DEF Finish, Outboxes
<1> QED
  BY <1>1 DEF Stream, Given, Hand

\* Queueing lengthens it by one message, or is ignored.
LEMMA QueueStream ==
    ASSUME NEW b \in Outboxes, NEW m \in Messages
    PROVE  /\ Overflows(b, <<m>>) <=> ~b.abandoned /\ ~b.finished /\ Payload(b.queue) + Units(m) > Backlog
           /\ b.abandoned \/ b.finished => Queue(b, <<m>>) = b
           /\ ~b.abandoned /\ ~b.finished =>
                 LET n == Queue(b, <<m>>)
                 IN  /\ n.writer = b.writer /\ n.got = b.got /\ n.hand = b.hand
                     /\ n.abandoned = b.abandoned /\ n.finished = b.finished
                     /\ Payload(n.queue) = Payload(b.queue) + Units(m) /\ Given(n) = Given(b) + Units(m)
                     /\ b.writer # "done" => Stream(n) = Append(Stream(b), m)
                     /\ b.writer = "done" => Stream(n) = Stream(b)
<1>1. /\ b.got \in Seq(Messages) /\ b.queue \in Seq(Messages) /\ Hand(b) \in Seq(Messages)
      /\ Payload(b.got) \in Nat /\ Payload(Hand(b)) \in Nat /\ Payload(b.queue) \in Nat
  BY StreamType DEF Outboxes
<1>2. b.queue \o <<m>> = Append(b.queue, m) /\ Payload(Append(b.queue, m)) = Payload(b.queue) + Units(m)
  BY <1>1, AppendedToEnd, BurstsAppended DEF Units
<1>3. (b.abandoned \/ b.finished) => Queue(b, <<m>>) = b
  BY DEF Queue
<1>4. Overflows(b, <<m>>) <=> ~b.abandoned /\ ~b.finished /\ Payload(b.queue) + Units(m) > Backlog
  BY <1>2 DEF Overflows
<1>5. ASSUME ~b.abandoned, ~b.finished
      PROVE  LET n == Queue(b, <<m>>)
             IN  /\ n.writer = b.writer /\ n.got = b.got /\ n.hand = b.hand
                 /\ n.abandoned = b.abandoned /\ n.finished = b.finished
                 /\ Payload(n.queue) = Payload(b.queue) + Units(m) /\ Given(n) = Given(b) + Units(m)
                 /\ b.writer # "done" => Stream(n) = Append(Stream(b), m)
                 /\ b.writer = "done" => Stream(n) = Stream(b)
  <2> DEFINE n == Queue(b, <<m>>)
  <2>1. n = [b EXCEPT !.queue = Append(b.queue, m)]
    BY <1>2, <1>5 DEF Queue
  <2>2. /\ n.writer = b.writer /\ n.got = b.got /\ n.hand = b.hand
        /\ n.abandoned = b.abandoned /\ n.finished = b.finished /\ n.queue = Append(b.queue, m)
    BY <2>1 DEF Outboxes
  <2> HIDE DEF n
  <2>3. Hand(n) = Hand(b) /\ Units(m) \in Nat
    BY <2>2 DEF Hand, Units
  <2>4. Payload(n.queue) = Payload(b.queue) + Units(m) /\ Given(n) = Given(b) + Units(m)
    BY <1>1, <1>2, <2>2, <2>3 DEF Given
  <2>5. b.got \o (Hand(b) \o Append(b.queue, m)) = Append(b.got \o (Hand(b) \o b.queue), m)
    <3>1. Hand(b) \o Append(b.queue, m) = Append(Hand(b) \o b.queue, m) /\ Hand(b) \o b.queue \in Seq(Messages)
      BY <1>1, AppendedToEnd, BurstsConcatenated
    <3>2. b.got \o Append(Hand(b) \o b.queue, m) = Append(b.got \o (Hand(b) \o b.queue), m)
      BY <1>1, <3>1, AppendedToEnd
    <3> QED
      BY <3>1, <3>2
  <2>6. /\ b.writer # "done" => Stream(n) = Append(Stream(b), m)
        /\ b.writer = "done" => Stream(n) = Stream(b)
    BY <2>2, <2>3, <2>5 DEF Stream
  <2> QED
    BY <2>2, <2>4, <2>6 DEF n
<1> QED
  BY <1>3, <1>4, <1>5

\* Sending queues it within the limit.
LEMMA SendStream ==
    ASSUME NEW b \in Outboxes, NEW m \in Messages, ~(Payload(b.queue) + Units(m) > Backlog)
    PROVE  Send(b, <<m>>) = Queue(b, <<m>>)
  BY QueueStream DEF Send

\* Taking a message and writing it move it along the stream.
LEMMA TakeStream ==
    ASSUME NEW b \in Outboxes, NEW n, b.writer = "take", b.queue # <<>>,
           n = Taken(b)
    PROVE  /\ Stream(n) = Stream(b) /\ Given(n) = Given(b) /\ Payload(n.queue) <= Payload(b.queue)
           /\ n.got = b.got /\ n.abandoned = b.abandoned /\ n.finished = b.finished /\ n.writer = "write"
<1>1. /\ b.got \in Seq(Messages) /\ b.queue \in Seq(Messages)
      /\ Payload(b.got) \in Nat /\ Payload(b.queue) \in Nat
  BY StreamType DEF Outboxes
<1>2. /\ Head(b.queue) \in Messages /\ Tail(b.queue) \in Seq(Messages) /\ b.queue = <<Head(b.queue)>> \o Tail(b.queue)
      /\ Payload(b.queue) = Payload(<<Head(b.queue)>>) + Payload(Tail(b.queue))
  BY <1>1, BurstsTaken
<1>3. /\ n.got = b.got /\ n.abandoned = b.abandoned /\ n.finished = b.finished /\ n.writer = "write"
      /\ n.hand = Head(b.queue) /\ n.queue = Tail(b.queue)
  BY DEF Outboxes, Taken
<1>4. Hand(b) = <<>> /\ Hand(n) = <<Head(b.queue)>>
  BY <1>3 DEF Hand
<1>5. <<>> \o b.queue = b.queue
  BY <1>1, ConcatEmptySeq
<1>6. Stream(n) = Stream(b)
  <2>1. Stream(n) = b.got \o (<<Head(b.queue)>> \o Tail(b.queue))
    BY <1>3, <1>4 DEF Stream
  <2>2. Stream(b) = b.got \o (<<>> \o b.queue)
    BY <1>4 DEF Stream
  <2> QED
    BY <1>2, <1>5, <2>1, <2>2
<1>7. Given(n) = Given(b) /\ Payload(n.queue) <= Payload(b.queue)
  <2>1. Payload(<<Head(b.queue)>>) \in Nat /\ Payload(Tail(b.queue)) \in Nat
    BY <1>2, OneBurst, BurstsFinite
  <2>2. Given(n) = Payload(b.got) + Payload(<<Head(b.queue)>>) + Payload(Tail(b.queue))
    BY <1>3, <1>4 DEF Given
  <2>3. Given(b) = Payload(b.got) + 0 + Payload(b.queue)
    BY <1>4, NoBursts DEF Given
  <2>4. Payload(n.queue) = Payload(Tail(b.queue))
    BY <1>3
  <2>5. Payload(b.got) \in Nat /\ Payload(b.queue) = Payload(<<Head(b.queue)>>) + Payload(Tail(b.queue))
    BY <1>1, <1>2
  <2> QED
    BY <2>1, <2>2, <2>3, <2>4, <2>5
<1> QED
  BY <1>3, <1>6, <1>7

\* A written message is read instead of held.
LEMMA WriteStream ==
    ASSUME NEW b \in Outboxes, NEW n, b.writer = "write",
           n = Written(b)
    PROVE  /\ Stream(n) = Stream(b) /\ Given(n) = Given(b) /\ n.queue = b.queue
           /\ n.abandoned = b.abandoned /\ n.finished = b.finished /\ n.writer = "take"
<1>1. /\ b.got \in Seq(Messages) /\ b.queue \in Seq(Messages) /\ b.hand \in Messages
      /\ Payload(b.got) \in Nat /\ Payload(b.queue) \in Nat
  BY StreamType DEF Outboxes
<1>2. /\ n.queue = b.queue /\ n.abandoned = b.abandoned /\ n.finished = b.finished /\ n.writer = "take"
      /\ n.got = Append(b.got, b.hand)
  BY DEF Outboxes, Written
<1>3. Hand(b) = <<b.hand>> /\ Hand(n) = <<>> /\ <<b.hand>> \in Seq(Messages)
  BY <1>1, <1>2, OneBurst DEF Hand
<1>4. Stream(n) = Stream(b)
  <2>1. <<>> \o b.queue = b.queue /\ Append(b.got, b.hand) = b.got \o <<b.hand>>
    BY <1>1, ConcatEmptySeq, AppendedToEnd
  <2>2. (b.got \o <<b.hand>>) \o b.queue = b.got \o (<<b.hand>> \o b.queue)
    <3>1. PICK h \in Seq(Messages) : h = <<b.hand>>
      BY <1>3
    <3>2. (b.got \o h) \o b.queue = b.got \o (h \o b.queue)
      BY <1>1, Associativity, Zenon
    <3> QED
      BY <3>1, <3>2
  <2> QED
    BY <1>2, <1>3, <2>1, <2>2 DEF Stream
<1>5. Given(n) = Given(b)
  <2>1. Payload(n.got) = Payload(b.got) + Payload(<<b.hand>>) /\ Payload(<<b.hand>>) \in Nat
    BY <1>1, <1>2, <1>3, OneBurst, BurstsAppended, BurstsFinite
  <2> QED
    BY <1>1, <1>2, <1>3, <2>1, NoBursts DEF Given
<1> QED
  BY <1>2, <1>4, <1>5

\* A writer that stops leaves what was read.
LEMMA EndStream ==
    ASSUME NEW b \in Outboxes, NEW n, n = Ended(b)
    PROVE  /\ Begins(Stream(n), Stream(b)) /\ Given(n) <= Given(b) /\ n.queue = b.queue /\ n.got = b.got
           /\ n.abandoned = b.abandoned /\ n.finished = b.finished /\ n.writer = "done"
<1>1. /\ n.queue = b.queue /\ n.abandoned = b.abandoned /\ n.finished = b.finished /\ n.writer = "done"
      /\ n.got = b.got
  BY DEF Outboxes, Ended
<1>2. Stream(n) = b.got /\ Hand(n) = <<>>
  BY <1>1 DEF Stream, Hand
<1> QED
  BY <1>1, <1>2, StreamType, NoBursts DEF Given

\* A new outbox begins with the acknowledgement and the opening output.
LEMMA OpenStream ==
    ASSUME NEW held \in Seq(Messages), \A i \in DOMAIN held : held[i].kind = "Output", Len(held) <= Backlog,
           NEW n, n = [Send(NoOutbox, <<Attached>> \o held) EXCEPT !.writer = "take"]
    PROVE  /\ Stream(n) = <<Attached>> \o held /\ Given(n) = Len(held) /\ Payload(n.queue) = Len(held)
           /\ n.got = <<>> /\ ~n.abandoned /\ ~n.finished /\ n.writer = "take" /\ n.queue # <<>>
<1> DEFINE s == <<Attached>> \o held
<1>1. s \in Seq(Messages) /\ Payload(s) = Len(held) /\ s # <<>> /\ <<>> \o s = s /\ Len(held) \in Nat
  BY OrderOfOpening, ShapeOfOpening, ConcatEmptySeq
<1> HIDE DEF s
<1>2. NoOutbox.queue \o s = s /\ ~NoOutbox.abandoned /\ ~NoOutbox.finished
  BY <1>1 DEF NoOutbox
<1>3. Send(NoOutbox, s) = [NoOutbox EXCEPT !.queue = s]
  BY <1>1, <1>2, BoundsAssumption DEF Send, Queue, Overflows
<1>4. /\ n.queue = s /\ n.got = <<>> /\ n.abandoned = FALSE /\ n.finished = FALSE /\ n.writer = "take"
  BY <1>3 DEF NoOutbox, s
<1>5. Hand(n) = <<>> /\ Stream(n) = s
  <2>1. Hand(n) = <<>>
    BY <1>4 DEF Hand
  <2> QED
    BY <1>1, <1>4, <2>1 DEF Stream
<1>6. Given(n) = Len(held)
  BY <1>1, <1>4, <1>5, NoBursts DEF Given
<1> QED
  BY <1>1, <1>4, <1>5, <1>6 DEF s

-----------------------------------------------------------------------------
(* What is promised to a client. *)

Promise(start, routed) ==
    start.held \o [i \in 1..(routed - start.after) |-> Output(start.after + i)]

\* What is promised to a client depends on its start and the bursts routed, before and
\* after a step.
LEMMA PromisedIsPromise ==
    \A c \in Clients : /\ Promised(c) = Promise(history.joined[c], app.routed)
                       /\ Promised(c)' = Promise(history'.joined[c], app'.routed)
  BY DEF Promised, Promise

\* The promise is of messages, one for each burst that is held for the client at
\* its installation and for each that is routed later.
LEMMA PromiseType ==
    ASSUME NEW start \in Starts, NEW routed \in Nat, start.after <= routed
    PROVE  /\ Promise(start, routed) \in Seq(Messages) /\ start.held \in Seq(Messages) /\ start.after \in Nat
           /\ Len(Promise(start, routed)) = Len(start.held) + (routed - start.after)
           /\ \A k \in 1 .. Len(start.held) : Promise(start, routed)[k] = start.held[k]
           /\ \A k \in 1 .. (routed - start.after) :
                 Promise(start, routed)[Len(start.held) + k] = Output(start.after + k)
<1> DEFINE held == start.held
           after == start.after
           later == [i \in 1..(routed - after) |-> Output(after + i)]
<1>1. held \in Seq(Messages) /\ after \in Nat /\ routed - after \in Nat
  BY DEF Starts
<1>2. later \in Seq(Messages) /\ Len(later) = routed - after /\ DOMAIN later = 1 .. (routed - after)
  <2>1. \A i \in 1..(routed - after) : Output(after + i) \in Messages
    BY <1>1, MessageTypes
  <2> QED
    BY <1>1, <2>1
<1>3. Promise(start, routed) = held \o later
  BY DEF Promise
<1>4. \A k \in 1 .. (routed - after) : later[k] = Output(after + k)
  OBVIOUS
<1> HIDE DEF held, later, after
<1>5. /\ held \o later \in Seq(Messages) /\ Len(held \o later) = Len(held) + Len(later)
      /\ \A k \in 1 .. Len(held) : (held \o later)[k] = held[k]
      /\ \A k \in 1 .. Len(later) : (held \o later)[Len(held) + k] = later[k]
  BY <1>1, <1>2
<1>6. \A k \in 1 .. (routed - after) : Promise(start, routed)[Len(held) + k] = Output(after + k)
  BY <1>2, <1>3, <1>4, <1>5
<1> QED
  BY <1>1, <1>2, <1>3, <1>5, <1>6 DEF held, after

\* It is longer by each burst that is routed, ...
LEMMA PromiseGrows ==
    ASSUME NEW start \in Starts, NEW routed \in Nat, start.after <= routed
    PROVE  /\ Len(Promise(start, routed + 1)) = Len(Promise(start, routed)) + 1
           /\ \A k \in DOMAIN Promise(start, routed) :
                 k \in DOMAIN Promise(start, routed + 1) /\ Promise(start, routed + 1)[k] = Promise(start, routed)[k]
<1>1. PICK n \in Nat, r \in Nat : n = Len(start.held) /\ r = routed - start.after
  BY PromiseType
<1>2. /\ Promise(start, routed) \in Seq(Messages) /\ Len(Promise(start, routed)) = n + r
      /\ \A k \in 1 .. n : Promise(start, routed)[k] = start.held[k]
      /\ \A k \in 1 .. r : Promise(start, routed)[n + k] = Output(start.after + k)
  BY <1>1, PromiseType
<1>3. start.after <= routed + 1 /\ routed + 1 \in Nat /\ r + 1 = routed + 1 - start.after
  BY <1>1, PromiseType
<1>4. /\ Promise(start, routed + 1) \in Seq(Messages) /\ Len(Promise(start, routed + 1)) = n + (r + 1)
      /\ \A k \in 1 .. n : Promise(start, routed + 1)[k] = start.held[k]
      /\ \A k \in 1 .. (r + 1) : Promise(start, routed + 1)[n + k] = Output(start.after + k)
  BY <1>1, <1>3, PromiseType
<1>5. /\ DOMAIN Promise(start, routed) = 1 .. (n + r) /\ DOMAIN Promise(start, routed + 1) = 1 .. (n + r + 1)
      /\ Len(Promise(start, routed)) = n + r /\ Len(Promise(start, routed + 1)) = n + r + 1
  BY <1>2, <1>4
<1>6. ASSUME NEW k \in 1 .. (n + r) PROVE Promise(start, routed + 1)[k] = Promise(start, routed)[k]
  <2>1. CASE k <= n
    BY <1>2, <1>4, <2>1
  <2>2. CASE ~(k <= n)
    <3>1. k - n \in 1 .. r /\ k - n \in 1 .. (r + 1) /\ n + (k - n) = k
      BY <2>2
    <3> QED
      BY <1>2, <1>4, <3>1
  <2> QED
    BY <2>1, <2>2
<1> QED
  BY <1>5, <1>6

\* ... which it then ends with.
LEMMA PromiseEnds ==
    ASSUME NEW start \in Starts, NEW routed \in Nat, start.after < routed
    PROVE  LET p == Promise(start, routed) IN Len(p) \in DOMAIN p /\ p[Len(p)] = Output(routed)
<1>0. start.after <= routed
  BY DEF Starts
<1>1. PICK n \in Nat, r \in Nat : n = Len(start.held) /\ r = routed - start.after
  BY <1>0, PromiseType
<1>2. /\ Promise(start, routed) \in Seq(Messages) /\ Len(Promise(start, routed)) = n + r
      /\ \A k \in 1 .. r : Promise(start, routed)[n + k] = Output(start.after + k)
  BY <1>0, <1>1, PromiseType
<1>3. r \in 1 .. r /\ start.after + r = routed /\ n + r \in 1 .. (n + r)
  BY <1>0, <1>1, PromiseType
<1>4. Promise(start, routed)[n + r] = Output(routed) /\ DOMAIN Promise(start, routed) = 1 .. (n + r)
  BY <1>2, <1>3
<1> QED
  BY <1>2, <1>3, <1>4

\* Nothing has been routed since to a client that is just installed.
LEMMA PromiseBegins ==
    ASSUME NEW start \in Starts
    PROVE  Promise(start, start.after) = start.held
<1>1. start.held \in Seq(Messages) /\ start.after \in Nat
  BY DEF Starts
<1>2. [i \in 1..(start.after - start.after) |-> Output(start.after + i)] = <<>>
  BY <1>1
<1> QED
  BY <1>1, <1>2, Concatenations DEF Promise

-----------------------------------------------------------------------------
(* The pump, and the actions that leave the streams alone. *)

\* No burst is routed past what the app has written, and none once admission has
\* ended, whatever happens.
LEMMA PumpStep ==
    ASSUME TypeOK, PumpInv, [Next]_vars PROVE PumpInv'
<1>0. /\ app \in Apps /\ shared \in Gates /\ serve \in Serves /\ NoClient \notin Clients
      /\ app.routed \in Nat /\ app.produced \in Nat
  BY ClientsAssumption DEF TypeOK, Apps
<1>1. ASSUME app' = app, serve'.pumped = serve.pumped,
             shared'.stopping => shared.stopping /\ shared'.slot = shared.slot /\ shared'.attach = shared.attach
      PROVE  PumpInv'
  BY <1>1 DEF PumpInv
<1>2. ASSUME NEW c \in Clients, Relay(c) PROVE PumpInv'
  <2>1. CASE HandshakeFails(c) \/ AttachRefused(c) \/ AnnounceAttached(c) \/ Apply(c) \/ ReceiveFails(c)
             \/ ReleaseConnection(c)
    BY <1>1, <2>1 DEF HandshakeFails, AttachRefused, AnnounceAttached, Apply, ReceiveFails, ReleaseConnection
  <2>2. CASE Install(c)
    <3>1. app' = app /\ serve' = serve /\ ~shared'.stopping
      BY <1>0, <2>2 DEF Install, Gates
    <3> QED
      BY <1>1, <3>1
  <2>3. CASE Displace(c)
    <3>1. app' = app /\ serve' = serve /\ shared'.stopping = shared.stopping
          /\ shared'.slot = shared.slot /\ shared'.attach = shared.attach
      BY <1>0, <2>3 DEF Displace, Gates
    <3> QED
      BY <1>1, <3>1
  <2>6. CASE AbandonDisplaced(c)
    BY <1>1, <2>6 DEF AbandonDisplaced
  <2>4. CASE EndAttach(c)
    <3>1. app' = app /\ serve' = serve /\ shared'.stopping = shared.stopping
          /\ shared'.slot = shared.slot /\ shared'.attach = NoClient
      BY <1>0, <2>4 DEF EndAttach, Gates
    <3> QED
      BY <3>1 DEF PumpInv
  <2>5. CASE Detach(c)
    <3>1. app' = app /\ serve' = serve /\ shared'.stopping = shared.stopping
          /\ shared'.slot \in {shared.slot, NoClient} /\ shared'.attach = shared.attach
      BY <1>0, <2>5 DEF Detach, Gates
    <3> QED
      BY <3>1 DEF PumpInv
  <2> QED
    BY <1>2, <2>1, <2>2, <2>3, <2>4, <2>5, <2>6 DEF Relay
<1>3. ASSUME NEW c \in Clients, TakeNext(c) \/ Write(c) \/ WriterEnds(c)
                                  \/ Connect(c) \/ AcceptFails(c) \/ Type(c) \/ Leave(c)
      PROVE  PumpInv'
  <2>1. app' = app /\ shared' = shared /\ serve'.pumped = serve.pumped
    BY <1>0, <1>3 DEF TakeNext, Write, WriterEnds, Connect, AcceptFails, Type, Leave, Serves
  <2> QED
    BY <1>1, <2>1
<1>4. CASE AppWrites \/ PumpEnds \/ PumpFails
  <2>1. /\ shared' = shared /\ app'.to = app.to /\ app'.routed = app.routed
        /\ \/ /\ ~app.jobClosed /\ app'.produced = app.produced + 1 /\ app'.jobClosed = app.jobClosed
              /\ app'.pump = app.pump /\ app'.finishing = app.finishing /\ serve' = serve
           \/ /\ app.pump = "read" /\ app.finishing /\ app.routed = app.produced /\ serve' = serve
              /\ app'.pump = "done" /\ app'.produced = app.produced
              /\ app'.finishing = app.finishing /\ app'.jobClosed = app.jobClosed
           \/ /\ app.pump = "read" /\ app'.pump = "done" /\ app'.jobClosed /\ app'.produced = app.produced
              /\ app'.finishing = app.finishing /\ serve'.pumped = FALSE
    BY <1>0, <1>4 DEF AppWrites, PumpEnds, PumpFails, Apps, Serves
  <2> QED
    BY <1>0, <2>1 DEF PumpInv
<1>5. CASE Route
  <2>1. /\ serve' = serve /\ app.pump = "read" /\ app.routed < app.produced /\ app'.routed = app.routed + 1
        /\ app'.produced = app.produced /\ app'.finishing = app.finishing /\ app'.jobClosed = app.jobClosed
        /\ \/ app'.pump = "read" /\ app'.to = app.to
           \/ app'.pump = "send" /\ app'.to # NoClient
        /\ shared'.stopping = shared.stopping
    BY <1>0, <1>5 DEF Route, Apps, Gates
  <2> QED
    BY <1>0, <2>1 DEF PumpInv
<1>6. CASE SendOutput
  <2>1. /\ serve' = serve /\ app.pump = "send" /\ app'.routed = app.routed
        /\ app'.produced = app.produced /\ app'.finishing = app.finishing /\ app'.jobClosed = app.jobClosed
        /\ \/ app'.pump = "read" /\ app'.to = NoClient
           \/ app'.pump = "abandon" /\ app'.to = app.to
        /\ shared' = shared
    BY <1>0, <1>6 DEF SendOutput, Apps
  <2> QED
    BY <1>0, <2>1 DEF PumpInv
<1>12. CASE AbandonOverflowed
  <2>1. /\ serve' = serve /\ app.pump = "abandon" /\ app'.routed = app.routed
        /\ app'.produced = app.produced /\ app'.finishing = app.finishing /\ app'.jobClosed = app.jobClosed
        /\ app'.pump = "read" /\ app'.to = NoClient /\ shared' = shared
    BY <1>0, <1>12 DEF AbandonOverflowed, Apps
  <2> QED
    BY <1>0, <2>1 DEF PumpInv
<1>7. CASE WaitApp \/ WaitFails \/ DeleteRecord \/ Exit
  <2>1. app' = app /\ shared' = shared /\ serve'.pumped = serve.pumped
    BY <1>0, <1>7 DEF WaitApp, WaitFails, DeleteRecord, Exit, ServeAt, Serves
  <2> QED
    BY <1>1, <2>1
<1>8. CASE CloseSession
  <2>1. /\ shared' = shared /\ serve'.pumped = serve.pumped /\ app'.jobClosed
        /\ app'.routed = app.routed /\ app'.produced = app.produced /\ app'.pump = app.pump /\ app'.to = app.to
    BY <1>0, <1>8 DEF CloseSession, Apps, Serves
  <2> QED
    BY <2>1 DEF PumpInv
<1>9. CASE StopClients
  <2>1. /\ app' = app /\ app.pump = "done" /\ serve'.pumped = serve.pumped
        /\ shared'.slot = NoClient /\ shared'.attach = NoClient
    BY <1>0, <1>9 DEF StopClients, PumpJoined, Gates, Serves
  <2> QED
    BY <2>1 DEF PumpInv
<1>10. CASE Recorder
  BY <1>1, <1>10 DEF Recorder, ReceiveUpdate, PublishRecord
<1>11. CASE UNCHANGED vars
  BY <1>1, <1>11 DEF vars, state
<1> QED
  BY <1>2, <1>3, <1>4, <1>5, <1>6, <1>7, <1>8, <1>9, <1>10, <1>11, <1>12
     DEF Next, Process, Pump, Serve, Terminated

\* No burst is routed, sent, or found too much.
BurstsSteady ==
    /\ app'.to = app.to /\ app'.routed = app.routed
    /\ app'.pump = "send" <=> app.pump = "send"
    /\ app'.pump = "abandon" <=> app.pump = "abandon"

\* Nobody is installed, displaced or taken out, no outbox changes, and no burst is
\* routed.
StreamsSteady ==
    /\ outbox' = outbox
    /\ shared'.attach = shared.attach /\ shared'.slot = shared.slot /\ shared'.previous = shared.previous
    /\ shared'.preamble = shared.preamble /\ shared'.stopping = shared.stopping
    /\ BurstsSteady
    /\ serve'.final = serve.final /\ (shared.stopping => serve'.pumped = serve.pumped)
    /\ history'.installs = history.installs /\ history'.joined = history.joined
    /\ \A c \in Clients :
          \/ client'[c].relay = client[c].relay
          \/ client[c].relay \in {"none", "handshake"} /\ client'[c].relay \in {"handshake", "done"}
          \/ /\ client[c].relay \in {"announce", "relaying"}
             /\ client'[c].relay \in {"relaying", "detach", "panicked"}

\* Such a step keeps the streams what they are.
LEMMA SteadyStreams ==
    ASSUME TypeOK, StreamInv, PumpInv', StreamsSteady PROVE StreamInv'
<1>1. \A c \in Clients : Promised(c)' = Promised(c) /\ Carried(c)' = Carried(c) /\ Joined(c)' = Joined(c)
  BY DEF StreamsSteady, BurstsSteady, Promised, Carried, Joined
<1>2. \A c \in Clients : /\ client'[c].relay = "displace" <=> client[c].relay = "displace"
                         /\ client'[c].relay = "resize" <=> client[c].relay = "resize"
                         /\ client'[c].relay = "abandon" <=> client[c].relay = "abandon"
                         /\ client'[c].relay \in {"none", "handshake"} => client[c].relay \in {"none", "handshake"}
                         /\ client'[c].relay \notin {"none", "handshake", "done"} =>
                               client[c].relay \notin {"none", "handshake", "done"}
  BY DEF StreamsSteady
<1>3. Displacing' = Displacing /\ Installed' = Installed
  BY <1>2 DEF StreamsSteady, Displacing, Installed
<1>4. JoinedInv'
  BY <1>1, <1>2, <1>3 DEF StreamInv, JoinedInv, StreamsSteady, BurstsSteady
<1>5. AttachInv'
  BY <1>2 DEF StreamInv, AttachInv, StreamsSteady
<1>6. OpeningInv'
  BY DEF StreamInv, OpeningInv, StreamsSteady, BurstsSteady
<1>7. AccountsInv'
  BY <1>1 DEF StreamInv, AccountsInv, StreamsSteady, BurstsSteady
<1>8. ShapeInv'
  BY <1>1 DEF StreamInv, ShapeInv, StreamsSteady
<1>9. NoticesInv'
  BY <1>3 DEF StreamInv, NoticesInv, StreamsSteady
<1> QED
  BY <1>4, <1>5, <1>6, <1>7, <1>8, <1>9 DEF StreamInv

\* Relays between their attach and its end leave the streams alone, ...
LEMMA SteadyRelay ==
    ASSUME TypeOK, NEW c \in Clients,
           HandshakeFails(c) \/ AttachRefused(c) \/ AnnounceAttached(c) \/ Apply(c) \/ ReceiveFails(c)
    PROVE  StreamsSteady
<1>0. client \in [Clients -> Connections] /\ history \in Histories
  BY DEF TypeOK
<1>1. \A d \in Clients : d # c => client'[d].relay = client[d].relay
  BY <1>0 DEF HandshakeFails, AttachRefused, AnnounceAttached, Apply, ReceiveFails, CloseAndEnd, GoTo
<1>2. \/ client[c].relay = "handshake" /\ client'[c].relay = "done"
      \/ client[c].relay = "announce" /\ client'[c].relay = "relaying"
      \/ client[c].relay = "relaying" /\ client'[c].relay \in {"relaying", "detach", "panicked"}
  <2>1. CASE HandshakeFails(c) \/ AttachRefused(c)
    BY <1>0, <2>1 DEF HandshakeFails, AttachRefused, MayLock, CloseAndEnd, Connections
  <2>2. CASE AnnounceAttached(c)
    BY <1>0, <2>2 DEF AnnounceAttached, Moved, Connections
  <2>4. CASE ReceiveFails(c)
    BY <1>0, <2>4 DEF ReceiveFails, GoTo, Connections
  <2>3. CASE Apply(c)
    <3>1. PICK there \in {"relaying", "detach", "panicked"} : client' = [client EXCEPT ![c] = Spent(@, there)]
      BY <2>3 DEF Apply
    <3>2. client[c].relay = "relaying"
      BY <2>3 DEF Apply
    <3> QED
      BY <1>0, <3>1, <3>2 DEF Spent, Connections
  <2> QED
    BY <2>1, <2>2, <2>3, <2>4
<1>3. history'.installs = history.installs /\ history'.joined = history.joined
  BY <1>0 DEF HandshakeFails, AttachRefused, AnnounceAttached, Apply, ReceiveFails, Histories
<1>4. outbox' = outbox /\ shared' = shared /\ app' = app /\ serve' = serve
  BY DEF HandshakeFails, AttachRefused, AnnounceAttached, Apply, ReceiveFails
<1> QED
  BY <1>1, <1>2, <1>3, <1>4 DEF StreamsSteady, BurstsSteady

\* ... and so do clients that come, type and go, ...
LEMMA SteadyClient ==
    ASSUME TypeOK, NewcomersIdle, NEW c \in Clients, Connect(c) \/ AcceptFails(c) \/ Type(c) \/ Leave(c)
    PROVE  StreamsSteady
<1>0. client \in [Clients -> Connections] /\ history \in Histories /\ serve \in Serves
  BY DEF TypeOK
<1>1. \A d \in Clients : \/ client'[d].relay = client[d].relay
                         \/ client[d].relay = "none" /\ client'[d].relay = "handshake"
  <2>1. CASE Connect(c)
    <3>1. PICK asks : client' = [client EXCEPT ![c] = [@ EXCEPT !.conn = "open", !.relay = "handshake",
                                                                !.asked = asks]]
      BY <2>1 DEF Connect
    <3>2. client[c].relay = "none"
      BY <2>1 DEF Connect, NewcomersIdle
    <3> QED
      BY <1>0, <3>1, <3>2 DEF Connections
  <2>2. CASE AcceptFails(c) \/ Type(c) \/ Leave(c)
    BY <1>0, <2>2 DEF AcceptFails, Type, Leave, Connections
  <2> QED
    BY <2>1, <2>2
<1>2. /\ history'.installs = history.installs /\ history'.joined = history.joined
      /\ serve'.final = serve.final /\ serve'.pumped = serve.pumped
  BY <1>0 DEF Connect, AcceptFails, Type, Leave, Histories, Serves
<1>3. outbox' = outbox /\ shared' = shared /\ app' = app
  BY DEF Connect, AcceptFails, Type, Leave
<1> QED
  BY <1>1, <1>2, <1>3 DEF StreamsSteady, BurstsSteady

\* ... the app and the end of the pump, ...
LEMMA SteadyApp ==
    ASSUME TypeOK, PumpInv, AppWrites \/ PumpEnds \/ PumpFails PROVE StreamsSteady
<1>0. serve \in Serves /\ app \in Apps
  BY DEF TypeOK
<1>1. /\ BurstsSteady /\ serve'.final = serve.final
      /\ (shared.stopping => serve'.pumped = serve.pumped)
  BY <1>0 DEF PumpInv, AppWrites, PumpEnds, PumpFails, Serves, Apps, BurstsSteady
<1> QED
  BY <1>1 DEF AppWrites, PumpEnds, PumpFails, StreamsSteady

\* ... the teardown but for its end of admission, and the record writer.
LEMMA SteadyServe ==
    ASSUME TypeOK, WaitApp \/ WaitFails \/ CloseSession \/ DeleteRecord \/ Exit \/ Recorder PROVE StreamsSteady
<1>0. serve \in Serves /\ app \in Apps
  BY DEF TypeOK
<1>1. BurstsSteady
  BY <1>0 DEF WaitApp, WaitFails, CloseSession, DeleteRecord, Exit, Recorder, ReceiveUpdate, PublishRecord, Apps,
     BurstsSteady
<1>2. serve'.final = serve.final /\ serve'.pumped = serve.pumped
  <2>1. \/ serve' = serve
        \/ \E at \in {"gate", "close", "flush", "exited"} : serve' = [serve EXCEPT !.at = at]
        \/ serve' = [serve EXCEPT !.at = "close", !.waited = FALSE]
        \/ serve' = [serve EXCEPT !.at = "stop", !.listening = FALSE]
    BY DEF WaitApp, WaitFails, CloseSession, DeleteRecord, Exit, ServeAt, Recorder, ReceiveUpdate, PublishRecord
  <2> QED
    BY <1>0, <2>1 DEF Serves
<1>3. \A c \in Clients : client'[c].relay = client[c].relay
  BY DisconnectedKeeps DEF WaitApp, WaitFails, CloseSession, DeleteRecord, Exit, Recorder, ReceiveUpdate,
     PublishRecord
<1>4. outbox' = outbox /\ shared' = shared /\ history' = history
  BY DEF WaitApp, WaitFails, CloseSession, DeleteRecord, Exit, Recorder, ReceiveUpdate, PublishRecord
<1> QED
  BY <1>1, <1>2, <1>3, <1>4 DEF StreamsSteady

-----------------------------------------------------------------------------
(* Streams that are passed on or cut off. *)

\* What becomes of an outbox that is sent nothing.
Reduced(b, n) ==
    /\ b.writer = "none" <=> n.writer = "none"
    /\ b.writer = "none" => n = b
    /\ Begins(Stream(n), Stream(b)) /\ Given(n) <= Given(b) /\ Payload(n.queue) <= Payload(b.queue)
    /\ Writing(n) => Writing(b) /\ Stream(n) = Stream(b) /\ Given(n) = Given(b)
    /\ n.abandoned => n.queue = <<>>
    /\ b.finished => n.finished

\* An outbox that is left alone, ...
LEMMA ReducedSame ==
    ASSUME NEW b \in Outboxes, b.abandoned => b.queue = <<>>
    PROVE  Reduced(b, b)
<1>1. Stream(b) \in Seq(Messages) /\ Given(b) \in Nat /\ Payload(b.queue) \in Nat
  BY StreamType
<1>2. Begins(Stream(b), Stream(b)) /\ Given(b) <= Given(b) /\ Payload(b.queue) <= Payload(b.queue)
  BY <1>1 DEF Begins
<1> QED
  BY <1>2 DEF Reduced

\* ... given up ...
LEMMA ReducedAbandoned ==
    ASSUME NEW b \in Outboxes, b.writer # "none"
    PROVE  Reduced(b, Abandon(b))
<1>1. Payload(b.queue) \in Nat
  BY StreamType
<1> QED
  BY <1>1, AbandonStream DEF Reduced, Writing

\* ... or finished is sent nothing.
LEMMA ReducedFinished ==
    ASSUME NEW b \in Outboxes, b.writer # "none", b.abandoned => b.queue = <<>>
    PROVE  Reduced(b, Finish(b))
<1>1. Stream(b) \in Seq(Messages) /\ Given(b) \in Nat /\ Payload(b.queue) \in Nat
  BY StreamType
<1>2. Begins(Stream(b), Stream(b)) /\ Given(b) <= Given(b) /\ Payload(b.queue) <= Payload(b.queue)
  BY <1>1 DEF Begins
<1> QED
  BY <1>2, FinishStream DEF Reduced, Writing

\* Streams that are only reduced keep their shape and their accounts, if nobody is
\* installed or displaced.
LEMMA ReducedStreams ==
    ASSUME TypeOK, TypeOK', StreamInv, BurstsSteady \/ AbandonOverflowed,
           history'.installs = history.installs, history'.joined = history.joined,
           shared'.preamble = shared.preamble, shared'.stopping = shared.stopping,
           serve'.final = serve.final, serve'.pumped = serve.pumped,
           shared'.slot \in {shared.slot, NoClient}, shared'.previous \in {shared.previous, NoClient},
           \A c \in Clients : /\ client'[c].relay = "displace" <=> client[c].relay = "displace"
                              /\ client'[c].relay \in {"none", "handshake"} => client[c].relay \in {"none", "handshake"}
                              /\ client'[c].relay \notin {"none", "handshake", "done"} =>
                                    client[c].relay \notin {"none", "handshake", "done"}
                              /\ Reduced(outbox[c], outbox'[c])
                              /\ c \in {shared'.slot, shared'.previous} =>
                                    outbox'[c].finished = outbox[c].finished
    PROVE  JoinedInv' /\ OpeningInv' /\ AccountsInv' /\ ShapeInv' /\ NoticesInv'
<1>0. NoClient \notin Clients /\ \A c \in Clients : outbox[c] \in Outboxes /\ outbox'[c] \in Outboxes
  BY ClientsAssumption DEF TypeOK
<1>9. /\ app'.routed = app.routed /\ app'.to \in {app.to, NoClient}
      /\ app'.pump = "send" <=> app.pump = "send"
      /\ \A c \in Clients : app.pump = "send" /\ app.to = c <=> app'.pump = "send" /\ app'.to = c
      /\ \A c \in Clients : app.pump = "abandon" /\ app.to = c =>
            (app'.pump = "abandon" /\ app'.to = c) \/ outbox'[c].queue = <<>>
  <2>1. CASE BurstsSteady
    BY <2>1 DEF BurstsSteady
  <2>2. CASE AbandonOverflowed
    <3>1. app'.routed = app.routed /\ app'.to = NoClient /\ app'.pump = "read" /\ app.pump = "abandon"
      BY <2>2 DEF AbandonOverflowed, TypeOK, Apps
    <3>2. \A c \in Clients : app.to = c => outbox'[c] = Abandon(outbox[c])
      BY <2>2 DEF AbandonOverflowed, TypeOK
    <3>3. \A c \in Clients : Abandon(outbox[c]).queue = <<>>
      BY <1>0 DEF Abandon, Outboxes
    <3> QED
      BY <3>1, <3>2, <3>3
  <2> QED
    BY <2>1, <2>2
<1>1. \A c \in Clients : /\ Promised(c)' = Promised(c) /\ Carried(c)' = Carried(c) /\ Joined(c)' = Joined(c)
                         /\ ~Joined(c) => outbox'[c] = outbox[c]
  BY <1>9 DEF Promised, Carried, Joined, Reduced
<1>2. Displacing' = Displacing /\ Installed' = Installed
  BY DEF Displacing, Installed
<1>3. JoinedInv'
  BY <1>0, <1>1, <1>2, <1>9 DEF StreamInv, JoinedInv
<1>4. OpeningInv'
  BY <1>0, <1>9 DEF StreamInv, OpeningInv
<1>5. AccountsInv'
  <2> SUFFICES ASSUME NEW c \in Clients
               PROVE  /\ Payload(outbox'[c].queue) > Backlog => app'.pump = "abandon" /\ app'.to = c
                      /\ outbox'[c].abandoned => outbox'[c].queue = <<>>
                      /\ Joined(c)' => Given(outbox'[c]) + Carried(c)' <= Len(Promised(c)')
                      /\ Writing(outbox'[c]) /\ ~outbox'[c].finished /\ c \in {shared'.slot, app'.to} =>
                            Given(outbox'[c]) + Carried(c)' = Len(Promised(c)')
    BY DEF AccountsInv
  <2>1. /\ Payload(outbox[c].queue) \in Nat /\ Payload(outbox'[c].queue) \in Nat
        /\ Given(outbox[c]) \in Nat /\ Given(outbox'[c]) \in Nat /\ Backlog \in Nat
        /\ Carried(c) \in Nat
    BY <1>0, StreamType, BoundsAssumption DEF Carried
  <2>2. history.joined[c].after <= app.routed
    BY DEF StreamInv, OpeningInv
  <2>3. Len(Promised(c)) \in Nat
    <3>1. history.joined[c] \in Starts /\ app.routed \in Nat
      BY DEF TypeOK, Histories, Apps
    <3>2. Promised(c) \in Seq(Messages)
      BY <2>2, <3>1, PromiseType, PromisedIsPromise
    <3> QED
      BY <3>2
  <2>4. /\ Payload(outbox[c].queue) > Backlog => app.pump = "abandon" /\ app.to = c
        /\ Joined(c) => Given(outbox[c]) + Carried(c) <= Len(Promised(c))
        /\ Writing(outbox[c]) /\ ~outbox[c].finished /\ c \in {shared.slot, app.to} =>
              Given(outbox[c]) + Carried(c) = Len(Promised(c))
    BY DEF StreamInv, AccountsInv
  <2>5. Reduced(outbox[c], outbox'[c])
    OBVIOUS
  <2>6. Payload(outbox'[c].queue) > Backlog => app'.pump = "abandon" /\ app'.to = c
    <3>1. Payload(outbox'[c].queue) <= Payload(outbox[c].queue)
      BY <2>5 DEF Reduced
    <3>2. outbox'[c].queue = <<>> => Payload(outbox'[c].queue) = 0
      BY NoBursts
    <3> QED
      BY <1>9, <2>1, <2>4, <3>1, <3>2
  <2>7. outbox'[c].abandoned => outbox'[c].queue = <<>>
    BY <2>5 DEF Reduced
  <2>8. Joined(c)' => Given(outbox'[c]) + Carried(c)' <= Len(Promised(c)')
    BY <1>1, <2>1, <2>3, <2>4, <2>5 DEF Reduced
  <2>9. Writing(outbox'[c]) /\ ~outbox'[c].finished /\ c \in {shared'.slot, app'.to} =>
            Given(outbox'[c]) + Carried(c)' = Len(Promised(c)')
    BY <1>0, <1>1, <1>9, <2>4, <2>5 DEF Reduced
  <2> QED
    BY <2>6, <2>7, <2>8, <2>9
<1>6. ASSUME NEW c \in Clients
      PROVE  /\ WellFormed(Stream(outbox'[c]), Promised(c)')
             /\ Writing(outbox'[c]) => Stream(outbox'[c]) # <<>>
             /\ NoticeFree(Stream(outbox[c])) => NoticeFree(Stream(outbox'[c]))
             /\ ExitFree(Stream(outbox[c])) => ExitFree(Stream(outbox'[c]))
  <2>1. Stream(outbox[c]) \in Seq(Messages) /\ Stream(outbox'[c]) \in Seq(Messages)
    BY <1>0, StreamType
  <2>2. WellFormed(Stream(outbox[c]), Promised(c)) /\ (Writing(outbox[c]) => Stream(outbox[c]) # <<>>)
    BY DEF StreamInv, ShapeInv
  <2>3. Begins(Stream(outbox'[c]), Stream(outbox[c]))
    BY DEF Reduced
  <2>4. Writing(outbox'[c]) => Stream(outbox'[c]) # <<>>
    BY <2>2 DEF Reduced
  <2> QED
    BY <1>1, <2>1, <2>2, <2>3, <2>4, ShapeOfPrefix
<1>7. ShapeInv'
  BY <1>6 DEF ShapeInv
<1>8. NoticesInv'
  <2> SUFFICES ASSUME NEW c \in Clients
               PROVE  /\ c = shared'.slot \/ (c = shared'.previous /\ Displacing') => NoticeFree(Stream(outbox'[c]))
                      /\ c = shared'.slot \/ c = shared'.previous => ~outbox'[c].finished
                      /\ ~ExitFree(Stream(outbox'[c])) =>
                            shared'.stopping /\ serve'.pumped /\ outbox'[c].finished
    BY DEF NoticesInv
  <2>1. /\ c = shared.slot \/ (c = shared.previous /\ Displacing) => NoticeFree(Stream(outbox[c]))
        /\ c = shared.slot \/ c = shared.previous => ~outbox[c].finished
        /\ ~ExitFree(Stream(outbox[c])) => shared.stopping /\ serve.pumped /\ outbox[c].finished
    BY DEF StreamInv, NoticesInv
  <2>2. outbox[c].finished => outbox'[c].finished
    BY DEF Reduced
  <2> QED
    BY <1>0, <1>2, <1>6, <2>1, <2>2
<1> QED
  BY <1>3, <1>4, <1>5, <1>7, <1>8

\* The writer of an outbox passes its messages on, or stops.
LEMMA WriterStreams ==
    ASSUME TypeOK, TypeOK', StreamInv, PumpInv', NEW c \in Clients, TakeNext(c) \/ Write(c) \/ WriterEnds(c)
    PROVE  StreamInv'
<1>0. /\ client \in [Clients -> Connections] /\ outbox \in [Clients -> Outboxes]
      /\ \A d \in Clients : outbox[d] \in Outboxes /\ (outbox[d].abandoned => outbox[d].queue = <<>>)
  BY DEF TypeOK, StreamInv, AccountsInv
<1>1. /\ shared' = shared /\ app' = app /\ serve' = serve /\ history' = history
      /\ \A d \in Clients : client'[d].relay = client[d].relay
  <2>1. /\ shared' = shared /\ app' = app /\ serve' = serve /\ history' = history
        /\ client' = client \/ client' = [client EXCEPT ![c].conn = "closed"]
    BY DEF TakeNext, Write, WriterEnds
  <2> QED
    BY <1>0, <2>1 DEF Connections
<1>2. /\ Stream(outbox[c]) \in Seq(Messages) /\ Given(outbox[c]) \in Nat /\ Payload(outbox[c].queue) \in Nat
      /\ Given(outbox'[c]) \in Nat /\ Payload(outbox'[c].queue) \in Nat
      /\ Begins(Stream(outbox[c]), Stream(outbox[c]))
  <2>1. outbox[c] \in Outboxes /\ outbox'[c] \in Outboxes
    BY DEF TypeOK
  <2>2. /\ Stream(outbox[c]) \in Seq(Messages) /\ Given(outbox[c]) \in Nat /\ Payload(outbox[c].queue) \in Nat
        /\ Given(outbox'[c]) \in Nat /\ Payload(outbox'[c].queue) \in Nat
    BY <2>1, StreamType
  <2>3. Begins(Stream(outbox[c]), Stream(outbox[c]))
    BY <2>2 DEF Begins
  <2> QED
    BY <2>2, <2>3
<1>3. outbox'[c].finished = outbox[c].finished /\ Reduced(outbox[c], outbox'[c])
  <2>1. CASE TakeNext(c)
    <3>1. /\ outbox[c].writer = "take" /\ ~outbox[c].abandoned /\ outbox[c].queue # <<>>
          /\ outbox'[c] = Taken(outbox[c])
      BY <1>0, <2>1 DEF TakeNext
    <3>2. /\ Stream(outbox'[c]) = Stream(outbox[c]) /\ Given(outbox'[c]) = Given(outbox[c])
          /\ Payload(outbox'[c].queue) <= Payload(outbox[c].queue)
          /\ outbox'[c].abandoned = outbox[c].abandoned /\ outbox'[c].finished = outbox[c].finished
          /\ outbox'[c].writer = "write"
      BY <1>0, <3>1, TakeStream
    <3> QED
      BY <1>2, <3>1, <3>2 DEF Reduced, Writing
  <2>2. CASE Write(c)
    <3>1. /\ outbox[c].writer = "write"
          /\ outbox'[c] = Written(outbox[c])
      BY <1>0, <2>2 DEF Write
    <3>2. /\ Stream(outbox'[c]) = Stream(outbox[c]) /\ Given(outbox'[c]) = Given(outbox[c])
          /\ outbox'[c].queue = outbox[c].queue
          /\ outbox'[c].abandoned = outbox[c].abandoned /\ outbox'[c].finished = outbox[c].finished
          /\ outbox'[c].writer = "take"
      BY <1>0, <3>1, WriteStream
    <3> QED
      BY <1>0, <1>2, <3>1, <3>2 DEF Reduced, Writing
  <2>3. CASE WriterEnds(c)
    <3>1. /\ outbox[c].writer \in {"take", "write"}
          /\ outbox'[c] = Ended(outbox[c])
      BY <1>0, <2>3 DEF WriterEnds
    <3>2. /\ Begins(Stream(outbox'[c]), Stream(outbox[c])) /\ Given(outbox'[c]) <= Given(outbox[c])
          /\ outbox'[c].queue = outbox[c].queue
          /\ outbox'[c].abandoned = outbox[c].abandoned /\ outbox'[c].finished = outbox[c].finished
          /\ outbox'[c].writer = "done"
      <4>1. outbox[c] \in Outboxes
        BY <1>0
      <4> QED
        BY <3>1, <4>1, EndStream
    <3> QED
      BY <1>0, <1>2, <3>1, <3>2 DEF Reduced, Writing
  <2> QED
    BY <2>1, <2>2, <2>3
<1>4. \A d \in Clients : d # c => outbox'[d] = outbox[d]
  BY <1>0 DEF TakeNext, Write, WriterEnds
<1>5. \A d \in Clients : Reduced(outbox[d], outbox'[d]) /\ outbox'[d].finished = outbox[d].finished
  BY <1>0, <1>3, <1>4, ReducedSame
<1>6. JoinedInv' /\ OpeningInv' /\ AccountsInv' /\ ShapeInv' /\ NoticesInv'
  <2>1. BurstsSteady
    BY <1>1 DEF BurstsSteady
  <2> QED
    BY <1>1, <1>5, <2>1, ReducedStreams
<1>7. AttachInv'
  BY <1>1 DEF StreamInv, AttachInv
<1> QED
  BY <1>6, <1>7 DEF StreamInv

\* The displaced outbox is finished; a resize that panics gives the new one up.
LEMMA EndAttachStreams ==
    ASSUME TypeOK, TypeOK', StreamInv, PumpInv', NEW c \in Clients, EndAttach(c)
    PROVE  StreamInv'
<1>0. /\ client \in [Clients -> Connections] /\ outbox \in [Clients -> Outboxes] /\ shared \in Gates
      /\ \A d \in Clients : outbox[d] \in Outboxes /\ (outbox[d].abandoned => outbox[d].queue = <<>>)
      /\ NoClient \notin Clients
  BY ClientsAssumption DEF TypeOK, StreamInv, AccountsInv
<1>1. /\ app' = app /\ serve' = serve /\ history' = history
      /\ shared'.attach = NoClient /\ shared'.previous = NoClient /\ shared'.slot = shared.slot
      /\ shared'.preamble = shared.preamble /\ shared'.stopping = shared.stopping
  BY <1>0 DEF EndAttach, Gates
<1>2. /\ client[c].relay = "resize" /\ client'[c].relay \in {"announce", "panicked"}
      /\ \A d \in Clients : d # c => client'[d].relay = client[d].relay
  <2>1. client[c].relay = "resize"
    BY DEF EndAttach, MayResize
  <2>2. CASE client' = [client EXCEPT ![c].relay = "announce"]
    BY <1>0, <2>1, <2>2 DEF Connections
  <2>3. CASE client' = [Disconnected({c}) EXCEPT ![c].relay = "panicked"]
    <3>1. Disconnected({c}) \in [Clients -> Connections]
      BY <1>0, DisconnectedType
    <3> QED
      BY <2>1, <2>3, <3>1, DisconnectedKeeps DEF Connections
  <2> QED
    BY <2>2, <2>3 DEF EndAttach, GoTo
<1>3. /\ shared.attach = c /\ shared.slot = c
      /\ \A d \in Clients : d # c => client[d].relay \notin {"displace", "abandon", "resize"}
  BY <1>0, <1>2 DEF StreamInv, AttachInv
<1>4. /\ \A d \in Clients : d = shared.previous => outbox'[d] = Finish(outbox[d]) /\ d # c /\ Joined(d)
      /\ \A d \in Clients : d # shared.previous /\ d # c => outbox'[d] = outbox[d]
      /\ outbox'[c] = outbox[c] \/ outbox'[c] = Abandon(outbox[c])
  <2>1. \A d \in Clients : d = shared.previous => d # c /\ Joined(d)
    <3>1. shared.previous # NoClient => shared.previous # shared.slot
      BY DEF StreamInv, AttachInv
    <3>2. \A d \in Clients : d = shared.previous => Joined(d)
      BY DEF StreamInv, JoinedInv
    <3> QED
      BY <1>0, <1>3, <3>1, <3>2
  <2> QED
    BY <1>0, <2>1 DEF EndAttach
<1>5. Joined(c)
  BY <1>3 DEF StreamInv, JoinedInv
<1>6. \A d \in Clients : Reduced(outbox[d], outbox'[d])
  BY <1>0, <1>4, <1>5, ReducedSame, ReducedAbandoned, ReducedFinished DEF Joined
<1>7. \A d \in Clients : d = shared'.slot => outbox'[d].finished = outbox[d].finished
  BY <1>0, <1>1, <1>3, <1>4, AbandonStream
<1>8. JoinedInv' /\ OpeningInv' /\ AccountsInv' /\ ShapeInv' /\ NoticesInv'
  <2>1. BurstsSteady
    BY <1>1 DEF BurstsSteady
  <2> QED
    BY <1>0, <1>1, <1>2, <1>6, <1>7, <2>1, ReducedStreams
<1>9. AttachInv'
  BY <1>0, <1>1, <1>2, <1>3 DEF AttachInv
<1> QED
  BY <1>8, <1>9 DEF StreamInv

\* The displaced client that is above the limit is given up, ...
LEMMA AbandonDisplacedStreams ==
    ASSUME TypeOK, TypeOK', StreamInv, PumpInv', NEW c \in Clients, AbandonDisplaced(c)
    PROVE  StreamInv'
<1>0. /\ client \in [Clients -> Connections]
      /\ \A d \in Clients : outbox[d] \in Outboxes /\ (outbox[d].abandoned => outbox[d].queue = <<>>)
  BY DEF TypeOK, StreamInv, AccountsInv
<1>1. /\ app' = app /\ serve' = serve /\ history' = history /\ shared' = shared
      /\ client[c].relay = "abandon" /\ client' = [Disconnected(Dropped) EXCEPT ![c].relay = "resize"]
      /\ \A d \in Clients : outbox'[d] = IF d = shared.previous THEN Abandon(outbox[d]) ELSE outbox[d]
  BY DEF AbandonDisplaced
<1>2. client'[c].relay = "resize" /\ \A d \in Clients : d # c => client'[d].relay = client[d].relay
  <2>1. Disconnected(Dropped) \in [Clients -> Connections]
    BY <1>0, DisconnectedType
  <2> QED
    BY <1>1, <2>1, DisconnectedKeeps DEF Connections
<1>3. \A d \in Clients : d = shared.previous => Joined(d)
  BY DEF StreamInv, JoinedInv
<1>4. \A d \in Clients : Reduced(outbox[d], outbox'[d]) /\ outbox'[d].finished = outbox[d].finished
  BY <1>0, <1>1, <1>3, ReducedSame, ReducedAbandoned, AbandonStream DEF Joined
<1>5. JoinedInv' /\ OpeningInv' /\ AccountsInv' /\ ShapeInv' /\ NoticesInv'
  <2>1. BurstsSteady
    BY <1>1 DEF BurstsSteady
  <2> QED
    BY <1>1, <1>2, <1>4, <2>1, ReducedStreams
<1>6. AttachInv'
  BY <1>1, <1>2 DEF StreamInv, AttachInv
<1> QED
  BY <1>5, <1>6 DEF StreamInv

\* ... and so is the one that a burst has found there.
LEMMA AbandonOverflowedStreams ==
    ASSUME TypeOK, TypeOK', StreamInv, PumpInv', AbandonOverflowed
    PROVE  StreamInv'
<1>0. /\ outbox \in [Clients -> Outboxes]
      /\ \A d \in Clients : outbox[d] \in Outboxes /\ (outbox[d].abandoned => outbox[d].queue = <<>>)
  BY DEF TypeOK, StreamInv, AccountsInv
<1>1. /\ serve' = serve /\ history' = history /\ shared' = shared
      /\ outbox' = [outbox EXCEPT ![app.to] = Abandon(@)]
  BY DEF AbandonOverflowed
<1>2. \A d \in Clients : client'[d].relay = client[d].relay
  BY DisconnectedKeeps DEF AbandonOverflowed
<1>3. \A d \in Clients : outbox'[d] = IF d = app.to THEN Abandon(outbox[d]) ELSE outbox[d]
  BY <1>0, <1>1
<1>4. \A d \in Clients : d = app.to => Joined(d)
  BY DEF StreamInv, JoinedInv
<1>5. \A d \in Clients : Reduced(outbox[d], outbox'[d]) /\ outbox'[d].finished = outbox[d].finished
  BY <1>0, <1>3, <1>4, ReducedSame, ReducedAbandoned, AbandonStream DEF Joined
<1>6. JoinedInv' /\ OpeningInv' /\ AccountsInv' /\ ShapeInv' /\ NoticesInv'
  BY <1>1, <1>2, <1>5, ReducedStreams
<1>7. AttachInv'
  BY <1>1, <1>2 DEF StreamInv, AttachInv
<1> QED
  BY <1>6, <1>7 DEF StreamInv

\* Who detaches leaves the slot, and its outbox is given up.
LEMMA DetachStreams ==
    ASSUME TypeOK, TypeOK', StreamInv, PumpInv', NEW c \in Clients, Detach(c)
    PROVE  StreamInv'
<1>0. /\ client \in [Clients -> Connections] /\ shared \in Gates
      /\ \A d \in Clients : outbox[d] \in Outboxes /\ (outbox[d].abandoned => outbox[d].queue = <<>>)
      /\ NoClient \notin Clients
  BY ClientsAssumption DEF TypeOK, StreamInv, AccountsInv
<1>1. /\ outbox' = outbox /\ app' = app /\ serve' = serve /\ history' = history
      /\ shared'.attach = shared.attach /\ shared'.previous = shared.previous
      /\ shared'.preamble = shared.preamble /\ shared'.stopping = shared.stopping
      /\ shared'.slot = IF shared.slot = c THEN NoClient ELSE shared.slot
  BY <1>0 DEF Detach, Gates
<1>2. /\ client[c].relay \in {"detach", "panicked"} /\ client'[c].relay \in {"release", "done"}
      /\ \A d \in Clients : d # c => client'[d].relay = client[d].relay
  <2>1. \/ client' = [client EXCEPT ![c] = Moved(@, "release", shared.generation + 1)]
        \/ client' = [client EXCEPT ![c] = [@ EXCEPT !.conn = "closed", !.relay = "done"]]
        \/ client' = [client EXCEPT ![c].relay = "done"]
    BY DEF Detach, GoTo, CloseAndEnd
  <2>2. client[c].relay \in {"detach", "panicked"}
    BY DEF Detach
  <2>3. CASE client' = [client EXCEPT ![c] = Moved(@, "release", shared.generation + 1)]
    BY <1>0, <2>2, <2>3 DEF Moved, Connections
  <2>4. CASE client' = [client EXCEPT ![c] = [@ EXCEPT !.conn = "closed", !.relay = "done"]]
    BY <1>0, <2>2, <2>4 DEF Connections
  <2>5. CASE client' = [client EXCEPT ![c].relay = "done"]
    BY <1>0, <2>2, <2>5 DEF Connections
  <2> QED
    BY <2>1, <2>3, <2>4, <2>5
<1>3. \A d \in Clients : Reduced(outbox[d], outbox'[d])
  BY <1>0, <1>1, ReducedSame
<1>4. JoinedInv' /\ OpeningInv' /\ AccountsInv' /\ ShapeInv' /\ NoticesInv'
  <2>1. BurstsSteady
    BY <1>1 DEF BurstsSteady
  <2> QED
    BY <1>1, <1>2, <1>3, <2>1, ReducedStreams
<1>5. AttachInv'
  BY <1>0, <1>1, <1>2 DEF StreamInv, AttachInv, TypeOK, Gates, Owners
<1> QED
  BY <1>4, <1>5 DEF StreamInv

\* Who has left the slot gives its outbox up.
LEMMA ReleaseStreams ==
    ASSUME TypeOK, TypeOK', StreamInv, PumpInv', NEW c \in Clients, ReleaseConnection(c)
    PROVE  StreamInv'
<1>0. /\ client \in [Clients -> Connections] /\ outbox \in [Clients -> Outboxes]
      /\ \A d \in Clients : outbox[d] \in Outboxes /\ (outbox[d].abandoned => outbox[d].queue = <<>>)
  BY DEF TypeOK, StreamInv, AccountsInv
<1>1. /\ app' = app /\ serve' = serve /\ history' = history /\ shared' = shared
      /\ client[c].relay = "release" /\ outbox' = [outbox EXCEPT ![c] = Abandon(@)]
  BY DEF ReleaseConnection
<1>2. client'[c].relay = "done" /\ \A d \in Clients : d # c => client'[d].relay = client[d].relay
  <2>1. Disconnected(Dropped) \in [Clients -> Connections]
    BY <1>0, DisconnectedType
  <2>2. client' = [Disconnected(Dropped) EXCEPT ![c] = Moved(@, "done", 0)]
    BY DEF ReleaseConnection
  <2> QED
    BY <2>1, <2>2, DisconnectedKeeps DEF Moved, Connections
<1>3. Joined(c)
  BY <1>1 DEF StreamInv, JoinedInv
<1>4. \A d \in Clients : Reduced(outbox[d], outbox'[d]) /\ outbox'[d].finished = outbox[d].finished
  BY <1>0, <1>1, <1>3, ReducedSame, ReducedAbandoned, AbandonStream DEF Joined
<1>5. JoinedInv' /\ OpeningInv' /\ AccountsInv' /\ ShapeInv' /\ NoticesInv'
  <2>1. BurstsSteady
    BY <1>1 DEF BurstsSteady
  <2> QED
    BY <1>1, <1>2, <1>4, <2>1, ReducedStreams
<1>6. AttachInv'
  BY <1>0, <1>1, <1>2 DEF StreamInv, AttachInv
<1> QED
  BY <1>5, <1>6 DEF StreamInv

-----------------------------------------------------------------------------
(* Streams that grow. *)

\* What is promised is a sequence of messages.
LEMMA PromisedType ==
    ASSUME TypeOK, OpeningInv, NEW c \in Clients
    PROVE  /\ history.joined[c] \in Starts /\ app.routed \in Nat /\ history.joined[c].after <= app.routed
           /\ Promised(c) \in Seq(Messages) /\ Len(Promised(c)) \in Nat
<1>1. history.joined[c] \in Starts /\ app.routed \in Nat /\ history.joined[c].after <= app.routed
  BY DEF TypeOK, Histories, Apps, OpeningInv
<1>2. Promised(c) \in Seq(Messages)
  BY <1>1, PromiseType, PromisedIsPromise
<1> QED
  BY <1>1, <1>2

\* The burst on its way arrives: it is the next that its client is promised, or
\* its client is past receiving.
LEMMA SendOutputStreams ==
    ASSUME TypeOK, TypeOK', StreamInv, PumpInv', SendOutput
    PROVE  StreamInv'
<1>0. /\ client \in [Clients -> Connections] /\ outbox \in [Clients -> Outboxes]
      /\ shared \in Gates /\ app \in Apps /\ history \in Histories
      /\ NoClient \notin Clients /\ Backlog \in Nat /\ app.routed \in Nat
      /\ \A d \in Clients : outbox[d] \in Outboxes
  BY ClientsAssumption, BoundsAssumption DEF TypeOK, Apps
<1>1. /\ app.to \in Clients /\ app.pump = "send" /\ app'.pump # "send"
      /\ app'.to \in {app.to, NoClient} /\ app'.routed = app.routed
      /\ Overflows(outbox[app.to], <<Output(app.routed)>>) => app'.pump = "abandon" /\ app'.to = app.to
      /\ shared' = shared /\ serve' = serve /\ client' = client
      /\ history'.installs = history.installs /\ history'.joined = history.joined
      /\ outbox'[app.to] = Queue(outbox[app.to], <<Output(app.routed)>>)
      /\ \A d \in Clients : d # app.to => outbox'[d] = outbox[d]
  <2>1. app.to # NoClient /\ app.to \in Owners
    BY <1>0 DEF SendOutput, StreamInv, PumpInv, Apps
  <2>2. CASE Overflows(outbox[app.to], <<Output(app.routed)>>)
    BY <1>0, <2>1, <2>2 DEF SendOutput, Owners, Apps, Histories
  <2>3. CASE ~Overflows(outbox[app.to], <<Output(app.routed)>>)
    BY <1>0, <2>1, <2>3 DEF SendOutput, Owners, Apps
  <2> QED
    BY <2>2, <2>3
<1>2. \A d \in Clients : client'[d].relay = client[d].relay
  BY <1>1
<1> DEFINE c == app.to
           b == outbox[app.to]
           m == Output(app.routed)
           n == Queue(b, <<m>>)
           p == Promised(c)
<1>3. \A d \in Clients : Promised(d)' = Promised(d)
  BY <1>1 DEF Promised
<1>4. /\ b \in Outboxes /\ m \in Messages /\ m.kind = "Output" /\ Units(m) = 1 /\ b.writer # "none"
      /\ Joined(c)
  <2>1. Joined(c)
    BY <1>1 DEF StreamInv, JoinedInv
  <2> QED
    BY <1>0, <1>1, <2>1, MessageTypes DEF Output, Units, Joined
<1>5. /\ Payload(b.queue) <= Backlog /\ (b.abandoned => b.queue = <<>>)
      /\ Given(b) + 1 <= Len(p)
      /\ Writing(b) /\ ~b.finished => Given(b) + 1 = Len(p)
      /\ WellFormed(Stream(b), p) /\ (Writing(b) => Stream(b) # <<>>)
      /\ ~ExitFree(Stream(b)) => b.finished
  <2>1. Payload(b.queue) \in Nat /\ Carried(c) = 1
    BY <1>1, <1>4, StreamType DEF Carried
  <2> QED
    BY <1>0, <1>1, <1>4, <2>1 DEF StreamInv, AccountsInv, ShapeInv, NoticesInv
<1>6. /\ Stream(b) \in Seq(Messages) /\ Given(b) \in Nat /\ Payload(b.queue) \in Nat
      /\ b.writer # "done" => Payload(Stream(b)) = Given(b)
  BY <1>4, StreamType
<1>7. p \in Seq(Messages) /\ Len(p) \in Nat /\ Len(p) \in DOMAIN p /\ p[Len(p)] = m
  <2>1. history.joined[c].after < app.routed
    BY <1>1 DEF StreamInv, OpeningInv
  <2>2. history.joined[c] \in Starts /\ p \in Seq(Messages) /\ Len(p) \in Nat
    BY <1>1, PromisedType DEF StreamInv
  <2> QED
    BY <1>0, <1>1, <2>1, <2>2, PromiseEnds, PromisedIsPromise
<1>8. /\ n.writer = b.writer /\ n.finished = b.finished
      /\ Payload(n.queue) > Backlog => Overflows(b, <<m>>)
      /\ n.abandoned => n.queue = <<>>
      /\ Given(n) <= Len(p)
      /\ Writing(n) /\ ~n.finished => Given(n) = Len(p)
      /\ WellFormed(Stream(n), p) /\ (Writing(n) => Stream(n) # <<>>)
      /\ NoticeFree(Stream(b)) => NoticeFree(Stream(n))
      /\ ExitFree(Stream(b)) => ExitFree(Stream(n))
  <2> HIDE DEF n, p, m, b, c
  <2>1. CASE b.abandoned \/ b.finished
    <3>1. n = b
      BY <1>4, <2>1, QueueStream DEF n
    <3> QED
      BY <1>0, <1>5, <1>6, <1>7, <2>1, <3>1 DEF Writing
  <2>2. CASE ~b.abandoned /\ ~b.finished
    <3>1. /\ n.writer = b.writer /\ n.abandoned = b.abandoned /\ n.finished = b.finished
          /\ Payload(n.queue) = Payload(b.queue) + 1 /\ Given(n) = Given(b) + 1
          /\ b.writer # "done" => Stream(n) = Append(Stream(b), m)
          /\ b.writer = "done" => Stream(n) = Stream(b)
          /\ Overflows(b, <<m>>) <=> Payload(b.queue) + 1 > Backlog
      BY <1>4, <2>2, QueueStream DEF n
    <3>2. ~n.abandoned /\ Given(n) <= Len(p) /\ (Payload(n.queue) > Backlog => Overflows(b, <<m>>))
      BY <1>0, <1>5, <1>6, <2>2, <3>1
    <3>3. CASE b.writer = "done"
      <4>1. ~Writing(n)
        BY <3>1, <3>3 DEF Writing
      <4> QED
        BY <1>5, <3>1, <3>2, <3>3, <4>1
    <3>4. CASE b.writer # "done"
      <4>1. Writing(b)
        BY <1>4, <2>2, <3>4 DEF Writing, Outboxes
      <4>2. Given(b) + 1 = Len(p) /\ Stream(b) # <<>> /\ ExitFree(Stream(b)) /\ Payload(Stream(b)) + 1 = Len(p)
        BY <1>5, <1>6, <2>2, <3>4, <4>1
      <4>3. /\ WellFormed(Append(Stream(b), m), p) /\ ExitFree(Append(Stream(b), m))
            /\ NoticeFree(Stream(b)) => NoticeFree(Append(Stream(b), m))
        BY <1>4, <1>5, <1>6, <1>7, <4>2, ShapeOfBurst
      <4>4. Append(Stream(b), m) # <<>>
        BY <1>4, <1>6
      <4> QED
        BY <3>1, <3>2, <3>4, <4>2, <4>3, <4>4
    <3> QED
      BY <3>3, <3>4
  <2> QED
    BY <2>1, <2>2
<1>9. /\ outbox'[c] = n
      /\ \A d \in Clients : Joined(d)' = Joined(d) /\ Carried(d)' = 0 /\ (d # c => Carried(d) = 0)
  BY <1>0, <1>1, <1>8 DEF Joined, Carried
<1> HIDE DEF n, p, m, b
<1>10. JoinedInv'
  <2>1. Installed' = Installed
    BY <1>1 DEF Installed
  <2>2. \A d \in Clients : ~Joined(d) => outbox'[d] = outbox[d]
    BY <1>1, <1>4
  <2> QED
    BY <1>0, <1>1, <1>2, <1>9, <2>1, <2>2 DEF StreamInv, JoinedInv
<1>11. AttachInv'
  BY <1>1, <1>2 DEF StreamInv, AttachInv
<1>12. OpeningInv'
  BY <1>0, <1>1 DEF StreamInv, OpeningInv
<1>13. AccountsInv'
  <2> SUFFICES ASSUME NEW d \in Clients
               PROVE  /\ Payload(outbox'[d].queue) > Backlog => app'.pump = "abandon" /\ app'.to = d
                      /\ outbox'[d].abandoned => outbox'[d].queue = <<>>
                      /\ Joined(d)' => Given(outbox'[d]) + Carried(d)' <= Len(Promised(d)')
                      /\ Writing(outbox'[d]) /\ ~outbox'[d].finished /\ d \in {shared'.slot, app'.to} =>
                            Given(outbox'[d]) + Carried(d)' = Len(Promised(d)')
    BY DEF AccountsInv
  <2>1. CASE d = c
    <3>1. n \in Outboxes /\ Given(n) \in Nat
      BY <1>4, <1>9, SendOneType, StreamType DEF n
    <3>2. Given(n) + 0 = Given(n)
      BY <3>1
    <3> QED
      BY <1>1, <1>3, <1>8, <1>9, <2>1, <3>2 DEF p, b, m
  <2>2. CASE d # c
    BY <1>0, <1>1, <1>3, <1>9, <2>2 DEF StreamInv, AccountsInv
  <2> QED
    BY <2>1, <2>2
<1>14. ShapeInv'
  BY <1>1, <1>3, <1>8, <1>9 DEF StreamInv, ShapeInv, p
<1>15. NoticesInv'
  <2>1. Displacing' = Displacing
    BY <1>2 DEF Displacing
  <2> QED
    BY <1>1, <1>8, <1>9, <2>1 DEF StreamInv, NoticesInv, b
<1> QED
  BY <1>10, <1>11, <1>12, <1>13, <1>14, <1>15 DEF StreamInv

\* A notice is of no weight.
LEMMA NoticeFits ==
    ASSUME NEW b \in Outboxes, NEW m \in {Displaced, AppExited}, ~(Payload(b.queue) > Backlog)
    PROVE  Send(b, <<m>>) = Queue(b, <<m>>)
<1>1. m \in Messages /\ Units(m) = 0 /\ Payload(b.queue) \in Nat
  BY MessageTypes, StreamType DEF Displaced, AppExited, Units
<1> QED
  BY <1>1, SendStream

\* A notice is queued for a client that has had none: it is
\* ignored by an outbox that is closed.
LEMMA NoticeStream ==
    ASSUME NEW b \in Outboxes, NEW m \in {Displaced, AppExited}, NEW p, b.writer # "none",
           b.abandoned => b.queue = <<>>,
           WellFormed(Stream(b), p), Writing(b) => Stream(b) # <<>>, NoticeFree(Stream(b)),
           m = AppExited /\ Writing(b) /\ ~b.finished => Payload(Stream(b)) = Len(p),
           NEW n, n = Queue(b, <<m>>)
    PROVE  /\ n \in Outboxes /\ n.writer = b.writer /\ n.finished = b.finished /\ n.abandoned = b.abandoned
           /\ n.got = b.got /\ Given(n) = Given(b)
           /\ Payload(n.queue) = Payload(b.queue) /\ (n.abandoned => n.queue = <<>>)
           /\ WellFormed(Stream(n), p) /\ (Writing(n) => Stream(n) # <<>>)
           /\ (m = Displaced => ExitFree(Stream(n)))
           /\ Writing(b) /\ ~b.finished => ~NoticeFree(Stream(n))
<1>1. /\ m \in Messages /\ m.kind # "Output" /\ Units(m) = 0 /\ Backlog \in Nat
  BY MessageTypes, BoundsAssumption DEF Displaced, AppExited, Units
<1>2. /\ n \in Outboxes /\ Stream(b) \in Seq(Messages) /\ Given(b) \in Nat /\ Payload(b.queue) \in Nat
  BY <1>1, StreamType, SendOneType
<1>3. NoticeFree(Stream(b)) => ExitFree(Stream(b))
  BY DEF NoticeFree, ExitFree
<1>4. CASE b.abandoned \/ b.finished
  <2>1. n = b
    BY <1>1, <1>4, QueueStream
  <2> QED
    BY <1>2, <1>3, <1>4, <2>1 DEF Writing
<1>5. CASE ~b.abandoned /\ ~b.finished
  <2>2. /\ n.writer = b.writer /\ n.got = b.got /\ n.abandoned = b.abandoned /\ n.finished = b.finished
        /\ Payload(n.queue) = Payload(b.queue) + Units(m) /\ Given(n) = Given(b) + Units(m)
        /\ b.writer # "done" => Stream(n) = Append(Stream(b), m)
        /\ b.writer = "done" => Stream(n) = Stream(b)
    BY <1>1, <1>5, QueueStream
  <2>3. Payload(n.queue) = Payload(b.queue) /\ Given(n) = Given(b)
    BY <1>1, <1>2, <2>2
  <2>4. CASE b.writer = "done"
    BY <1>2, <1>3, <1>5, <2>2, <2>3, <2>4 DEF Writing
  <2>5. CASE b.writer # "done"
    <3>1. Writing(b)
      BY <1>5, <2>5 DEF Writing, Outboxes
    <3>2. /\ WellFormed(Append(Stream(b), m), p) /\ ~NoticeFree(Append(Stream(b), m))
          /\ (m = Displaced => ExitFree(Append(Stream(b), m)))
      BY <1>2, <1>5, <3>1, ShapeOfNotice
    <3>3. Append(Stream(b), m) # <<>>
      <4>1. Len(Append(Stream(b), m)) = Len(Stream(b)) + 1 /\ Len(Stream(b)) \in Nat
        BY <1>1, <1>2
      <4>2. Len(<<>>) = 0
        OBVIOUS
      <4> QED
        BY <4>1, <4>2
    <3> QED
      BY <1>2, <1>5, <2>2, <2>3, <2>5, <3>2, <3>3
  <2> QED
    BY <2>4, <2>5
<1> QED
  BY <1>4, <1>5

\* The previous owner is told, once, and while it has been told nothing else.
LEMMA DisplaceStreams ==
    ASSUME TypeOK, TypeOK', StreamInv, PumpInv', NEW c \in Clients, Displace(c)
    PROVE  StreamInv'
<1>0. /\ client \in [Clients -> Connections] /\ outbox \in [Clients -> Outboxes] /\ shared \in Gates
      /\ NoClient \notin Clients /\ \A d \in Clients : outbox[d] \in Outboxes
  BY ClientsAssumption DEF TypeOK
<1>1. /\ app' = app /\ serve' = serve
      /\ history'.installs = history.installs /\ history'.joined = history.joined
      /\ shared'.attach = shared.attach /\ shared'.slot = shared.slot /\ shared'.previous = shared.previous
      /\ shared'.preamble = shared.preamble /\ shared'.stopping = shared.stopping
  BY <1>0 DEF Displace, Gates, Histories
<1>2. /\ client[c].relay = "displace" /\ client'[c].relay \in {"abandon", "resize"}
      /\ \A d \in Clients : d # c => client'[d].relay = client[d].relay
  <2>1. PICK there \in {"abandon", "resize"} : client' = [client EXCEPT ![c].relay = there]
    BY DEF Displace, GoTo
  <2>2. client[c].relay = "displace"
    BY DEF Displace
  <2> QED
    BY <1>0, <2>1, <2>2 DEF Connections
<1>3. /\ shared.attach = c /\ shared.slot = c /\ Displacing /\ ~Displacing'
  <2>1. shared.attach = c /\ shared.slot = c /\ Displacing
    BY <1>0, <1>2 DEF StreamInv, AttachInv, Displacing
  <2>2. \A d \in Clients : d # c => client[d].relay # "displace"
    BY <2>1 DEF StreamInv, AttachInv
  <2> QED
    BY <1>2, <2>1, <2>2 DEF Displacing
<1>4. \A d \in Clients : outbox'[d] = IF d = shared.previous THEN Queue(outbox[d], <<Displaced>>) ELSE outbox[d]
  BY <1>0 DEF Displace
<1>5. \A d \in Clients : Promised(d)' = Promised(d) /\ Carried(d)' = Carried(d)
  BY <1>1 DEF Promised, Carried
<1>6. ASSUME NEW d \in Clients
      PROVE  /\ outbox'[d].writer = outbox[d].writer /\ outbox'[d].finished = outbox[d].finished
             /\ outbox'[d].abandoned = outbox[d].abandoned
             /\ Given(outbox'[d]) = Given(outbox[d])
             /\ Payload(outbox'[d].queue) = Payload(outbox[d].queue)
             /\ outbox'[d].abandoned => outbox'[d].queue = <<>>
             /\ WellFormed(Stream(outbox'[d]), Promised(d)) /\ (Writing(outbox'[d]) => Stream(outbox'[d]) # <<>>)
             /\ ExitFree(Stream(outbox[d])) => ExitFree(Stream(outbox'[d]))
             /\ ~Joined(d) => outbox'[d] = outbox[d]
  <2>1. /\ outbox[d].abandoned => outbox[d].queue = <<>>
        /\ WellFormed(Stream(outbox[d]), Promised(d)) /\ (Writing(outbox[d]) => Stream(outbox[d]) # <<>>)
    BY DEF StreamInv, AccountsInv, ShapeInv
  <2>2. CASE d # shared.previous
    BY <1>4, <2>1, <2>2
  <2>3. CASE d = shared.previous
    <3>1. Joined(d) /\ outbox[d].writer # "none" /\ NoticeFree(Stream(outbox[d]))
      BY <1>3, <2>3 DEF StreamInv, JoinedInv, NoticesInv, Joined
    <3>2. outbox[d] \in Outboxes /\ outbox'[d] = Queue(outbox[d], <<Displaced>>) /\ Displaced # AppExited
      BY <1>0, <1>4, <2>3 DEF Displaced, AppExited
    <3> QED
      BY <2>1, <3>1, <3>2, NoticeStream
  <2> QED
    BY <2>2, <2>3
<1>7. JoinedInv'
  <2>1. Installed' = Installed /\ \A d \in Clients : Joined(d)' = Joined(d)
    BY <1>1, <1>6 DEF Installed, Joined
  <2> QED
    BY <1>1, <1>2, <1>6, <2>1 DEF StreamInv, JoinedInv
<1>8. AttachInv'
  BY <1>1, <1>2, <1>3 DEF StreamInv, AttachInv
<1>9. OpeningInv'
  BY <1>1 DEF StreamInv, OpeningInv
<1>10. AccountsInv'
  BY <1>1, <1>5, <1>6 DEF StreamInv, AccountsInv, Joined, Writing
<1>11. ShapeInv'
  BY <1>5, <1>6 DEF ShapeInv
<1>12. NoticesInv'
  <2>1. shared.previous # shared.slot
    BY <1>0, <1>3 DEF StreamInv, AttachInv
  <2> QED
    BY <1>0, <1>1, <1>3, <1>4, <1>6, <2>1 DEF StreamInv, NoticesInv
<1> QED
  BY <1>7, <1>8, <1>9, <1>10, <1>11, <1>12 DEF StreamInv

\* Admission ends: the last owner has all its bursts, and may be told the exit.
LEMMA StopStreams ==
    ASSUME TypeOK, TypeOK', StreamInv, PumpInv', StopClients
    PROVE  StreamInv'
<1>0. /\ outbox \in [Clients -> Outboxes] /\ shared \in Gates /\ serve \in Serves
      /\ NoClient \notin Clients /\ \A d \in Clients : outbox[d] \in Outboxes
  BY ClientsAssumption DEF TypeOK
<1>1. /\ app' = app /\ client' = client /\ history' = history
      /\ shared'.attach = NoClient /\ shared.attach = NoClient
      /\ shared'.slot = NoClient /\ shared'.previous = shared.previous
      /\ shared'.preamble = shared.preamble /\ shared'.stopping
      /\ serve'.final = shared.slot /\ serve'.pumped = serve.pumped
  BY <1>0 DEF StopClients, Gates, Serves
<1>2. shared.previous = NoClient /\ app.to = NoClient
  BY <1>1 DEF StopClients, PumpJoined, StreamInv, AttachInv, PumpInv
<1>3. \A d \in Clients : /\ d # shared.slot => outbox'[d] = outbox[d]
                         /\ d = shared.slot =>
                               outbox'[d] = Finish(IF Complete THEN Send(outbox[d], <<AppExited>>) ELSE outbox[d])
  BY <1>0 DEF StopClients
<1>4. \A d \in Clients : Promised(d)' = Promised(d) /\ Carried(d)' = 0 /\ Carried(d) = 0
  BY <1>0, <1>1, <1>2 DEF Promised, Carried
<1>5. ASSUME NEW d \in Clients
      PROVE  /\ outbox'[d].writer = outbox[d].writer /\ (outbox[d].finished => outbox'[d].finished)
             /\ Given(outbox'[d]) = Given(outbox[d])
             /\ Payload(outbox'[d].queue) <= Backlog /\ (outbox'[d].abandoned => outbox'[d].queue = <<>>)
             /\ WellFormed(Stream(outbox'[d]), Promised(d)) /\ (Writing(outbox'[d]) => Stream(outbox'[d]) # <<>>)
             /\ ~ExitFree(Stream(outbox'[d])) => serve.pumped /\ outbox'[d].finished
             /\ ~Joined(d) => outbox'[d] = outbox[d]
  <2>1. /\ Payload(outbox[d].queue) <= Backlog /\ (outbox[d].abandoned => outbox[d].queue = <<>>)
        /\ WellFormed(Stream(outbox[d]), Promised(d)) /\ (Writing(outbox[d]) => Stream(outbox[d]) # <<>>)
        /\ ~ExitFree(Stream(outbox[d])) => serve.pumped /\ outbox[d].finished
    <3>1. Payload(outbox[d].queue) \in Nat /\ Backlog \in Nat /\ app.pump = "done"
      BY <1>0, StreamType, BoundsAssumption DEF StopClients, PumpJoined
    <3> QED
      BY <3>1 DEF StreamInv, AccountsInv, ShapeInv, NoticesInv
  <2>2. CASE d # shared.slot
    BY <1>3, <2>1, <2>2
  <2>3. CASE d = shared.slot
    <3> DEFINE b == outbox[d]
               n == IF Complete THEN Send(b, <<AppExited>>) ELSE b
               p == Promised(d)
    <3>1. /\ Joined(d) /\ b \in Outboxes /\ b.writer # "none" /\ NoticeFree(Stream(b)) /\ ExitFree(Stream(b))
      BY <1>0, <2>3 DEF StreamInv, JoinedInv, NoticesInv, Joined, NoticeFree, ExitFree
    <3>2. Writing(b) /\ ~b.finished => Payload(Stream(b)) = Len(p)
      <4>1. Writing(b) /\ ~b.finished => Given(b) + 0 = Len(p)
        BY <1>4, <2>3 DEF StreamInv, AccountsInv
      <4>2. Given(b) \in Nat /\ (Writing(b) => Payload(Stream(b)) = Given(b))
        BY <3>1, StreamType DEF Writing
      <4> QED
        BY <4>1, <4>2
    <3>3. /\ n \in Outboxes /\ n.writer = b.writer /\ Given(n) = Given(b)
          /\ Payload(n.queue) <= Backlog /\ (n.abandoned => n.queue = <<>>)
          /\ WellFormed(Stream(n), p) /\ (Writing(n) => Stream(n) # <<>>)
          /\ ~ExitFree(Stream(n)) => serve.pumped
      <4>1. CASE Complete
        <5> HIDE DEF b, p
        <5>1. n = Queue(b, <<AppExited>>) /\ serve.pumped
          <6>1. Payload(b.queue) \in Nat
            BY <3>1, StreamType
          <6> QED
            BY <2>1, <3>1, <4>1, <6>1, NoticeFits, BoundsAssumption DEF Complete, b
        <5> HIDE DEF n
        <5> QED
          BY <2>1, <3>1, <3>2, <5>1, NoticeStream DEF b, p
      <4>2. CASE ~Complete
        BY <2>1, <3>1, <4>2
      <4> QED
        BY <4>1, <4>2
    <3>4. outbox'[d] = Finish(n)
      BY <1>3, <2>3
    <3> HIDE DEF n
    <3>5. /\ Stream(outbox'[d]) = Stream(n) /\ Given(outbox'[d]) = Given(n) /\ outbox'[d].finished
          /\ outbox'[d].queue = n.queue /\ outbox'[d].abandoned = n.abandoned
          /\ outbox'[d].writer = n.writer
      BY <3>3, <3>4, FinishStream
    <3> QED
      BY <3>1, <3>3, <3>5 DEF Writing
  <2> QED
    BY <2>2, <2>3
<1>6. JoinedInv'
  <2>1. Installed' = Installed /\ \A d \in Clients : Joined(d)' = Joined(d)
    BY <1>1, <1>5 DEF Installed, Joined
  <2> QED
    BY <1>0, <1>1, <1>2, <1>5, <2>1 DEF StreamInv, JoinedInv
<1>7. AttachInv'
  BY <1>0, <1>1, <1>2 DEF StreamInv, AttachInv
<1>8. OpeningInv'
  BY <1>1 DEF StreamInv, OpeningInv
<1>9. AccountsInv'
  <2>1. \A d \in Clients : ~(Payload(outbox'[d].queue) > Backlog)
    <3>1. \A d \in Clients : Payload(outbox'[d].queue) \in Nat
      BY StreamType DEF TypeOK
    <3> QED
      BY <1>5, <3>1, BoundsAssumption
  <2> QED
    BY <1>0, <1>1, <1>2, <1>4, <1>5, <2>1 DEF StreamInv, AccountsInv, Joined
<1>10. ShapeInv'
  BY <1>4, <1>5 DEF ShapeInv
<1>11. NoticesInv'
  BY <1>0, <1>1, <1>2, <1>5 DEF NoticesInv
<1> QED
  BY <1>6, <1>7, <1>8, <1>9, <1>10, <1>11 DEF StreamInv

\* A burst is routed: it is promised to everybody who is installed, and is on its
\* way to the owner.
LEMMA RouteStreams ==
    ASSUME TypeOK, TypeOK', StreamInv, PumpInv', Route
    PROVE  StreamInv'
<1>0. /\ shared \in Gates /\ app \in Apps /\ NoClient \notin Clients /\ Backlog \in Nat
      /\ app.routed \in Nat /\ shared.slot \in Owners /\ shared.preamble \in Seq(Messages)
      /\ \A d \in Clients : outbox[d] \in Outboxes
  BY ClientsAssumption, BoundsAssumption DEF TypeOK, Apps, Gates
<1>1. /\ outbox' = outbox /\ client' = client /\ serve' = serve /\ history' = history
      /\ app'.routed = app.routed + 1 /\ app.to = NoClient /\ app'.to = shared.slot /\ app.pump = "read"
      /\ shared.slot # NoClient => app'.pump = "send"
      /\ shared'.attach = shared.attach /\ shared'.previous = shared.previous
      /\ shared'.slot = shared.slot /\ shared'.stopping = shared.stopping /\ ~shared.stopping
  <2>1. app.to = NoClient /\ app.pump = "read" /\ ~shared.stopping
    BY DEF Route, StreamInv, PumpInv
  <2>2. CASE shared.slot = NoClient
    BY <1>0, <2>1, <2>2 DEF Route, Apps, Gates
  <2>3. CASE shared.slot # NoClient
    BY <1>0, <2>1, <2>3 DEF Route, Apps
  <2>4. outbox' = outbox /\ client' = client /\ serve' = serve /\ history' = history
    BY DEF Route
  <2> QED
    BY <2>1, <2>2, <2>3, <2>4
<1>2. \/ shared'.preamble = shared.preamble
      \/ /\ shared'.preamble = Append(shared.preamble, Output(app.routed + 1))
         /\ Len(shared.preamble) < Backlog
  BY <1>0 DEF Route, HoldForFirstClient, Gates
<1>3. ASSUME NEW d \in Clients
      PROVE  /\ Len(Promised(d)) \in Nat /\ Len(Promised(d)') = Len(Promised(d)) + 1
             /\ \A k \in DOMAIN Promised(d) : k \in DOMAIN Promised(d)' /\ Promised(d)'[k] = Promised(d)[k]
             /\ Given(outbox[d]) \in Nat
             /\ Carried(d) = 0 /\ Carried(d)' = IF d = shared.slot THEN 1 ELSE 0
  <2>1. history.joined[d] \in Starts /\ history.joined[d].after <= app.routed /\ Len(Promised(d)) \in Nat
    BY PromisedType DEF StreamInv
  <2>2. /\ Promised(d) = Promise(history.joined[d], app.routed)
        /\ Promised(d)' = Promise(history.joined[d], app.routed + 1)
    BY <1>1, PromisedIsPromise
  <2>3. Carried(d) = 0 /\ Carried(d)' = IF d = shared.slot THEN 1 ELSE 0
    BY <1>0, <1>1 DEF Carried
  <2>4. Given(outbox[d]) \in Nat
    BY <1>0, StreamType
  <2> QED
    BY <1>0, <2>1, <2>2, <2>3, <2>4, PromiseGrows
<1>4. JoinedInv'
  BY <1>0, <1>1 DEF StreamInv, JoinedInv, Joined, Installed
<1>5. AttachInv'
  BY <1>1 DEF StreamInv, AttachInv
<1>6. OpeningInv'
  <2>1. /\ \A i \in DOMAIN shared'.preamble : shared'.preamble[i].kind = "Output"
        /\ Len(shared'.preamble) <= Backlog
    <3>1. /\ \A i \in DOMAIN shared.preamble : shared.preamble[i].kind = "Output"
          /\ Len(shared.preamble) <= Backlog
      BY DEF StreamInv, OpeningInv
    <3>2. ASSUME shared'.preamble = Append(shared.preamble, Output(app.routed + 1)), Len(shared.preamble) < Backlog
          PROVE  /\ \A i \in DOMAIN shared'.preamble : shared'.preamble[i].kind = "Output"
                 /\ Len(shared'.preamble) <= Backlog
      <4>1. Output(app.routed + 1) \in Messages /\ Output(app.routed + 1).kind = "Output"
        BY <1>0, MessageTypes DEF Output
      <4>2. \A s \in Seq(Messages), m \in Messages :
            /\ Len(Append(s, m)) = Len(s) + 1
            /\ \A i \in DOMAIN Append(s, m) :
                  Append(s, m)[i] = m \/ (i \in DOMAIN s /\ Append(s, m)[i] = s[i])
        OBVIOUS
      <4>3. Len(shared.preamble) \in Nat
        BY <1>0
      <4> QED
        BY <1>0, <3>1, <3>2, <4>1, <4>2, <4>3
    <3> QED
      BY <1>2, <3>1, <3>2
  <2>2. \A d \in Clients : /\ history'.joined[d].after <= app'.routed
                           /\ app'.to = d => history'.joined[d].after < app'.routed
    <3>1. \A d \in Clients : history.joined[d].after \in Nat /\ history.joined[d].after <= app.routed
      BY PromisedType DEF StreamInv, Starts
    <3> QED
      BY <1>0, <1>1, <3>1
  <2> QED
    BY <2>1, <2>2 DEF OpeningInv
<1>7. AccountsInv'
  <2> SUFFICES ASSUME NEW d \in Clients
               PROVE  /\ Payload(outbox'[d].queue) > Backlog => app'.pump = "abandon" /\ app'.to = d
                      /\ outbox'[d].abandoned => outbox'[d].queue = <<>>
                      /\ Joined(d)' => Given(outbox'[d]) + Carried(d)' <= Len(Promised(d)')
                      /\ Writing(outbox'[d]) /\ ~outbox'[d].finished /\ d \in {shared'.slot, app'.to} =>
                            Given(outbox'[d]) + Carried(d)' = Len(Promised(d)')
    BY DEF AccountsInv
  <2>1. /\ ~(Payload(outbox[d].queue) > Backlog) /\ (outbox[d].abandoned => outbox[d].queue = <<>>)
        /\ Joined(d) => Given(outbox[d]) + 0 <= Len(Promised(d))
        /\ Writing(outbox[d]) /\ ~outbox[d].finished /\ d = shared.slot => Given(outbox[d]) + 0 = Len(Promised(d))
    BY <1>1, <1>3 DEF StreamInv, AccountsInv
  <2>2. Joined(d)' = Joined(d)
    BY <1>1 DEF Joined
  <2> QED
    BY <1>1, <1>3, <2>1, <2>2
<1>8. ShapeInv'
  <2>1. \A d \in Clients : ExitFree(Stream(outbox[d]))
    BY <1>1 DEF StreamInv, NoticesInv
  <2>2. \A d \in Clients : Stream(outbox[d]) \in Seq(Messages)
    BY <1>0, StreamType
  <2>3. \A d \in Clients : WellFormed(Stream(outbox[d]), Promised(d)')
    BY <1>3, <2>1, <2>2, ShapeOfLonger DEF StreamInv, ShapeInv
  <2> QED
    BY <1>1, <2>3 DEF StreamInv, ShapeInv
<1>9. NoticesInv'
  BY <1>1 DEF StreamInv, NoticesInv, Displacing
<1> QED
  BY <1>4, <1>5, <1>6, <1>7, <1>8, <1>9 DEF StreamInv

\* A new owner begins with the opening output: its share of the output is what was
\* held for it and what is routed from now on.
LEMMA InstallStreams ==
    ASSUME TypeOK, TypeOK', StreamInv, PumpInv', NEW c \in Clients, Install(c)
    PROVE  StreamInv'
<1>0. /\ client \in [Clients -> Connections] /\ outbox \in [Clients -> Outboxes]
      /\ shared \in Gates /\ history \in Histories /\ NoClient \notin Clients
      /\ shared.preamble \in Seq(Messages) /\ app.routed \in Nat /\ history.installs \in Seq(Clients)
      /\ history.joined \in [Clients -> Starts]
  BY ClientsAssumption DEF TypeOK, Gates, Apps, Histories
<1>1. /\ app' = app /\ serve' = serve /\ shared.attach = NoClient /\ ~shared.stopping
      /\ shared'.attach = c /\ shared'.slot = c /\ shared'.previous = shared.slot
      /\ shared'.preamble = <<>> /\ shared'.stopping = shared.stopping
      /\ history'.installs = Append(history.installs, c)
      /\ history'.joined = [history.joined EXCEPT ![c] = [held |-> shared.preamble, after |-> app.routed]]
  BY <1>0 DEF Install, MayLock, Gates, Histories
<1>2. /\ client[c].relay = "handshake" /\ client'[c].relay = "displace"
      /\ \A d \in Clients : d # c => client'[d].relay = client[d].relay
  <2> DEFINE f == Disconnected(Dropped)
  <2>1. f \in [Clients -> Connections]
    BY <1>0, DisconnectedType
  <2>2. \A d \in Clients : f[d].relay = client[d].relay
    BY DisconnectedKeeps
  <2>3. client' = [f EXCEPT ![c] = Moved(@, "displace", shared.generation + 1)]
    BY DEF Install
  <2> HIDE DEF f
  <2> QED
    BY <2>1, <2>2, <2>3 DEF Install, MayLock, Moved, Connections
<1>3. /\ ~Joined(c) /\ outbox[c] = NoOutbox /\ c # shared.slot /\ c # app.to /\ c # serve.final
      /\ \A d \in Clients : client[d].relay \notin {"displace", "abandon", "resize"}
      /\ shared.previous = NoClient
  <2>1. ~Joined(c) /\ outbox[c] = NoOutbox
    BY <1>2 DEF StreamInv, JoinedInv
  <2>2. c # shared.slot /\ c # app.to /\ c # serve.final
    BY <2>1 DEF StreamInv, JoinedInv
  <2> QED
    BY <1>0, <1>1, <2>1, <2>2 DEF StreamInv, AttachInv
<1> DEFINE n == [Send(NoOutbox, <<Attached>> \o shared.preamble) EXCEPT !.writer = "take"]
<1>4. outbox'[c] = n /\ \A d \in Clients : d # c => outbox'[d] = outbox[d]
  BY <1>0, <1>3 DEF Install
<1>5. /\ Stream(n) = <<Attached>> \o shared.preamble /\ Given(n) = Len(shared.preamble)
      /\ Payload(n.queue) = Len(shared.preamble) /\ ~n.abandoned /\ ~n.finished /\ n.writer = "take"
      /\ WellFormed(Stream(n), shared.preamble) /\ NoticeFree(Stream(n)) /\ ExitFree(Stream(n)) /\ Stream(n) # <<>>
      /\ Len(shared.preamble) <= Backlog /\ Len(shared.preamble) \in Nat
  <2>1. /\ \A i \in DOMAIN shared.preamble : shared.preamble[i].kind = "Output"
        /\ Len(shared.preamble) <= Backlog
    BY DEF StreamInv, OpeningInv
  <2>2. /\ Stream(n) = <<Attached>> \o shared.preamble /\ Given(n) = Len(shared.preamble)
        /\ Payload(n.queue) = Len(shared.preamble) /\ ~n.abandoned /\ ~n.finished /\ n.writer = "take"
    BY <1>0, <2>1, OpenStream
  <2>3. /\ WellFormed(<<Attached>> \o shared.preamble, shared.preamble)
        /\ NoticeFree(<<Attached>> \o shared.preamble) /\ ExitFree(<<Attached>> \o shared.preamble)
        /\ <<Attached>> \o shared.preamble # <<>>
    BY <1>0, <2>1, ShapeOfOpening
  <2>4. Len(shared.preamble) \in Nat
    BY <1>0
  <2> HIDE DEF n
  <2> QED
    BY <2>1, <2>2, <2>3, <2>4
<1> HIDE DEF n
<1>6. Promised(c)' = shared.preamble /\ \A d \in Clients : d # c => Promised(d)' = Promised(d)
  <2>1. /\ history'.joined[c] = [held |-> shared.preamble, after |-> app.routed]
        /\ \A d \in Clients : d # c => history'.joined[d] = history.joined[d]
    BY <1>0, <1>1
  <2>2. history'.joined[c] \in Starts /\ history'.joined[c].held = shared.preamble
        /\ history'.joined[c].after = app.routed
    BY <1>0, <2>1 DEF Starts
  <2>3. Promised(c)' = shared.preamble
    BY <1>1, <2>2, PromisedIsPromise, PromiseBegins
  <2> QED
    BY <1>1, <2>1, <2>3 DEF Promised
<1>7. /\ Joined(c)' /\ \A d \in Clients : d # c => Joined(d)' = Joined(d)
      /\ \A d \in Clients : Carried(d)' = Carried(d)
      /\ Carried(c) = 0
  BY <1>1, <1>3, <1>4, <1>5 DEF Joined, Carried
<1>8. JoinedInv'
  <2>1. Installed' = Installed \cup {c}
    <3>1. \A s \in Seq(Clients) : ToSet(Append(s, c)) = ToSet(s) \cup {c}
      <4> SUFFICES ASSUME NEW s \in Seq(Clients) PROVE ToSet(Append(s, c)) = ToSet(s) \cup {c}
        OBVIOUS
      <4>1. /\ DOMAIN s = 1 .. Len(s) /\ DOMAIN Append(s, c) = 1 .. (Len(s) + 1) /\ Len(s) \in Nat
            /\ \A i \in 1 .. Len(s) : Append(s, c)[i] = s[i]
            /\ Append(s, c)[Len(s) + 1] = c
        OBVIOUS
      <4> QED
        BY <4>1 DEF ToSet
    <3> QED
      BY <1>0, <1>1, <3>1 DEF Installed
  <2> QED
    BY <1>0, <1>1, <1>2, <1>4, <1>7, <2>1 DEF StreamInv, JoinedInv
<1>9. AttachInv'
  BY <1>0, <1>1, <1>2, <1>3 DEF StreamInv, AttachInv
<1>10. OpeningInv'
  <2>1. history'.joined[c].after = app.routed /\ \A d \in Clients : d # c => history'.joined[d] = history.joined[d]
    BY <1>0, <1>1
  <2>2. Len(shared'.preamble) <= Backlog /\ DOMAIN shared'.preamble = {}
    <3>1. Len(<<>>) = 0 /\ DOMAIN <<>> = {}
      OBVIOUS
    <3> QED
      BY <1>1, <3>1, BoundsAssumption
  <2> QED
    BY <1>0, <1>1, <1>3, <2>1, <2>2 DEF StreamInv, OpeningInv
<1>11. AccountsInv'
  <2> SUFFICES ASSUME NEW d \in Clients
               PROVE  /\ Payload(outbox'[d].queue) > Backlog => app'.pump = "abandon" /\ app'.to = d
                      /\ outbox'[d].abandoned => outbox'[d].queue = <<>>
                      /\ Joined(d)' => Given(outbox'[d]) + Carried(d)' <= Len(Promised(d)')
                      /\ Writing(outbox'[d]) /\ ~outbox'[d].finished /\ d \in {shared'.slot, app'.to} =>
                            Given(outbox'[d]) + Carried(d)' = Len(Promised(d)')
    BY DEF AccountsInv
  <2>1. CASE d = c
    BY <1>0, <1>4, <1>5, <1>6, <1>7, <2>1, BoundsAssumption
  <2>2. CASE d # c
    BY <1>1, <1>4, <1>6, <1>7, <2>2 DEF StreamInv, AccountsInv
  <2> QED
    BY <2>1, <2>2
<1>12. ShapeInv'
  BY <1>4, <1>5, <1>6 DEF StreamInv, ShapeInv
<1>13. NoticesInv'
  BY <1>0, <1>1, <1>3, <1>4, <1>5 DEF StreamInv, NoticesInv
<1> QED
  BY <1>8, <1>9, <1>10, <1>11, <1>12, <1>13 DEF StreamInv

-----------------------------------------------------------------------------
(* The invariant of the streams. *)

\* The invariant of the streams holds at the start ...
LEMMA InitStreams == Init => StreamInv
<1> SUFFICES ASSUME Init PROVE StreamInv
  OBVIOUS
<1>0. NoClient \notin Clients /\ Backlog \in Nat /\ TypeOK
  BY ClientsAssumption, BoundsAssumption, InitType
<1>1. /\ \A c \in Clients : outbox[c] = NoOutbox /\ client[c].relay = "none"
      /\ NoOutbox.writer = "none" /\ NoOutbox.queue = <<>> /\ NoOutbox.got = <<>> /\ ~NoOutbox.abandoned
      /\ ~NoOutbox.finished
  BY DEF Init, NoOutbox
<1>2. /\ shared.attach = NoClient /\ shared.slot = NoClient /\ shared.previous = NoClient
      /\ shared.preamble = <<>> /\ ~shared.stopping /\ app.to = NoClient /\ serve.final = NoClient
      /\ app.produced = 0 /\ app.routed = 0 /\ app.pump = "read" /\ ~app.finishing /\ serve.pumped
      /\ history.installs = <<>> /\ \A c \in Clients : history.joined[c].after = 0
  BY DEF Init
<1>3. /\ Stream(NoOutbox) = <<>> /\ Given(NoOutbox) = 0 /\ Payload(<<>>) = 0 /\ ~Writing(NoOutbox)
      /\ DOMAIN <<>> = {} /\ Bursts(<<>>) = {} /\ Len(<<>>) = 0
  <2>1. Hand(NoOutbox) = <<>>
    BY <1>1 DEF Hand
  <2>2. <<>> \o (<<>> \o <<>>) = <<>> /\ Len(<<>>) = 0 /\ DOMAIN <<>> = {}
    BY MessageTypes, Concatenations
  <2> QED
    BY <1>1, <2>1, <2>2, NoBursts DEF Stream, Given, Writing
<1>4. JoinedInv
  <2>1. Installed = {}
    BY <1>2, <1>3 DEF Installed, ToSet
  <2> QED
    BY <1>0, <1>1, <1>2, <2>1 DEF JoinedInv, Joined
<1>5. AttachInv
  BY <1>0, <1>1, <1>2 DEF AttachInv
<1>6. PumpInv
  BY <1>2 DEF PumpInv
<1>7. OpeningInv
  BY <1>0, <1>2, <1>3 DEF OpeningInv
<1>8. AccountsInv
  BY <1>0, <1>1, <1>3 DEF AccountsInv, Joined
<1>9. ShapeInv
  BY <1>1, <1>3 DEF ShapeInv, WellFormed, InOrder
<1>10. NoticesInv
  BY <1>0, <1>1, <1>2, <1>3 DEF NoticesInv, ExitFree
<1> QED
  BY <1>4, <1>5, <1>6, <1>7, <1>8, <1>9, <1>10 DEF StreamInv

\* ... and every step keeps it.
LEMMA NextStreams == IInv /\ StreamInv /\ [Next]_vars => StreamInv'
<1> SUFFICES ASSUME IInv, StreamInv, [Next]_vars PROVE StreamInv'
  OBVIOUS
<1>1. TypeOK /\ TypeOK' /\ NewcomersIdle /\ PumpInv /\ PumpInv'
  <2>1. TypeOK /\ NewcomersIdle /\ PumpInv
    BY DEF IInv, StreamInv
  <2> QED
    BY <2>1, NextType, PumpStep
<1>2. StreamsSteady => StreamInv'
  BY <1>1, SteadyStreams
<1>3. ASSUME NEW c \in Clients, Relay(c) PROVE StreamInv'
  <2>1. CASE HandshakeFails(c) \/ AttachRefused(c) \/ AnnounceAttached(c) \/ Apply(c) \/ ReceiveFails(c)
    BY <1>1, <1>2, <2>1, SteadyRelay
  <2>2. CASE Install(c)
    BY <1>1, <2>2, InstallStreams
  <2>3. CASE Displace(c)
    BY <1>1, <2>3, DisplaceStreams
  <2>4. CASE EndAttach(c)
    BY <1>1, <2>4, EndAttachStreams
  <2>5. CASE Detach(c)
    BY <1>1, <2>5, DetachStreams
  <2>6. CASE ReleaseConnection(c)
    BY <1>1, <2>6, ReleaseStreams
  <2>7. CASE AbandonDisplaced(c)
    BY <1>1, <2>7, AbandonDisplacedStreams
  <2> QED
    BY <1>3, <2>1, <2>2, <2>3, <2>4, <2>5, <2>6, <2>7 DEF Relay
<1>4. ASSUME NEW c \in Clients, TakeNext(c) \/ Write(c) \/ WriterEnds(c) PROVE StreamInv'
  BY <1>1, <1>4, WriterStreams
<1>5. ASSUME NEW c \in Clients, Connect(c) \/ AcceptFails(c) \/ Type(c) \/ Leave(c) PROVE StreamInv'
  BY <1>1, <1>2, <1>5, SteadyClient
<1>6. CASE Route
  BY <1>1, <1>6, RouteStreams
<1>7. CASE SendOutput
  BY <1>1, <1>7, SendOutputStreams
<1>8. CASE StopClients
  BY <1>1, <1>8, StopStreams
<1>9. CASE AppWrites \/ PumpEnds \/ PumpFails
  BY <1>1, <1>2, <1>9, SteadyApp
<1>10. CASE WaitApp \/ WaitFails \/ CloseSession \/ DeleteRecord \/ Exit \/ Recorder
  BY <1>1, <1>2, <1>10, SteadyServe
<1>11. CASE UNCHANGED vars
  BY <1>2, <1>11 DEF vars, state, StreamsSteady, BurstsSteady
<1>12. CASE AbandonOverflowed
  BY <1>1, <1>12, AbandonOverflowedStreams
<1> QED
  BY <1>3, <1>4, <1>5, <1>6, <1>7, <1>8, <1>9, <1>10, <1>11, <1>12 DEF Next, Process, Pump, Serve, Terminated

\* The places, the accounts and the streams of the clients agree at every moment.
THEOREM SpecStreamInv == Spec => [](IInv /\ StreamInv)
<1>1. Init => IInv /\ StreamInv
  BY InitIInv, InitStreams
<1>2. IInv /\ StreamInv /\ [Next]_vars => IInv' /\ StreamInv'
  BY NextIInv, NextStreams
<1> QED
  BY <1>1, <1>2, PTL DEF Spec

\* What a client reads is its acknowledgement, its opening output and the output
\* from its installation on, complete and in order, and at most one notice, which
\* is the exit only behind all output (attach_client, route_output, serve).
THEOREM StreamsAreIntact == Spec => []StreamIntact
<1>1. IInv /\ StreamInv => StreamIntact
  <2> SUFFICES ASSUME TypeOK, StreamInv, NEW c \in Clients, outbox[c].got # <<>>
               PROVE  LET got == outbox[c].got IN
                      /\ got[1] = Attached
                      /\ InOrder(got, Promised(c))
                      /\ \A i \in DOMAIN got : i > 1 => got[i] # Attached
                      /\ \A i, j \in DOMAIN got : {got[i], got[j]} \subseteq {Displaced, AppExited} => i = j
                      /\ \A i \in DOMAIN got : got[i] = AppExited =>
                             /\ i = Len(got) /\ Payload(got) = Len(Promised(c)) /\ app.routed = app.produced
    BY DEF IInv, StreamIntact
  <2> DEFINE got == outbox[c].got
  <2>1. outbox[c] \in Outboxes /\ got \in Seq(Messages)
    BY DEF TypeOK, Outboxes
  <2>2. Begins(got, Stream(outbox[c])) /\ Stream(outbox[c]) \in Seq(Messages)
    BY <2>1, StreamType
  <2>3. WellFormed(Stream(outbox[c]), Promised(c))
    BY DEF StreamInv, ShapeInv
  <2>4. WellFormed(got, Promised(c)) /\ (ExitFree(Stream(outbox[c])) => ExitFree(got))
    BY <2>1, <2>2, <2>3, ShapeOfPrefix
  <2>5. ~ExitFree(got) => app.routed = app.produced
    <3>1. ~ExitFree(got) => shared.stopping /\ serve.pumped
      BY <2>4 DEF StreamInv, NoticesInv
    <3> QED
      BY <3>1 DEF StreamInv, PumpInv
  <2> QED
    BY <2>4, <2>5 DEF WellFormed, ExitFree
<1> QED
  BY <1>1, SpecStreamInv, PTL

-----------------------------------------------------------------------------
(* Who is given up, and what that does to the connections. *)

\* Closing connections closes them and no others.
LEMMA DisconnectedConn ==
    ASSUME TypeOK, NEW ends, NEW c \in Clients
    PROVE  Disconnected(ends)[c].conn = IF c \in ends THEN "closed" ELSE client[c].conn
  BY DEF Disconnected, TypeOK, Connections

\* A new owner has an open outbox; nobody is given up for its opening output.
LEMMA InstallFacts ==
    ASSUME TypeOK, StreamInv, NEW c \in Clients, Install(c)
    PROVE  /\ ~Joined(c) /\ outbox[c] = NoOutbox /\ client[c].relay = "handshake" /\ Readable(c)
           /\ outbox'[c].writer = "take" /\ ~outbox'[c].abandoned /\ ~outbox'[c].finished /\ outbox'[c].got = <<>>
           /\ \A d \in Clients : d # c => outbox'[d] = outbox[d] /\ client'[d] = client[d]
           /\ Dropped = {} /\ client'[c].conn = client[c].conn /\ client'[c].relay = "displace"
           /\ history'.installs = Append(history.installs, c)
           /\ history'.overflowed = history.overflowed /\ history'.left = history.left
           /\ \A d \in Clients : d # c => history'.joined[d] = history.joined[d]
           /\ shared'.slot = c /\ app' = app /\ serve' = serve /\ faults' = faults
<1>0. /\ client \in [Clients -> Connections] /\ outbox \in [Clients -> Outboxes]
      /\ shared \in Gates /\ history \in Histories /\ shared.preamble \in Seq(Messages)
      /\ history.joined \in [Clients -> Starts]
  BY DEF TypeOK, Gates, Histories
<1>1. client[c].relay = "handshake" /\ Readable(c) /\ ~Joined(c) /\ outbox[c] = NoOutbox
  BY DEF Install, MayLock, StreamInv, JoinedInv
<1> DEFINE n == [Send(NoOutbox, <<Attached>> \o shared.preamble) EXCEPT !.writer = "take"]
<1>2. outbox'[c] = n /\ \A d \in Clients : d # c => outbox'[d] = outbox[d]
  BY <1>0, <1>1 DEF Install
<1>3. ~n.abandoned /\ ~n.finished /\ n.writer = "take" /\ n.got = <<>>
  <2>1. /\ \A i \in DOMAIN shared.preamble : shared.preamble[i].kind = "Output"
        /\ Len(shared.preamble) <= Backlog
    BY DEF StreamInv, OpeningInv
  <2> QED
    BY <1>0, <2>1, OpenStream
<1> HIDE DEF n
<1>4. Dropped = {}
  BY <1>2, <1>3 DEF Dropped
<1>5. /\ client'[c].conn = client[c].conn /\ client'[c].relay = "displace"
      /\ \A d \in Clients : d # c => client'[d] = client[d]
  <2>1. Disconnected(Dropped) = client
    BY <1>0, <1>4 DEF Disconnected
  <2>2. client' = [client EXCEPT ![c] = Moved(@, "displace", shared.generation + 1)]
    BY <2>1 DEF Install
  <2> QED
    BY <1>0, <2>2 DEF Moved, Connections
<1>6. /\ history'.installs = Append(history.installs, c)
      /\ history'.overflowed = history.overflowed /\ history'.left = history.left
      /\ \A d \in Clients : d # c => history'.joined[d] = history.joined[d]
  BY <1>0, <1>4 DEF Install, Histories
<1>7. shared'.slot = c /\ app' = app /\ serve' = serve /\ faults' = faults
  BY <1>0 DEF Install, Gates
<1> QED
  BY <1>1, <1>2, <1>3, <1>4, <1>5, <1>6, <1>7

\* A burst is queued for its client or ignored; one too many makes it a laggard.
LEMMA SendOutputFacts ==
    ASSUME TypeOK, StreamInv, SendOutput
    PROVE  /\ app.to \in Clients /\ Joined(app.to)
           /\ \A d \in Clients : d # app.to => outbox'[d] = outbox[d]
           /\ LET b == outbox[app.to]
                  n == outbox'[app.to]
              IN  /\ n.got = b.got /\ n.writer = b.writer
                  /\ n.finished = b.finished /\ n.abandoned = b.abandoned
                  /\ Stream(n) = Stream(b) \/ Stream(n) = Append(Stream(b), Output(app.routed))
                  /\ \/ app'.pump = "read" /\ history'.overflowed = history.overflowed
                     \/ /\ app'.pump = "abandon" /\ app'.to = app.to
                        /\ history'.overflowed = history.overflowed \cup {app.to}
                        /\ Payload(n.queue) > Backlog
           /\ client' = client /\ shared' = shared /\ serve' = serve /\ faults' = faults
           /\ app'.routed = app.routed /\ history'.installs = history.installs /\ history'.left = history.left
           /\ history'.joined = history.joined
<1>0. /\ outbox \in [Clients -> Outboxes] /\ app \in Apps /\ history \in Histories
      /\ NoClient \notin Clients /\ app.routed \in Nat
  BY ClientsAssumption DEF TypeOK, Apps
<1>1. app.to \in Clients /\ Joined(app.to) /\ outbox[app.to] \in Outboxes
  <2>1. app.to # NoClient /\ app.to \in Owners
    BY <1>0 DEF SendOutput, StreamInv, PumpInv, Apps
  <2>2. app.to \in Clients
    BY <2>1 DEF Owners
  <2> QED
    BY <1>0, <2>2 DEF StreamInv, JoinedInv
<1>2. /\ outbox'[app.to] = Queue(outbox[app.to], <<Output(app.routed)>>)
      /\ \A d \in Clients : d # app.to => outbox'[d] = outbox[d]
      /\ client' = client /\ shared' = shared /\ serve' = serve /\ faults' = faults
  BY <1>0, <1>1 DEF SendOutput
<1> DEFINE b == outbox[app.to]
           m == Output(app.routed)
           n == outbox'[app.to]
<1>3. m \in Messages /\ Units(m) = 1
  BY <1>0, MessageTypes DEF Output, Units
<1>4. /\ n.got = b.got /\ n.writer = b.writer /\ n.finished = b.finished /\ n.abandoned = b.abandoned
      /\ Stream(n) = Stream(b) \/ Stream(n) = Append(Stream(b), m)
      /\ Overflows(b, <<m>>) => Payload(n.queue) > Backlog
  <2>1. b \in Outboxes /\ n = Queue(b, <<m>>)
    BY <1>1, <1>2
  <2> HIDE DEF b, m, n
  <2>2. CASE b.abandoned \/ b.finished
    BY <1>3, <2>1, <2>2, QueueStream
  <2>3. CASE ~b.abandoned /\ ~b.finished
    <3>1. /\ n.writer = b.writer /\ n.got = b.got /\ n.finished = b.finished /\ n.abandoned = b.abandoned
          /\ Stream(n) = Append(Stream(b), m) \/ Stream(n) = Stream(b)
          /\ Overflows(b, <<m>>) => Payload(n.queue) > Backlog
      BY <1>3, <2>1, <2>3, QueueStream
    <3> QED
      BY <3>1
  <2> QED
    BY <2>2, <2>3
<1>5. /\ \/ app'.pump = "read" /\ history'.overflowed = history.overflowed
         \/ /\ app'.pump = "abandon" /\ app'.to = app.to
            /\ history'.overflowed = history.overflowed \cup {app.to}
            /\ Overflows(b, <<m>>)
      /\ app'.routed = app.routed /\ history'.installs = history.installs /\ history'.left = history.left
      /\ history'.joined = history.joined
  <2>1. CASE Overflows(b, <<m>>)
    BY <1>0, <2>1 DEF SendOutput, Apps, Histories
  <2>2. CASE ~Overflows(b, <<m>>)
    BY <1>0, <2>2 DEF SendOutput, Apps, Histories
  <2> QED
    BY <2>1, <2>2
<1> QED
  BY <1>1, <1>2, <1>4, <1>5

\* Who has more than the limit queued is behind by more than the limit, and had a
\* burst routed to it.
LEMMA LimitMeansBehind ==
    IInv /\ StreamInv =>
        \A c \in Clients : Payload(outbox[c].queue) > Backlog =>
            /\ Len(Promised(c)) - Payload(outbox[c].got) > Backlog
            /\ app.routed > history.joined[c].after
<1> SUFFICES ASSUME TypeOK, StreamInv, NEW c \in Clients, Payload(outbox[c].queue) > Backlog
             PROVE  /\ Len(Promised(c)) - Payload(outbox[c].got) > Backlog
                    /\ app.routed > history.joined[c].after
  BY DEF IInv
<1>1. /\ Payload(outbox[c].queue) \in Nat /\ Payload(Hand(outbox[c])) \in Nat
      /\ Payload(outbox[c].got) \in Nat /\ Backlog \in Nat
  BY StreamType, BoundsAssumption DEF TypeOK
<1>2. app.pump = "abandon" /\ app.to = c
  BY <1>1 DEF StreamInv, AccountsInv
<1>3. /\ history.joined[c] \in Starts /\ app.routed \in Nat /\ Len(Promised(c)) \in Nat
      /\ history.joined[c].after < app.routed
  BY <1>2, PromisedType DEF StreamInv, OpeningInv
<1>4. Given(outbox[c]) + 0 <= Len(Promised(c))
  BY <1>2 DEF StreamInv, JoinedInv, AccountsInv, Carried
<1> QED
  BY <1>1, <1>3, <1>4 DEF Given, Starts

\* Who becomes a laggard has more than the limit queued.
LEMMA LaggardsOverflow ==
    ASSUME TypeOK, StreamInv, [Next]_vars, NEW c \in history'.overflowed \ history.overflowed
    PROVE  c \in Clients /\ Payload(outbox'[c].queue) > Backlog
<1>0. /\ history \in Histories /\ outbox \in [Clients -> Outboxes]
      /\ \A d \in Clients : outbox[d] \in Outboxes
  BY DEF TypeOK
<1>1. CASE SendOutput
  BY <1>1, SendOutputFacts
<1>2. ASSUME NEW d \in Clients, Displace(d)
      PROVE  c \in Clients /\ Payload(outbox'[c].queue) > Backlog
  <2>1. c \in Clients /\ c = shared.previous /\ Overflows(outbox[c], <<Displaced>>)
    BY <1>0, <1>2 DEF Displace, Histories
  <2>2. outbox'[c] = Queue(outbox[c], <<Displaced>>)
    BY <1>2, <2>1 DEF Displace
  <2>3. Displaced \in Messages
    BY MessageTypes
  <2> QED
    BY <1>0, <2>1, <2>2, <2>3, QueueStream
<1>3. ASSUME NEW d \in Clients, Install(d)
      PROVE  FALSE
  BY <1>3, InstallFacts
<1>4. \/ SendOutput \/ \E d \in Clients : Displace(d) \/ Install(d)
      \/ history'.overflowed = history.overflowed
  <2>1. ASSUME NEW d \in Clients, Relay(d), ~Displace(d), ~Install(d)
        PROVE  history'.overflowed = history.overflowed
    <3>1. history' = history \/ history' = [history EXCEPT !.inputs = Append(@, d)]
      BY <2>1 DEF Relay, HandshakeFails, AttachRefused, AbandonDisplaced, EndAttach, AnnounceAttached, Apply,
         ReceiveFails, Detach, ReleaseConnection
    <3> QED
      BY <1>0, <3>1 DEF Histories
  <2>2. ASSUME NEW d \in Clients, Leave(d)
        PROVE  history'.overflowed = history.overflowed
    BY <1>0, <2>2 DEF Leave, Histories
  <2>3. ASSUME NEW d \in Clients,
               TakeNext(d) \/ Write(d) \/ WriterEnds(d) \/ Connect(d) \/ AcceptFails(d) \/ Type(d)
        PROVE  history' = history
    BY <2>3 DEF TakeNext, Write, WriterEnds, Connect, AcceptFails, Type
  <2>4. ASSUME (Pump /\ ~SendOutput) \/ PumpFails \/ Serve \/ WaitApp \/ WaitFails \/ Recorder \/ AppWrites
        PROVE  history' = history
    BY <2>4 DEF Pump, Route, AbandonOverflowed, PumpEnds, PumpFails, Serve, CloseSession, StopClients,
       DeleteRecord, Exit, WaitApp, WaitFails, Recorder, ReceiveUpdate, PublishRecord, AppWrites
  <2>5. UNCHANGED vars => history' = history
    BY DEF vars, state
  <2> QED
    BY <2>1, <2>2, <2>3, <2>4, <2>5 DEF Next, Process, Terminated
<1> QED
  BY <1>1, <1>2, <1>3, <1>4

\* Nobody is given up unless a burst of live output has found it further behind
\* than the limit: the opening output and the notices never do (Outbox::send,
\* hold_for_first_client).
THEOREM LaggardsOnly == Spec => OnlyLaggardsDropped
<1> DEFINE Behind(c) == /\ Len(Promised(c)) - Payload(outbox[c].got) > Backlog
                        /\ app.routed > history.joined[c].after
<1>1. IInv /\ StreamInv => \A c \in Clients : Payload(outbox[c].queue) > Backlog => Behind(c)
  BY LimitMeansBehind
<1>2. (IInv /\ StreamInv)' => (\A c \in Clients : Payload(outbox[c].queue) > Backlog => Behind(c))'
  BY <1>1, PTL
<1>3. IInv /\ StreamInv /\ (IInv /\ StreamInv)' /\ [Next]_vars =>
         [\A c \in history'.overflowed \ history.overflowed :
             /\ Len(Promised(c)') - Payload(outbox'[c].got) > Backlog
             /\ app'.routed > history'.joined[c].after]_state
  <2> SUFFICES ASSUME IInv, StreamInv, (IInv /\ StreamInv)', [Next]_vars,
                      NEW c \in history'.overflowed \ history.overflowed
               PROVE  /\ Len(Promised(c)') - Payload(outbox'[c].got) > Backlog
                      /\ app'.routed > history'.joined[c].after
    OBVIOUS
  <2>1. c \in Clients /\ Payload(outbox'[c].queue) > Backlog
    BY LaggardsOverflow DEF IInv
  <2> QED
    BY <1>2, <2>1
<1> QED
  BY <1>3, SpecStreamInv, PTL DEF Spec, OnlyLaggardsDropped

-----------------------------------------------------------------------------
(* Why a connection is closed. *)

\* Explanations that are owed have been given.
Owed(c) == outbox[c].finished \/ (c = shared.previous /\ ~Displacing)
Explanations == \A c \in Clients \ history.overflowed : Owed(c) => Explained(c)

\* What a step may do to the connections: a closed one stays closed, and an
\* installed client's is closed behind a word of explanation.
ConnectionsFrame ==
    /\ faults' = 0 => faults = 0 /\ serve'.waited = serve.waited /\ serve'.pumped = serve.pumped
    /\ serve.at = "exited" => serve'.at = "exited" /\ serve'.final = serve.final
    /\ history.overflowed \subseteq history'.overflowed /\ history.left \subseteq history'.left
    /\ app'.pump = "abandon" =>
          app'.to \in history'.overflowed \/ (app.pump = "abandon" /\ app'.to = app.to)
    /\ \A c \in Clients :
          /\ client'[c].relay = "abandon" =>
                \/ shared'.previous \in history'.overflowed
                \/ client[c].relay = "abandon" /\ shared'.previous = shared.previous
          /\ client'[c].conn = "open" => client[c].conn \in {"open", "none"}
          /\ client'[c].conn = "none" => client[c].conn = "none"
          /\ client'[c].conn = "left" => client[c].conn = "left" \/ c \in history'.left
          /\ client'[c].conn = "closed" /\ client[c].conn = "open" /\ faults' = 0 =>
                \/ ~Joined(c)' \/ c \in history'.overflowed
                \/ Told(c)' \/ (serve'.at = "exited" /\ c # serve'.final)
          /\ Told(c) => Told(c)'
          /\ Joined(c)' /\ ~Joined(c) => client'[c].conn \in {"open", "left"}
          /\ outbox'[c].writer = "done" => outbox[c].writer = "done" \/ client'[c].conn # "open"
          /\ faults' = 0 /\ c \notin history'.overflowed =>
                /\ outbox'[c].abandoned => outbox[c].abandoned \/ client'[c].conn # "open"
                /\ client'[c].relay = "panicked" => client[c].relay = "panicked"
                /\ client'[c].relay = "release" => client[c].relay = "release" \/ client'[c].conn # "open"
                /\ client'[c].relay = "detach" /\ c = shared'.slot =>
                      (client[c].relay = "detach" /\ c = shared.slot) \/ client'[c].conn # "open"

\* A step within this frame keeps every reason.
LEMMA ReasonsKept ==
    ASSUME TypeOK, TypeOK', StreamInv, StreamInv', ReasonsInv, ConnectionsFrame,
           faults' = 0 => Explanations'
    PROVE  ReasonsInv'
<1>0. /\ \A c \in Clients : /\ client[c].conn \in {"none", "open", "left", "closed"}
                            /\ client'[c].conn \in {"none", "open", "left", "closed"}
                            /\ Joined(c) <=> c \in Installed
                            /\ (Joined(c) <=> c \in Installed)'
                            /\ ~Joined(c) => outbox[c] = NoOutbox /\ client[c].relay \in {"none", "handshake", "done"}
                            /\ ~NoOutbox.abandoned /\ NoOutbox.writer # "done"
      /\ faults \in Nat
  BY DEF TypeOK, Connections, StreamInv, JoinedInv, NoOutbox
<1>1. ASSUME NEW c \in Clients
      PROVE  /\ client'[c].conn = "left" => c \in history'.left
             /\ Joined(c)' => client'[c].conn # "none"
             /\ outbox'[c].writer = "done" => client'[c].conn # "open"
  <2>1. /\ client[c].conn = "left" => c \in history.left
        /\ Joined(c) => client[c].conn # "none"
        /\ outbox[c].writer = "done" => client[c].conn # "open" /\ Joined(c)
    BY <1>0 DEF ReasonsInv, Joined
  <2> QED
    BY <1>0, <2>1 DEF ConnectionsFrame
<1>2. /\ faults' = 0 => serve'.waited /\ serve'.pumped
      /\ app'.pump = "abandon" => app'.to \in history'.overflowed
      /\ \A c \in Clients : client'[c].relay = "abandon" => shared'.previous \in history'.overflowed
  BY DEF ReasonsInv, ConnectionsFrame
<1>3. ASSUME faults' = 0, NEW c \in Clients \ history'.overflowed
      PROVE  /\ outbox'[c].finished \/ (c = shared'.previous /\ ~Displacing') => Explained(c)'
             /\ outbox'[c].abandoned => client'[c].conn # "open"
             /\ client'[c].relay # "panicked"
             /\ client'[c].relay = "release" => client'[c].conn # "open"
             /\ client'[c].relay = "detach" /\ c = shared'.slot => client'[c].conn # "open"
  <2>1. Explanations' /\ faults = 0 /\ c \notin history.overflowed
    BY <1>3 DEF ConnectionsFrame
  <2>2. /\ outbox[c].abandoned => client[c].conn # "open" /\ client[c].conn # "none"
        /\ client[c].relay # "panicked"
        /\ client[c].relay = "release" => client[c].conn # "open" /\ client[c].conn # "none"
        /\ client[c].relay = "detach" /\ c = shared.slot => client[c].conn # "open" /\ client[c].conn # "none"
    <3>1. outbox[c].abandoned \/ client[c].relay \in {"release", "detach"} => Joined(c)
      BY <1>0
    <3> QED
      BY <2>1, <3>1 DEF ReasonsInv
  <2>3. outbox'[c].finished \/ (c = shared'.previous /\ ~Displacing') => Explained(c)'
    BY <1>3, <2>1 DEF Explanations, Owed
  <2> QED
    BY <1>3, <2>2, <2>3 DEF ConnectionsFrame
<1>4. ClosedWithReason'
  <2> SUFFICES ASSUME NEW c \in Installed', c \notin history'.overflowed, c \notin history'.left,
                      client'[c].conn = "closed", faults' = 0
               PROVE  Told(c)' \/ (serve'.at = "exited" /\ c # serve'.final)
    BY DEF ClosedWithReason
  <2>1. c \in Clients
    <3>1. history'.installs \in Seq(Clients)
      BY DEF TypeOK, Histories
    <3> QED
      BY <3>1 DEF Installed, ToSet
  <2>2. faults = 0 /\ c \notin history.overflowed /\ c \notin history.left
    BY DEF ConnectionsFrame
  <2>3. Joined(c)' /\ Joined(c)
    BY <1>0, <2>1 DEF ConnectionsFrame
  <2>4. client[c].conn # "none" /\ client[c].conn # "left"
    BY <2>1, <2>2, <2>3 DEF ReasonsInv
  <2>5. CASE client[c].conn = "closed"
    <3>1. Told(c) \/ (serve.at = "exited" /\ c # serve.final)
      BY <1>0, <2>1, <2>2, <2>3, <2>5 DEF ReasonsInv, ClosedWithReason
    <3> QED
      BY <2>1, <3>1 DEF ConnectionsFrame
  <2>6. CASE client[c].conn = "open"
    BY <2>1, <2>3, <2>6 DEF ConnectionsFrame
  <2> QED
    BY <1>0, <2>1, <2>4, <2>5, <2>6
<1> QED
  BY <1>1, <1>2, <1>3, <1>4 DEF ReasonsInv

\* Nobody comes to owe an explanation, and none is taken back, while the streams
\* and the places of the attaches stay.
LEMMA ExplanationsKept ==
    ASSUME faults = 0, ReasonsInv, history.overflowed \subseteq history'.overflowed,
           \A c \in Clients : /\ Writing(outbox'[c]) => Writing(outbox[c]) /\ Stream(outbox'[c]) = Stream(outbox[c])
                              /\ outbox'[c].finished => outbox[c].finished
                              /\ c = shared'.previous /\ ~Displacing' => c = shared.previous /\ ~Displacing
    PROVE  Explanations'
  BY DEF ReasonsInv, Explanations, Owed, Explained

\* A writer that stops by itself has passed on the word of explanation.
LEMMA ReasonsWriter ==
    ASSUME TypeOK, StreamInv, ReasonsInv, NEW c \in Clients, TakeNext(c) \/ Write(c) \/ WriterEnds(c)
    PROVE  ConnectionsFrame /\ (faults' = 0 => Explanations')
<1>0. /\ client \in [Clients -> Connections] /\ outbox \in [Clients -> Outboxes]
      /\ outbox[c] \in Outboxes /\ outbox[c].got \in Seq(Messages)
  BY DEF TypeOK, Outboxes
<1>1. /\ shared' = shared /\ serve' = serve /\ app' = app /\ history' = history /\ faults' = faults
      /\ \A d \in Clients : d # c => outbox'[d] = outbox[d] /\ client'[d] = client[d]
      /\ client'[c].relay = client[c].relay
      /\ client'[c].conn = IF WriterEnds(c) THEN "closed" ELSE client[c].conn
  <2>1. shared' = shared /\ serve' = serve /\ app' = app /\ history' = history /\ faults' = faults
    BY DEF TakeNext, Write, WriterEnds
  <2>2. CASE WriterEnds(c)
    BY <1>0, <2>1, <2>2 DEF WriterEnds, Connections
  <2>3. CASE ~WriterEnds(c)
    BY <1>0, <2>1, <2>3 DEF TakeNext, Write
  <2> QED
    BY <2>2, <2>3
<1>2. /\ outbox'[c].finished = outbox[c].finished /\ outbox'[c].abandoned = outbox[c].abandoned
      /\ outbox[c].writer # "none" /\ outbox'[c].writer # "none"
      /\ outbox'[c].writer = "done" => WriterEnds(c)
      /\ Writing(outbox'[c]) => Writing(outbox[c]) /\ Stream(outbox'[c]) = Stream(outbox[c])
      /\ \/ outbox'[c].got = outbox[c].got
         \/ outbox'[c].got = Append(outbox[c].got, outbox[c].hand)
  <2>1. CASE TakeNext(c)
    <3>1. /\ outbox[c].writer = "take" /\ outbox[c].queue # <<>>
          /\ outbox'[c] = Taken(outbox[c])
      BY <1>0, <2>1 DEF TakeNext
    <3> QED
      BY <1>0, <3>1, TakeStream DEF Writing
  <2>2. CASE Write(c)
    <3>1. /\ outbox[c].writer = "write"
          /\ outbox'[c] = Written(outbox[c])
      BY <1>0, <2>2 DEF Write
    <3>2. outbox'[c].got = Append(outbox[c].got, outbox[c].hand)
      BY <1>0, <3>1 DEF Written, Outboxes
    <3> QED
      BY <1>0, <3>1, <3>2, WriteStream DEF Writing
  <2>3. CASE WriterEnds(c)
    <3>1. /\ outbox[c].writer \in {"take", "write"}
          /\ outbox'[c] = Ended(outbox[c])
      BY <1>0, <2>3 DEF WriterEnds
    <3> QED
      BY <1>0, <2>3, <3>1, EndStream DEF Writing
  <2> QED
    BY <2>1, <2>2, <2>3
<1>3. \A d \in Clients : Told(d) => Told(d)'
  <2>1. \A s \in Seq(Messages), m \in Messages :
           \A i \in DOMAIN s : i \in DOMAIN Append(s, m) /\ Append(s, m)[i] = s[i]
    OBVIOUS
  <2>2. outbox[c].hand \in Messages
    BY <1>0 DEF Outboxes
  <2>3. \A i \in DOMAIN outbox[c].got : i \in DOMAIN outbox'[c].got /\ outbox'[c].got[i] = outbox[c].got[i]
    BY <1>0, <1>2, <2>1, <2>2
  <2> QED
    BY <1>1, <2>3 DEF Told
<1>4. ASSUME WriterEnds(c), client[c].conn = "open", faults = 0, c \notin history.overflowed PROVE Told(c)'
  <2>1. ~outbox[c].abandoned
    BY <1>4 DEF ReasonsInv
  <2>2. outbox[c].writer = "take" /\ outbox[c].queue = <<>> /\ outbox[c].finished
    BY <1>4, <2>1 DEF WriterEnds
  <2>3. Writing(outbox[c]) /\ Explained(c)
    BY <1>4, <2>1, <2>2 DEF ReasonsInv, Writing
  <2>4. Stream(outbox[c]) = outbox[c].got
    <3>1. <<>> \o <<>> = <<>> /\ outbox[c].got \o <<>> = outbox[c].got
      BY <1>0, MessageTypes, Concatenations
    <3> QED
      BY <2>2, <3>1 DEF Stream, Hand
  <2> QED
    BY <1>3, <2>3, <2>4 DEF Explained, NoticeFree, Told
<1>5. ConnectionsFrame
  BY <1>0, <1>1, <1>2, <1>3, <1>4 DEF ConnectionsFrame, Joined
<1>6. Displacing' = Displacing
  BY <1>1 DEF Displacing
<1> QED
  BY <1>1, <1>2, <1>5, <1>6, ExplanationsKept

\* Clients come, type and go; only `left` and `none` are of their doing.
LEMMA ReasonsClient ==
    ASSUME TypeOK, StreamInv, ReasonsInv, NewcomersIdle,
           NEW c \in Clients, Connect(c) \/ AcceptFails(c) \/ Type(c) \/ Leave(c)
    PROVE  ConnectionsFrame /\ (faults' = 0 => Explanations')
<1>0. client \in [Clients -> Connections] /\ history \in Histories /\ serve \in Serves /\ faults \in Nat
  BY DEF TypeOK
<1>1. /\ shared' = shared /\ outbox' = outbox /\ app' = app /\ faults' \in {faults, faults + 1}
      /\ history'.overflowed = history.overflowed /\ history.left \subseteq history'.left
      /\ serve'.waited = serve.waited /\ serve'.pumped = serve.pumped
  BY <1>0 DEF Connect, AcceptFails, Type, Leave, Fault, Histories, Serves
<1>2. serve.at = "exited" => serve'.at = "exited" /\ serve'.final = serve.final
  BY <1>0 DEF Connect, AcceptFails, Type, Leave, Serves
<1>3. /\ \A d \in Clients : d # c => client'[d] = client[d]
      /\ client'[c].relay = client[c].relay \/ client'[c].relay = "handshake"
      /\ client'[c].relay = "displace" <=> client[c].relay = "displace"
  <2>1. CASE Connect(c)
    <3>1. PICK asks : client' = [client EXCEPT ![c] = [@ EXCEPT !.conn = "open", !.relay = "handshake",
                                                                !.asked = asks]]
      BY <2>1 DEF Connect
    <3>2. client[c].relay = "none"
      BY <2>1 DEF Connect, NewcomersIdle
    <3> QED
      BY <1>0, <3>1, <3>2 DEF Connections
  <2>2. CASE AcceptFails(c) \/ Type(c) \/ Leave(c)
    BY <1>0, <2>2 DEF AcceptFails, Type, Leave, Connections
  <2> QED
    BY <2>1, <2>2
<1>4. \/ client'[c].conn = client[c].conn
      \/ client[c].conn = "none" /\ client'[c].conn = "open"
      \/ client[c].conn = "none" /\ client'[c].conn = "closed"
      \/ client[c].conn \in {"none", "open"} /\ client'[c].conn = "left" /\ c \in history'.left
  <2>1. CASE Connect(c)
    <3>1. PICK asks : client' = [client EXCEPT ![c] = [@ EXCEPT !.conn = "open", !.relay = "handshake",
                                                                !.asked = asks]]
      BY <2>1 DEF Connect
    <3>2. client[c].conn = "none"
      BY <2>1 DEF Connect
    <3> QED
      BY <1>0, <3>1, <3>2 DEF Connections
  <2>2. CASE AcceptFails(c) \/ Type(c)
    BY <1>0, <2>2 DEF AcceptFails, Type, Connections
  <2>3. CASE Leave(c)
    BY <1>0, <2>3 DEF Leave, Connections, Histories
  <2> QED
    BY <2>1, <2>2, <2>3
<1>5. \A d \in Clients : Told(d)' = Told(d) /\ Joined(d)' = Joined(d)
  BY <1>1 DEF Told, Joined
<1>6. faults' = 0 => faults = 0
  BY <1>0, <1>1
<1>7. ConnectionsFrame
  BY <1>1, <1>2, <1>3, <1>4, <1>5, <1>6 DEF ConnectionsFrame
<1>8. Displacing' = Displacing
  BY <1>3 DEF Displacing
<1> QED
  BY <1>1, <1>6, <1>7, <1>8, ExplanationsKept

\* A relay that ends closes the connection of nobody who is installed; who lost the
\* slot, or whose connection is gone, detaches.
LEMMA ReasonsRelay ==
    ASSUME TypeOK, StreamInv, ReasonsInv, NEW c \in Clients,
           \/ HandshakeFails(c) \/ AttachRefused(c) \/ AnnounceAttached(c)
           \/ Apply(c) \/ ReceiveFails(c) \/ Detach(c)
    PROVE  ConnectionsFrame /\ (faults' = 0 => Explanations')
<1>0. /\ client \in [Clients -> Connections] /\ client[c] \in Connections
      /\ history \in Histories /\ shared \in Gates /\ faults \in Nat
  BY DEF TypeOK
<1>1. /\ outbox' = outbox /\ serve' = serve /\ app' = app /\ faults' \in {faults, faults + 1}
      /\ history'.overflowed = history.overflowed /\ history'.left = history.left
      /\ shared'.previous = shared.previous
  BY <1>0 DEF HandshakeFails, AttachRefused, AnnounceAttached, Apply, ReceiveFails, Detach, Fault, Histories, Gates
<1>2. faults' = 0 => faults = 0 /\ faults' # faults + 1
  BY <1>0, <1>1
<1>3. \A d \in Clients : d # c => client'[d] = client[d] /\ (d = shared'.slot => d = shared.slot)
  <2>1. CASE HandshakeFails(c) \/ AttachRefused(c)
    BY <1>0, <2>1 DEF HandshakeFails, AttachRefused, CloseAndEnd
  <2>2. CASE AnnounceAttached(c) \/ Apply(c) \/ ReceiveFails(c)
    BY <1>0, <2>2 DEF AnnounceAttached, Apply, ReceiveFails, GoTo
  <2>3. CASE Detach(c)
    BY <1>0, <2>3, ClientsAssumption DEF Detach, GoTo, CloseAndEnd, Gates
  <2> QED
    BY <2>1, <2>2, <2>3
<1>4. /\ client[c].relay \in {"handshake", "announce", "relaying", "detach", "panicked"}
      /\ client'[c].relay \notin {"displace", "abandon"} /\ (client'[c].conn = "none" => client[c].conn = "none")
      /\ \/ client'[c].conn = client[c].conn
         \/ client'[c].conn = "closed" /\ (~Joined(c) \/ client[c].relay = "panicked")
      /\ faults' = 0 /\ c \notin history.overflowed =>
            /\ client'[c].relay # "panicked"
            /\ client'[c].relay = "release" => client'[c].conn # "open"
            /\ client'[c].relay = "detach" /\ c = shared'.slot => client'[c].conn # "open"
  <2>1. CASE HandshakeFails(c) \/ AttachRefused(c)
    <3>1. /\ client' = [client EXCEPT ![c] = [@ EXCEPT !.conn = "closed", !.relay = "done"]]
          /\ client[c].relay = "handshake"
      BY <2>1 DEF HandshakeFails, AttachRefused, MayLock, CloseAndEnd
    <3>2. ~Joined(c)
      BY <3>1 DEF StreamInv, JoinedInv
    <3> QED
      BY <1>0, <3>1, <3>2 DEF Connections
  <2>2. CASE AnnounceAttached(c)
    <3>1. client' = [client EXCEPT ![c] = Moved(@, "relaying", 0)] /\ client[c].relay = "announce"
      BY <2>2 DEF AnnounceAttached
    <3> QED
      BY <1>0, <3>1 DEF Moved, Connections
  <2>3. CASE Apply(c)
    <3>1. PICK there \in {"relaying", "detach", "panicked"} :
            /\ client' = [client EXCEPT ![c] = Spent(@, there)]
            /\ there = "detach" => ~Owns(c)
            /\ there = "panicked" => faults' = faults + 1
      BY <2>3 DEF Apply, Fault
    <3>2. client[c].relay = "relaying" /\ shared' = shared
      BY <2>3 DEF Apply
    <3> QED
      BY <1>0, <1>2, <3>1, <3>2 DEF Spent, Owns, Connections
  <2>4. CASE ReceiveFails(c)
    <3>1. PICK there \in {"detach", "panicked"} :
            /\ client' = [client EXCEPT ![c].relay = there]
            /\ \/ client[c].conn \in {"closed", "left"} /\ there = "detach"
               \/ faults' = faults + 1
      BY <2>4 DEF ReceiveFails, GoTo, Fault
    <3>2. client[c].relay = "relaying"
      BY <2>4 DEF ReceiveFails
    <3> QED
      BY <1>0, <1>2, <3>1, <3>2 DEF Connections
  <2>5. CASE Detach(c)
    <3>1. client[c].relay \in {"detach", "panicked"}
      BY <2>5 DEF Detach
    <3>2. CASE shared.slot = c
      <4>1. client' = [client EXCEPT ![c] = Moved(@, "release", shared.generation + 1)]
        BY <2>5, <3>2 DEF Detach
      <4>2. faults' = 0 /\ c \notin history.overflowed => client[c].conn # "open"
        BY <1>2, <3>1, <3>2 DEF ReasonsInv
      <4> QED
        BY <1>0, <3>1, <4>1, <4>2 DEF Moved, Connections
    <3>3. CASE shared.slot # c
      <4>1. \/ client' = [client EXCEPT ![c].relay = "done"]
            \/ /\ client' = [client EXCEPT ![c] = [@ EXCEPT !.conn = "closed", !.relay = "done"]]
               /\ client[c].relay = "panicked"
        BY <2>5, <3>3 DEF Detach, GoTo, CloseAndEnd
      <4>2. CASE client' = [client EXCEPT ![c].relay = "done"]
        BY <1>0, <3>1, <4>2 DEF Connections
      <4>3. CASE /\ client' = [client EXCEPT ![c] = [@ EXCEPT !.conn = "closed", !.relay = "done"]]
                 /\ client[c].relay = "panicked"
        BY <1>0, <4>3 DEF Connections
      <4> QED
        BY <4>1, <4>2, <4>3
    <3> QED
      BY <3>2, <3>3
  <2> QED
    BY <2>1, <2>2, <2>3, <2>4, <2>5
<1>5. faults' = 0 /\ c \notin history.overflowed => client[c].relay # "panicked"
  BY <1>2 DEF ReasonsInv
<1>6. \A d \in Clients : Told(d)' = Told(d) /\ Joined(d)' = Joined(d)
  BY <1>1 DEF Told, Joined
<1>7. ConnectionsFrame
  BY <1>0, <1>1, <1>2, <1>3, <1>4, <1>5, <1>6 DEF ConnectionsFrame
<1>8. Displacing' = Displacing
  BY <1>3, <1>4 DEF Displacing
<1> QED
  BY <1>1, <1>2, <1>7, <1>8, ExplanationsKept

\* A new owner's connection is open or left; from now on its predecessor is owed
\* an explanation.
LEMMA ReasonsInstall ==
    ASSUME TypeOK, StreamInv, StreamInv', ReasonsInv, NEW c \in Clients, Install(c)
    PROVE  ConnectionsFrame /\ (faults' = 0 => Explanations')
<1>0. /\ shared' = [shared EXCEPT !.attach = c, !.preamble = <<>>, !.held = FALSE, !.previous = shared.slot,
                                  !.slot = c, !.generation = @ + 1]
      /\ shared \in Gates /\ c # shared.slot
  BY InstallFacts DEF Install, TypeOK, StreamInv, JoinedInv
<1>1. Displacing'
  BY InstallFacts DEF Displacing
<1>2. \A d \in Clients : Told(d) => Told(d)'
  <2>1. ~Told(c)
    <3>1. NoOutbox.got = <<>> /\ DOMAIN <<>> = {}
      BY DEF NoOutbox
    <3> QED
      BY <3>1, InstallFacts DEF Told
  <2> QED
    BY <2>1, InstallFacts DEF Told
<1>3. ConnectionsFrame
  <2>1. client[c].conn \in {"open", "left"}
    BY InstallFacts DEF Readable
  <2>2. \A d \in Clients : d # c => (Joined(d)' <=> Joined(d))
    BY InstallFacts DEF Joined
  <2>3. \A d \in Clients : d # c => d # shared'.slot
    BY InstallFacts
  <2>4. \A d \in Clients : client'[d].relay # "abandon"
    <3>1. shared.attach = NoClient /\ NoClient \notin Clients
      BY ClientsAssumption DEF Install, MayLock
    <3> QED
      BY <3>1, InstallFacts DEF StreamInv, AttachInv
  <2> QED
    BY <1>2, <2>1, <2>2, <2>3, <2>4, InstallFacts DEF ConnectionsFrame
<1>4. faults' = 0 => Explanations'
  <2>1. \A d \in Clients : outbox'[d].finished => d # c /\ outbox[d].finished
    BY InstallFacts
  <2> QED
    BY <1>1, <2>1, InstallFacts DEF ReasonsInv, Explanations, Owed, Explained
<1> QED
  BY <1>3, <1>4

\* The previous owner is told.
LEMMA ReasonsDisplace ==
    ASSUME TypeOK, StreamInv, ReasonsInv, NEW c \in Clients, Displace(c)
    PROVE  ConnectionsFrame /\ (faults' = 0 => Explanations')
<1>0. /\ client \in [Clients -> Connections] /\ outbox \in [Clients -> Outboxes] /\ shared \in Gates
      /\ \A d \in Clients : outbox[d] \in Outboxes
  BY DEF TypeOK
<1>1. /\ serve' = serve /\ app' = app /\ faults' = faults
      /\ shared'.slot = shared.slot /\ shared'.previous = shared.previous
      /\ history.overflowed \subseteq history'.overflowed /\ history'.left = history.left
      /\ \A d \in Clients : /\ client'[d].conn = client[d].conn
                            /\ \/ client'[d].relay = client[d].relay
                               \/ client'[d].relay = "resize"
                               \/ client'[d].relay = "abandon" /\ shared.previous \in history'.overflowed
      /\ Displacing
  <2>1. PICK there \in {"resize", "abandon"} :
          /\ client' = [client EXCEPT ![c].relay = there]
          /\ there = "abandon" => shared.previous \in history'.overflowed
    <3> DEFINE over == {d \in Clients : d = shared.previous /\ Overflows(outbox[d], <<Displaced>>)}
    <3>1. /\ client' = [client EXCEPT ![c].relay = IF over = {} THEN "resize" ELSE "abandon"]
          /\ history' = [history EXCEPT !.overflowed = @ \cup over]
      BY DEF Displace, GoTo
    <3>2. over # {} => shared.previous \in over
      OBVIOUS
    <3>3. history'.overflowed = history.overflowed \cup over
      BY <3>1 DEF TypeOK, Histories
    <3> QED
      BY <3>1, <3>2, <3>3
  <2>2. history.overflowed \subseteq history'.overflowed /\ history'.left = history.left
    BY DEF Displace, TypeOK, Histories
  <2>3. client[c].relay = "displace" /\ Displacing
    BY DEF Displace, Displacing
  <2> QED
    BY <1>0, <2>1, <2>2, <2>3 DEF Displace, Gates, Connections
<1>2. ASSUME NEW d \in Clients
      PROVE  /\ outbox'[d].writer = outbox[d].writer /\ outbox'[d].finished = outbox[d].finished
             /\ outbox'[d].abandoned = outbox[d].abandoned /\ outbox'[d].got = outbox[d].got
             /\ IF d = shared.previous
                THEN Writing(outbox'[d]) => ~NoticeFree(Stream(outbox'[d]))
                ELSE outbox'[d] = outbox[d]
  <2>1. CASE d # shared.previous
    BY <1>0, <2>1 DEF Displace
  <2>2. CASE d = shared.previous
    <3>1. /\ Joined(d) /\ outbox[d].writer # "none" /\ NoticeFree(Stream(outbox[d])) /\ ~outbox[d].finished
          /\ outbox[d].abandoned => outbox[d].queue = <<>>
          /\ WellFormed(Stream(outbox[d]), Promised(d)) /\ (Writing(outbox[d]) => Stream(outbox[d]) # <<>>)
      BY <1>1, <2>2 DEF StreamInv, JoinedInv, NoticesInv, AccountsInv, ShapeInv, Joined
    <3>2. outbox[d] \in Outboxes /\ outbox'[d] = Queue(outbox[d], <<Displaced>>) /\ Displaced # AppExited
      BY <1>0, <2>2 DEF Displace, Displaced, AppExited
    <3>3. /\ outbox'[d].writer = outbox[d].writer /\ outbox'[d].finished = outbox[d].finished
          /\ outbox'[d].abandoned = outbox[d].abandoned /\ outbox'[d].got = outbox[d].got
          /\ Writing(outbox[d]) => ~NoticeFree(Stream(outbox'[d]))
      BY <3>1, <3>2, NoticeStream
    <3> QED
      BY <2>2, <3>3 DEF Writing
  <2> QED
    BY <2>1, <2>2
<1>3. \A d \in Clients : Told(d)' = Told(d) /\ Joined(d)' = Joined(d)
  BY <1>2 DEF Told, Joined
<1>4. ConnectionsFrame
  BY <1>1, <1>2, <1>3 DEF ConnectionsFrame
<1>5. faults' = 0 => Explanations'
  BY <1>1, <1>2 DEF ReasonsInv, Explanations, Owed, Explained
<1> QED
  BY <1>4, <1>5

\* The previous owner, told, is served to its end; without a fault nobody is given
\* up.
LEMMA ReasonsEndAttach ==
    ASSUME TypeOK, StreamInv, ReasonsInv, NEW c \in Clients, EndAttach(c)
    PROVE  ConnectionsFrame /\ (faults' = 0 => Explanations')
<1>0. /\ client \in [Clients -> Connections] /\ outbox \in [Clients -> Outboxes] /\ shared \in Gates /\ faults \in Nat
      /\ NoClient \notin Clients /\ \A d \in Clients : outbox[d] \in Outboxes
  BY ClientsAssumption DEF TypeOK
<1>1. /\ serve' = serve /\ app' = app /\ history' = history /\ faults' \in {faults, faults + 1}
      /\ shared'.slot = shared.slot /\ shared'.previous = NoClient /\ client[c].relay = "resize"
  BY <1>0 DEF EndAttach, MayResize, Fault, Gates
<1>2. faults' = 0 =>
         /\ faults = 0 /\ client' = [client EXCEPT ![c].relay = "announce"]
         /\ \A d \in Clients : outbox'[d] = IF d = shared.previous THEN Finish(outbox[d]) ELSE outbox[d]
  <2>1. faults' = 0 => faults' # faults + 1 /\ faults = 0
    BY <1>0, <1>1
  <2> QED
    BY <1>0, <2>1 DEF EndAttach, GoTo, Fault
<1>3. /\ \A d \in Clients : d # c => client'[d] = client[d]
      /\ client'[c].conn = client[c].conn \/ (client'[c].conn = "closed" /\ faults' # 0)
      /\ client'[c].relay = "announce" \/ faults' # 0
      /\ client'[c].relay # "abandon"
      /\ \A d \in Clients : d # c => client[d].relay # "abandon"
  <2>3. \A d \in Clients : d # c => client[d].relay # "abandon"
    BY <1>0, <1>1 DEF StreamInv, AttachInv
  <2>1. CASE client' = [client EXCEPT ![c].relay = "announce"]
    BY <1>0, <2>1, <2>3 DEF Connections
  <2>2. CASE client' = [Disconnected({c}) EXCEPT ![c].relay = "panicked"] /\ faults' = faults + 1
    <3> DEFINE f == Disconnected({c})
    <3>1. f \in [Clients -> Connections] /\ f[c].conn = "closed" /\ \A d \in Clients : d # c => f[d] = client[d]
      BY <1>0, DisconnectedType, DisconnectedConn DEF Disconnected
    <3>2. client' = [f EXCEPT ![c].relay = "panicked"] /\ faults' # 0
      BY <1>0, <2>2
    <3> HIDE DEF f
    <3>3. \A d \in Clients : d # c => client'[d] = client[d]
      BY <3>1, <3>2
    <3>4. client'[c].conn = "closed" /\ client'[c].relay = "panicked"
      BY <3>1, <3>2 DEF Connections
    <3> QED
      BY <2>3, <3>2, <3>3, <3>4
  <2> QED
    BY <2>1, <2>2 DEF EndAttach, GoTo, Fault
<1>4. \A d \in Clients : outbox'[d].got = outbox[d].got /\ outbox'[d].writer = outbox[d].writer
  <2>1. \A d \in Clients : \/ outbox'[d] \in {outbox[d], Finish(outbox[d]), Abandon(outbox[d])}
                           \/ outbox'[d] = Abandon(Finish(outbox[d]))
    BY <1>0 DEF EndAttach
  <2> QED
    BY <1>0, <2>1, FinishType, AbandonStream, FinishStream
<1>5. \A d \in Clients : Told(d)' = Told(d) /\ Joined(d)' = Joined(d)
  BY <1>4 DEF Told, Joined
<1>6. ASSUME faults' = 0, NEW d \in Clients
      PROVE  /\ outbox'[d].abandoned = outbox[d].abandoned
             /\ Stream(outbox'[d]) = Stream(outbox[d])
             /\ outbox'[d].finished => outbox[d].finished \/ d = shared.previous
  BY <1>0, <1>2, <1>6, FinishStream
<1>7. ConnectionsFrame
  BY <1>0, <1>1, <1>2, <1>3, <1>4, <1>5, <1>6 DEF ConnectionsFrame
<1>8. ~Displacing
  BY <1>0, <1>1 DEF StreamInv, AttachInv, Displacing
<1>9. faults' = 0 => Explanations'
  <2>1. ASSUME faults' = 0, NEW d \in Clients, d \notin history.overflowed, Owed(d)' PROVE Explained(d)'
    <3>1. Owed(d)
      BY <1>0, <1>1, <1>6, <1>8, <2>1 DEF Owed
    <3>2. Explained(d)
      BY <1>2, <2>1, <3>1 DEF ReasonsInv, Owed
    <3> QED
      BY <1>4, <1>6, <2>1, <3>2 DEF Explained, Writing
  <2> QED
    BY <1>1, <2>1 DEF Explanations
<1> QED
  BY <1>7, <1>9

\* The connection that is given up at the end of its relay is gone already.
LEMMA ReasonsRelease ==
    ASSUME TypeOK, StreamInv, ReasonsInv, NEW c \in Clients, ReleaseConnection(c)
    PROVE  ConnectionsFrame /\ (faults' = 0 => Explanations')
<1>0. /\ client \in [Clients -> Connections] /\ outbox \in [Clients -> Outboxes]
      /\ \A d \in Clients : outbox[d] \in Outboxes
  BY DEF TypeOK
<1>1. /\ serve' = serve /\ app' = app /\ history' = history /\ faults' = faults /\ shared' = shared
      /\ client[c].relay = "release" /\ outbox' = [outbox EXCEPT ![c] = Abandon(@)]
  BY DEF ReleaseConnection
<1>2. /\ \A d \in Clients : d # c => outbox'[d] = outbox[d]
      /\ outbox'[c].got = outbox[c].got /\ outbox'[c].writer = outbox[c].writer
      /\ outbox'[c].finished = outbox[c].finished /\ outbox'[c].abandoned
  BY <1>0, <1>1, AbandonStream
<1>3. /\ \A d \in Clients : d # c => client'[d].conn = client[d].conn /\ client'[d].relay = client[d].relay
      /\ client'[c].relay = "done"
      /\ client'[c].conn = IF outbox[c].abandoned THEN client[c].conn ELSE "closed"
  <2> DEFINE f == Disconnected(Dropped)
  <2>1. f \in [Clients -> Connections]
    BY <1>0, DisconnectedType
  <2>2. \A d \in Clients : f[d].relay = client[d].relay /\ f[d].conn = IF d \in Dropped THEN "closed" ELSE client[d].conn
    BY DisconnectedConn, DisconnectedKeeps
  <2>3. client' = [f EXCEPT ![c] = Moved(@, "done", 0)]
    BY DEF ReleaseConnection
  <2>4. c \in Dropped <=> ~outbox[c].abandoned
    BY <1>2 DEF Dropped
  <2>5. \A d \in Clients : d # c => d \notin Dropped
    BY <1>2 DEF Dropped
  <2> HIDE DEF f
  <2> QED
    BY <2>1, <2>2, <2>3, <2>4, <2>5 DEF Moved, Connections
<1>4. faults = 0 /\ c \notin history.overflowed => client[c].conn # "open"
  BY <1>1 DEF ReasonsInv
<1>5. \A d \in Clients : Told(d)' = Told(d) /\ Joined(d)' = Joined(d)
  BY <1>2 DEF Told, Joined
<1>6. ConnectionsFrame
  BY <1>1, <1>2, <1>3, <1>4, <1>5 DEF ConnectionsFrame
<1>7. Displacing' = Displacing
  BY <1>1, <1>3 DEF Displacing
<1>8. \A d \in Clients : /\ Writing(outbox'[d]) => Writing(outbox[d]) /\ Stream(outbox'[d]) = Stream(outbox[d])
                         /\ outbox'[d].finished => outbox[d].finished
  BY <1>2 DEF Writing
<1> QED
  BY <1>1, <1>6, <1>7, <1>8, ExplanationsKept

\* Output closes nobody\'s connection; whom it finds behind is a laggard from now on.
LEMMA ReasonsOutput ==
    ASSUME TypeOK, StreamInv, ReasonsInv, SendOutput
    PROVE  ConnectionsFrame /\ (faults' = 0 => Explanations')
<1>1. \A d \in Clients : /\ outbox'[d].got = outbox[d].got /\ outbox'[d].writer = outbox[d].writer
                         /\ outbox'[d].finished = outbox[d].finished
                         /\ outbox'[d].abandoned = outbox[d].abandoned
  BY SendOutputFacts
<1>2. \A d \in Clients : Told(d)' = Told(d) /\ Joined(d)' = Joined(d)
  BY <1>1 DEF Told, Joined
<1>3. history.overflowed \subseteq history'.overflowed /\ (app'.pump = "abandon" => app'.to \in history'.overflowed)
  BY SendOutputFacts
<1>4. ConnectionsFrame
  BY <1>1, <1>2, <1>3, SendOutputFacts DEF ConnectionsFrame
<1>5. Displacing' = Displacing
  BY SendOutputFacts DEF Displacing
<1>6. ASSUME NEW d \in Clients, Explained(d) PROVE Explained(d)'
  <2>1. CASE d # app.to
    BY <1>6, <2>1, SendOutputFacts DEF Explained
  <2>2. CASE d = app.to
    <3>1. Stream(outbox'[d]) = Stream(outbox[d]) \/ Stream(outbox'[d]) = Append(Stream(outbox[d]), Output(app.routed))
      BY <2>2, SendOutputFacts
    <3>2. Stream(outbox[d]) \in Seq(Messages)
      BY StreamType DEF TypeOK
    <3>3. \A s \in Seq(Messages), m \in Messages : ~NoticeFree(s) => ~NoticeFree(Append(s, m))
      <4>1. \A s \in Seq(Messages), m \in Messages :
               \A i \in DOMAIN s : i \in DOMAIN Append(s, m) /\ Append(s, m)[i] = s[i]
        OBVIOUS
      <4> QED
        BY <4>1 DEF NoticeFree
    <3>4. Output(app.routed) \in Messages
      BY MessageTypes DEF TypeOK, Apps
    <3>5. ~NoticeFree(Stream(outbox[d])) => ~NoticeFree(Stream(outbox'[d]))
      BY <3>1, <3>2, <3>3, <3>4
    <3> QED
      BY <1>1, <1>6, <3>5 DEF Explained, Writing
  <2> QED
    BY <2>1, <2>2
<1>7. faults' = 0 => Explanations'
  <2>1. ASSUME faults' = 0, NEW d \in Clients, d \notin history'.overflowed, Owed(d)' PROVE Explained(d)'
    <3>1. Owed(d) /\ d \notin history.overflowed /\ faults = 0
      BY <1>1, <1>3, <1>5, <2>1, SendOutputFacts DEF Owed
    <3>2. Explained(d)
      BY <2>1, <3>1 DEF ReasonsInv, Owed
    <3> QED
      BY <1>6, <2>1, <3>2
  <2> QED
    BY <2>1 DEF Explanations
<1> QED
  BY <1>4, <1>7

\* Nobody but a laggard is given up for its backlog.
LEMMA ReasonsAbandon ==
    ASSUME TypeOK, StreamInv, ReasonsInv, NEW late, late \in history.overflowed,
           shared' = shared, serve' = serve, history' = history, faults' = faults,
           app' = app \/ app'.pump # "abandon",
           \A d \in Clients :
              /\ outbox'[d] = IF d = late THEN Abandon(outbox[d]) ELSE outbox[d]
              /\ client'[d].conn = IF d \in Dropped THEN "closed" ELSE client[d].conn
              /\ \/ client'[d].relay = client[d].relay
                 \/ client[d].relay = "abandon" /\ client'[d].relay = "resize"
    PROVE  ConnectionsFrame /\ (faults' = 0 => Explanations')
<1>1. \A d \in Clients : /\ outbox'[d].got = outbox[d].got /\ outbox'[d].writer = outbox[d].writer
                         /\ outbox'[d].finished = outbox[d].finished
                         /\ d # late => outbox'[d] = outbox[d]
                         /\ Writing(outbox'[d]) => Writing(outbox[d]) /\ outbox'[d] = outbox[d]
  <2>1. \A d \in Clients : outbox[d] \in Outboxes
    BY DEF TypeOK
  <2> QED
    BY <2>1, AbandonStream DEF Writing
<1>2. Dropped \subseteq {late}
  BY <1>1 DEF Dropped
<1>3. \A d \in Clients : Told(d)' = Told(d) /\ Joined(d)' = Joined(d)
  BY <1>1 DEF Told, Joined
<1>4. ConnectionsFrame
  BY <1>1, <1>2, <1>3 DEF ConnectionsFrame
<1>5. Displacing' = Displacing
  BY DEF Displacing
<1> QED
  BY <1>1, <1>4, <1>5, ExplanationsKept

\* The two senders that give somebody up do so with a laggard.
LEMMA ReasonsGivenUp ==
    ASSUME TypeOK, StreamInv, ReasonsInv, AbandonOverflowed \/ \E c \in Clients : AbandonDisplaced(c)
    PROVE  ConnectionsFrame /\ (faults' = 0 => Explanations')
<1>0. client \in [Clients -> Connections] /\ outbox \in [Clients -> Outboxes] /\ app \in Apps
  BY DEF TypeOK
<1>1. CASE AbandonOverflowed
  <2>1. /\ shared' = shared /\ serve' = serve /\ history' = history /\ faults' = faults
        /\ client' = Disconnected(Dropped) /\ app.pump = "abandon"
        /\ outbox' = [outbox EXCEPT ![app.to] = Abandon(@)]
        /\ app' = [app EXCEPT !.pump = "read", !.to = NoClient]
    BY <1>1 DEF AbandonOverflowed
  <2>2. app'.pump # "abandon" /\ app.to \in history.overflowed
    BY <1>0, <2>1 DEF Apps, ReasonsInv
  <2>3. \A d \in Clients :
           /\ outbox'[d] = IF d = app.to THEN Abandon(outbox[d]) ELSE outbox[d]
           /\ client'[d].conn = IF d \in Dropped THEN "closed" ELSE client[d].conn
           /\ client'[d].relay = client[d].relay
    BY <1>0, <2>1, DisconnectedConn, DisconnectedKeeps
  <2> QED
    BY <2>1, <2>2, <2>3, ReasonsAbandon
<1>2. ASSUME NEW c \in Clients, AbandonDisplaced(c)
      PROVE  ConnectionsFrame /\ (faults' = 0 => Explanations')
  <2>1. /\ shared' = shared /\ serve' = serve /\ history' = history /\ faults' = faults /\ app' = app
        /\ client[c].relay = "abandon" /\ client' = [Disconnected(Dropped) EXCEPT ![c].relay = "resize"]
        /\ \A d \in Clients : outbox'[d] = IF d = shared.previous THEN Abandon(outbox[d]) ELSE outbox[d]
    BY <1>2 DEF AbandonDisplaced
  <2>2. shared.previous \in history.overflowed
    BY <2>1 DEF ReasonsInv
  <2>3. \A d \in Clients : /\ client'[d].conn = IF d \in Dropped THEN "closed" ELSE client[d].conn
                           /\ \/ client'[d].relay = client[d].relay
                              \/ client[d].relay = "abandon" /\ client'[d].relay = "resize"
    <3> DEFINE f == Disconnected(Dropped)
    <3>1. f \in [Clients -> Connections]
      BY <1>0, DisconnectedType
    <3>2. \A d \in Clients : /\ f[d].conn = IF d \in Dropped THEN "closed" ELSE client[d].conn
                             /\ f[d].relay = client[d].relay
      BY DisconnectedConn, DisconnectedKeeps
    <3>3. client' = [f EXCEPT ![c].relay = "resize"]
      BY <2>1
    <3> HIDE DEF f
    <3> QED
      BY <2>1, <3>1, <3>2, <3>3 DEF Connections
  <2> QED
    BY <2>1, <2>2, <2>3, ReasonsAbandon
<1> QED
  BY <1>1, <1>2

\* The last owner is told the exit, which the outcome, complete without a fault,
\* calls for.
LEMMA ReasonsStop ==
    ASSUME TypeOK, StreamInv, ReasonsInv, StopClients
    PROVE  ConnectionsFrame /\ (faults' = 0 => Explanations')
<1>0. /\ outbox \in [Clients -> Outboxes] /\ shared \in Gates /\ serve \in Serves /\ NoClient \notin Clients
      /\ \A d \in Clients : outbox[d] \in Outboxes
  BY ClientsAssumption DEF TypeOK
<1>1. /\ client' = client /\ history' = history /\ faults' = faults
      /\ shared'.slot = NoClient /\ shared'.previous = shared.previous
      /\ serve.at = "stop" /\ serve'.waited = serve.waited /\ serve'.pumped = serve.pumped
      /\ shared.attach = NoClient /\ shared.previous = NoClient
      /\ app.to = NoClient /\ app.pump = "done" /\ app' = app
  BY <1>0 DEF StopClients, PumpJoined, Gates, Serves, StreamInv, AttachInv, PumpInv
<1>2. ASSUME NEW d \in Clients
      PROVE  /\ outbox'[d].writer = outbox[d].writer /\ outbox'[d].got = outbox[d].got
             /\ outbox'[d].abandoned = outbox[d].abandoned
             /\ d # shared.slot => outbox'[d] = outbox[d]
             /\ d = shared.slot /\ faults = 0 => Explained(d)'
  <2>1. CASE d # shared.slot
    BY <1>0, <2>1 DEF StopClients
  <2>2. CASE d = shared.slot
    <3> DEFINE b == outbox[d]
               n == IF Complete THEN Send(b, <<AppExited>>) ELSE b
               p == Promised(d)
    <3>1. /\ b \in Outboxes /\ b.writer # "none" /\ NoticeFree(Stream(b)) /\ ~b.finished
          /\ ~(Payload(b.queue) > Backlog) /\ (b.abandoned => b.queue = <<>>)
          /\ WellFormed(Stream(b), p) /\ (Writing(b) => Stream(b) # <<>>)
      BY <1>0, <1>1, <2>2 DEF StreamInv, JoinedInv, NoticesInv, AccountsInv, ShapeInv, Joined
    <3>2. Writing(b) /\ ~b.finished => Payload(Stream(b)) = Len(p)
      <4>1. Writing(b) /\ ~b.finished => Given(b) + 0 = Len(p)
        BY <1>0, <1>1, <2>2 DEF StreamInv, AccountsInv, Carried
      <4>2. Given(b) \in Nat /\ (Writing(b) => Payload(Stream(b)) = Given(b))
        BY <3>1, StreamType DEF Writing
      <4> QED
        BY <4>1, <4>2
    <3>3. outbox'[d] = Finish(n)
      BY <1>0, <2>2 DEF StopClients
    <3>4. /\ n \in Outboxes /\ n.writer = b.writer /\ n.got = b.got /\ n.abandoned = b.abandoned
          /\ Complete /\ Writing(b) => ~NoticeFree(Stream(n))
      <4>1. CASE Complete
        <5> HIDE DEF b, p
        <5>1. n = Queue(b, <<AppExited>>)
          BY <3>1, <4>1, NoticeFits DEF b
        <5> HIDE DEF n
        <5> QED
          BY <3>1, <3>2, <5>1, NoticeStream
      <4>2. CASE ~Complete
        BY <3>1, <4>2
      <4> QED
        BY <4>1, <4>2
    <3>5. faults = 0 => Complete
      BY DEF ReasonsInv, Complete
    <3> HIDE DEF n
    <3>6. /\ Stream(outbox'[d]) = Stream(n) /\ outbox'[d].got = n.got
          /\ outbox'[d].abandoned = n.abandoned /\ outbox'[d].writer = n.writer
      BY <3>3, <3>4, FinishStream
    <3> QED
      BY <2>2, <3>4, <3>5, <3>6 DEF Explained, Writing
  <2> QED
    BY <2>1, <2>2
<1>3. \A d \in Clients : Told(d)' = Told(d) /\ Joined(d)' = Joined(d)
  BY <1>2 DEF Told, Joined
<1>4. ConnectionsFrame
  BY <1>0, <1>1, <1>2, <1>3 DEF ConnectionsFrame
<1>5. faults' = 0 => Explanations'
  <2>1. \A d \in Clients : d # shared.slot => (Explained(d)' <=> Explained(d)) /\ (Owed(d)' => Owed(d))
    BY <1>0, <1>1, <1>2 DEF Explained, Owed
  <2> QED
    BY <1>1, <1>2, <2>1 DEF ReasonsInv, Explanations, Owed
<1> QED
  BY <1>4, <1>5

\* The process ends behind the last owner's writer.
LEMMA ReasonsExit ==
    ASSUME TypeOK, StreamInv, ReasonsInv, Exit
    PROVE  ConnectionsFrame /\ (faults' = 0 => Explanations')
<1>1. /\ outbox' = outbox /\ shared' = shared /\ app' = app /\ faults' = faults /\ history' = history
      /\ serve.at = "flush" /\ serve'.at = "exited" /\ serve'.final = serve.final
      /\ serve'.waited = serve.waited /\ serve'.pumped = serve.pumped
  BY DEF Exit, ServeAt, TypeOK, Serves
<1>2. \A d \in Clients : /\ client'[d].conn = IF client[d].conn = "open" THEN "closed" ELSE client[d].conn
                         /\ client'[d].relay = client[d].relay
  BY DisconnectedConn, DisconnectedKeeps DEF Exit
<1>3. \A d \in Clients : client[d].conn = "open" => d # serve.final
  BY DEF Exit, ReasonsInv
<1>4. \A d \in Clients : Told(d)' = Told(d) /\ Joined(d)' = Joined(d)
  BY <1>1 DEF Told, Joined
<1>5. ConnectionsFrame
  BY <1>1, <1>2, <1>3, <1>4 DEF ConnectionsFrame
<1>6. Displacing' = Displacing
  BY <1>2 DEF Displacing
<1> QED
  BY <1>1, <1>5, <1>6, ExplanationsKept

\* The rest of the supervisor closes nothing.
LEMMA ReasonsSupervisor ==
    ASSUME TypeOK, StreamInv, ReasonsInv,
           \/ AppWrites \/ Route \/ PumpEnds \/ PumpFails
           \/ WaitApp \/ WaitFails \/ CloseSession \/ DeleteRecord \/ Recorder \/ UNCHANGED vars
    PROVE  ConnectionsFrame /\ (faults' = 0 => Explanations')
<1>0. shared \in Gates /\ serve \in Serves /\ app \in Apps /\ faults \in Nat
  BY DEF TypeOK
<1>1. /\ outbox' = outbox /\ client' = client /\ history' = history
      /\ app'.pump = "abandon" => app.pump = "abandon" /\ app'.to = app.to
  <2>1. outbox' = outbox /\ client' = client /\ history' = history
    BY DEF AppWrites, Route, PumpEnds, PumpFails, WaitApp, WaitFails, CloseSession, DeleteRecord, Recorder,
       ReceiveUpdate, PublishRecord, vars, state
  <2>2. CASE AppWrites \/ Route \/ PumpEnds \/ PumpFails
    BY <1>0, <2>2 DEF AppWrites, Route, PumpEnds, PumpFails, Apps
  <2>3. CASE WaitApp \/ WaitFails \/ CloseSession
    BY <1>0, <2>3 DEF WaitApp, WaitFails, CloseSession, Apps
  <2>4. CASE DeleteRecord \/ Recorder \/ UNCHANGED vars
    BY <2>4 DEF DeleteRecord, Recorder, ReceiveUpdate, PublishRecord, vars, state
  <2> QED
    BY <2>1, <2>2, <2>3, <2>4
<1>2. shared'.slot = shared.slot /\ shared'.previous = shared.previous
  BY <1>0 DEF AppWrites, Route, PumpEnds, PumpFails, WaitApp, WaitFails, CloseSession, DeleteRecord, Recorder,
     ReceiveUpdate, PublishRecord, vars, state, Gates
<1>3. faults' \in {faults, faults + 1}
  BY <1>0 DEF AppWrites, Route, PumpEnds, PumpFails, WaitApp, WaitFails, CloseSession, DeleteRecord, Recorder,
     ReceiveUpdate, PublishRecord, vars, state, Fault
<1>4. /\ serve.at = "exited" => serve'.at = "exited"
      /\ serve'.final = serve.final
      /\ faults' # faults + 1 => serve'.waited = serve.waited /\ serve'.pumped = serve.pumped
  <2>1. CASE AppWrites \/ Route \/ PumpEnds \/ Recorder \/ UNCHANGED vars
    BY <2>1 DEF AppWrites, Route, PumpEnds, Recorder, ReceiveUpdate, PublishRecord, vars, state
  <2>2. CASE PumpFails \/ WaitFails
    BY <1>0, <2>2 DEF PumpFails, WaitFails, Fault, Serves
  <2>3. CASE WaitApp \/ CloseSession \/ DeleteRecord
    <3>1. /\ serve.at \in {"wait", "gate", "close", "delete"}
          /\ \/ serve' = [serve EXCEPT !.at = "gate"]
             \/ serve' = [serve EXCEPT !.at = "close"]
             \/ serve' = [serve EXCEPT !.at = "stop", !.listening = FALSE]
             \/ serve' = [serve EXCEPT !.at = "flush"]
      BY <2>3 DEF WaitApp, CloseSession, DeleteRecord, ServeAt
    <3> QED
      BY <1>0, <3>1 DEF Serves
  <2> QED
    BY <2>1, <2>2, <2>3
<1>5. faults' = 0 => faults = 0 /\ faults' # faults + 1
  BY <1>0, <1>3
<1>6. \A d \in Clients : Told(d)' = Told(d) /\ Joined(d)' = Joined(d)
  BY <1>1 DEF Told, Joined
<1>7. ConnectionsFrame
  BY <1>1, <1>2, <1>4, <1>5, <1>6 DEF ConnectionsFrame
<1>8. Displacing' = Displacing
  BY <1>1 DEF Displacing
<1> QED
  BY <1>1, <1>2, <1>5, <1>7, <1>8, ExplanationsKept

\* Nobody is installed at the start, ...
LEMMA InitReasons == Init => ReasonsInv
<1> SUFFICES ASSUME Init PROVE ReasonsInv
  OBVIOUS
<1>1. /\ \A c \in Clients : /\ outbox[c] = NoOutbox /\ client[c].conn = "none" /\ client[c].relay = "none"
                            /\ ~Joined(c) /\ ~NoOutbox.finished /\ ~NoOutbox.abandoned /\ NoOutbox.writer = "none"
      /\ serve.waited /\ serve.pumped /\ shared.previous = NoClient /\ app.pump = "read"
      /\ NoClient \notin Clients
  BY ClientsAssumption DEF Init, NoOutbox, Joined
<1>2. Installed = {}
  <2>1. history.installs = <<>> /\ DOMAIN <<>> = {}
    BY DEF Init
  <2> QED
    BY <2>1 DEF Installed, ToSet
<1> QED
  BY <1>1, <1>2 DEF ReasonsInv, ClosedWithReason

\* ... and every step keeps the reasons.
LEMMA NextReasons == IInv /\ StreamInv /\ ReasonsInv /\ [Next]_vars => ReasonsInv'
<1> SUFFICES ASSUME IInv, StreamInv, ReasonsInv, [Next]_vars PROVE ReasonsInv'
  OBVIOUS
<1>1. TypeOK /\ TypeOK' /\ NewcomersIdle /\ StreamInv'
  BY NextType, NextStreams DEF IInv
<1>2. ConnectionsFrame /\ (faults' = 0 => Explanations') => ReasonsInv'
  BY <1>1, ReasonsKept
<1>3. ASSUME NEW c \in Clients, Relay(c) PROVE ReasonsInv'
  BY <1>1, <1>2, <1>3, ReasonsRelay, ReasonsInstall, ReasonsDisplace, ReasonsGivenUp,
     ReasonsEndAttach, ReasonsRelease DEF Relay
<1>4. ASSUME NEW c \in Clients, TakeNext(c) \/ Write(c) \/ WriterEnds(c) PROVE ReasonsInv'
  BY <1>1, <1>2, <1>4, ReasonsWriter
<1>5. ASSUME NEW c \in Clients, Connect(c) \/ AcceptFails(c) \/ Type(c) \/ Leave(c) PROVE ReasonsInv'
  BY <1>1, <1>2, <1>5, ReasonsClient
<1>6. CASE SendOutput \/ AbandonOverflowed \/ StopClients \/ Exit
  BY <1>1, <1>2, <1>6, ReasonsOutput, ReasonsGivenUp, ReasonsStop, ReasonsExit
<1>7. CASE \/ AppWrites \/ Route \/ PumpEnds \/ PumpFails
           \/ WaitApp \/ WaitFails \/ CloseSession \/ DeleteRecord \/ Recorder \/ UNCHANGED vars
  BY <1>1, <1>2, <1>7, ReasonsSupervisor
<1> QED
  BY <1>3, <1>4, <1>5, <1>6, <1>7 DEF Next, Process, Pump, Serve, Terminated

\* While nothing fails, no installed client is closed without the word it was
\* owed (detach_client, apply_client_message, serve).
THEOREM ClosingIsExplained == Spec => []ClosedWithReason
<1>1. Init => ReasonsInv
  BY InitReasons
<1>2. IInv /\ StreamInv /\ ReasonsInv /\ [Next]_vars => ReasonsInv'
  BY NextReasons
<1>3. ReasonsInv => ClosedWithReason
  BY DEF ReasonsInv
<1> QED
  BY <1>1, <1>2, <1>3, SpecStreamInv, PTL DEF Spec
=============================================================================
