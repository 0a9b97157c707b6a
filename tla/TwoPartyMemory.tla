--------------------------- MODULE TwoPartyMemory ---------------------------
(***************************************************************************)
(* Happens-before between two endpoints that share one atomic word and a   *)
(* few plain cells, as the C++/Rust memory model defines it.               *)
(*                                                                         *)
(* Two endpoints only, so "what is ordered before me" is always a question *)
(* about the other endpoint, and per cell a yes or a no: either every      *)
(* access the other endpoint has made to the cell so far happens before    *)
(* what I do next, or its latest access does not.  A memory is             *)
(*    known[e]  the cells for which that is so at endpoint e;              *)
(*    pend[e]   the cells for which an acquire fence of e would make it so *)
(*              (e read a release sequence with a relaxed operation);      *)
(*    carry[i]  for the i-th message of the modification order that is     *)
(*              still readable, and for each endpoint e, the cells whose   *)
(*              accesses by e so far happen before a reader of the message *)
(*              that acquires it;                                          *)
(*    races     the places where an endpoint touched a cell that was not   *)
(*              in its known set.                                          *)
(* The endpoint "rcv" alone uses plain loads, so only the part of the      *)
(* modification order that "rcv" has not passed is kept.                   *)
(*                                                                         *)
(* Modelled from the memory orderings that the code in src/ passes to the  *)
(* standard library's atomics.                                             *)
(***************************************************************************)
EXTENDS Naturals, Sequences

Endpoints == {"snd", "rcv"}

\* "state" is the atomic word itself: only its deallocation is a plain access.
Cells == {"state", "value", "awaiter"}

Sites == {"value_write", "set_take", "drop_take", "reclaim", "snd_release_set",
          "snd_release_drop", "awaiter_write", "awaiter_drop", "value_take",
          "awaiter_take", "rcv_release"}

Memory == [carry : Seq([Endpoints -> SUBSET Cells]),
           known : [Endpoints -> SUBSET Cells],
           pend  : [Endpoints -> SUBSET Cells],
           races : SUBSET Sites]

\* How many messages there are, what the i-th one carries of e, and what e knows.
Size(m) == Len(m.carry)
Carried(m, i, e) == m.carry[i][e]
Known(m, e) == m.known[e]
Pend(m, e) == m.pend[e]
Races(m) == m.races

Other(e) == IF e = "snd" THEN "rcv" ELSE "snd"

\* Both endpoints are handed out after the event was initialized.
FreshMemory ==
    [carry |-> << [e \in Endpoints |-> Cells] >>,
     known |-> [e \in Endpoints |-> Cells],
     pend  |-> [e \in Endpoints |-> {}],
     races |-> {}]

\* A new access of e to the cells C is not yet ordered before anything of the
\* other endpoint, nor before any message that already exists.
Touch(m, e, C) ==
    [m EXCEPT !.carry = [i \in DOMAIN m.carry |->
                            [m.carry[i] EXCEPT ![e] = @ \ C]],
              !.known[Other(e)] = @ \ C,
              !.pend[Other(e)]  = @ \ C]

\* A plain access: a data race unless the other endpoint's accesses are ordered.
Access(m, e, C, site) ==
    LET t == Touch(m, e, C)
    IN  [t EXCEPT !.races = IF C \subseteq m.known[e] THEN @ ELSE @ \cup {site}]

Fence(m, e) == [m EXCEPT !.known[e] = @ \cup m.pend[e]]

\* The orderings that the code passes to the atomic operations.
Acquires(order) == order \in {"Acquire", "AcqRel"}
Releases(order) == order \in {"Release", "AcqRel"}

\* Reading a message, with or without acquire semantics.
Observe(m, e, message, order) ==
    LET got == message[Other(e)]
    IN  IF Acquires(order)
          THEN [m EXCEPT !.known[e] = @ \cup got, !.pend[e] = @ \cup got]
          ELSE [m EXCEPT !.pend[e] = @ \cup got]

\* The receiver loads the i-th readable message; coherence hides the older ones.
Load(m, i, order) ==
    LET t == Touch(m, "rcv", {"state"})
        o == Observe(t, "rcv", t.carry[i], order)
    IN  [o EXCEPT !.carry = SubSeq(@, i, Len(@))]

\* The message written by e: behind what was readable; a write of the receiver
\* that reads the latest message leaves nothing older for it to read.
Publish(m, e, message) ==
    [m EXCEPT !.carry = IF e = "snd" THEN Append(@, message) ELSE <<message>>]

\* A read-modify-write always reads the latest message, and its own message
\* continues the release sequence it read from.
Rmw(m, e, order) ==
    LET t    == Touch(m, e, {"state"})
        last == t.carry[Len(t.carry)]
        o    == Observe(t, e, last, order)
    IN  Publish(o, e,
            IF Releases(order)
              THEN [last EXCEPT ![e] = Cells, ![Other(e)] = @ \cup o.known[e]]
              ELSE last)

\* A plain store with release ordering starts a release sequence of its own.
StoreRelease(m, e) ==
    LET t == Touch(m, e, {"state"})
    IN  Publish(t, e, [x \in Endpoints |-> IF x = e THEN Cells ELSE t.known[e]])

\* A store becomes visible to the receiver: it can no longer read the oldest one.
Expose(m) == [m EXCEPT !.carry = Tail(@)]

=============================================================================
