---------------------------- MODULE OnceExchange ----------------------------
(***************************************************************************)
(* What a one-shot event promises, whatever its implementation: one        *)
(* sender that sends once or leaves, one receiver that obtains exactly     *)
(* what the sender did or leaves, storage released once and only when both *)
(* have committed, and a payload that is handed over with the release or   *)
(* destroyed after it.                                                     *)
(*                                                                         *)
(* Stated from the module documentation's view of the states and of        *)
(* cleanup ownership in packages/events_once/src/core/state.rs.            *)
(***************************************************************************)
VARIABLES sent,      \* what the sender has done
          got,       \* what the receiver has obtained
          storage,   \* the event's storage
          parcel     \* the payload

exchangeVars == <<sent, got, storage, parcel>>

Init == sent = "open" /\ got = "open" /\ storage = "live" /\ parcel = "none"

Send ==
    /\ sent = "open" /\ sent' = "value" /\ parcel' = "in_transit"
    /\ UNCHANGED <<got, storage>>

Close ==
    /\ sent = "open" /\ sent' = "closed"
    /\ UNCHANGED <<got, storage, parcel>>

Obtain ==
    /\ got = "open"
    /\ \/ sent = "value" /\ got' = "value"
       \/ sent = "closed" /\ got' = "disconnected"
       \/ got' = "cancelled"
    /\ UNCHANGED <<sent, storage, parcel>>

Release ==
    /\ storage = "live" /\ storage' = "freed"
    /\ sent # "open" /\ got # "open"
    /\ parcel' = IF got = "value" THEN "delivered" ELSE parcel
    /\ UNCHANGED <<sent, got>>

Discard ==
    /\ storage = "freed" /\ got = "cancelled"
    /\ parcel = "in_transit" /\ parcel' = "dropped"
    /\ UNCHANGED <<sent, got, storage>>

Next == Send \/ Close \/ Obtain \/ Release \/ Discard

Spec == Init /\ [][Next]_exchangeVars

=============================================================================
