-------------------------------- MODULE Feed --------------------------------
(***************************************************************************)
(* What the gateway promises of its webhooks: each takes effect at most    *)
(* once, in the order in which they are recorded, whole or not at all, and *)
(* each appointment of a provider is one row.                              *)
(***************************************************************************)
CONSTANTS
  Events,      \* the webhooks that are sent
  Address(_),  \* the provider and the external id of the appointment an event is about
  Key(_),      \* the provider and the key by which a repetition is recognised
  Content(_)   \* what the event says of the appointment

VARIABLES
  taken,  \* the keys of the events that have had their chance
  rows    \* the appointments: a function from addresses to what is known of them

vars == <<taken, rows>>

Init == taken = {} /\ rows = [address \in {} |-> {}]

Put(e) == [address \in DOMAIN rows \cup {Address(e)} |->
             IF address = Address(e) THEN Content(e) ELSE rows[address]]

Take(e) ==
  /\ Key(e) \notin taken
  /\ taken' = taken \cup {Key(e)}
  /\ rows' \in {rows, Put(e)}

Next == \E e \in Events : Take(e)

Spec == Init /\ [][Next]_vars
=============================================================================
