------------------------------- MODULE Ledger -------------------------------
(***************************************************************************)
(* What the booking engine promises its clients, without transactions,     *)
(* locks or retries: a ledger that changes by one whole operation at a     *)
(* time.  Booking implements it with `ledger' the committed appointments.  *)
(***************************************************************************)
EXTENDS Appointments

VARIABLE ledger

Vacant(id, row) ==
  \A other \in Ids \ {id} : ledger[other] # None => ~Clash(ledger[other], row)

KeyUnused(client, key) ==
  \A id \in Ids : ledger[id] # None => ledger[id].client # client \/ ledger[id].key # key

Init == ledger = [id \in Ids |-> None]

\* A client's new key buys one vacant slot.
Book(id) ==
  /\ ledger[id] = None
  /\ \E client \in Clients, employee \in Employees, service \in Services,
        start \in Times, key \in Keys, note \in Notes :
       LET row == NewRow(client, employee, service, start, key, note)
       IN /\ KeyUnused(client, key) /\ Vacant(id, row)
          /\ ledger' = [ledger EXCEPT ![id] = row]

\* An appointment that has not begun moves to a vacant slot.
Move(id) ==
  /\ ledger[id] # None /\ ledger[id].status \in {"BOOKED", "CONFIRMED"}
  /\ \E start \in Times :
       LET row == [ledger[id] EXCEPT !.start = start]
       IN Vacant(id, row) /\ ledger' = [ledger EXCEPT ![id] = row]

\* An appointment goes on to a status its present one allows.
Advance(id) ==
  /\ ledger[id] # None
  /\ \E status \in Allowed[ledger[id].status] :
       ledger' = [ledger EXCEPT ![id].status = status]

Next == \E id \in Ids : Book(id) \/ Move(id) \/ Advance(id)

Spec == Init /\ [][Next]_ledger
=============================================================================
