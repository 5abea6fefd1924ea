----------------------------- MODULE MCBooking -----------------------------
(***************************************************************************)
(* Small instances of Booking for TLC.  Each instance picks the requests   *)
(* that are sent, so that one question gets the whole state space.         *)
(***************************************************************************)
EXTENDS Booking, TLC

CONSTANTS anna, boris, emma, root, cut, dye, k1, k2

\* A cut takes one unit of the grid, a dye two: a cut at 2 overlaps a dye at 1.
MCDuration == [x \in Employees \X Services |-> IF x[2] = cut THEN 1 ELSE 2]
MCGrid     == [x \in Employees \X Services |-> 1 .. Horizon]

Create(client, service, start, key) ==
  [kind |-> "create", actor |-> client, employee |-> emma, service |-> service,
   start |-> start, key |-> key]
Accept(client, e, key) == [kind |-> "accept", actor |-> client, entry |-> e, key |-> key]
CancelBy(actor, id) == [kind |-> "cancel", actor |-> actor, id |-> id]
Reschedule(actor, id, start) ==
  [kind |-> "reschedule", actor |-> actor, id |-> id, start |-> start]
SetStatus(actor, id, to) == [kind |-> "status", actor |-> actor, id |-> id, to |-> to]

\* Nothing distinguishes two ids, or two request slots, beforehand.
Swap == Permutations(Ids) \cup Permutations(Requests)

NoWishes == {}

\* Two clients after the same times, with a key reused for something else, retries, moves and
\* cancellations that free a slot half way.  Anna gives up the slot Boris waits for; Boris
\* accepts under two keys, cancels, and Anna may be faster.
BookInputs ==
  {Create(anna, cut, 1, k1), Create(anna, dye, 1, k1), Create(boris, cut, 2, k1)}
    \cup {Reschedule(anna, id, 2) : id \in Ids}
    \cup {CancelBy(c, id) : c \in Clients, id \in Ids}
    \cup {Accept(boris, e, k) : e \in Entries, k \in Keys}

\* One booking, and what the waitlist makes of it.
WaitInputs ==
  {Create(anna, cut, 1, k1)}
    \cup {Reschedule(anna, id, 2) : id \in Ids}
    \cup {CancelBy(c, id) : c \in Clients, id \in Ids}
    \cup {Accept(boris, e, k) : e \in Entries, k \in Keys}

WaitWishes ==
  {[client |-> boris, service |-> cut, employee |-> None, from |-> 1, until |-> 3]}

\* All kinds of requests: bookings of one time by two clients, moves, cancellations and
\* confirmations of the same rows, releases that want the same entries, acceptances.
MoveInputs ==
  {Create(anna, cut, 1, k1), Create(boris, cut, 1, k2)}
    \cup {Reschedule(anna, id, 2) : id \in Ids}
    \cup {CancelBy(anna, id) : id \in Ids}
    \cup {SetStatus(emma, id, "CONFIRMED") : id \in Ids}
    \cup {Accept(boris, e, k1) : e \in Entries}
=============================================================================
