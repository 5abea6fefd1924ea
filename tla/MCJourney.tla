----------------------------- MODULE MCJourney -----------------------------
(***************************************************************************)
(* Small instances of Journey for TLC.                                     *)
(***************************************************************************)
EXTENDS Journey, TLC

CONSTANTS anna, boris, emma, fay, cut, dye, k1, k2

\* A cut takes one unit of the grid, a dye two.
MCDuration == [x \in Employees \X Services |-> IF x[2] = cut THEN 1 ELSE 2]
MCGrid     == [x \in Employees \X Services |-> 1 .. Horizon]

MCHeaders == {k1, k2}
MCStepKey(key, i) == <<key, i>>
MCKeys == MCHeaders \cup (MCHeaders \X (1 .. 6))

At(employee, service, start) == [employee |-> employee, service |-> service, start |-> start]
Journey(client, key, steps) ==
  [kind |-> "journey", client |-> client, key |-> key, steps |-> steps]
Single(client, key, step) ==
  [kind |-> "single", client |-> client, key |-> key, steps |-> <<step>>]

Move(row, start) == [kind |-> "move", row |-> row, start |-> start]
Become(row, to)  == [kind |-> "status", row |-> row, to |-> to]

There == Journey(anna, k1, <<At(emma, cut, 1), At(fay, cut, 2), At(emma, cut, 3)>>)
Back  == Journey(boris, k1, <<At(fay, dye, 1), At(emma, cut, 3)>>)

\* Journeys that want each other's times, with the employees in opposite orders; under the
\* header of each of them, a different journey with its steps in the wrong order; a booking
\* in between; and a first step moved past the next, and changed, while all that goes on.
RaceInputs ==
  {There, Back,
   Journey(anna, k1, <<At(emma, cut, 3), At(fay, cut, 2)>>),
   Journey(boris, k1, <<At(fay, cut, 2), At(emma, cut, 3), At(emma, dye, 1)>>),
   Single(boris, k1, At(emma, cut, 1)),
   Move(1, 3), Become(1, "CONFIRMED"), Become(2, "CANCELLED")}
=============================================================================
