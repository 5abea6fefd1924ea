----------------------------- MODULE MCCalendar -----------------------------
(***************************************************************************)
(* Small instances of Calendar for TLC.                                    *)
(***************************************************************************)
EXTENDS Calendar, TLC

\* The clocks skip the local time 2, so that 1 and 3 are neighbours.
MCLocal == 0 .. 7
MCUtc   == [t \in MCLocal |-> CASE t < 2 -> t [] t = 2 -> None [] OTHER -> t - 1]
MCDay   == Span(0, 7)

Window(kind, start, end) ==
  [kind |-> kind, start |-> start, end |-> end, off |-> FALSE, active |-> TRUE]
DayOff == [kind |-> "exception", start |-> None, end |-> None, off |-> TRUE, active |-> TRUE]
Inactive(row) == [row EXCEPT !.active = FALSE]

Create(row)     == [kind |-> "create", row |-> row]
Update(id, row) == [kind |-> "update", id |-> id, row |-> row]
Ask             == [kind |-> "ask"]
Book(start)     == [kind |-> "book", start |-> start]
Move(from, to)  == [kind |-> "move", from |-> from, start |-> to]

Swap == Permutations(Requests)

\* Neighbouring hours, a break, a block over the end of the day, a day off and replacement
\* hours; edits that cross each other, shift a row into the gap, or end one.
EditInputs ==
  {Create(Window("hours", 0, 3)), Create(Window("hours", 3, 7)), Create(Window("break", 3, 4)),
   Create(Window("block", 3, 9)), Create(DayOff), Create(Window("exception", 1, 5)),
   Update(1, Window("hours", 1, 3)), Update(1, Window("hours", 2, 6)),
   Update(2, Window("break", 2, 4)), Update(2, Inactive(Window("block", 3, 9))),
   Update(2, DayOff), Ask, Book(2), Move(2, 3)}

\* Two administrators decide differently about one day.
DayOffInputs == {Create(DayOff), Create(Window("exception", 1, 5)), Ask}
=============================================================================
