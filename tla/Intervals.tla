----------------------------- MODULE Intervals -----------------------------
(***************************************************************************)
(* The interval arithmetic of app/services/intervals.py.  An interval is   *)
(* half-open, [start, end).  The functions take lists whose order does not *)
(* matter to them, since they sort them: sets here.  What merge_intervals  *)
(* returns is sorted and separated, and the loops that follow rely on it:  *)
(* a sequence.                                                             *)
(***************************************************************************)
EXTENDS Integers, Sequences, SequencesExt

Least(a, b)    == IF a < b THEN a ELSE b
Greatest(a, b) == IF a < b THEN b ELSE a

Span(from, until) == [start |-> from, end |-> until]

\* One of those that sorting by start puts last: those with one start come in any order.
Latest(S) == CHOOSE x \in S : \A y \in S : y.start <= x.start

\* Intervals that only touch are left apart.
FaultyTouches(a, b) == b.start < a.end

\* b, which does not start before a, overlaps or touches a.
Touches(a, b) == b.start <= a.end

\* One turn of the loop of merge_intervals.
Absorb(merged, x) ==
  IF merged # <<>> /\ Touches(Last(merged), x)
  THEN [merged EXCEPT ![Len(merged)].end = Greatest(@, x.end)]
  ELSE Append(merged, x)

\* The loop takes the intervals by their start, the latest last.
MergeIntervals(S) ==
  MapThenFoldSet(LAMBDA x, merged : Absorb(merged, x), <<>>, LAMBDA x : x, Latest, S)

\* One turn of the inner loop of subtract_intervals: what is free of base before the
\* exclusion x is kept.  The exclusions are sorted, so those after a `break' pass it again.
Carve(base, left, x) ==
  IF x.end <= left.cursor \/ x.start >= base.end \/ left.cursor >= base.end THEN left
  ELSE [cursor |-> Greatest(left.cursor, x.end),
        parts  |-> IF x.start > left.cursor
                   THEN left.parts \cup {Span(left.cursor, Least(x.start, base.end))}
                   ELSE left.parts]

\* What the exclusions leave of one base interval.
Remaining(base, exclusions) ==
  LET left == FoldLeft(LAMBDA l, x : Carve(base, l, x),
                       [cursor |-> base.start, parts |-> {}], exclusions)
  IN IF left.cursor < base.end THEN left.parts \cup {Span(left.cursor, base.end)}
                               ELSE left.parts

SubtractIntervals(available, exclusions) ==
  LET merged == MergeIntervals(exclusions)
  IN UNION {Remaining(base, merged) : base \in Range(MergeIntervals(available))}

\* The starts of generate_slots: on the grid of each work window, with the whole duration
\* inside the window and inside one free window.
GenerateSlots(work, free, duration, step) ==
  LET windows == Range(MergeIntervals(work))
      gaps    == Range(MergeIntervals(free))
      Grid(w) == {t \in w.start .. w.end - duration : (t - w.start) % step = 0}
  IN UNION {{t \in Grid(w) : \E g \in gaps : g.start <= t /\ t + duration <= g.end} :
              w \in windows}
-----------------------------------------------------------------------------
(***************************************************************************)
(* What the intervals stand for: the unit instants they contain.           *)
(***************************************************************************)

Instants(S) == UNION {x.start .. x.end - 1 : x \in S}

\* The first instant of the unbroken run of P that t is in.
RunStart(P, t) == CHOOSE s \in P : s <= t /\ s .. t \subseteq P /\ s - 1 \notin P

\* The starts a client may be offered, said without intervals: every instant of the
\* appointment is worked and not taken, and the start is on the grid of its run of work.
Startable(worked, taken, duration, step) ==
  {t \in worked :
     /\ t .. t + duration - 1 \subseteq worked \ taken
     /\ (t - RunStart(worked, t)) % step = 0}
=============================================================================
