------------------------------ MODULE Calendar ------------------------------
(***************************************************************************)
(* The calendar of one employee on one day: working hours, breaks,         *)
(* exceptions and blocked slots, written by administrators, and what is    *)
(* offered and booked in between (app/services/availability.py,            *)
(* app/api/schedules.py, app/services/scheduling.py).                      *)
(*                                                                         *)
(* Every request is a transaction under READ COMMITTED: each SELECT sees   *)
(* what is committed when it runs.  `calculate' reads the four kinds of    *)
(* rows and the appointments one SELECT after the other.                   *)
(*                                                                         *)
(* A row of another employee, branch or day is to this calendar what an    *)
(* inactive one is.                                                        *)
(***************************************************************************)
EXTENDS Intervals, FiniteSets

CONSTANTS
  Local,     \* local times of the day, numbers
  Utc,       \* [Local -> instants], None for a local time in a daylight-saving gap
  Day,       \* the interval of instants that is the day
  Midnights, \* whether both midnights of the day exist; both values for a day of any kind
  Duration,  \* of the service
  Step,      \* SLOT_INTERVAL_MINUTES
  Requests,  \* request slots
  Inputs,    \* the requests that are sent
  MaxRows,   \* no row is asked for when the calendar has this many
  None

Kinds == {"hours", "break", "exception", "block"}

\* A local interval, or for blocks an interval of instants; an exception that is a day off
\* has neither end.
Row == [kind : Kinds, start : Int \cup {None}, end : Int \cup {None},
        off : BOOLEAN, active : BOOLEAN]

\* The check constraints of the four tables.
WellFormed(row) ==
  IF row.off THEN row.start = None /\ row.end = None
             ELSE row.start # None /\ row.end # None /\ row.start < row.end

\* What the request schemas let through.
Wanted(row) ==
  /\ row \in Row /\ WellFormed(row) /\ (row.off => row.kind = "exception")
  /\ row.kind # "block" /\ ~row.off => {row.start, row.end} \subseteq Local

ASSUME LocalAssumption ==
  /\ Local \subseteq Int /\ Utc \in [Local -> Int \cup {None}]
  /\ \A a, b \in Local : a < b /\ Utc[a] # None /\ Utc[b] # None => Utc[a] < Utc[b]
\* The local times are those from one midnight to the next.
ASSUME DayAssumption ==
  /\ Day \in [start : Int, end : Int]
  /\ \A a \in Local : Utc[a] # None => Day.start <= Utc[a] /\ Utc[a] <= Day.end
ASSUME NumberAssumption ==
  /\ Duration \in Nat \ {0} /\ Step \in Nat \ {0} /\ MaxRows \in Nat /\ None \notin Int
  /\ Midnights \subseteq BOOLEAN
ASSUME InputAssumption ==
  \A q \in Inputs :
    CASE q.kind = "create" -> Wanted(q.row)
      [] q.kind = "update" -> Wanted(q.row) /\ q.id \in Nat \ {0}
      [] q.kind = "book"   -> q.start \in Int
      [] q.kind = "move"   -> q.from \in Int /\ q.start \in Int
      [] q.kind = "ask"    -> TRUE
      [] OTHER             -> FALSE

VARIABLES
  rows,   \* the rows of the four tables, in the order of their creation
  appts,  \* the intervals of the occupying appointments
  tx,     \* per request slot, the transaction in progress
  reply   \* the answer that the last step sent, or None

vars == <<rows, appts, tx, reply>>

\* seen: the row an update has loaded; windows, taken: what a calculation has read;
\* standing (history): the rows that nobody has changed since the request arrived.
Idle == [pc |-> "idle", req |-> None, seen |-> None, windows |-> {}, taken |-> {},
         standing |-> {}]

Init == rows = <<>> /\ appts = {} /\ tx = [r \in Requests |-> Idle] /\ reply = None

InFlight(r) == tx[r].pc # "idle"
-----------------------------------------------------------------------------
(***************************************************************************)
(* What a SELECT returns.                                                  *)
(***************************************************************************)

Active(kind) == {rows[n] : n \in {m \in DOMAIN rows : rows[m].kind = kind /\ rows[m].active}}

\* One of the local times does not exist on this day: _local_datetime.
InGap(S) == \E row \in S : ~row.off /\ (Utc[row.start] = None \/ Utc[row.end] = None)

\* The rows with local times as intervals of instants.
Spans(S) == {Span(Utc[row.start], Utc[row.end]) : row \in {x \in S : ~x.off}}

\* Only the intervals that lie within the day.
FaultyOfDay(S) == {x \in S : x.start >= Day.start /\ x.end <= Day.end}

\* The intervals that reach into the day.
OfDay(S) == {Span(x.start, x.end) : x \in {y \in S : y.start < Day.end /\ y.end > Day.start}}

\* The slots of the calculation, once everything is read.  The readers merge what they
\* return; subtract_intervals and generate_slots merge it again.
Slots(windows, taken) ==
  GenerateSlots(windows, SubtractIntervals(windows, taken), Duration, Step)

Overlaps(x, y) == x.start < y.end /\ y.start < x.end

\* The interval that a start takes, and the one that a move leaves, which no calculation for
\* it and no check of its new interval counts: exclude_appointment_id.
Taking(start) == Span(start, start + Duration)
Leaving(q)    == IF q.kind = "move" THEN {Taking(q.from)} ELSE {}
-----------------------------------------------------------------------------
Proceed(r, t) ==
  tx' = [tx EXCEPT ![r] = t] /\ reply' = None /\ UNCHANGED <<rows, appts>>

\* The request ends without writing.
Answer(r, code, slots) ==
  /\ tx' = [tx EXCEPT ![r] = Idle]
  /\ reply' = [to |-> r, code |-> code, slots |-> slots]
  /\ UNCHANGED <<rows, appts>>

\* The first step of a request's handler.
FirstStep(q) ==
  CASE q.kind = "update"                                 -> "load"
    [] q.kind = "create" /\ q.row.kind = "exception"     -> "check"
    [] q.kind = "create" /\ q.row.kind # "exception"     -> "write"
    [] q.kind = "move"                                   -> "find"
    [] OTHER                                             -> "exceptions"

Submit(r) ==
  /\ tx[r].pc = "idle"
  /\ \E q \in Inputs :
       /\ q.kind = "create" => Len(rows) < MaxRows
       /\ Proceed(r, [Idle EXCEPT !.pc = FirstStep(q), !.req = q,
                                  !.standing = DOMAIN rows])

\* session.get of an update.
Load(r) ==
  LET q == tx[r].req IN
  /\ tx[r].pc = "load"
  /\ \/ ~(q.id \in DOMAIN rows /\ rows[q.id].kind = q.row.kind) /\ Answer(r, 404, {})
     \/ /\ q.id \in DOMAIN rows /\ rows[q.id].kind = q.row.kind
        /\ Proceed(r, [tx[r] EXCEPT !.seen = rows[q.id],
                                    !.pc = IF q.row.kind = "exception" THEN "check"
                                                                       ELSE "write"])

\* A move has the appointment locked.
Keeps(r, a) == tx[r].pc \notin {"idle", "find"} /\ a \in Leaving(tx[r].req)

\* _load_authorized of a move, FOR UPDATE, and its own checks.
Find(r) ==
  LET q == tx[r].req
      possible == Leaving(q) \subseteq appts /\ q.start # q.from
  IN /\ tx[r].pc = "find"
     /\ \A s \in Requests, a \in Leaving(q) : ~Keeps(s, a)
     /\ \/ ~possible /\ Answer(r, 409, {})
        \/ possible /\ Proceed(r, [tx[r] EXCEPT !.pc = "exceptions"])

\* The active exceptions that ensure_exception_compatibility looks at.
Others(q) ==
  {n \in DOMAIN rows :
     /\ rows[n].kind = "exception" /\ rows[n].active
     /\ q.kind = "update" => n # q.id}

Compatible(q) ==
  q.row.active /\ Others(q) # {} => ~q.row.off /\ \A n \in Others(q) : ~rows[n].off

CheckException(r) ==
  /\ tx[r].pc = "check"
  /\ \/ ~Compatible(tx[r].req) /\ Answer(r, 409, {})
     \/ Compatible(tx[r].req) /\ Proceed(r, [tx[r] EXCEPT !.pc = "write"])

\* The UPDATE names the columns whose values differ from the row that was loaded.
Updated(seen, row, old) ==
  [c \in DOMAIN row |-> IF row[c] # seen[c] THEN row[c] ELSE old[c]]

\* There is no such index.
FaultyDayOffFree(row, others) == TRUE

\* uq_schedule_exceptions_active_day_off.
DayOffFree(row, others) ==
  row.off /\ row.active => ~\E n \in others : rows[n].off /\ rows[n].active

\* The unique constraints: no other row of the kind has the same window (NULLs differ).
WindowFree(row, others) ==
  row.kind = "block" \/ row.off \/ ~\E n \in others :
    rows[n].kind = row.kind /\ rows[n].start = row.start /\ rows[n].end = row.end

Fits(row, others) == WellFormed(row) /\ DayOffFree(row, others) /\ WindowFree(row, others)

\* Flush and commit of a row: one step, since nothing uncommitted is read by others and a
\* writer that waits for another goes on after its commit.
Write(r) ==
  LET q == tx[r].req
      id == IF q.kind = "create" THEN Len(rows) + 1 ELSE q.id
      new == IF q.kind = "create" THEN q.row ELSE Updated(tx[r].seen, q.row, rows[id])
  IN /\ tx[r].pc = "write"
     /\ \/ ~Fits(new, DOMAIN rows \ {id}) /\ Answer(r, 409, {})
        \/ /\ Fits(new, DOMAIN rows \ {id})
           /\ rows' = IF q.kind = "create" THEN Append(rows, new)
                                           ELSE [rows EXCEPT ![id] = new]
           /\ tx' = [s \in Requests |->
                       IF s = r THEN Idle ELSE [tx[s] EXCEPT !.standing = @ \ {id}]]
           /\ reply' = [to |-> r, code |-> IF q.kind = "create" THEN 201 ELSE 200,
                        slots |-> {}]
           /\ UNCHANGED appts

-----------------------------------------------------------------------------
(***************************************************************************)
(* AvailabilityService.calculate, one SELECT after the other, for a        *)
(* question (GET /availability), or for a booking or a move                *)
(* (_validate_target_slot).                                                *)
(***************************************************************************)

\* The end of a calculation.
Offered(r, slots) ==
  LET q == tx[r].req IN
  IF q.kind = "ask" THEN Answer(r, 200, slots)
  ELSE \/ q.start \notin slots /\ Answer(r, 409, slots)
       \/ q.start \in slots /\ Proceed(r, [tx[r] EXCEPT !.pc = "insert"])

\* The work windows are those of S; without any, nothing more is read.
Worked(r, S) ==
  \/ InGap(S) /\ Answer(r, 422, {})
  \/ ~InGap(S) /\ Spans(S) = {} /\ Offered(r, {})
  \/ /\ ~InGap(S) /\ Spans(S) # {}
     /\ Proceed(r, [tx[r] EXCEPT !.windows = Spans(S), !.pc = "breaks"])

\* Exceptions replace the recurring hours, and a day off replaces everything.
ReadExceptions(r) ==
  LET found == Active("exception") IN
  /\ tx[r].pc = "exceptions"
  /\ \/ found = {} /\ Proceed(r, [tx[r] EXCEPT !.pc = "hours"])
     \/ (\E row \in found : row.off) /\ Offered(r, {})
     \/ found # {} /\ (\A row \in found : ~row.off) /\ Worked(r, found)

ReadHours(r) == tx[r].pc = "hours" /\ Worked(r, Active("hours"))

ReadBreaks(r) ==
  LET found == Active("break") IN
  /\ tx[r].pc = "breaks"
  /\ \/ InGap(found) /\ Answer(r, 422, {})
     \/ ~InGap(found) /\ Proceed(r, [tx[r] EXCEPT !.taken = Spans(found), !.pc = "blocks"])

\* The day ends and begins with a midnight, which a gap may have swallowed.
ReadBlocks(r) ==
  /\ tx[r].pc = "blocks"
  /\ \E exist \in Midnights :
       \/ ~exist /\ Answer(r, 422, {})
       \/ exist /\ Proceed(r, [tx[r] EXCEPT !.taken = @ \cup OfDay(Active("block")),
                                           !.pc = "appointments"])

\* Everything that is taken, with the appointments of this moment.
TakenNow(r) == tx[r].taken \cup OfDay(appts \ Leaving(tx[r].req))

ReadAppointments(r) ==
  /\ tx[r].pc = "appointments"
  /\ Offered(r, Slots(tx[r].windows, TakenNow(r)))

\* The exclusion constraint of the appointments (module Booking has the rest of it).
Insert(r) ==
  LET q == tx[r].req
      new == Taking(q.start)
      others == appts \ Leaving(q)
  IN /\ tx[r].pc = "insert"
     /\ \/ (\E a \in others : Overlaps(a, new)) /\ Answer(r, 409, {})
        \/ /\ \A a \in others : ~Overlaps(a, new)
           /\ appts' = others \cup {new}
           /\ tx' = [tx EXCEPT ![r] = Idle]
           /\ reply' = [to |-> r, code |-> IF q.kind = "move" THEN 200 ELSE 201,
                        slots |-> {}]
           /\ UNCHANGED rows

\* Any other exception, a lost connection, a crash of the process.
Fail(r) == InFlight(r) /\ Answer(r, 500, {})

\* The commit of a cancellation (module Booking has the rest of it).
Cancel ==
  /\ \E a \in appts : (\A s \in Requests : ~Keeps(s, a)) /\ appts' = appts \ {a}
  /\ reply' = None
  /\ UNCHANGED <<rows, tx>>

Next ==
  \/ \E r \in Requests :
       \/ Submit(r) \/ Load(r) \/ CheckException(r) \/ Write(r) \/ Find(r)
       \/ ReadExceptions(r) \/ ReadHours(r) \/ ReadBreaks(r) \/ ReadBlocks(r)
       \/ ReadAppointments(r) \/ Insert(r) \/ Fail(r)
  \/ Cancel

Spec == Init /\ [][Next]_vars
-----------------------------------------------------------------------------
(***************************************************************************)
(* Properties.                                                             *)
(***************************************************************************)

TypeOK ==
  /\ rows \in Seq(Row)
  /\ appts \in SUBSET [start : Int, end : Int]
  /\ \A r \in Requests :
       /\ tx[r].pc \in {"idle", "load", "check", "write", "find", "exceptions", "hours",
                        "breaks", "blocks", "appointments", "insert"}
       /\ tx[r].req \in Inputs \cup {None}
       /\ tx[r].seen \in Row \cup {None}
       /\ tx[r].standing \subseteq DOMAIN rows

\* Updates that cross each other, and mix their columns, never leave a row that is not a
\* window, a window twice, or two days off: the constraints of the tables hold for what
\* is written, not for what was asked.
RowsFit ==
  /\ \A n \in DOMAIN rows : WellFormed(rows[n])
  /\ \A m, n \in DOMAIN rows : m # n /\ rows[m].kind = rows[n].kind =>
       /\ ~(rows[m].off /\ rows[m].active /\ rows[n].off /\ rows[n].active)
       /\ \/ rows[m].kind = "block" \/ rows[m].off
          \/ rows[m].start # rows[n].start \/ rows[m].end # rows[n].end

Consistent == TypeOK /\ RowsFit

\* What is offered is exactly what can be worked, whatever the windows, breaks, blocks and
\* appointments that were read look like: a start is offered if and only if every instant
\* of the service is worked and not taken, and it is on the grid of its window.
OfferIsExact ==
  [][\A r \in Requests :
       tx[r].pc = "appointments" /\ tx'[r].pc # "appointments" =>
         LET exact == Startable(Instants(tx[r].windows), Instants(TakenNow(r)), Duration, Step)
         IN /\ reply' # None /\ reply'.code \in {200, 409} => reply'.slots = exact
            /\ tx'[r].pc = "insert" => tx[r].req.start \in exact]_vars

\* The booked interval fits the rows of S: not in a break or a block, not on a day off,
\* and inside the exceptions if there are any, else the hours.
FitsRows(new, S) ==
  LET is(kind) == {rows[n] : n \in {m \in S : rows[m].kind = kind /\ rows[m].active}}
      shut == Spans(is("break")) \cup {Span(x.start, x.end) : x \in is("block")}
      open == IF is("exception") # {} THEN is("exception") ELSE is("hours")
  IN /\ Instants({new}) \cap Instants(shut) = {}
     /\ \A row \in is("exception") : ~row.off
     /\ S = DOMAIN rows => Instants({new}) \subseteq Instants(Spans(open))

\* A booking or a move never ignores a row that has stood from the arrival of the request to its
\* commit, although the rows are read one kind after the other and not locked; and if no
\* row was written in between, it lies within the working hours of the day.
HonoursWhatStands ==
  [][\A r \in Requests :
       tx[r].pc = "insert" /\ appts' # appts /\ tx'[r].pc = "idle" =>
         \A new \in appts' \ appts : FitsRows(new, tx[r].standing)]_vars

\* A day off and replacement hours are never active together
\* (tests/test_schedule_api.py:267).  Two requests that check before either has written
\* both pass.
DayOffStandsAlone ==
  \A m, n \in DOMAIN rows :
    /\ rows[m].kind = "exception" /\ rows[m].active /\ rows[m].off
    /\ rows[n].kind = "exception" /\ rows[n].active
    => m = n
=============================================================================
