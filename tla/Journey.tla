------------------------------ MODULE Journey ------------------------------
(***************************************************************************)
(* Smart Journey: create_journey books several appointments of one client  *)
(* in one transaction, beside other journeys, ordinary bookings, and moves *)
(* and status changes of the rows that are there.                          *)
(*                                                                         *)
(* The rows of a journey are checked one after the other, each against the *)
(* rows committed by then, and inserted one after the other in one flush;  *)
(* a row is in the table before the exclusion constraint looks for others, *)
(* so a journey may wait for another transaction's row while all it has    *)
(* inserted makes others wait.  An ordinary booking is the case of one     *)
(* step under its own key, a move or a status change writes one row; their *)
(* access checks, their trail and the waitlist are in Booking.             *)
(***************************************************************************)
EXTENDS Appointments, Sequences

CONSTANTS
  StepKey(_, _),  \* the idempotency key of a journey's i-th row, derived from the header
  Grid,           \* [Employees \X Services -> starts offered on an empty calendar]
  Requests,       \* request slots: bounds the requests in flight at once
  Inputs          \* what clients and staff ask for

MaxSteps == 6

Step == [employee : Employees, service : Services, start : Times]

BookRequest == {q \in [kind : {"journey", "single"}, client : Clients, key : Keys,
                       steps : Seq(Step)] :
                  Len(q.steps) \in IF q.kind = "journey" THEN 2 .. MaxSteps ELSE {1}}
MoveRequest   == [kind : {"move"}, row : Nat \ {0}, start : Times]
StatusRequest == [kind : {"status"}, row : Nat \ {0}, to : Statuses]
Request       == BookRequest \cup MoveRequest \cup StatusRequest

Books(q) == q.kind \in {"journey", "single"}

\* How many rows q writes.
Length(q) == IF Books(q) THEN Len(q.steps) ELSE 1

\* The key column of the i-th row of q.
KeyOf(q, i) == IF q.kind = "journey" THEN StepKey(q.key, i) ELSE q.key

\* The i-th row of q.
RowOf(q, i) ==
  NewRow(q.client, q.steps[i].employee, q.steps[i].service, q.steps[i].start,
         KeyOf(q, i), "own")

RowsOf(q) == [i \in DOMAIN q.steps |-> RowOf(q, i)]

Bookings == {q \in Inputs : Books(q)}

ASSUME GridAssumption    == Grid \in [Employees \X Services -> SUBSET Times]
ASSUME InputAssumption   == Inputs \subseteq Request
ASSUME RequestAssumption == None \notin Request

\* SHA-256 keeps the headers apart, and no client sends a header that looks like the key
\* of a step.
ASSUME StepKeyAssumption ==
  \A p, q \in Bookings, i, j \in 1 .. MaxSteps :
    /\ KeyOf(q, i) \in Keys
    /\ KeyOf(p, i) = KeyOf(q, j) =>
         /\ p.kind = q.kind /\ p.key = q.key
         /\ q.kind = "journey" => i = j

VARIABLES
  appts,  \* the appointments, in the order of their commits
  now,    \* the clock
  tx,     \* open transactions: what each does next, for which request, at which step, and
          \* the row it has loaded FOR UPDATE
  reply   \* the HTTP answer the last step sent, if it sent one

vars == <<appts, now, tx, reply>>

Tx == [pc : {"idle", "lookup", "load", "validate", "write", "exclude", "commit"},
       req : Request \cup {None}, at : 1 .. MaxSteps, seen : Row \cup {None}]

Codes == {200, 201, 404, 409, 422, 500}

Idle == [pc |-> "idle", req |-> None, at |-> 1, seen |-> None]

TypeOK ==
  /\ appts \in Seq(Row)
  /\ now \in Times
  /\ tx \in [Requests -> Tx]
  /\ reply \in [to : Requests, code : Codes] \cup {None}

Init ==
  /\ appts = <<>>
  /\ now = 0
  /\ tx = [r \in Requests |-> Idle]
  /\ reply = None

-----------------------------------------------------------------------------
(***************************************************************************)
(* What other transactions hold.  (Faulty... : see Booking.)               *)
(***************************************************************************)

InFlight(r) == tx[r].pc # "idle"
IsLast(t)   == t.at = Length(t.req)

\* The i-th row t writes: a new one, or the new version of the one it has loaded.
Draft(t, i) ==
  CASE Books(t.req)         -> RowOf(t.req, i)
    [] t.req.kind = "move"   -> [t.seen EXCEPT !.start = t.req.start]
    [] t.req.kind = "status" -> [t.seen EXCEPT !.status = t.req.to]

Current(t) == Draft(t, t.at)

SameHeader(p, q) == p.client = q.client /\ p.kind = q.kind /\ p.key = q.key

\* The key is unlocked before the rows are inserted.
FaultyKeyed(t) == t.pc = "validate" /\ Books(t.req)

\* t holds the advisory lock of its client and header (pg_advisory_xact_lock).
Keyed(t) == t.pc \in {"validate", "write", "exclude", "commit"} /\ Books(t.req)

\* t holds the lock of the n-th row, and changes it.
Owns(t, n) == t.seen # None /\ t.req.row = n

\* The rows of t that have passed the exclusion constraint, and those it has written.
Passed(t) ==
  CASE t.pc \in {"write", "exclude"} -> 1 .. t.at - 1
    [] t.pc = "commit"               -> 1 .. Length(t.req)
    [] OTHER                         -> {}

Inserted(t) == IF t.pc = "exclude" THEN 1 .. t.at ELSE Passed(t)

\* t has written a new version of the row it has loaded.
Replaces(t) == t.pc \in {"exclude", "commit"} /\ t.seen # None

\* Inserts do not wait: only committed rows count.
FaultyBlocks(t, row) == FALSE

\* t has written a row that `row' would clash with, or is replacing one: the exclusion
\* constraint makes the writer of `row' wait for t to end.
Blocks(t, row) ==
  \/ \E i \in Inserted(t) : Clash(Draft(t, i), row)
  \/ Replaces(t) /\ Clash(t.seen, row)

MustWait(r) == \E s \in Requests \ {r} : Blocks(tx[s], Current(tx[r]))

\* A committed row stands in the way of `row', which t wants to write ...
Taken(t, row) == \E n \in DOMAIN appts : ~Owns(t, n) /\ Clash(appts[n], row)

\* ... and no open transaction is replacing it.
TakenForGood(t, row) ==
  \E n \in DOMAIN appts :
    /\ ~Owns(t, n) /\ Clash(appts[n], row)
    /\ \A s \in Requests : ~(Replaces(tx[s]) /\ Owns(tx[s], n))

\* The committed rows of a client under a key.
Under(client, key) == {n \in DOMAIN appts : appts[n].client = client /\ appts[n].key = key}

\* The committed rows under the key of the i-th step.
Existing(q, i) == Under(q.client, KeyOf(q, i))

-----------------------------------------------------------------------------
(***************************************************************************)
(* Steps of a request.                                                     *)
(***************************************************************************)

Proceed(r, t) ==
  /\ tx' = [tx EXCEPT ![r] = t]
  /\ reply' = None
  /\ UNCHANGED <<appts, now>>

\* The request ends without writing; what it has inserted is rolled back.
Answer(r, code) ==
  /\ tx' = [tx EXCEPT ![r] = Idle]
  /\ reply' = [to |-> r, code |-> code]
  /\ UNCHANGED <<appts, now>>

Submit(r) ==
  /\ tx[r].pc = "idle"
  /\ \E q \in Inputs :
       Proceed(r, [Idle EXCEPT !.pc = IF Books(q) THEN "lookup" ELSE "load", !.req = q])

\* The rows of some steps are there, and those of others are not.
Incomplete(q) ==
  /\ \E i \in DOMAIN q.steps : Existing(q, i) # {}
  /\ \E i \in DOMAIN q.steps : Existing(q, i) = {}

\* Takes the lock of the key and looks every step's key up.
Lookup(r) ==
  LET q == tx[r].req
      complete == \A i \in DOMAIN q.steps : Existing(q, i) # {}
      same == \A i \in DOMAIN q.steps : \A n \in Existing(q, i) :
                appts[n].print = RowOf(q, i).print
  IN /\ tx[r].pc = "lookup"
     /\ \A s \in Requests \ {r} : Keyed(tx[s]) => ~SameHeader(tx[s].req, q)
     /\ \/ Incomplete(q) /\ Answer(r, 409)
        \/ complete /\ ~same /\ Answer(r, 409)
        \/ complete /\ same /\ Answer(r, 200)
        \/ ~Incomplete(q) /\ ~complete /\ Proceed(r, [tx[r] EXCEPT !.pc = "validate"])

\* reschedule, cancel and change_status load the row FOR UPDATE and check it.  They know
\* nothing of journeys: each row of one is changed as any other is.
Load(r) ==
  LET q == tx[r].req
      row == appts[q.row]
      there == q.row \in DOMAIN appts
      movable == row.status \in {"BOOKED", "CONFIRMED"} /\ q.start # row.start
  IN /\ tx[r].pc = "load" /\ \A s \in Requests : ~Owns(tx[s], q.row)
     /\ \/ ~there /\ Answer(r, 404)
        \/ there /\ q.kind = "move" /\ ~movable /\ Answer(r, 409)
        \/ there /\ q.kind = "move" /\ movable /\ q.start <= now /\ Answer(r, 422)
        \/ /\ there /\ q.kind = "move" /\ movable /\ q.start > now
           /\ Proceed(r, [tx[r] EXCEPT !.pc = "validate", !.seen = row])
        \/ /\ there /\ q.kind = "status" /\ q.to \notin Allowed[row.status]
           /\ Answer(r, 409)
        \/ /\ there /\ q.kind = "status" /\ q.to \in Allowed[row.status]
           /\ Proceed(r, [tx[r] EXCEPT !.pc = "exclude", !.seen = row])

\* The order of the steps is not looked at.
FaultyInOrder(q, i) == TRUE

\* The i-th step begins when the step before it has ended.
InOrder(q, i) == i > 1 => End(RowOf(q, i - 1)) <= RowOf(q, i).start

\* The next step of a booking is in the future, and after the step before it.
InTime(t) == Books(t.req) => Current(t).start > now /\ InOrder(t.req, t.at)

\* Checks the next step, or the time a row moves to, against the rows committed by now.
Validate(r) ==
  LET t == tx[r]
      row == Current(t)
      free == ~Taken(t, row) /\ row.start \in Grid[<<row.employee, row.service>>]
  IN /\ t.pc = "validate"
     /\ \/ ~InTime(t) /\ Answer(r, 422)
        \/ InTime(t) /\ ~free /\ Answer(r, 409)
        \/ InTime(t) /\ free /\ IsLast(t) /\ Proceed(r, [t EXCEPT !.pc = "write", !.at = 1])
        \/ InTime(t) /\ free /\ ~IsLast(t) /\ Proceed(r, [t EXCEPT !.at = @ + 1])

\* The rows are inserted in a session of their own, which asks for the header's lock again.
FaultyWrite(r) ==
  /\ tx[r].pc = "write"
  /\ ~\E s \in Requests : Keyed(tx[s]) /\ Keyed(tx[r]) /\ SameHeader(tx[s].req, tx[r].req)
  /\ Proceed(r, [tx[r] EXCEPT !.pc = "exclude"])

\* Puts the next row into the table and its indexes ...
Write(r) ==
  /\ tx[r].pc = "write"
  /\ Proceed(r, [tx[r] EXCEPT !.pc = "exclude"])

\* ... where the exclusion constraint meets the rows that overlap it, in any order: a
\* committed one ends the request, for an uncommitted one it waits.
Exclude(r) ==
  LET t == tx[r] IN
  /\ t.pc = "exclude"
  /\ \/ TakenForGood(t, Current(t)) /\ Answer(r, 409)
     \/ /\ ~Taken(t, Current(t)) /\ ~MustWait(r)
        /\ \/ IsLast(t) /\ Proceed(r, [t EXCEPT !.pc = "commit", !.at = 1])
           \/ ~IsLast(t) /\ Proceed(r, [t EXCEPT !.pc = "write", !.at = @ + 1])

Commit(r) ==
  LET t == tx[r] IN
  /\ t.pc = "commit"
  /\ \/ Books(t.req) /\ appts' = appts \o RowsOf(t.req)
     \/ ~Books(t.req) /\ appts' = [appts EXCEPT ![t.req.row] = Current(t)]
  /\ tx' = [tx EXCEPT ![r] = Idle]
  /\ reply' = [to |-> r, code |-> IF Books(t.req) THEN 201 ELSE 200]
  /\ UNCHANGED now

\* Any other exception, a lost connection, a deadlock PostgreSQL breaks, a crash.
Fail(r) == InFlight(r) /\ Answer(r, 500)

Tick == now < Horizon /\ now' = now + 1 /\ reply' = None /\ UNCHANGED <<appts, tx>>

Handle(r) == Lookup(r) \/ Load(r) \/ Validate(r) \/ Write(r) \/ Exclude(r) \/ Commit(r)

Next ==
  \/ \E r \in Requests : Submit(r) \/ Handle(r) \/ Fail(r)
  \/ Tick

Spec == Init /\ [][Next]_vars

\* The next statement of r needs what s has: the lock of its header, the row it changes, or
\* the time it writes.
WaitsFor(r, s) ==
  /\ r # s
  /\ \/ tx[r].pc = "lookup" /\ Keyed(tx[s]) /\ SameHeader(tx[s].req, tx[r].req)
     \/ tx[r].pc = "load" /\ Owns(tx[s], tx[r].req.row)
     \/ tx[r].pc = "exclude" /\ Blocks(tx[s], Current(tx[r]))

\* Each of them waits for another.
StandStill(S) == S # {} /\ \A r \in S : \E s \in S : WaitsFor(r, s)

\* As in Booking: PostgreSQL grants a lock to whoever has waited longest, and ends a request
\* that is on a circle of waiting requests.
Deadlocked(r) ==
  \E S \in SUBSET Requests :
    /\ r \in S
    /\ \E next \in [S -> S] : /\ \A s \in S : WaitsFor(s, next[s])
                             /\ \A s \in S : \E u \in S : next[u] = s

BreakDeadlock == \E r \in Requests : Deadlocked(r) /\ Fail(r)

FairSpec ==
  /\ Spec
  /\ \A r \in Requests : SF_vars(Handle(r))
  /\ WF_vars(BreakDeadlock)
-----------------------------------------------------------------------------
(***************************************************************************)
(* Properties.                                                             *)
(***************************************************************************)

\* No employee has two overlapping appointments, whichever journeys, bookings and moves race.
NoDoubleBooking ==
  \A m, n \in DOMAIN appts : m # n => ~Clash(appts[m], appts[n])

\* A journey is booked whole or not at all (README.md:108): the rows under the step keys of
\* a header are the rows of one journey that was asked for, each there once.
JourneyIsWhole ==
  \A p \in Bookings : \A i \in DOMAIN p.steps : Existing(p, i) # {} =>
    \E q \in Bookings :
      /\ SameHeader(p, q)
      /\ \A j \in 1 .. MaxSteps :
           LET there == Existing(p, j)
           IN IF j \in DOMAIN q.steps
              THEN \E n \in there : there = {n} /\ appts[n].print = RowOf(q, j).print
              ELSE p.kind = "journey" => there = {}

\* The row is where it was booked: it has not been moved, or has been moved back.
Unmoved(row) == row.start = row.print.start

\* The client can be at every step of a journey as it was booked: no two steps overlap,
\* whoever does them, except that a step that was moved was moved by itself (reschedule
\* does not look at the others).
UnmovedStepsFollow ==
  \A q \in Bookings, i, j \in 1 .. MaxSteps :
    q.kind = "journey" /\ i < j =>
      \A m \in Existing(q, i), n \in Existing(q, j) :
        Unmoved(appts[m]) /\ Unmoved(appts[n]) => End(appts[m]) <= appts[n].start

\* A journey sent again under its header is replayed (200) once it has committed, even if
\* its steps are past, moved or cancelled; it is neither refused nor booked twice.
RetryIsReplayed ==
  [][\A r \in Requests :
       /\ InFlight(r) /\ tx'[r] = Idle /\ Books(tx[r].req)
       /\ \A i \in DOMAIN tx[r].req.steps :
            \E n \in Existing(tx[r].req, i) : appts[n].print = RowOf(tx[r].req, i).print
       => reply'.code \in {200, 500}]_vars

\* r wants the time that s wants too, or that s is leaving.
Rivals(r, s) ==
  /\ r # s /\ tx[r].pc = "exclude" /\ tx[s].pc = "exclude"
  /\ \/ Clash(Current(tx[r]), Current(tx[s]))
     \/ tx[s].seen # None /\ Clash(Current(tx[r]), tx[s].seen)

\* Requests that wait for each other in a circle, which PostgreSQL has to break, are rivals
\* for the time of one row: although each journey holds the rows of its earlier steps while
\* it waits for the time of the next, those alone never close a circle.
OnlyRivalsDeadlock ==
  \A S \in SUBSET Requests : StandStill(S) => \E r, s \in S : Rivals(r, s)

\* Every request is answered: a deadlock ends one of those on it, and the others go on.
EveryRequestAnswered == \A r \in Requests : InFlight(r) ~> ~InFlight(r)
-----------------------------------------------------------------------------
(***************************************************************************)
(* The inductive invariant.                                                *)
(***************************************************************************)

\* Each of the first n steps of q ends before every later one begins.
Ordered(q, n) ==
  \A i, j \in 1 .. n : i < j => End(RowOf(q, i)) <= RowOf(q, j).start

\* What a transaction that books has established about its own steps.
BookingForm(t) ==
  /\ t.pc \in {"lookup", "validate", "write", "exclude", "commit"} /\ t.seen = None
  /\ t.pc = "lookup" => t.at = 1
  /\ t.pc = "validate" => Ordered(t.req, t.at - 1)
  /\ t.pc \in {"write", "exclude", "commit"} => Ordered(t.req, Len(t.req.steps))

\* A transaction that changes a row has its lock from the load on.
ChangeForm(t) ==
  /\ t.pc \in {"load", "validate", "write", "exclude", "commit"}
  /\ t.pc = "load" <=> t.seen = None

Form(t) ==
  IF t.pc = "idle" THEN t = Idle
  ELSE /\ t.req \in Inputs /\ t.at \in 1 .. Length(t.req)
       /\ IF Books(t.req) THEN BookingForm(t) ELSE ChangeForm(t)

\* Its keys are still unused, the row it changes is as it was loaded, and what has passed
\* the constraint fits in beside the committed rows.
FitsTable(t) ==
  /\ Keyed(t) => \A i \in DOMAIN t.req.steps : Existing(t.req, i) = {}
  /\ t.seen # None => t.req.row \in DOMAIN appts /\ appts[t.req.row] = t.seen
  /\ \A i \in Passed(t) : ~Taken(t, Draft(t, i))

\* Two transactions hold different headers and different rows, and have not both passed with
\* clashing rows.
Apart(t, u) ==
  /\ Keyed(t) /\ Keyed(u) => ~SameHeader(t.req, u.req)
  /\ t.seen # None /\ u.seen # None => t.req.row # u.req.row
  /\ \A i \in Passed(t), j \in Passed(u) : ~Clash(Draft(t, i), Draft(u, j))

\* The row as it was booked.
Booked(row) == [row EXCEPT !.start = row.print.start]

\* As booked, each step of a journey ended before every later one began.
BookedInOrder ==
  \A q \in Bookings, i, j \in 1 .. MaxSteps :
    q.kind = "journey" /\ i < j =>
      \A m \in Existing(q, i), n \in Existing(q, j) :
        End(Booked(appts[m])) <= Booked(appts[n]).start

\* The committed row is a row of a request; only its start and its status may be others since.
RowsAreAskedFor ==
  \A n \in DOMAIN appts :
    \E q \in Bookings : \E i \in DOMAIN q.steps : SameBooking(appts[n], RowOf(q, i))

Consistent ==
  /\ TypeOK /\ NoDoubleBooking /\ RowsAreAskedFor /\ JourneyIsWhole /\ BookedInOrder
  /\ \A r \in Requests : Form(tx[r]) /\ FitsTable(tx[r])
  /\ \A r, s \in Requests : r # s => Apart(tx[r], tx[s])
=============================================================================
