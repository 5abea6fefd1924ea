--------------------------- MODULE JourneyProofs ---------------------------
(***************************************************************************)
(* Proofs about Journey, for any number of clients, employees, concurrent  *)
(* requests and journeys.  As in BookingProofs, every action but the       *)
(* commits changes only the transaction of its own request.                *)
(***************************************************************************)
EXTENDS Journey, SequenceTheorems, WellFoundedInduction, TLAPS

\* A booking has between one and six steps, each a row of the table.
LEMMA InputType ==
  ASSUME NEW q \in Bookings
  PROVE  /\ q \in Request /\ q # None /\ q \in Inputs /\ Books(q)
         /\ q.client \in Clients /\ q.key \in Keys /\ q.kind \in {"journey", "single"}
         /\ q.steps \in Seq(Step) /\ Len(q.steps) \in 1 .. MaxSteps
         /\ DOMAIN q.steps = 1 .. Len(q.steps) /\ DOMAIN q.steps \subseteq 1 .. MaxSteps
         /\ q.kind = "single" => Len(q.steps) = 1
<1>1. q \in Request /\ q # None /\ q \in Inputs /\ Books(q)
  BY InputAssumption, RequestAssumption DEF Bookings
<1>2. q \in BookRequest
  BY <1>1 DEF Request, MoveRequest, StatusRequest, Books
<1>3. /\ q.client \in Clients /\ q.key \in Keys /\ q.kind \in {"journey", "single"}
      /\ q.steps \in Seq(Step)
      /\ Len(q.steps) \in IF q.kind = "journey" THEN 2 .. MaxSteps ELSE {1}
  BY <1>2 DEF BookRequest
<1> DEFINE len == Len(q.steps)
<1>4. len \in Nat /\ len \in 1 .. MaxSteps /\ (q.kind = "single" => len = 1)
  <2>1. CASE q.kind = "journey"
    <3>1. len \in 2 .. MaxSteps
      BY <1>3, <2>1
    <3> QED
      BY <2>1, <3>1 DEF MaxSteps
  <2>2. CASE q.kind = "single"
    <3>1. len \in {1}
      BY <1>3, <2>2
    <3> QED
      BY <3>1 DEF MaxSteps
  <2> QED
    BY <1>3, <2>1, <2>2
<1>5. DOMAIN q.steps = 1 .. Len(q.steps)
  BY <1>3
<1>6. DOMAIN q.steps \subseteq 1 .. MaxSteps
  <2> HIDE DEF len
  <2>1. 1 .. len \subseteq 1 .. MaxSteps
    BY <1>4 DEF MaxSteps
  <2> QED
    BY <1>5, <2>1 DEF len
<1> QED
  BY <1>1, <1>3, <1>4, <1>5, <1>6

\* A change is a move or a new status of one row.
LEMMA ChangeType ==
  ASSUME NEW q \in Inputs, ~Books(q)
  PROVE  /\ q \in Request /\ q # None
         /\ \/ q.kind = "move" /\ q.start \in Times
            \/ q.kind = "status" /\ q.to \in Statuses
<1>1. q \in Request /\ q # None
  BY InputAssumption, RequestAssumption
<1> QED
  BY <1>1 DEF Request, BookRequest, MoveRequest, StatusRequest, Books

LEMMA LengthType ==
  ASSUME NEW q \in Inputs
  PROVE  /\ Length(q) \in Nat /\ Length(q) \in 1 .. MaxSteps /\ 1 \in 1 .. Length(q)
         /\ 1 .. Length(q) \subseteq 1 .. MaxSteps
         /\ Books(q) => /\ q \in Bookings /\ Length(q) = Len(q.steps)
                        /\ 1 .. Length(q) = DOMAIN q.steps
         /\ ~Books(q) => Length(q) = 1
<1> DEFINE n == Length(q)
<1>1. n \in 1 .. MaxSteps /\ (~Books(q) => n = 1)
  BY InputType DEF Length, Bookings, MaxSteps
<1>2. Books(q) => q \in Bookings /\ n = Len(q.steps) /\ 1 .. n = DOMAIN q.steps
  BY InputType DEF Length, Bookings
<1> HIDE DEF n
<1>3. n \in Nat /\ 1 \in 1 .. n /\ 1 .. n \subseteq 1 .. MaxSteps
  BY <1>1 DEF MaxSteps
<1> QED
  BY <1>1, <1>2, <1>3 DEF n

LEMMA RowFields ==
  ASSUME NEW q, NEW i
  PROVE  LET row == RowOf(q, i)
         IN /\ row.client = q.client /\ row.key = KeyOf(q, i) /\ row.status = "BOOKED"
            /\ row.employee = q.steps[i].employee /\ row.service = q.steps[i].service
            /\ row.start = q.steps[i].start /\ row.print.start = row.start
  BY DEF RowOf, NewRow

LEMMA RowType ==
  ASSUME NEW q \in Bookings, NEW i \in DOMAIN q.steps
  PROVE  RowOf(q, i) \in Row
<1>1. q.steps[i] \in Step /\ KeyOf(q, i) \in Keys
  BY InputType, StepKeyAssumption
<1> QED
  BY <1>1, InputType DEF RowOf, NewRow, Row, Step, Prints, Notes, Statuses

\* A row ends after it begins.
LEMMA EndsLater ==
  ASSUME NEW row \in Row
  PROVE  End(row) \in Int /\ row.start \in 0 .. Horizon /\ row.start < End(row)
<1>1. row.employee \in Employees /\ row.service \in Services /\ row.start \in Times
  BY DEF Row
<1>2. Duration[<<row.employee, row.service>>] \in Nat \ {0}
  BY <1>1, DurationAssumption
<1> QED
  BY <1>1, <1>2, HorizonAssumption DEF End, Times

\* A row as it was asked for stands where it was booked.
LEMMA UnmovedRow ==
  ASSUME NEW q, NEW i
  PROVE  Booked(RowOf(q, i)) = RowOf(q, i)
<1>1. ASSUME NEW client, NEW employee, NEW service, NEW start, NEW key, NEW note
      PROVE  Booked(NewRow(client, employee, service, start, key, note))
               = NewRow(client, employee, service, start, key, note)
  BY <1>1 DEF Booked, NewRow
<1> QED
  BY <1>1 DEF RowOf

LEMMA StepEndsLater ==
  ASSUME NEW q \in Bookings, NEW i \in DOMAIN q.steps
  PROVE  LET row == RowOf(q, i)
         IN End(row) \in Int /\ row.start \in Int /\ row.start < End(row)
  BY RowType, EndsLater, HorizonAssumption

LEMMA ClashSymmetric ==
  ASSUME NEW a, NEW b
  PROVE  Clash(a, b) <=> Clash(b, a)
  BY DEF Clash, Overlap

LEMMA ApartSymmetric ==
  ASSUME NEW t, NEW u, Apart(t, u)
  PROVE  Apart(u, t)
<1>1. \A i \in Passed(u), j \in Passed(t) : ~Clash(Draft(u, i), Draft(t, j))
  BY ClashSymmetric DEF Apart
<1> QED
  BY <1>1 DEF Apart, SameHeader

\* Rows under the same key were asked for under the same header.
LEMMA KeysApart ==
  ASSUME NEW p \in Bookings, NEW q \in Bookings, NEW i \in 1 .. MaxSteps,
         NEW j \in 1 .. MaxSteps, p.client = q.client, KeyOf(p, i) = KeyOf(q, j)
  PROVE  SameHeader(p, q) /\ (q.kind = "journey" => i = j)
  BY StepKeyAssumption DEF SameHeader

LEMMA SameKeys ==
  ASSUME NEW p, NEW q, SameHeader(p, q), NEW i
  PROVE  KeyOf(p, i) = KeyOf(q, i) /\ Existing(p, i) = Existing(q, i)
  BY DEF SameHeader, KeyOf, Existing, Under

\* If a header has a row, it has the row of a first step.
LEMMA FirstStepThere ==
  ASSUME Consistent, NEW q \in Bookings, NEW j \in 1 .. MaxSteps, Existing(q, j) # {}
  PROVE  Existing(q, 1) # {}
<1>1. PICK n \in DOMAIN appts : appts[n].client = q.client /\ appts[n].key = KeyOf(q, j)
  BY DEF Existing, Under
<1>2. PICK p \in Bookings : \E i \in DOMAIN p.steps : SameBooking(appts[n], RowOf(p, i))
  BY DEF Consistent, RowsAreAskedFor
<1>3. PICK i \in DOMAIN p.steps : appts[n].client = p.client /\ appts[n].key = KeyOf(p, i)
  BY <1>2, RowFields DEF SameBooking
<1>4. SameHeader(p, q)
  BY <1>1, <1>3, InputType, KeysApart
<1>5. Existing(p, i) # {}
  BY <1>3 DEF Existing, Under
<1>6. PICK o \in Bookings :
        /\ SameHeader(p, o)
        /\ \A k \in 1 .. MaxSteps :
             k \in DOMAIN o.steps => \E m \in Existing(p, k) : Existing(p, k) = {m}
  BY <1>5 DEF Consistent, JourneyIsWhole
<1>7. 1 \in DOMAIN o.steps /\ 1 \in 1 .. MaxSteps
  BY InputType DEF MaxSteps
<1>8. Existing(p, 1) # {}
  BY <1>6, <1>7
<1> QED
  BY <1>4, <1>8, SameKeys

-----------------------------------------------------------------------------
(***************************************************************************)
(* Steps that change one transaction only.                                 *)
(***************************************************************************)

\* The part of the invariant that is about the committed rows.
Rows == NoDoubleBooking /\ RowsAreAskedFor /\ JourneyIsWhole /\ BookedInOrder

LEMMA RowsUntouched ==
  ASSUME appts' = appts
  PROVE  /\ Rows => Rows'
         /\ \A t : FitsTable(t) => FitsTable(t)'
<1>1. \A q, i : Existing(q, i)' = Existing(q, i)
  BY DEF Existing, Under
<1>2. NoDoubleBooking => NoDoubleBooking'
  BY DEF NoDoubleBooking
<1>3. RowsAreAskedFor => RowsAreAskedFor'
  BY DEF RowsAreAskedFor
<1>4. JourneyIsWhole => JourneyIsWhole'
  BY <1>1 DEF JourneyIsWhole
<1>5. BookedInOrder => BookedInOrder'
  BY <1>1 DEF BookedInOrder
<1>6. \A t : FitsTable(t) => FitsTable(t)'
  BY <1>1 DEF FitsTable, Taken
<1> QED
  BY <1>2, <1>3, <1>4, <1>5, <1>6 DEF Rows

LEMMA LocalStep ==
  ASSUME Consistent, NEW r \in Requests, NEW t \in Tx,
         tx' = [tx EXCEPT ![r] = t], UNCHANGED <<appts, now>>,
         reply' \in [to : Requests, code : Codes] \cup {None},
         Form(t), FitsTable(t), \A s \in Requests \ {r} : Apart(t, tx[s])
  PROVE  Consistent'
<1>1. TypeOK'
  BY DEF Consistent, TypeOK
<1>2. Rows'
  BY RowsUntouched DEF Consistent, Rows
<1>3. \A s \in Requests : tx'[s] = IF s = r THEN t ELSE tx[s]
  BY DEF Consistent, TypeOK
<1>4. ASSUME NEW s \in Requests
      PROVE  Form(tx'[s]) /\ FitsTable(tx[s])'
  <2>1. Form(tx'[s]) /\ FitsTable(tx'[s])
    BY <1>3 DEF Consistent
  <2>2. FitsTable(tx[s])'
    BY <2>1, RowsUntouched DEF FitsTable, Taken, Existing, Under
  <2> QED
    BY <2>1, <2>2
<1>5. ASSUME NEW s \in Requests, NEW u \in Requests, s # u
      PROVE  Apart(tx'[s], tx'[u])
  <2>1. CASE s = r
    BY <1>3, <1>5, <2>1
  <2>2. CASE u = r
    BY <1>3, <1>5, <2>2, ApartSymmetric
  <2>3. CASE s # r /\ u # r
    BY <1>3, <1>5, <2>3 DEF Consistent
  <2> QED
    BY <2>1, <2>2, <2>3
<1> QED
  BY <1>1, <1>2, <1>4, <1>5 DEF Consistent, Rows

LEMMA ProceedStep ==
  ASSUME Consistent, NEW r \in Requests, NEW t \in Tx, Proceed(r, t),
         Form(t), FitsTable(t), \A s \in Requests \ {r} : Apart(t, tx[s])
  PROVE  Consistent'
  BY LocalStep DEF Proceed

\* A transaction that holds nothing is in nobody's way.
LEMMA IdleIsHarmless ==
  /\ Idle \in Tx /\ Form(Idle) /\ FitsTable(Idle)
  /\ \A u : Apart(Idle, u)
  BY DEF Idle, Tx, MaxSteps, Form, FitsTable, Apart, Keyed, Passed

LEMMA AnswerStep ==
  ASSUME Consistent, NEW r \in Requests, NEW code \in Codes,
         Answer(r, code)
  PROVE  Consistent'
  BY LocalStep, IdleIsHarmless DEF Answer

LEMMA SubmitStep ==
  ASSUME Consistent, NEW r \in Requests, Submit(r)
  PROVE  Consistent'
<1> DEFINE t(q) == [Idle EXCEPT !.pc = IF Books(q) THEN "lookup" ELSE "load", !.req = q]
<1>1. PICK q \in Inputs : Proceed(r, t(q))
  BY DEF Submit
<1>2. /\ t(q).pc = (IF Books(q) THEN "lookup" ELSE "load") /\ t(q).req = q
      /\ t(q).at = 1 /\ t(q).seen = None
  BY DEF Idle
<1>3. t(q) \in Tx
  <2> DEFINE pc == IF Books(q) THEN "lookup" ELSE "load"
  <2>1. q \in Request /\ pc \in {"lookup", "load"}
    BY InputAssumption
  <2> HIDE DEF pc
  <2>2. [Idle EXCEPT !.pc = pc, !.req = q] \in Tx
    BY <2>1, IdleIsHarmless DEF Tx
  <2> QED
    BY <2>2 DEF pc
<1> HIDE DEF t
<1>4. Form(t(q))
  BY <1>2, LengthType DEF Form, BookingForm, ChangeForm
<1>5. FitsTable(t(q)) /\ \A u : Apart(t(q), u)
  BY <1>2 DEF FitsTable, Apart, Keyed, Passed
<1> QED
  BY <1>1, <1>3, <1>4, <1>5, ProceedStep

\* What the invariant says of one request's transaction.
LEMMA Before ==
  ASSUME Consistent, NEW r \in Requests, tx[r].pc # "idle"
  PROVE  /\ tx[r] \in Tx /\ Form(tx[r]) /\ FitsTable(tx[r])
         /\ tx[r].req \in Inputs /\ tx[r].at \in 1 .. Length(tx[r].req)
         /\ tx[r].at \in 1 .. MaxSteps /\ tx[r].at \in Nat
         /\ tx[r].seen \in Row \cup {None}
         /\ Books(tx[r].req) => BookingForm(tx[r])
         /\ ~Books(tx[r].req) => ChangeForm(tx[r])
         /\ \A s \in Requests \ {r} : Apart(tx[r], tx[s])
<1>1. tx[r] \in Tx /\ Form(tx[r]) /\ FitsTable(tx[r])
  BY DEF Consistent, TypeOK
<1>2. /\ tx[r].req \in Inputs /\ tx[r].at \in 1 .. Length(tx[r].req)
      /\ Books(tx[r].req) => BookingForm(tx[r])
      /\ ~Books(tx[r].req) => ChangeForm(tx[r])
  BY <1>1 DEF Form
<1>3. tx[r].at \in 1 .. MaxSteps /\ tx[r].at \in Nat /\ tx[r].seen \in Row \cup {None}
  BY <1>1 DEF Tx, MaxSteps
<1> QED
  BY <1>1, <1>2, <1>3 DEF Consistent

LEMMA LookupStep ==
  ASSUME Consistent, NEW r \in Requests, Lookup(r)
  PROVE  Consistent'
<1> DEFINE q == tx[r].req
           u == [tx[r] EXCEPT !.pc = "validate"]
<1>1. tx[r].pc = "lookup" /\ \A s \in Requests \ {r} : Keyed(tx[s]) => ~SameHeader(tx[s].req, q)
  BY DEF Lookup
<1>2. CASE \E code \in {200, 409} : Answer(r, code)
  BY <1>2, AnswerStep DEF Codes
<1>3. CASE /\ ~Incomplete(q) /\ ~(\A i \in DOMAIN q.steps : Existing(q, i) # {})
           /\ Proceed(r, u)
  <2>1. Books(q) /\ q \in Inputs /\ tx[r].at = 1 /\ tx[r].seen = None /\ tx[r] \in Tx
        /\ 1 \in 1 .. Length(q)
    BY <1>1, Before, LengthType DEF BookingForm, ChangeForm
  <2>2. u \in Tx /\ u.pc = "validate" /\ u.req = q /\ u.at = 1 /\ u.seen = None
    BY <2>1 DEF Tx
  <2>3. \A i \in DOMAIN q.steps : Existing(q, i) = {}
    BY <1>3 DEF Incomplete
  <2> HIDE DEF u
  <2>4. Form(u)
    BY <2>1, <2>2 DEF Form, BookingForm, Ordered
  <2>5. FitsTable(u)
    BY <2>2, <2>3 DEF FitsTable, Passed
  <2>6. \A s \in Requests \ {r} : Apart(u, tx[s])
    BY <1>1, <2>2 DEF Apart, Passed, SameHeader
  <2> QED
    BY <1>3, <2>2, <2>4, <2>5, <2>6, ProceedStep
<1> QED
  BY <1>2, <1>3 DEF Lookup

LEMMA LoadStep ==
  ASSUME Consistent, NEW r \in Requests, Load(r)
  PROVE  Consistent'
<1> DEFINE q == tx[r].req
           row == appts[q.row]
           u(pc) == [tx[r] EXCEPT !.pc = pc, !.seen = row]
<1>1. /\ tx[r].pc = "load" /\ \A s \in Requests : ~Owns(tx[s], q.row)
  BY DEF Load
<1>2. CASE \E code \in {404, 409, 422} : Answer(r, code)
  BY <1>2, AnswerStep DEF Codes
<1>3. ASSUME NEW pc \in {"validate", "exclude"}, q.row \in DOMAIN appts, Proceed(r, u(pc))
      PROVE  Consistent'
  <2>1. ~Books(q) /\ q \in Inputs /\ tx[r] \in Tx /\ Length(q) = 1
        /\ tx[r].at \in 1 .. Length(q)
    BY <1>1, Before, LengthType DEF BookingForm, ChangeForm
  <2>2. row \in Row /\ row # None
    BY <1>3, NoneAssumption DEF Consistent, TypeOK
  <2>3. u(pc) \in Tx /\ u(pc).pc = pc /\ u(pc).req = q /\ u(pc).at = 1 /\ u(pc).seen = row
    <3>1. tx[r].at = 1
      BY <2>1
    <3> QED
      BY <2>1, <2>2, <3>1 DEF Tx
  <2> HIDE DEF u
  <2>4. Form(u(pc))
    BY <2>1, <2>2, <2>3 DEF Form, ChangeForm
  <2>5. ~Keyed(u(pc)) /\ Passed(u(pc)) = {}
    BY <2>1, <2>3 DEF Keyed, Passed
  <2>6. FitsTable(u(pc))
    BY <1>3, <2>3, <2>5 DEF FitsTable
  <2>7. \A s \in Requests \ {r} : Apart(u(pc), tx[s])
    BY <1>1, <2>3, <2>5 DEF Apart, Owns
  <2> QED
    BY <1>3, <2>3, <2>4, <2>6, <2>7, ProceedStep
<1> QED
  BY <1>2, <1>3 DEF Load

\* A step that begins when the step before it has ended begins after all before it.
LEMMA OrderedGrows ==
  ASSUME NEW q \in Bookings, NEW n \in DOMAIN q.steps, Ordered(q, n - 1), InOrder(q, n)
  PROVE  Ordered(q, n)
<1>1. n \in Nat /\ n <= Len(q.steps) /\ Len(q.steps) \in Nat /\ n >= 1
      /\ DOMAIN q.steps = 1 .. Len(q.steps)
  BY InputType DEF MaxSteps
<1>2. SUFFICES ASSUME NEW i \in 1 .. n, NEW j \in 1 .. n, i < j
               PROVE  End(RowOf(q, i)) <= RowOf(q, j).start
  BY DEF Ordered
<1>3. CASE j < n
  <2>1. i \in 1 .. n - 1 /\ j \in 1 .. n - 1
    BY <1>1, <1>2, <1>3
  <2> QED
    BY <1>2, <2>1 DEF Ordered
<1>4. CASE j = n /\ i = n - 1
  BY <1>1, <1>2, <1>4 DEF InOrder
<1>5. CASE j = n /\ i < n - 1
  <2>1. i \in 1 .. n - 1 /\ n - 1 \in 1 .. n - 1 /\ i < n - 1 /\ n > 1
    BY <1>1, <1>2, <1>5
  <2>2. End(RowOf(q, i)) <= RowOf(q, n - 1).start
    BY <2>1 DEF Ordered
  <2>3. End(RowOf(q, n - 1)) <= RowOf(q, n).start
    BY <2>1 DEF InOrder
  <2>4. i \in DOMAIN q.steps /\ n - 1 \in DOMAIN q.steps
    BY <1>1, <2>1
  <2> DEFINE a == End(RowOf(q, i))  b == RowOf(q, n - 1).start
             c == End(RowOf(q, n - 1))  d == RowOf(q, n).start
  <2>5. a \in Int /\ b \in Int /\ c \in Int /\ d \in Int /\ b < c
    BY <2>4, StepEndsLater
  <2>6. a <= b /\ c <= d
    BY <2>2, <2>3
  <2> HIDE DEF a, b, c, d
  <2>7. a <= d
    BY <2>5, <2>6
  <2> QED
    BY <1>5, <2>7 DEF a, d
<1> QED
  BY <1>1, <1>2, <1>3, <1>4, <1>5

\* What a transaction writes, and whose row it is, does not depend on how far it is.
LEMMA SameDrafts ==
  ASSUME NEW t, NEW u, u.req = t.req, u.seen = t.seen
  PROVE  /\ \A i : Draft(u, i) = Draft(t, i)
         /\ \A row : Taken(u, row) <=> Taken(t, row)
  BY DEF Draft, Taken, Owns

LEMMA ValidateStep ==
  ASSUME Consistent, NEW r \in Requests, Validate(r)
  PROVE  Consistent'
<1> DEFINE t == tx[r]
           q == t.req
<1>1. t.pc = "validate"
  BY DEF Validate
<1>2. CASE \E code \in {409, 422} : Answer(r, code)
  BY <1>2, AnswerStep DEF Codes
<1>3. /\ t \in Tx /\ q \in Inputs /\ t.at \in 1 .. Length(q) /\ t.at \in Nat
      /\ Length(q) \in Nat /\ 1 \in 1 .. Length(q) /\ 1 .. Length(q) \subseteq 1 .. MaxSteps
      /\ FitsTable(t) /\ \A s \in Requests \ {r} : Apart(t, tx[s])
      /\ Books(q) => /\ BookingForm(t) /\ q \in Bookings /\ Length(q) = Len(q.steps)
                     /\ 1 .. Length(q) = DOMAIN q.steps
      /\ ~Books(q) => ChangeForm(t) /\ Length(q) = 1
  BY <1>1, Before, LengthType
<1>4. ASSUME NEW u \in Tx, Proceed(r, u), InTime(t), u.req = q, u.seen = t.seen,
             \/ IsLast(t) /\ u.pc = "write" /\ u.at = 1
             \/ ~IsLast(t) /\ u.pc = "validate" /\ u.at = t.at + 1
      PROVE  Consistent'
  <2>1. Books(q) => Ordered(q, t.at)
    BY <1>1, <1>3, <1>4, OrderedGrows DEF BookingForm, InTime
  <2>2. u.at \in 1 .. Length(q)
    BY <1>3, <1>4 DEF IsLast
  <2>3. Form(u)
    <3>1. CASE Books(q) /\ IsLast(t)
      BY <1>3, <1>4, <2>1, <2>2, <3>1 DEF Form, BookingForm, IsLast
    <3>2. CASE Books(q) /\ ~IsLast(t)
      <4>1. u.at - 1 = t.at
        BY <1>3, <1>4, <3>2
      <4> QED
        BY <1>3, <1>4, <2>1, <2>2, <3>2, <4>1 DEF Form, BookingForm
    <3>3. CASE ~Books(q)
      BY <1>1, <1>3, <1>4, <2>2, <3>3 DEF Form, ChangeForm
    <3> QED
      BY <3>1, <3>2, <3>3
  <2>4. Passed(u) = {} /\ (Keyed(u) <=> Keyed(t))
    BY <1>1, <1>4 DEF Passed, Keyed
  <2>5. FitsTable(u) /\ \A s \in Requests \ {r} : Apart(u, tx[s])
    BY <1>3, <1>4, <2>4 DEF FitsTable, Apart
  <2> QED
    BY <1>4, <2>3, <2>5, ProceedStep
<1> DEFINE last == [t EXCEPT !.pc = "write", !.at = 1]
           next == [t EXCEPT !.at = @ + 1]
<1>5. CASE InTime(t) /\ IsLast(t) /\ Proceed(r, last)
  <2>1. last \in Tx /\ last.req = q /\ last.seen = t.seen /\ last.pc = "write" /\ last.at = 1
    BY <1>3 DEF Tx
  <2> HIDE DEF last
  <2> QED
    BY <1>4, <1>5, <2>1
<1>6. CASE InTime(t) /\ ~IsLast(t) /\ Proceed(r, next)
  <2>1. t.at + 1 \in 1 .. MaxSteps
    <3>1. t.at + 1 \in 1 .. Length(q)
      BY <1>3, <1>6 DEF IsLast
    <3> QED
      BY <1>3, <3>1
  <2>2. next \in Tx /\ next.req = q /\ next.seen = t.seen /\ next.pc = "validate"
        /\ next.at = t.at + 1
    BY <1>1, <1>3, <2>1 DEF Tx
  <2> HIDE DEF next
  <2> QED
    BY <1>4, <1>6, <2>2
<1> QED
  BY <1>2, <1>5, <1>6 DEF Validate

LEMMA WriteStep ==
  ASSUME Consistent, NEW r \in Requests, Write(r)
  PROVE  Consistent'
<1> DEFINE t == tx[r]
           u == [t EXCEPT !.pc = "exclude"]
<1>1. t.pc = "write" /\ Proceed(r, u)
  BY DEF Write
<1>2. /\ t \in Tx /\ Form(t) /\ FitsTable(t) /\ \A s \in Requests \ {r} : Apart(t, tx[s])
  BY <1>1, Before
<1>3. u \in Tx /\ u.pc = "exclude" /\ u.req = t.req /\ u.at = t.at /\ u.seen = t.seen
  BY <1>2 DEF Tx
<1> HIDE DEF u
<1>4. Passed(u) = Passed(t) /\ (Keyed(u) <=> Keyed(t))
  BY <1>1, <1>3 DEF Passed, Keyed
<1>5. Form(u)
  BY <1>1, <1>2, <1>3 DEF Form, BookingForm, ChangeForm
<1>6. FitsTable(u) /\ \A s \in Requests \ {r} : Apart(u, tx[s])
  BY <1>2, <1>3, <1>4, SameDrafts DEF FitsTable, Apart
<1> QED
  BY <1>1, <1>3, <1>5, <1>6, ProceedStep

\* What has passed the constraint is in the table.
LEMMA PassedIsInserted ==
  ASSUME NEW t \in Tx
  PROVE  Passed(t) \subseteq Inserted(t)
<1>1. t.at \in Nat
  BY DEF Tx, MaxSteps
<1> QED
  BY <1>1 DEF Passed, Inserted

LEMMA ExcludeStep ==
  ASSUME Consistent, NEW r \in Requests, Exclude(r)
  PROVE  Consistent'
<1> DEFINE t == tx[r]
           q == t.req
<1>1. t.pc = "exclude"
  BY DEF Exclude
<1>2. CASE Answer(r, 409)
  BY <1>2, AnswerStep DEF Codes
<1>3. /\ t \in Tx /\ q \in Inputs /\ t.at \in 1 .. Length(q) /\ t.at \in Nat
      /\ Length(q) \in Nat /\ 1 \in 1 .. Length(q) /\ 1 .. Length(q) \subseteq 1 .. MaxSteps
      /\ FitsTable(t) /\ Form(t) /\ \A s \in Requests \ {r} : Apart(t, tx[s])
  BY <1>1, Before, LengthType
<1>4. ASSUME NEW u \in Tx, Proceed(r, u), ~Taken(t, Current(t)), ~MustWait(r),
             u.req = q, u.seen = t.seen,
             \/ IsLast(t) /\ u.pc = "commit" /\ u.at = 1
             \/ ~IsLast(t) /\ u.pc = "write" /\ u.at = t.at + 1
      PROVE  Consistent'
  <2>1. u.at \in 1 .. Length(q)
    BY <1>3, <1>4 DEF IsLast
  <2>2. Form(u)
    BY <1>1, <1>3, <1>4, <2>1 DEF Form, BookingForm, ChangeForm
  <2>3. Passed(u) = Passed(t) \cup {t.at}
    <3>1. Passed(t) = 1 .. t.at - 1
      BY <1>1 DEF Passed
    <3>2. CASE u.pc = "commit"
      BY <1>3, <1>4, <3>1, <3>2 DEF Passed, IsLast
    <3>3. CASE u.pc = "write"
      BY <1>3, <1>4, <3>1, <3>3 DEF Passed
    <3> QED
      BY <1>4, <3>2, <3>3
  <2>4. Keyed(u) <=> Keyed(t)
    BY <1>1, <1>4 DEF Keyed
  <2>5. FitsTable(u)
    <3>1. \A i \in Passed(u) : ~Taken(u, Draft(u, i))
      BY <1>3, <1>4, <2>3, SameDrafts DEF FitsTable, Current
    <3> QED
      BY <1>3, <1>4, <2>4, <3>1 DEF FitsTable
  <2>6. ASSUME NEW s \in Requests \ {r}
        PROVE  Apart(u, tx[s])
    <3>1. Apart(t, tx[s]) /\ ~Blocks(tx[s], Current(t)) /\ tx[s] \in Tx
      BY <1>3, <1>4 DEF MustWait, Consistent, TypeOK
    <3>2. \A j \in Passed(tx[s]) : ~Clash(Draft(t, t.at), Draft(tx[s], j))
      BY <3>1, PassedIsInserted, ClashSymmetric DEF Blocks, Current
    <3>3. \A i \in Passed(u), j \in Passed(tx[s]) : ~Clash(Draft(u, i), Draft(tx[s], j))
      BY <1>4, <2>3, <3>1, <3>2, SameDrafts DEF Apart
    <3> QED
      BY <1>4, <2>4, <3>1, <3>3 DEF Apart
  <2> QED
    BY <1>4, <2>2, <2>5, <2>6, ProceedStep
<1> DEFINE last == [t EXCEPT !.pc = "commit", !.at = 1]
           next == [t EXCEPT !.pc = "write", !.at = @ + 1]
<1>5. CASE ~Taken(t, Current(t)) /\ ~MustWait(r) /\ IsLast(t) /\ Proceed(r, last)
  <2>1. last \in Tx /\ last.req = q /\ last.seen = t.seen /\ last.pc = "commit" /\ last.at = 1
    BY <1>3 DEF Tx
  <2> HIDE DEF last
  <2> QED
    BY <1>4, <1>5, <2>1
<1>6. CASE ~Taken(t, Current(t)) /\ ~MustWait(r) /\ ~IsLast(t) /\ Proceed(r, next)
  <2>1. t.at + 1 \in 1 .. MaxSteps
    <3>1. t.at + 1 \in 1 .. Length(q)
      BY <1>3, <1>6 DEF IsLast
    <3> QED
      BY <1>3, <3>1
  <2>2. next \in Tx /\ next.req = q /\ next.seen = t.seen /\ next.pc = "write"
        /\ next.at = t.at + 1
    BY <1>1, <1>3, <2>1 DEF Tx
  <2> HIDE DEF next
  <2> QED
    BY <1>4, <1>6, <2>2
<1> QED
  BY <1>2, <1>5, <1>6 DEF Exclude

LEMMA TickStep ==
  ASSUME Consistent, Tick
  PROVE  Consistent'
<1>1. TypeOK'
  BY HorizonAssumption DEF Consistent, TypeOK, Tick, Times
<1>2. Rows' /\ \A r \in Requests : FitsTable(tx[r])'
  BY RowsUntouched DEF Consistent, Rows, Tick, FitsTable, Taken, Existing, Under
<1> QED
  BY <1>1, <1>2 DEF Consistent, Rows, Tick

-----------------------------------------------------------------------------
(***************************************************************************)
(* The commit of a change of one row.                                      *)
(***************************************************************************)

\* A version that a transaction writes is a row of the table; a change leaves what the row
\* was asked for alone.
LEMMA DraftType ==
  ASSUME Consistent, NEW r \in Requests, tx[r].pc \in {"write", "exclude", "commit"},
         NEW i \in 1 .. Length(tx[r].req)
  PROVE  /\ Draft(tx[r], i) \in Row
         /\ Books(tx[r].req) => Draft(tx[r], i) = RowOf(tx[r].req, i)
         /\ ~Books(tx[r].req) => SameBooking(Draft(tx[r], i), tx[r].seen)
<1> DEFINE t == tx[r]
<1>1. CASE Books(t.req)
  <2>1. Draft(t, i) = RowOf(t.req, i)
    BY <1>1 DEF Draft, Books
  <2>2. t.req \in Bookings /\ i \in DOMAIN t.req.steps
    BY <1>1, Before, LengthType
  <2> QED
    BY <1>1, <2>1, <2>2, RowType
<1>2. CASE ~Books(t.req)
  <2>1. t.seen \in Row /\ t.req \in Inputs
    BY <1>2, Before DEF ChangeForm
  <2>2. CASE t.req.kind = "move" /\ t.req.start \in Times
    <3>1. Draft(t, i) = [t.seen EXCEPT !.start = t.req.start]
      BY <1>2, <2>2 DEF Draft
    <3> QED
      BY <1>2, <2>1, <2>2, <3>1 DEF Row, SameBooking
  <2>3. CASE t.req.kind = "status" /\ t.req.to \in Statuses
    <3>1. Draft(t, i) = [t.seen EXCEPT !.status = t.req.to]
      BY <1>2, <2>3 DEF Draft
    <3> QED
      BY <1>2, <2>1, <2>3, <3>1 DEF Row, SameBooking
  <2> QED
    BY <1>2, <2>1, <2>2, <2>3, ChangeType
<1> QED
  BY <1>1, <1>2

LEMMA ChangeStep ==
  ASSUME Consistent, NEW r \in Requests, Commit(r), ~Books(tx[r].req)
  PROVE  Consistent'
<1> DEFINE t == tx[r]
           n == t.req.row
           new == Current(t)
<1>1. /\ t.seen # None /\ FitsTable(t) /\ Passed(t) = {1} /\ t.at = 1
      /\ \A s \in Requests \ {r} : Apart(t, tx[s])
  <2>1. Length(t.req) = 1 /\ t.at \in 1 .. Length(t.req)
    BY Before, LengthType DEF Commit
  <2>2. t.at = 1
    BY <2>1
  <2> QED
    BY <2>1, <2>2, Before DEF Commit, ChangeForm, Passed
<1>2. new \in Row /\ SameBooking(new, t.seen)
  <2>1. 1 \in 1 .. Length(t.req)
    BY Before, LengthType DEF Commit
  <2> QED
    BY <1>1, <2>1, DraftType DEF Commit, Current
<1>3. n \in DOMAIN appts /\ appts[n] = t.seen /\ ~Taken(t, new)
  BY <1>1 DEF FitsTable, Current
<1>4. /\ appts \in Seq(Row) /\ appts' \in Seq(Row) /\ DOMAIN appts' = DOMAIN appts
      /\ appts'[n] = new /\ \A m \in DOMAIN appts : m # n => appts'[m] = appts[m]
  <2>1. appts \in Seq(Row) /\ appts' = [appts EXCEPT ![n] = new]
    BY DEF Consistent, TypeOK, Commit
  <2> HIDE DEF new, n
  <2> QED
    BY <1>2, <1>3, <2>1
<1>5. \A s \in Requests : tx'[s] = IF s = r THEN Idle ELSE tx[s]
  BY DEF Commit, Consistent, TypeOK
<1> HIDE DEF new
<1>6. \A m \in DOMAIN appts : SameBooking(appts'[m], appts[m]) /\ appts[m] \in Row
                              /\ appts'[m] \in Row
  BY <1>2, <1>3, <1>4 DEF SameBooking
<1>7. \A q, i : Existing(q, i)' = Existing(q, i) /\ Existing(q, i) \subseteq DOMAIN appts
  BY <1>4, <1>6 DEF Existing, Under, SameBooking
<1>8. TypeOK'
  <2>1. tx' \in [Requests -> Tx]
    BY IdleIsHarmless DEF Commit, Consistent, TypeOK
  <2>2. reply' \in [to : Requests, code : Codes]
    BY DEF Commit, Codes
  <2>3. now' \in Times
    BY DEF Commit, Consistent, TypeOK
  <2> QED
    BY <1>4, <2>1, <2>2, <2>3 DEF TypeOK
<1>9. NoDoubleBooking'
  <2>1. SUFFICES ASSUME NEW k \in DOMAIN appts, NEW m \in DOMAIN appts, k # m
                 PROVE  ~Clash(appts'[k], appts'[m])
    BY <1>4 DEF NoDoubleBooking, Clash, Occupies, Overlap, End
  <2>2. \A o \in DOMAIN appts : o # n => ~Clash(appts[o], new) /\ ~Clash(new, appts[o])
    BY <1>3, ClashSymmetric DEF Taken, Owns
  <2> QED
    BY <1>4, <2>1, <2>2 DEF Consistent, NoDoubleBooking
<1>10. RowsAreAskedFor'
  <2>1. SUFFICES ASSUME NEW m \in DOMAIN appts
                 PROVE  \E q \in Bookings : \E i \in DOMAIN q.steps :
                          SameBooking(appts'[m], RowOf(q, i))
    BY <1>4 DEF RowsAreAskedFor, SameBooking
  <2>2. PICK q \in Bookings : \E i \in DOMAIN q.steps : SameBooking(appts[m], RowOf(q, i))
    BY DEF Consistent, RowsAreAskedFor
  <2> QED
    BY <1>6, <2>2 DEF SameBooking
<1>11. JourneyIsWhole'
  <2>1. SUFFICES ASSUME NEW p \in Bookings, NEW i \in DOMAIN p.steps, Existing(p, i) # {}
                 PROVE  (\E q \in Bookings :
                          /\ SameHeader(p, q)
                          /\ \A j \in 1 .. MaxSteps :
                               IF j \in DOMAIN q.steps
                               THEN \E m \in Existing(p, j) :
                                      Existing(p, j) = {m} /\ appts[m].print = RowOf(q, j).print
                               ELSE p.kind = "journey" => Existing(p, j) = {})'
    BY <1>7 DEF JourneyIsWhole
  <2>2. PICK q \in Bookings :
          /\ SameHeader(p, q)
          /\ \A j \in 1 .. MaxSteps :
               IF j \in DOMAIN q.steps
               THEN \E m \in Existing(p, j) :
                      Existing(p, j) = {m} /\ appts[m].print = RowOf(q, j).print
               ELSE p.kind = "journey" => Existing(p, j) = {}
    BY <2>1 DEF Consistent, JourneyIsWhole
  <2>3. \A j \in 1 .. MaxSteps : \A m \in Existing(p, j) : appts'[m].print = appts[m].print
    BY <1>6, <1>7 DEF SameBooking
  <2> QED
    BY <1>7, <2>2, <2>3
<1>12. BookedInOrder'
  <2>1. \A m \in DOMAIN appts :
          Booked(appts'[m]).start = Booked(appts[m]).start
          /\ End(Booked(appts'[m])) = End(Booked(appts[m]))
    BY <1>6 DEF SameBooking, Booked, End, Row
  <2> QED
    BY <1>7, <2>1 DEF Consistent, BookedInOrder
<1>13. ASSUME NEW s \in Requests
       PROVE  Form(tx'[s]) /\ FitsTable(tx[s])'
  <2>1. CASE s = r
    BY <1>5, <2>1, IdleIsHarmless DEF FitsTable, Keyed, Passed, Idle
  <2>2. CASE s # r
    <3>1. tx'[s] = tx[s] /\ Form(tx[s]) /\ FitsTable(tx[s]) /\ Apart(tx[s], t)
      BY <1>1, <1>5, <2>2, ApartSymmetric DEF Consistent
    <3>2. tx[s].seen # None => tx[s].req.row # n
      BY <1>1, <3>1 DEF Apart
    <3>3. ASSUME NEW i \in Passed(tx[s])
          PROVE  ~Taken(tx[s], Draft(tx[s], i))'
      <4>1. ~Taken(tx[s], Draft(tx[s], i)) /\ ~Clash(new, Draft(tx[s], i))
        BY <1>1, <3>1, ClashSymmetric DEF FitsTable, Apart, new, Current
      <4>2. \A m \in DOMAIN appts : ~Owns(tx[s], m) => ~Clash(appts'[m], Draft(tx[s], i))
        BY <1>4, <4>1 DEF Taken
      <4> QED
        BY <1>4, <3>1, <4>2 DEF Taken, Owns, Draft, Clash, Occupies, Overlap, End, RowOf, NewRow
    <3> QED
      BY <1>4, <1>7, <3>1, <3>2, <3>3 DEF FitsTable, Keyed, Passed
  <2> QED
    BY <2>1, <2>2
<1>14. ASSUME NEW s \in Requests, NEW u \in Requests, s # u
       PROVE  Apart(tx'[s], tx'[u])
  BY <1>5, <1>14, IdleIsHarmless, ApartSymmetric DEF Consistent
<1> QED
  BY <1>8, <1>9, <1>10, <1>11, <1>12, <1>13, <1>14 DEF Consistent

-----------------------------------------------------------------------------
(***************************************************************************)
(* The commit of all rows of a booking.                                    *)
(***************************************************************************)

LEMMA CommitRows ==
  ASSUME Consistent, NEW r \in Requests, Commit(r), Books(tx[r].req)
  PROVE  LET q == tx[r].req
             N == Len(appts)
         IN /\ N \in Nat /\ DOMAIN appts = 1 .. N /\ DOMAIN q.steps = 1 .. Len(q.steps)
            /\ appts' \in Seq(Row) /\ DOMAIN appts' = 1 .. N + Len(q.steps)
            /\ \A n \in 1 .. N : appts'[n] = appts[n]
            /\ \A i \in 1 .. Len(q.steps) : appts'[N + i] = RowOf(q, i)
<1> DEFINE q == tx[r].req
           rows == RowsOf(q)
<1>1. q \in Bookings
  BY Before, LengthType DEF Commit
<1>2. Len(q.steps) \in Nat /\ DOMAIN q.steps = 1 .. Len(q.steps)
  BY <1>1, InputType
<1>3. \A i \in 1 .. Len(q.steps) : RowOf(q, i) \in Row
  BY <1>1, <1>2, RowType
<1>4. rows = [i \in 1 .. Len(q.steps) |-> RowOf(q, i)]
  BY <1>2 DEF RowsOf
<1>5. rows \in Seq(Row) /\ Len(rows) = Len(q.steps)
  BY <1>2, <1>3, <1>4
<1>6. appts \in Seq(Row) /\ appts' = appts \o rows
  BY DEF Consistent, TypeOK, Commit
<1>7. \A i \in 1 .. Len(q.steps) : rows[i] = RowOf(q, i)
  BY <1>4
<1> HIDE DEF rows, q
<1>8. Len(appts) \in Nat /\ DOMAIN appts = 1 .. Len(appts)
  BY <1>6
<1>9. appts' \in Seq(Row) /\ Len(appts') = Len(appts) + Len(q.steps)
  <2>1. appts \o rows \in Seq(Row)
    BY <1>5, <1>6
  <2>2. Len(appts \o rows) = Len(appts) + Len(rows)
    BY <1>5, <1>6, ConcatProperties
  <2> QED
    BY <1>5, <1>6, <2>1, <2>2
<1>10. DOMAIN appts' = 1 .. Len(appts) + Len(q.steps)
  BY <1>9
<1>11. \A n \in 1 .. Len(appts) : appts'[n] = appts[n]
  BY <1>5, <1>6
<1>12. ASSUME NEW i \in 1 .. Len(q.steps)
       PROVE  appts'[Len(appts) + i] = RowOf(q, i)
  <2>1. (appts \o rows)[Len(appts) + i] = rows[i]
    BY <1>2, <1>5, <1>6, <1>8
  <2> QED
    BY <1>6, <1>7, <2>1
<1> QED
  BY <1>2, <1>8, <1>9, <1>10, <1>11, <1>12 DEF q

\* The rows under the key of a step, after the commit of the request q: q's own, if they
\* are of its header, and those from before, if not.
LEMMA CommitKeys ==
  ASSUME Consistent, NEW r \in Requests, Commit(r), Books(tx[r].req),
         NEW p \in Bookings, NEW i \in 1 .. MaxSteps
  PROVE  LET q == tx[r].req
         IN /\ ~SameHeader(p, q) => Existing(p, i)' = Existing(p, i)
            /\ SameHeader(p, q) =>
                 /\ Existing(p, i) = {}
                 /\ i \in DOMAIN q.steps => Existing(p, i)' = {Len(appts) + i}
                 /\ i \notin DOMAIN q.steps /\ p.kind = "journey" => Existing(p, i)' = {}
<1> DEFINE q == tx[r].req
           N == Len(appts)
<1>1. /\ q \in Bookings /\ FitsTable(tx[r]) /\ Keyed(tx[r]) /\ Len(q.steps) \in 1 .. MaxSteps
      /\ DOMAIN q.steps \subseteq 1 .. MaxSteps
  BY Before, LengthType, InputType DEF Commit, Keyed
<1>2. /\ N \in Nat /\ DOMAIN appts = 1 .. N /\ DOMAIN q.steps = 1 .. Len(q.steps)
      /\ DOMAIN appts' = 1 .. N + Len(q.steps)
      /\ \A n \in 1 .. N : appts'[n] = appts[n]
      /\ \A j \in 1 .. Len(q.steps) : appts'[N + j] = RowOf(q, j)
  BY CommitRows
<1>3. \A j \in 1 .. Len(q.steps) :
        appts'[N + j].client = q.client /\ appts'[N + j].key = KeyOf(q, j)
  BY <1>2, RowFields
<1> DEFINE own == {j \in 1 .. Len(q.steps) : q.client = p.client /\ KeyOf(q, j) = KeyOf(p, i)}
<1>4. Existing(p, i)' = Existing(p, i) \cup {N + j : j \in own}
  <2>1. ASSUME NEW n \in DOMAIN appts'
        PROVE  n \in 1 .. N \/ \E j \in 1 .. Len(q.steps) : n = N + j
    <3>1. n - N \in 1 .. Len(q.steps) \/ n \in 1 .. N
      BY <1>1, <1>2
    <3> QED
      BY <1>2, <3>1
  <2>2. ASSUME NEW j \in 1 .. Len(q.steps)
        PROVE  N + j \in DOMAIN appts'
    BY <1>1, <1>2
  <2>3. 1 .. N \subseteq DOMAIN appts'
    BY <1>1, <1>2
  <2>4. Existing(p, i) = {n \in 1 .. N : appts[n].client = p.client /\ appts[n].key = KeyOf(p, i)}
    BY <1>2 DEF Existing, Under
  <2>5. Existing(p, i)' = {n \in DOMAIN appts' : /\ appts'[n].client = p.client
                                                 /\ appts'[n].key = KeyOf(p, i)}
    BY DEF Existing, Under
  <2> DEFINE mine(n) == appts'[n].client = p.client /\ appts'[n].key = KeyOf(p, i)
  <2>6. \A n \in 1 .. N : n \in Existing(p, i) <=> mine(n)
    BY <1>2, <2>4
  <2>7. \A j \in 1 .. Len(q.steps) : j \in own <=> mine(N + j)
    BY <1>3
  <2>8. Existing(p, i)' = {n \in DOMAIN appts' : mine(n)}
    BY <2>5
  <2>9. Existing(p, i) \subseteq 1 .. N
    BY <2>4
  <2> HIDE DEF mine, q, N
  <2>10. ASSUME NEW n \in Existing(p, i)'
         PROVE  n \in Existing(p, i) \cup {N + j : j \in own}
    BY <2>1, <2>6, <2>7, <2>8, <2>10
  <2>11. ASSUME NEW n \in Existing(p, i) \cup {N + j : j \in own}
         PROVE  n \in Existing(p, i)'
    BY <2>2, <2>3, <2>6, <2>7, <2>8, <2>9, <2>11
  <2> QED
    BY <2>10, <2>11
<1>5. CASE ~SameHeader(p, q)
  <2>1. own = {}
    BY <1>1, <1>2, <1>5, KeysApart DEF SameHeader
  <2> QED
    BY <1>4, <1>5, <2>1
<1>6. CASE SameHeader(p, q)
  <2>1. Existing(q, 1) = {} /\ (i \in DOMAIN q.steps => Existing(q, i) = {})
    <3>1. 1 \in DOMAIN q.steps
      BY <1>1, InputType DEF MaxSteps
    <3> QED
      BY <1>1, <3>1 DEF FitsTable
  <2>2. Existing(p, i) = {}
    BY <1>1, <1>6, <2>1, SameKeys, FirstStepThere
  <2>3. ASSUME i \in DOMAIN q.steps
        PROVE  own = {i}
    <3>1. i \in own
      BY <1>2, <1>6, <2>3 DEF SameHeader, KeyOf
    <3>2. ASSUME NEW j \in own
          PROVE  j = i
      <4>1. CASE q.kind = "journey"
        <5>1. p.kind = "journey" /\ j \in 1 .. MaxSteps
          BY <1>1, <1>2, <1>6, <4>1 DEF SameHeader
        <5> QED
          BY <1>1, <5>1, KeysApart
      <4>2. CASE q.kind # "journey"
        <5>1. Len(q.steps) = 1
          BY <1>1, <4>2, InputType
        <5> QED
          BY <1>2, <2>3, <5>1
      <4> QED
        BY <4>1, <4>2
    <3> QED
      BY <3>1, <3>2
  <2>4. ASSUME i \notin DOMAIN q.steps, p.kind = "journey"
        PROVE  own = {}
    <3>1. ASSUME NEW j \in own
          PROVE  FALSE
      <4>1. j \in 1 .. MaxSteps /\ p.client = q.client /\ KeyOf(q, j) = KeyOf(p, i)
        BY <1>1, <1>2
      <4>2. i = j
        BY <1>1, <2>4, <4>1, KeysApart
      <4> QED
        BY <1>2, <2>4, <4>2
    <3> QED
      BY <3>1
  <2> QED
    BY <1>4, <1>6, <2>2, <2>3, <2>4
<1> QED
  BY <1>5, <1>6

LEMMA BookStep ==
  ASSUME Consistent, NEW r \in Requests, Commit(r), Books(tx[r].req)
  PROVE  Consistent'
<1> DEFINE q == tx[r].req
           N == Len(appts)
<1>1. /\ q \in Bookings /\ FitsTable(tx[r]) /\ Keyed(tx[r]) /\ Passed(tx[r]) = 1 .. Len(q.steps)
      /\ Ordered(q, Len(q.steps)) /\ Len(q.steps) \in 1 .. MaxSteps /\ tx[r].seen = None
      /\ 1 .. Len(q.steps) \subseteq 1 .. MaxSteps
      /\ \A i \in 1 .. Len(q.steps) : Draft(tx[r], i) = RowOf(q, i) /\ RowOf(q, i) \in Row
      /\ \A s \in Requests \ {r} : Apart(tx[r], tx[s])
  <2>1. /\ q \in Bookings /\ BookingForm(tx[r]) /\ Length(q) = Len(q.steps)
        /\ Len(q.steps) \in 1 .. MaxSteps /\ 1 .. Len(q.steps) \subseteq 1 .. MaxSteps
    BY Before, LengthType DEF Commit
  <2>2. \A i \in 1 .. Len(q.steps) : Draft(tx[r], i) = RowOf(q, i) /\ Draft(tx[r], i) \in Row
    BY <2>1, DraftType DEF Commit
  <2> QED
    BY <2>1, <2>2, Before DEF Commit, Keyed, Passed, BookingForm
<1>2. /\ N \in Nat /\ DOMAIN appts = 1 .. N /\ DOMAIN q.steps = 1 .. Len(q.steps)
      /\ appts' \in Seq(Row) /\ DOMAIN appts' = 1 .. N + Len(q.steps)
      /\ \A n \in 1 .. N : appts'[n] = appts[n]
      /\ \A i \in 1 .. Len(q.steps) : appts'[N + i] = RowOf(q, i)
  BY CommitRows
<1>3. ASSUME NEW n \in DOMAIN appts'
      PROVE  \/ n \in DOMAIN appts /\ appts'[n] = appts[n]
             \/ \E i \in 1 .. Len(q.steps) : n = N + i /\ appts'[n] = RowOf(q, i)
  <2>1. n \in 1 .. N \/ (n - N \in 1 .. Len(q.steps) /\ n = N + (n - N))
    BY <1>1, <1>2
  <2> QED
    BY <1>2, <2>1
<1>4. \A s \in Requests : tx'[s] = IF s = r THEN Idle ELSE tx[s]
  BY DEF Commit, Consistent, TypeOK
<1>5. TypeOK'
  <2>1. tx' \in [Requests -> Tx]
    BY IdleIsHarmless DEF Commit, Consistent, TypeOK
  <2>2. reply' \in [to : Requests, code : Codes]
    BY DEF Commit, Codes
  <2>3. now' \in Times
    BY DEF Commit, Consistent, TypeOK
  <2> QED
    BY <1>2, <2>1, <2>2, <2>3 DEF TypeOK
<1>6. NoDoubleBooking'
  <2>1. SUFFICES ASSUME NEW m \in DOMAIN appts', NEW n \in DOMAIN appts', m # n
                 PROVE  ~Clash(appts'[m], appts'[n])
    BY DEF NoDoubleBooking, Clash, Occupies, Overlap, End
  <2>2. ASSUME NEW i \in 1 .. Len(q.steps)
        PROVE  \A o \in DOMAIN appts :
                 ~Clash(appts[o], RowOf(q, i)) /\ ~Clash(RowOf(q, i), appts[o])
    BY <1>1, <1>2, ClashSymmetric DEF FitsTable, Taken, Owns
  <2>3. ASSUME NEW i \in 1 .. Len(q.steps), NEW j \in 1 .. Len(q.steps), i < j
        PROVE  ~Clash(RowOf(q, i), RowOf(q, j)) /\ ~Clash(RowOf(q, j), RowOf(q, i))
    <3>1. End(RowOf(q, i)) <= RowOf(q, j).start
      BY <1>1, <2>3 DEF Ordered
    <3>2. End(RowOf(q, i)) \in Int /\ RowOf(q, j).start \in Int
      BY <1>1, <1>2, StepEndsLater
    <3> QED
      BY <3>1, <3>2 DEF Clash, Overlap
  <2>4. CASE m \in DOMAIN appts /\ n \in DOMAIN appts
    BY <1>2, <2>1, <2>4 DEF Consistent, NoDoubleBooking
  <2>5. CASE m \in DOMAIN appts /\ n \notin DOMAIN appts
    <3>1. PICK i \in 1 .. Len(q.steps) : appts'[n] = RowOf(q, i)
      BY <1>3, <2>5
    <3>2. appts'[m] = appts[m]
      BY <1>2, <2>5
    <3> QED
      BY <2>2, <2>5, <3>1, <3>2
  <2>6. CASE m \notin DOMAIN appts /\ n \in DOMAIN appts
    <3>1. PICK i \in 1 .. Len(q.steps) : appts'[m] = RowOf(q, i)
      BY <1>3, <2>6
    <3>2. appts'[n] = appts[n]
      BY <1>2, <2>6
    <3> QED
      BY <2>2, <2>6, <3>1, <3>2
  <2>7. CASE m \notin DOMAIN appts /\ n \notin DOMAIN appts
    <3>1. PICK i \in 1 .. Len(q.steps) : m = N + i /\ appts'[m] = RowOf(q, i)
      BY <1>3, <2>7
    <3>2. PICK j \in 1 .. Len(q.steps) : n = N + j /\ appts'[n] = RowOf(q, j)
      BY <1>3, <2>7
    <3>3. i # j /\ i \in Int /\ j \in Int
      BY <2>1, <3>1, <3>2
    <3>4. i < j \/ j < i
      BY <3>3
    <3> QED
      BY <2>3, <3>1, <3>2, <3>4
  <2> QED
    BY <2>4, <2>5, <2>6, <2>7
<1>7. RowsAreAskedFor'
  <2>1. SUFFICES ASSUME NEW n \in DOMAIN appts'
                 PROVE  \E p \in Bookings : \E i \in DOMAIN p.steps :
                          SameBooking(appts'[n], RowOf(p, i))
    BY DEF RowsAreAskedFor, SameBooking
  <2>2. CASE n \in DOMAIN appts /\ appts'[n] = appts[n]
    BY <2>2 DEF Consistent, RowsAreAskedFor
  <2>3. CASE \E i \in 1 .. Len(q.steps) : n = N + i /\ appts'[n] = RowOf(q, i)
    <3>1. PICK i \in DOMAIN q.steps : appts'[n] = RowOf(q, i)
      BY <1>2, <2>3
    <3> QED
      BY <1>1, <3>1 DEF SameBooking
  <2> QED
    BY <1>3, <2>2, <2>3
<1>8. JourneyIsWhole'
  <2>1. SUFFICES ASSUME NEW p \in Bookings, NEW i \in DOMAIN p.steps, Existing(p, i)' # {}
                 PROVE  \E o \in Bookings :
                          /\ SameHeader(p, o)
                          /\ \A j \in 1 .. MaxSteps :
                               IF j \in DOMAIN o.steps
                               THEN \E m \in Existing(p, j)' :
                                      Existing(p, j)' = {m} /\ appts'[m].print = RowOf(o, j).print
                               ELSE p.kind = "journey" => Existing(p, j)' = {}
    BY DEF JourneyIsWhole
  <2>2. i \in 1 .. MaxSteps
    BY InputType
  <2>3. CASE SameHeader(p, q)
    <3>1. ASSUME NEW j \in 1 .. MaxSteps, j \in DOMAIN q.steps
          PROVE  Existing(p, j)' = {N + j} /\ appts'[N + j].print = RowOf(q, j).print
      BY <1>2, <2>3, <3>1, CommitKeys
    <3>2. ASSUME NEW j \in 1 .. MaxSteps, j \notin DOMAIN q.steps, p.kind = "journey"
          PROVE  Existing(p, j)' = {}
      BY <2>3, <3>2, CommitKeys
    <3> QED
      BY <1>1, <2>3, <3>1, <3>2
  <2>4. CASE ~SameHeader(p, q)
    <3>1. \A j \in 1 .. MaxSteps : Existing(p, j)' = Existing(p, j)
      BY <2>4, CommitKeys
    <3>2. PICK o \in Bookings :
            /\ SameHeader(p, o)
            /\ \A j \in 1 .. MaxSteps :
                 IF j \in DOMAIN o.steps
                 THEN \E m \in Existing(p, j) :
                        Existing(p, j) = {m} /\ appts[m].print = RowOf(o, j).print
                 ELSE p.kind = "journey" => Existing(p, j) = {}
      BY <2>1, <2>2, <3>1 DEF Consistent, JourneyIsWhole
    <3>3. \A j : \A m \in Existing(p, j) : appts'[m] = appts[m]
      BY <1>2 DEF Existing, Under
    <3> QED
      BY <3>1, <3>2, <3>3
  <2> QED
    BY <2>3, <2>4
<1>9. BookedInOrder'
  <2>1. SUFFICES ASSUME NEW p \in Bookings, NEW i \in 1 .. MaxSteps, NEW j \in 1 .. MaxSteps,
                        p.kind = "journey", i < j,
                        NEW m \in Existing(p, i)', NEW n \in Existing(p, j)'
                 PROVE  End(Booked(appts'[m])) <= Booked(appts'[n]).start
    BY DEF BookedInOrder, End, Booked
  <2>2. CASE SameHeader(p, q)
    <3>1. i \in DOMAIN q.steps /\ Existing(p, i)' = {N + i}
      BY <2>1, <2>2, CommitKeys
    <3>2. j \in DOMAIN q.steps /\ Existing(p, j)' = {N + j}
      BY <2>1, <2>2, CommitKeys
    <3>3. appts'[m] = RowOf(q, i) /\ appts'[n] = RowOf(q, j)
      BY <1>2, <2>1, <3>1, <3>2
    <3>4. Booked(RowOf(q, i)) = RowOf(q, i) /\ Booked(RowOf(q, j)) = RowOf(q, j)
      BY UnmovedRow
    <3>5. End(RowOf(q, i)) <= RowOf(q, j).start
      BY <1>1, <2>1, <3>1, <3>2 DEF Ordered
    <3> QED
      BY <3>3, <3>4, <3>5
  <2>3. CASE ~SameHeader(p, q)
    <3>1. Existing(p, i)' = Existing(p, i) /\ Existing(p, j)' = Existing(p, j)
      BY <2>3, CommitKeys
    <3>2. appts'[m] = appts[m] /\ appts'[n] = appts[n]
      BY <1>2, <2>1, <3>1 DEF Existing, Under
    <3> QED
      BY <2>1, <3>1, <3>2 DEF Consistent, BookedInOrder
  <2> QED
    BY <2>2, <2>3
<1>10. ASSUME NEW s \in Requests
       PROVE  Form(tx'[s]) /\ FitsTable(tx[s])'
  <2>1. CASE s = r
    BY <1>4, <2>1, IdleIsHarmless DEF FitsTable, Keyed, Passed, Idle
  <2>2. CASE s # r
    <3>1. tx'[s] = tx[s] /\ Form(tx[s]) /\ FitsTable(tx[s]) /\ Apart(tx[s], tx[r])
      BY <1>1, <1>4, <2>2, ApartSymmetric DEF Consistent
    <3>2. ASSUME Keyed(tx[s])
          PROVE  \A i \in DOMAIN tx[s].req.steps : Existing(tx[s].req, i)' = {}
      <4>1. tx[s].req \in Bookings /\ DOMAIN tx[s].req.steps \subseteq 1 .. MaxSteps
        BY <3>2, Before, LengthType, InputType DEF Keyed
      <4>2. ~SameHeader(tx[s].req, q)
        BY <1>1, <3>1, <3>2 DEF Apart
      <4> QED
        BY <3>1, <3>2, <4>1, <4>2, CommitKeys DEF FitsTable
    <3>3. ASSUME tx[s].seen # None
          PROVE  tx[s].req.row \in DOMAIN appts' /\ appts'[tx[s].req.row] = tx[s].seen
      <4>1. tx[s].req.row \in 1 .. N /\ appts[tx[s].req.row] = tx[s].seen
        BY <1>2, <3>1, <3>3 DEF FitsTable
      <4>2. 1 .. N \subseteq 1 .. N + Len(q.steps)
        BY <1>1, <1>2
      <4> QED
        BY <1>2, <4>1, <4>2
    <3>4. ASSUME NEW i \in Passed(tx[s])
          PROVE  ~Taken(tx[s], Draft(tx[s], i))'
      <4>1. \A j \in 1 .. Len(q.steps) : ~Clash(RowOf(q, j), Draft(tx[s], i))
        BY <1>1, <3>1, ClashSymmetric DEF Apart
      <4>2. \A o \in DOMAIN appts : ~Owns(tx[s], o) => ~Clash(appts[o], Draft(tx[s], i))
        BY <3>1 DEF FitsTable, Taken
      <4>3. \A n \in DOMAIN appts' : ~Owns(tx[s], n) => ~Clash(appts'[n], Draft(tx[s], i))
        BY <1>3, <4>1, <4>2
      <4> QED
        BY <3>1, <4>3 DEF Taken, Owns, Draft, Clash, Occupies, Overlap, End, RowOf, NewRow
    <3> QED
      BY <3>1, <3>2, <3>3, <3>4 DEF FitsTable, Keyed, Passed
  <2> QED
    BY <2>1, <2>2
<1>11. ASSUME NEW s \in Requests, NEW u \in Requests, s # u
       PROVE  Apart(tx'[s], tx'[u])
  BY <1>4, <1>11, IdleIsHarmless, ApartSymmetric DEF Consistent
<1> QED
  BY <1>5, <1>6, <1>7, <1>8, <1>9, <1>10, <1>11 DEF Consistent

LEMMA CommitStep ==
  ASSUME Consistent, NEW r \in Requests, Commit(r)
  PROVE  Consistent'
  BY BookStep, ChangeStep


LEMMA Initially == Init => Consistent
<1> SUFFICES ASSUME Init
             PROVE  Consistent
  OBVIOUS
<1>1. appts = <<>> /\ DOMAIN appts = {} /\ \A r \in Requests : tx[r] = Idle
  BY DEF Init
<1>2. \A q, i : Existing(q, i) = {}
  BY <1>1 DEF Existing, Under
<1>3. TypeOK
  BY IdleIsHarmless, HorizonAssumption DEF Init, TypeOK, Times
<1>4. NoDoubleBooking /\ RowsAreAskedFor /\ JourneyIsWhole /\ BookedInOrder
  BY <1>1, <1>2 DEF NoDoubleBooking, RowsAreAskedFor, JourneyIsWhole, BookedInOrder
<1> QED
  BY <1>1, <1>3, <1>4, IdleIsHarmless DEF Consistent

LEMMA Inductive ==
  ASSUME Consistent, [Next]_vars
  PROVE  Consistent'
<1>1. CASE UNCHANGED vars
  BY <1>1 DEF vars, Consistent, TypeOK, NoDoubleBooking, RowsAreAskedFor, JourneyIsWhole,
              BookedInOrder, FitsTable, Taken, Existing, Under
<1>2. ASSUME NEW r \in Requests, Submit(r) \/ Handle(r) \/ Fail(r)
      PROVE  Consistent'
  <2>1. CASE Submit(r)
    BY <2>1, SubmitStep
  <2>2. CASE Handle(r)
    BY <2>2, LookupStep, LoadStep, ValidateStep, WriteStep, ExcludeStep, CommitStep DEF Handle
  <2>3. CASE Fail(r)
    BY <2>3, AnswerStep DEF Fail, Codes
  <2> QED
    BY <1>2, <2>1, <2>2, <2>3
<1> QED
  BY <1>1, <1>2, TickStep DEF Next

-----------------------------------------------------------------------------
(***************************************************************************)
(* What follows, for every behaviour.                                      *)
(***************************************************************************)

\* The invariant that the transactions keep between them: what is committed is free of
\* clashes and made of whole journeys, and what is inserted or looked up stays true.
THEOREM Invariance == Spec => []Consistent
  BY Initially, Inductive, PTL DEF Spec

\* No employee is booked twice for overlapping times, whichever journeys race.
THEOREM NeverDoubleBooked == Spec => []NoDoubleBooking
<1>1. Consistent => NoDoubleBooking
  BY DEF Consistent
<1> QED
  BY <1>1, Invariance, PTL

\* The rows under a journey's header are one whole journey that was asked for, or none.
THEOREM BookedWhole == Spec => []JourneyIsWhole
<1>1. Consistent => JourneyIsWhole
  BY DEF Consistent
<1> QED
  BY <1>1, Invariance, PTL

\* Each committed step of a journey that is where it was booked ends before any later one
\* that is where it was booked begins.
THEOREM UnmovedInOrder == Spec => []UnmovedStepsFollow
<1>1. ASSUME Consistent
      PROVE  UnmovedStepsFollow
  <2>1. SUFFICES ASSUME NEW q \in Bookings, NEW i \in 1 .. MaxSteps, NEW j \in 1 .. MaxSteps,
                        q.kind = "journey", i < j,
                        NEW m \in Existing(q, i), NEW n \in Existing(q, j),
                        Unmoved(appts[m]), Unmoved(appts[n])
                 PROVE  End(appts[m]) <= appts[n].start
    BY DEF UnmovedStepsFollow
  <2>2. appts[m] \in Row /\ appts[n] \in Row
    BY <1>1 DEF Consistent, TypeOK, Existing, Under
  <2>3. Booked(appts[m]) = appts[m] /\ Booked(appts[n]) = appts[n]
    BY <2>1, <2>2 DEF Unmoved, Booked, Row
  <2>4. End(Booked(appts[m])) <= Booked(appts[n]).start
    BY <1>1, <2>1 DEF Consistent, BookedInOrder
  <2> QED
    BY <2>3, <2>4
<1> QED
  BY <1>1, Invariance, PTL

\* Whoever waits, and is waited for by somebody, waits for the time of a row.
LEMMA WaitersWrite ==
  ASSUME Consistent, NEW r \in Requests, NEW s \in Requests, WaitsFor(r, s),
         tx[s].pc \in {"lookup", "load", "exclude"}
  PROVE  tx[s].pc = "exclude"
<1>1. CASE tx[r].pc = "lookup" /\ Keyed(tx[s])
  BY <1>1 DEF Keyed
<1>2. CASE tx[r].pc = "load" /\ tx[s].seen # None
  BY <1>2, Before DEF BookingForm, ChangeForm
<1>3. CASE tx[r].pc = "exclude" /\ Blocks(tx[s], Current(tx[r]))
  BY <1>3 DEF Blocks, Inserted, Passed, Replaces
<1> QED
  BY <1>1, <1>2, <1>3 DEF WaitsFor, Owns

\* Who waits for a row that its journey has inserted before wants an earlier time than the
\* journey, which inserts its steps in their order, wants next.
LEMMA WaitsForLater ==
  ASSUME Consistent, NEW r \in Requests, NEW s \in Requests, WaitsFor(r, s),
         tx[r].pc = "exclude", tx[s].pc = "exclude", ~Rivals(r, s)
  PROVE  Current(tx[r]).start < Current(tx[s]).start
<1> DEFINE t == tx[r]
           u == tx[s]
           q == u.req
<1>1. /\ q \in Inputs /\ u.at \in 1 .. Length(q) /\ u.at \in Nat /\ Length(q) \in Nat
      /\ Books(q) => /\ q \in Bookings /\ BookingForm(u) /\ Length(q) = Len(q.steps)
                     /\ 1 .. Length(q) = DOMAIN q.steps
      /\ ~Books(q) => Length(q) = 1
  BY Before, LengthType
<1>2. t.at \in 1 .. Length(t.req)
  BY Before
<1>3. Current(t) \in Row /\ Current(u) \in Row
  BY <1>1, <1>2, DraftType DEF Current
<1>4. PICK i \in 1 .. u.at : Clash(Draft(u, i), Current(t))
  <2>1. Blocks(u, Current(t)) /\ r # s
    BY DEF WaitsFor
  <2>2. ~(Replaces(u) /\ Clash(u.seen, Current(t)))
    BY <2>1, ClashSymmetric DEF Rivals, Replaces
  <2> QED
    BY <2>1, <2>2 DEF Blocks, Inserted
<1>5. i # u.at
  BY <1>4, ClashSymmetric DEF Rivals, Current, WaitsFor
<1>6. i < u.at /\ i \in 1 .. Length(q)
  BY <1>1, <1>4, <1>5
<1>7. Books(q)
  BY <1>1, <1>6
<1>8. Draft(u, i) = RowOf(q, i) /\ Current(u) = RowOf(q, u.at) /\ Draft(u, i) \in Row
  BY <1>1, <1>6, <1>7, DraftType DEF Current
<1>9. Ordered(q, Len(q.steps))
  BY <1>1, <1>7 DEF BookingForm
<1>10. End(RowOf(q, i)) <= RowOf(q, u.at).start
  BY <1>1, <1>6, <1>7, <1>9 DEF Ordered
<1>11. Current(t).start < End(RowOf(q, i))
  BY <1>4, <1>8 DEF Clash, Overlap
<1>12. /\ Current(t).start \in Int /\ End(RowOf(q, i)) \in Int
       /\ Current(u).start \in Int
  BY <1>3, <1>8, EndsLater, HorizonAssumption
<1> QED
  BY <1>8, <1>10, <1>11, <1>12

\* Every set of numbers has a least element.
LEMMA LeastOfNumbers ==
  ASSUME NEW N \in SUBSET Nat, N # {}
  PROVE  \E n \in N : \A m \in N : n <= m
<1> DEFINE R == OpToRel(<, Nat)
<1>1. PICK n \in N : \A m \in N : <<m, n>> \notin R
  <2>1. IsWellFoundedOn(R, Nat)
    BY NatLessThanWellFounded
  <2> HIDE DEF R
  <2> QED
    BY <2>1, WFMin
<1>2. \A m \in N : ~(m < n)
  BY <1>1 DEF OpToRel
<1> QED
  BY <1>2

\* Requests that stand still are rivals for the time of a row: otherwise whoever of them
\* wants the latest time waits for a later one.
THEOREM RivalsDeadlock == Spec => []OnlyRivalsDeadlock
<1>1. ASSUME Consistent, NEW S \in SUBSET Requests, StandStill(S),
             \A r, s \in S : ~Rivals(r, s)
      PROVE  FALSE
  <2> DEFINE T == {r \in S : tx[r].pc = "exclude"}
             N == {Horizon - Current(tx[r]).start : r \in T}
  <2>1. \A r \in S : /\ tx[r].pc \in {"lookup", "load", "exclude"}
                     /\ \E s \in S : WaitsFor(r, s)
    BY <1>1 DEF StandStill, WaitsFor
  <2>2. ASSUME NEW r \in S
        PROVE  \E s \in T : WaitsFor(r, s)
    BY <1>1, <2>1, WaitersWrite
  <2>3. T # {}
    BY <1>1, <2>2 DEF StandStill
  <2>4. \A r \in T : Current(tx[r]).start \in 0 .. Horizon
    <3>1. SUFFICES ASSUME NEW r \in T
                   PROVE  Current(tx[r]).start \in 0 .. Horizon
      OBVIOUS
    <3>2. tx[r].at \in 1 .. Length(tx[r].req)
      BY <1>1, Before
    <3>3. Current(tx[r]) \in Row
      BY <1>1, <3>2, DraftType DEF Current
    <3> QED
      BY <3>3, EndsLater
  <2>5. N \in SUBSET Nat /\ N # {}
    BY <2>3, <2>4, HorizonAssumption
  <2> HIDE DEF N
  <2>6. PICK n \in N : \A m \in N : n <= m
    BY <2>5, LeastOfNumbers
  <2>7. PICK r \in T : n = Horizon - Current(tx[r]).start
    BY <2>6 DEF N
  <2>8. PICK s \in T : WaitsFor(r, s)
    BY <2>2, <2>7
  <2> DEFINE a == Current(tx[r]).start  b == Current(tx[s]).start
  <2>9. a < b
    BY <1>1, <2>7, <2>8, WaitsForLater
  <2>10. n <= Horizon - b
    BY <2>6, <2>8 DEF N
  <2>11. a \in Int /\ b \in Int /\ n = Horizon - a
    BY <2>4, <2>7, <2>8, HorizonAssumption
  <2> HIDE DEF a, b
  <2> QED
    BY <2>9, <2>10, <2>11, HorizonAssumption
<1>2. Consistent => OnlyRivalsDeadlock
  BY <1>1 DEF OnlyRivalsDeadlock
<1> QED
  BY <1>2, Invariance, PTL

\* A request's transaction is only changed by its own steps.
LEMMA OnlyOwnSteps ==
  ASSUME TypeOK, [Next]_vars, NEW r \in Requests, tx'[r] # tx[r]
  PROVE  Submit(r) \/ Handle(r) \/ Fail(r)
<1>1. /\ \A s \in Requests : \A t : Proceed(s, t) => tx'[r] = tx[r] \/ s = r
      /\ \A s \in Requests : \A code : Answer(s, code) => tx'[r] = tx[r] \/ s = r
  BY DEF Proceed, Answer, TypeOK
<1>2. ASSUME NEW s \in Requests \ {r}
      PROVE  ~Submit(s) /\ ~Handle(s) /\ ~Fail(s)
  <2>1. ~Submit(s) /\ ~Fail(s)
    BY <1>1 DEF Submit, Fail
  <2>2. ~Lookup(s) /\ ~Load(s) /\ ~Validate(s) /\ ~Write(s) /\ ~Exclude(s)
    BY <1>1 DEF Lookup, Load, Validate, Write, Exclude
  <2>3. ~Commit(s)
    BY DEF Commit, TypeOK
  <2> QED
    BY <2>1, <2>2, <2>3 DEF Handle
<1>3. ~Tick /\ ~(UNCHANGED vars)
  BY DEF Tick, vars
<1> QED
  BY <1>2, <1>3 DEF Next

\* A journey sent again once it is booked is replayed, and never fails for what has happened
\* to its rows, or to the clock, since.
THEOREM RetryIsAnswered == Spec => RetryIsReplayed
<1> DEFINE Replays ==
             \A r \in Requests :
               /\ InFlight(r) /\ tx'[r] = Idle /\ Books(tx[r].req)
               /\ \A i \in DOMAIN tx[r].req.steps :
                    \E n \in Existing(tx[r].req, i) : appts[n].print = RowOf(tx[r].req, i).print
               => reply'.code \in {200, 500}
<1>1. ASSUME Consistent, [Next]_vars, NEW r \in Requests,
             InFlight(r), tx'[r] = Idle, Books(tx[r].req),
             \A i \in DOMAIN tx[r].req.steps :
               \E n \in Existing(tx[r].req, i) : appts[n].print = RowOf(tx[r].req, i).print
      PROVE  reply'.code \in {200, 500}
  <2> DEFINE q == tx[r].req
  <2>1. tx[r].pc # "idle" /\ Idle.pc = "idle" /\ TypeOK
    BY <1>1 DEF InFlight, Idle, Consistent
  <2>2. Submit(r) \/ Handle(r) \/ Fail(r)
    BY <1>1, <2>1, OnlyOwnSteps
  <2>3. /\ \A t : Proceed(r, t) => t.pc = "idle"
        /\ \A code : Answer(r, code) => reply'.code = code
    BY <1>1, <2>1 DEF Proceed, Answer, TypeOK
  <2>4. /\ q \in Bookings /\ BookingForm(tx[r]) /\ FitsTable(tx[r]) /\ 1 \in DOMAIN q.steps
        /\ DOMAIN q.steps \subseteq 1 .. MaxSteps /\ q.kind \in {"journey", "single"}
        /\ \A i \in DOMAIN q.steps : q.kind = "single" => i = 1
    BY <1>1, <2>1, Before, LengthType, InputType
  <2>5. \A i \in DOMAIN q.steps : Existing(q, i) # {}
    BY <1>1
  <2>6. ~Keyed(tx[r])
    BY <2>4, <2>5 DEF FitsTable
  <2>7. CASE Lookup(r)
    <3>1. \A i \in DOMAIN q.steps : \E n \in Existing(q, i) : Existing(q, i) = {n}
      <4>1. PICK o \in Bookings :
              \A j \in 1 .. MaxSteps :
                IF j \in DOMAIN o.steps
                THEN \E n \in Existing(q, j) : Existing(q, j) = {n}
                ELSE q.kind = "journey" => Existing(q, j) = {}
        BY <1>1, <2>4, <2>5 DEF Consistent, JourneyIsWhole
      <4>2. 1 \in DOMAIN o.steps
        BY InputType DEF MaxSteps
      <4> QED
        BY <2>4, <2>5, <4>1, <4>2
    <3>2. \A i \in DOMAIN q.steps : \A n \in Existing(q, i) :
            appts[n].print = RowOf(q, i).print
      BY <1>1, <3>1
    <3>3. Answer(r, 200)
      BY <2>3, <2>5, <2>7, <3>2 DEF Lookup, Incomplete
    <3> QED
      BY <2>3, <3>3
  <2>8. ~Lookup(r) => Fail(r)
    BY <1>1, <2>1, <2>2, <2>4, <2>6
       DEF Handle, Submit, Load, Validate, Write, Exclude, Commit, Keyed, BookingForm
  <2> QED
    BY <2>3, <2>7, <2>8 DEF Fail
<1>2. Consistent /\ [Next]_vars => [Replays]_vars
  BY <1>1
<1>3. [][Next]_vars /\ []Consistent => [][Replays]_vars
  BY <1>2, PTL
<1> QED
  BY <1>3, Invariance, PTL DEF Spec, RetryIsReplayed
=============================================================================
