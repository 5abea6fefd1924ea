--------------------------- MODULE BookingProofs ---------------------------
(***************************************************************************)
(* Proofs about Booking, for any number of clients, employees, services,   *)
(* appointments, keys, waitlist entries and concurrent requests.           *)
(*                                                                         *)
(* Every statement of a request but its commit changes nothing except the  *)
(* request's own transaction.  So one lemma (LocalStep) says what the new  *)
(* transaction must satisfy for the invariant to survive, each action is   *)
(* shown to satisfy it, and Commit is treated by itself.                   *)
(***************************************************************************)
EXTENDS Booking, TLAPS

\* Overlapping is mutual, so the order in which two rows are compared does not matter.
LEMMA ClashSymmetric ==
  ASSUME NEW a, NEW b
  PROVE  Clash(a, b) <=> Clash(b, a)
  BY DEF Clash, Overlap

\* If t is apart from u then u is apart from t.
LEMMA ApartSymmetric ==
  ASSUME NEW t, NEW u, Apart(t, u)
  PROVE  Apart(u, t)
  BY ClashSymmetric DEF Apart

\* A transaction that holds nothing is in nobody's way.
LEMMA IdleIsHarmless ==
  /\ Idle \in Tx /\ Form(Idle) /\ FitsTables(Idle)
  /\ \A u : Apart(Idle, u)
  BY DEF Idle, Tx, Steps, Form, FitsTables, Apart, Keyed, Passed

\* A step that changes only the transaction of r keeps the invariant if the new transaction
\* has the right form, fits the tables and is apart from all others.
LEMMA LocalStep ==
  ASSUME TypeOK, Consistent, NEW r \in Requests, NEW t \in Tx,
         tx' = [tx EXCEPT ![r] = t],
         UNCHANGED <<appts, history, audit, waitlist, now>>,
         reply' \in [to : Requests, code : Codes] \cup {None},
         Form(t), FitsTables(t),
         \A s \in Requests \ {r} : Apart(t, tx[s])
  PROVE  TypeOK' /\ Consistent'
<1>1. TypeOK'
  BY DEF TypeOK
<1>2. NoDoubleBooking' /\ UniqueKeys'
  BY DEF Consistent, NoDoubleBooking, UniqueKeys
<1>3. \A s \in Requests : tx'[s] = IF s = r THEN t ELSE tx[s]
  BY DEF TypeOK
<1>4. ASSUME NEW s \in Requests
      PROVE  Form(tx'[s]) /\ FitsTables(tx[s])'
  <2>1. Form(tx'[s]) /\ FitsTables(tx'[s])
    BY <1>3 DEF Consistent
  <2> QED
    BY <2>1 DEF FitsTables, Taken
<1>5. ASSUME NEW s \in Requests, NEW u \in Requests, s # u
      PROVE  Apart(tx'[s], tx'[u])
  <2>1. CASE s = r
    BY <1>3, <1>5, <2>1
  <2>2. CASE u = r
    BY <1>3, <1>5, <2>2, ApartSymmetric
  <2>3. CASE s # r /\ u # r
    BY <1>3, <1>5, <2>3 DEF Consistent
  <2> QED
    BY <2>1, <2>2, <2>3
<1> QED
  BY <1>1, <1>2, <1>4, <1>5 DEF Consistent

LEMMA ProceedStep ==
  ASSUME TypeOK, Consistent, NEW r \in Requests, NEW t \in Tx, Proceed(r, t),
         Form(t), FitsTables(t), \A s \in Requests \ {r} : Apart(t, tx[s])
  PROVE  TypeOK' /\ Consistent'
  BY LocalStep DEF Proceed

\* Ending a request without writing keeps the invariant.
LEMMA AnswerStep ==
  ASSUME TypeOK, Consistent, NEW r \in Requests, NEW code \in Codes, Answer(r, code)
  PROVE  TypeOK' /\ Consistent'
  BY LocalStep, IdleIsHarmless DEF Answer

-----------------------------------------------------------------------------
(***************************************************************************)
(* The statements of a request, one lemma each.                            *)
(***************************************************************************)

LEMMA NewRowType ==
  ASSUME NEW client \in Clients, NEW employee \in Employees, NEW service \in Services,
         NEW start \in Times, NEW key \in Keys, NEW note \in Notes
  PROVE  NewRow(client, employee, service, start, key, note) \in Row
  BY DEF NewRow, Row, Prints, Statuses

\* A new id is in nobody's transaction, so a booking that takes it is apart from all.
LEMMA FreshIsApart ==
  ASSUME TypeOK, NEW id \in Ids, Fresh(id), NEW t, ~Keyed(t), ~Passed(t), t.target = id
  PROVE  \A s \in Requests : Apart(t, tx[s])
  BY DEF Fresh, Apart

LEMMA SubmitStep ==
  ASSUME TypeOK, Consistent, NEW r \in Requests, Submit(r)
  PROVE  TypeOK' /\ Consistent'
<1>1. PICK q \in Inputs :
        CASE q.kind = "create" ->
               \E id \in Ids :
                 /\ Fresh(id)
                 /\ Proceed(r, [Idle EXCEPT !.pc = "key", !.req = q, !.target = id,
                      !.draft = NewRow(q.actor, q.employee, q.service, q.start, q.key, "own")])
          [] q.kind = "accept" ->
               \E id \in Ids :
                 /\ Fresh(id)
                 /\ Proceed(r, [Idle EXCEPT !.pc = "received", !.req = q, !.target = id])
          [] OTHER ->
               /\ q.kind = "reschedule" => Len(MovesOf(q.id)) < MaxMoves
               /\ Proceed(r, [Idle EXCEPT !.pc = "received", !.req = q])
  BY DEF Submit
<1>2. q \in Request
  BY InputAssumption
<1>3. CASE q.kind = "create"
  <2>1. q \in CreateRequest
    BY <1>2, <1>3 DEF Request, CreateRequest, AcceptRequest, CancelRequest,
                      RescheduleRequest, StatusRequest
  <2> DEFINE row == NewRow(q.actor, q.employee, q.service, q.start, q.key, "own")
  <2>2. row \in Row
    BY <2>1, NewRowType DEF CreateRequest, Notes
  <2>3. row # None
    BY <2>2, NoneAssumption
  <2> HIDE DEF row
  <2>4. PICK id \in Ids :
          /\ Fresh(id)
          /\ Proceed(r, [Idle EXCEPT !.pc = "key", !.req = q, !.target = id, !.draft = row])
    BY <1>1, <1>3 DEF row
  <2> DEFINE t == [Idle EXCEPT !.pc = "key", !.req = q, !.target = id, !.draft = row]
  <2>5. /\ t.pc = "key" /\ t.req = q /\ t.target = id
        /\ t.seen = None /\ t.draft = row /\ t.claimed = {}
        /\ t.wanted = {}
    BY DEF Idle
  <2>6. t \in Tx
    BY <1>2, <2>2, IdleIsHarmless DEF Tx, Steps
  <2> HIDE DEF t
  <2>7. BookingForm(t)
    BY <2>1, <2>3, <2>5 DEF BookingForm, CreateRequest, Notes, row
  <2>8. Form(t)
    BY <1>2, <1>3, <2>5, <2>7 DEF Form, Books
  <2>9. ~Keyed(t) /\ ~Passed(t)
    BY <2>5 DEF Keyed, Passed
  <2>10. FitsTables(t)
    BY <2>4, <2>5, <2>9 DEF FitsTables, Fresh
  <2>11. \A s \in Requests : Apart(t, tx[s])
    BY <2>4, <2>5, <2>9, FreshIsApart
  <2> QED
    BY <2>4, <2>6, <2>8, <2>10, <2>11, ProceedStep DEF t
<1>4. CASE q.kind = "accept"
  <2>1. PICK id \in Ids :
          /\ Fresh(id)
          /\ Proceed(r, [Idle EXCEPT !.pc = "received", !.req = q, !.target = id])
    BY <1>1, <1>4
  <2> DEFINE t == [Idle EXCEPT !.pc = "received", !.req = q, !.target = id]
  <2>2. /\ t.pc = "received" /\ t.req = q /\ t.target = id
        /\ t.seen = None /\ t.draft = None /\ t.claimed = {}
        /\ t.wanted = {}
    BY DEF Idle
  <2>3. t \in Tx
    BY <1>2, IdleIsHarmless DEF Tx, Steps
  <2> HIDE DEF t
  <2>4. Form(t)
    BY <1>2, <1>4, <2>2 DEF Form, ReceivedForm, Books
  <2>5. ~Keyed(t) /\ ~Passed(t)
    BY <2>2 DEF Keyed, Passed
  <2>6. FitsTables(t)
    BY <2>1, <2>2, <2>5 DEF FitsTables, Fresh
  <2>7. \A s \in Requests : Apart(t, tx[s])
    BY <2>1, <2>2, <2>5, FreshIsApart
  <2> QED
    BY <2>1, <2>3, <2>4, <2>6, <2>7, ProceedStep DEF t
<1>5. CASE q.kind \notin {"create", "accept"}
  <2> DEFINE t == [Idle EXCEPT !.pc = "received", !.req = q]
  <2>1. Proceed(r, t)
    BY <1>1, <1>5
  <2>2. /\ t.pc = "received" /\ t.req = q /\ t.target = None
        /\ t.seen = None /\ t.draft = None /\ t.claimed = {}
        /\ t.wanted = {}
    BY DEF Idle
  <2>3. t \in Tx
    BY <1>2, IdleIsHarmless DEF Tx, Steps
  <2> HIDE DEF t
  <2>4. Form(t)
    BY <1>2, <1>5, <2>2 DEF Form, ReceivedForm, Books
  <2>5. ~Keyed(t) /\ ~Passed(t)
    BY <2>2 DEF Keyed, Passed
  <2>6. FitsTables(t) /\ \A s \in Requests : Apart(t, tx[s])
    BY <2>2, <2>5 DEF FitsTables, Apart
  <2> QED
    BY <2>1, <2>3, <2>4, <2>6, ProceedStep
<1> QED
  BY <1>3, <1>4, <1>5

\* What the invariant says of the transaction of r before a step.
LEMMA Before ==
  ASSUME TypeOK, Consistent, NEW r \in Requests
  PROVE  /\ tx[r] \in Tx /\ Form(tx[r]) /\ FitsTables(tx[r])
         /\ \A s \in Requests \ {r} : Apart(tx[r], tx[s])
  BY DEF TypeOK, Consistent

LEMMA LockEntryStep ==
  ASSUME TypeOK, Consistent, NEW r \in Requests, LockEntry(r)
  PROVE  TypeOK' /\ Consistent'
<1> DEFINE q == tx[r].req
           w == waitlist[q.entry]
           row == NewRow(q.actor, w.matchedEmployee, w.service, w.matchedStart, q.key,
                         "Waitlist match")
           t == [tx[r] EXCEPT !.pc = "key", !.claimed = {q.entry}, !.draft = row]
<1>1. tx[r].pc = "received" /\ q.kind = "accept"
  BY DEF LockEntry
<1>2. q \in AcceptRequest /\ tx[r].target \in Ids /\ tx[r].seen = None
  BY <1>1, Before DEF Form, ReceivedForm, Books, Request, CreateRequest, AcceptRequest,
                      CancelRequest, RescheduleRequest, StatusRequest
<1>3. CASE \E code \in Codes : Answer(r, code)
  BY <1>3, AnswerStep
<1>4. CASE w # None /\ Matched(w) /\ Proceed(r, t)
  <2>1. w \in Entry
    BY <1>2, <1>4 DEF TypeOK, AcceptRequest
  <2>2. /\ q.actor \in Clients /\ w.matchedEmployee \in Employees /\ w.service \in Services
        /\ w.matchedStart \in Times /\ q.key \in Keys /\ "Waitlist match" \in Notes
    BY <1>2, <1>4, <2>1 DEF Matched, Entry, AcceptRequest, Notes
  <2>3. row \in Row
    BY <2>2, NewRowType
  <2>4. row # None
    BY <2>3, NoneAssumption
  <2>5. \E employee \in Employees, service \in Services, start \in Times, note \in Notes :
          row = NewRow(q.actor, employee, service, start, q.key, note)
    BY <2>2
  <2> HIDE DEF row
  <2>6. /\ t.pc = "key" /\ t.req = q /\ t.target = tx[r].target
        /\ t.seen = None /\ t.draft = row /\ t.claimed = {q.entry}
        /\ t.wanted = tx[r].wanted
    BY <1>2, Before DEF Tx
  <2>7. t \in Tx
    <3>1. {q.entry} \in SUBSET Entries
      BY <1>2 DEF AcceptRequest
    <3> QED
      BY <2>3, <3>1, Before DEF Tx, Steps
  <2> HIDE DEF t, w
  <2>8. Form(t)
    BY <1>1, <1>2, <2>4, <2>5, <2>6 DEF Form, BookingForm, Books, Request
  <2>9. ~Keyed(t) /\ ~Passed(t) /\ ~Passed(tx[r])
    BY <1>1, <2>6 DEF Keyed, Passed
  <2>10. FitsTables(t)
    BY <1>2, <1>4, <2>6, <2>9, Before DEF FitsTables, w
  <2>11. \A s \in Requests \ {r} : Apart(t, tx[s])
    BY <2>6, <2>9, Before DEF Apart
  <2> QED
    BY <1>4, <2>7, <2>8, <2>10, <2>11, ProceedStep
<1> QED
  BY <1>3, <1>4 DEF LockEntry, Codes

LEMMA LookupStep ==
  ASSUME TypeOK, Consistent, NEW r \in Requests, Lookup(r)
  PROVE  TypeOK' /\ Consistent'
<1> DEFINE q == tx[r].req
           twins == {id \in Ids : appts[id] # None /\ appts[id].client = q.actor
                                                   /\ appts[id].key = q.key}
           replayed == [tx[r] EXCEPT !.pc = "commit", !.draft = None]
           t == [tx[r] EXCEPT !.pc = "validate"]
<1>1. tx[r].pc = "key" /\ KeyFree(r)
  BY DEF Lookup
<1>2. Books(q) /\ BookingForm(tx[r]) /\ q \in Request
  BY <1>1, Before DEF Form, ChangeForm
<1>3. CASE \E code \in Codes : Answer(r, code)
  BY <1>3, AnswerStep
<1>4. ASSUME NEW s \in Requests \ {r}, NEW u, u.req = q, Keyed(tx[s])
      PROVE  u.req.actor # tx[s].req.actor \/ u.req.key # tx[s].req.key
  BY <1>1, <1>4 DEF KeyFree, HoldsKey, Keyed
<1>5. CASE q.kind = "accept" /\ Proceed(r, replayed)
  <2>1. /\ replayed.pc = "commit" /\ replayed.req = q /\ replayed.target = tx[r].target
        /\ replayed.seen = tx[r].seen /\ replayed.draft = None
        /\ replayed.claimed = tx[r].claimed
        /\ replayed.wanted = tx[r].wanted
    BY Before DEF Tx
  <2>2. replayed \in Tx
    BY Before DEF Tx, Steps
  <2> HIDE DEF replayed
  <2>3. Form(replayed)
    BY <1>2, <1>5, <2>1 DEF Form, BookingForm
  <2>4. FitsTables(replayed)
    BY <2>1, Before DEF FitsTables, Passed
  <2>5. \A s \in Requests \ {r} : Apart(replayed, tx[s])
    BY <1>4, <2>1, Before DEF Apart, Passed
  <2> QED
    BY <1>5, <2>2, <2>3, <2>4, <2>5, ProceedStep
<1>6. CASE twins = {} /\ Proceed(r, t)
  <2>1. /\ t.pc = "validate" /\ t.req = q /\ t.target = tx[r].target
        /\ t.seen = tx[r].seen /\ t.draft = tx[r].draft /\ t.claimed = tx[r].claimed
        /\ t.wanted = tx[r].wanted
    BY Before DEF Tx
  <2>2. t \in Tx
    BY Before DEF Tx, Steps
  <2> HIDE DEF t
  <2>3. Form(t)
    BY <1>1, <1>2, <2>1 DEF Form, BookingForm
  <2>4. FitsTables(t)
    BY <1>6, <2>1, Before DEF FitsTables, Passed
  <2>5. \A s \in Requests \ {r} : Apart(t, tx[s])
    BY <1>4, <2>1, Before DEF Apart, Passed
  <2> QED
    BY <1>6, <2>2, <2>3, <2>4, <2>5, ProceedStep
<1> QED
  BY <1>3, <1>5, <1>6 DEF Lookup, Codes

\* A row that can be locked is in no other transaction.
LEMMA FreeRowIsUntouched ==
  ASSUME TypeOK, Consistent, NEW r \in Requests, NEW id \in Ids,
         RowFree(r, id), appts[id] # None
  PROVE  \A s \in Requests \ {r} : tx[s].target # id
  BY NoneAssumption DEF RowFree, HoldsRow, Consistent, FitsTables

\* A version of a row at the same place, occupying it only if the row does, clashes with
\* nothing committed and nothing written.
LEMMA SamePlace ==
  ASSUME TypeOK, Consistent, NEW id \in Ids, appts[id] # None, NEW draft,
         draft.employee = appts[id].employee, draft.service = appts[id].service,
         draft.start = appts[id].start, Occupies(draft) => Occupies(appts[id])
  PROVE  /\ ~Taken(id, draft)
         /\ \A s \in Requests :
              tx[s].target # id /\ Passed(tx[s]) => ~Clash(draft, tx[s].draft)
<1>1. ASSUME NEW other, Clash(draft, other)
      PROVE  Clash(appts[id], other)
  BY <1>1 DEF Clash, Overlap, End
<1>2. ~Taken(id, draft)
  BY <1>1, ClashSymmetric DEF Consistent, NoDoubleBooking, Taken
<1>3. ASSUME NEW s \in Requests, tx[s].target # id, Passed(tx[s])
      PROVE  ~Clash(draft, tx[s].draft)
  BY <1>1, <1>3 DEF Consistent, FitsTables, Taken
<1> QED
  BY <1>2, <1>3

\* What a request for an existing appointment finds.
LEMMA Loaded ==
  ASSUME TypeOK, Consistent, NEW r \in Requests, tx[r].pc = "received", ~Books(tx[r].req)
  PROVE  /\ tx[r].req \in CancelRequest \cup RescheduleRequest \cup StatusRequest
         /\ tx[r].req.id \in Ids
         /\ tx[r].claimed = {} /\ ~Keyed(tx[r])
         /\ appts[tx[r].req.id] # None => appts[tx[r].req.id] \in Row
<1>1. tx[r].req \in CancelRequest \cup RescheduleRequest \cup StatusRequest
  BY Before DEF Form, Books, Request, CreateRequest, AcceptRequest
<1>2. tx[r].claimed = {} /\ ~Keyed(tx[r])
  BY Before DEF Form, ReceivedForm, Keyed
<1> QED
  BY <1>1, <1>2 DEF CancelRequest, RescheduleRequest, StatusRequest, TypeOK

LEMMA CancelStep ==
  ASSUME TypeOK, Consistent, NEW r \in Requests, Cancel(r)
  PROVE  TypeOK' /\ Consistent'
<1> DEFINE q == tx[r].req
           row == appts[q.id]
           draft == [row EXCEPT !.status = "CANCELLED"]
           t == [tx[r] EXCEPT !.pc = "match", !.target = q.id, !.seen = row, !.draft = draft]
<1>1. tx[r].pc = "received" /\ q.kind = "cancel" /\ ~Books(q) /\ RowFree(r, q.id)
  BY DEF Cancel, Books
<1>2. CASE \E code \in Codes : Answer(r, code)
  BY <1>2, AnswerStep
<1>3. CASE row # None /\ "CANCELLED" \in Allowed[row.status] /\ Proceed(r, t)
  <2>1. row \in Row /\ q.id \in Ids
    BY <1>1, <1>3, Loaded
  <2>2. /\ draft \in Row /\ draft # None /\ draft.status = "CANCELLED"
        /\ draft.employee = row.employee /\ draft.service = row.service
        /\ draft.start = row.start
    BY <2>1, NoneAssumption DEF Row, Statuses
  <2>3. ~Occupies(draft)
    BY <2>2 DEF Occupies, Occupying
  <2>4. draft = [row EXCEPT !.status = "CANCELLED"]
    OBVIOUS
  <2> HIDE DEF draft
  <2>5. /\ t.pc = "match" /\ t.req = q /\ t.target = q.id
        /\ t.seen = row /\ t.draft = draft /\ t.claimed = {}
        /\ t.wanted = tx[r].wanted
    BY <1>1, Before, Loaded DEF Tx
  <2>6. t \in Tx
    BY <2>1, <2>2, Before DEF Tx, Steps
  <2> HIDE DEF t
  <2>7. Form(t)
    BY <1>1, <1>3, <2>2, <2>4, <2>5, Before DEF Form, ChangeForm
  <2>8. FitsTables(t)
    BY <1>3, <2>1, <2>2, <2>3, <2>5, SamePlace, Before DEF FitsTables, Keyed
  <2>9. \A s \in Requests \ {r} : Apart(t, tx[s])
    BY <1>1, <1>3, <2>1, <2>3, <2>5, FreeRowIsUntouched DEF Apart, Keyed, Clash
  <2> QED
    BY <1>3, <2>6, <2>7, <2>8, <2>9, ProceedStep
<1> QED
  BY <1>2, <1>3 DEF Cancel, Codes

LEMMA ChangeStatusStep ==
  ASSUME TypeOK, Consistent, NEW r \in Requests, ChangeStatus(r)
  PROVE  TypeOK' /\ Consistent'
<1> DEFINE q == tx[r].req
           row == appts[q.id]
           draft == [row EXCEPT !.status = q.to]
           t == [tx[r] EXCEPT !.pc = "exclude", !.target = q.id, !.seen = row, !.draft = draft]
<1>1. tx[r].pc = "received" /\ q.kind = "status" /\ ~Books(q) /\ RowFree(r, q.id)
  BY DEF ChangeStatus, Books
<1>2. CASE \E code \in Codes : Answer(r, code)
  BY <1>2, AnswerStep
<1>3. CASE row # None /\ q.to \in Allowed[row.status] /\ Proceed(r, t)
  <2>1. row \in Row /\ q.id \in Ids /\ q.to \in Statuses
    BY <1>1, <1>3, Loaded DEF CancelRequest, RescheduleRequest, StatusRequest
  <2>2. /\ draft \in Row /\ draft # None /\ draft.status = q.to
        /\ draft.employee = row.employee /\ draft.service = row.service
        /\ draft.start = row.start
    BY <2>1, NoneAssumption DEF Row
  <2>4. draft = [row EXCEPT !.status = q.to]
    OBVIOUS
  <2> HIDE DEF draft
  <2>5. /\ t.pc = "exclude" /\ t.req = q /\ t.target = q.id
        /\ t.seen = row /\ t.draft = draft /\ t.claimed = {}
        /\ t.wanted = tx[r].wanted
    BY <1>1, Before, Loaded DEF Tx
  <2>6. t \in Tx
    BY <2>1, <2>2, Before DEF Tx, Steps
  <2> HIDE DEF t
  <2>7. Form(t)
    BY <1>1, <1>3, <2>2, <2>4, <2>5, Before DEF Form, ChangeForm
  <2>8. ~Keyed(t) /\ ~Passed(t)
    BY <1>1, <2>5 DEF Keyed, Passed
  <2>9. FitsTables(t)
    BY <1>3, <2>1, <2>5, <2>8, Before DEF FitsTables, Passed
  <2>10. \A s \in Requests \ {r} : Apart(t, tx[s])
    BY <1>1, <1>3, <2>1, <2>5, <2>8, FreeRowIsUntouched DEF Apart, Passed
  <2> QED
    BY <1>3, <2>6, <2>7, <2>9, <2>10, ProceedStep
<1> QED
  BY <1>2, <1>3 DEF ChangeStatus, Codes

LEMMA LoadMoveStep ==
  ASSUME TypeOK, Consistent, NEW r \in Requests, LoadMove(r)
  PROVE  TypeOK' /\ Consistent'
<1> DEFINE q == tx[r].req
           row == appts[q.id]
           draft == [row EXCEPT !.start = q.start]
           t == [tx[r] EXCEPT !.pc = "validate", !.target = q.id, !.seen = row,
                              !.draft = draft]
<1>1. tx[r].pc = "received" /\ q.kind = "reschedule" /\ ~Books(q) /\ RowFree(r, q.id)
  BY DEF LoadMove, Books
<1>2. CASE \E code \in Codes : Answer(r, code)
  BY <1>2, AnswerStep
<1>3. CASE row # None /\ Movable(q.actor, row) /\ Proceed(r, t)
  <2>1. row \in Row /\ q.id \in Ids /\ q.start \in Times
    BY <1>1, <1>3, Loaded DEF CancelRequest, RescheduleRequest, StatusRequest
  <2>2. draft \in Row /\ draft # None
    BY <2>1, NoneAssumption DEF Row
  <2>3. draft = [row EXCEPT !.start = q.start]
    OBVIOUS
  <2> HIDE DEF draft
  <2>4. /\ t.pc = "validate" /\ t.req = q /\ t.target = q.id
        /\ t.seen = row /\ t.draft = draft /\ t.claimed = {}
        /\ t.wanted = tx[r].wanted
    BY <1>1, Before, Loaded DEF Tx
  <2>5. t \in Tx
    BY <2>1, <2>2, Before DEF Tx, Steps
  <2> HIDE DEF t
  <2>6. Form(t)
    BY <1>1, <1>3, <2>2, <2>3, <2>4, Before DEF Form, ChangeForm, Movable
  <2>7. ~Keyed(t) /\ ~Passed(t)
    BY <1>1, <2>4 DEF Keyed, Passed
  <2>8. FitsTables(t)
    BY <2>4, <2>7, Before DEF FitsTables
  <2>9. \A s \in Requests \ {r} : Apart(t, tx[s])
    BY <1>1, <1>3, <2>1, <2>4, <2>7, FreeRowIsUntouched DEF Apart
  <2> QED
    BY <1>3, <2>5, <2>6, <2>8, <2>9, ProceedStep
<1> QED
  BY <1>2, <1>3 DEF LoadMove, Codes

\* Getting nearer to the constraint promises nothing yet.
LEMMA NearerStep ==
  ASSUME TypeOK, Consistent, NEW r \in Requests, NEW pc \in {"flush", "exclude"},
         tx[r].pc \in {"validate", "flush"}, Proceed(r, [tx[r] EXCEPT !.pc = pc])
  PROVE  TypeOK' /\ Consistent'
<1> DEFINE t == [tx[r] EXCEPT !.pc = pc]
<1>1. /\ t.pc = pc /\ t.req = tx[r].req /\ t.target = tx[r].target
      /\ t.seen = tx[r].seen /\ t.draft = tx[r].draft /\ t.claimed = tx[r].claimed
      /\ t.wanted = tx[r].wanted
  BY Before DEF Tx
<1>2. t \in Tx
  BY Before DEF Tx, Steps
<1>3. Proceed(r, t)
  OBVIOUS
<1> HIDE DEF t
<1>4. Form(t)
  <2>1. CASE Books(tx[r].req)
    <3>1. BookingForm(tx[r]) /\ tx[r].req \in Request
      BY <2>1, Before DEF Form
    <3>2. BookingForm(t)
      BY <1>1, <2>1, <3>1 DEF BookingForm
    <3> QED
      BY <1>1, <2>1, <3>1, <3>2 DEF Form
  <2>2. CASE ~Books(tx[r].req)
    <3>1. ChangeForm(tx[r]) /\ tx[r].req \in Request
      BY <2>2, Before DEF Form
    <3>2. ChangeForm(t)
      BY <1>1, <2>2, <3>1 DEF ChangeForm
    <3> QED
      BY <1>1, <2>2, <3>1, <3>2 DEF Form
  <2> QED
    BY <2>1, <2>2
<1>5. (Keyed(t) <=> Keyed(tx[r])) /\ ~Passed(t)
  BY <1>1 DEF Keyed, Passed
<1>6. FitsTables(t)
  BY <1>1, <1>5, Before DEF FitsTables
<1>7. \A s \in Requests \ {r} : Apart(t, tx[s])
  BY <1>1, <1>5, Before DEF Apart
<1> QED
  BY <1>2, <1>3, <1>4, <1>6, <1>7, ProceedStep

LEMMA ValidateStep ==
  ASSUME TypeOK, Consistent, NEW r \in Requests, Validate(r)
  PROVE  TypeOK' /\ Consistent'
<1>1. CASE \E code \in Codes : Answer(r, code)
  BY <1>1, AnswerStep
<1>2. CASE Proceed(r, [tx[r] EXCEPT !.pc = "flush"])
  BY <1>2, NearerStep DEF Validate
<1> QED
  BY <1>1, <1>2 DEF Validate, Codes

LEMMA FlushStep ==
  ASSUME TypeOK, Consistent, NEW r \in Requests, Flush(r)
  PROVE  TypeOK' /\ Consistent'
  BY NearerStep DEF Flush

\* The constraint is where a row version becomes one that can commit: nothing committed is
\* in its way, and nothing that another transaction has written.
LEMMA ExcludeStep ==
  ASSUME TypeOK, Consistent, NEW r \in Requests, Exclude(r)
  PROVE  TypeOK' /\ Consistent'
<1> DEFINE next == AfterExclude(tx[r].req)
           t == [tx[r] EXCEPT !.pc = next]
<1>1. tx[r].pc = "exclude" /\ next \in {"commit", "match"}
  BY DEF Exclude, AfterExclude
<1>2. CASE Answer(r, 409)
  BY <1>2, AnswerStep DEF Codes
<1>3. CASE /\ ~Taken(tx[r].target, tx[r].draft) /\ ~MustWait(r, tx[r].draft)
           /\ Proceed(r, t)
  <2>1. /\ t.pc = next /\ t.req = tx[r].req /\ t.target = tx[r].target
        /\ t.seen = tx[r].seen /\ t.draft = tx[r].draft /\ t.claimed = tx[r].claimed
        /\ t.wanted = tx[r].wanted
    BY Before DEF Tx
  <2>2. t \in Tx
    BY <1>1, Before DEF Tx, Steps
  <2> HIDE DEF t
  <2>3. Form(t)
    <3>1. CASE Books(tx[r].req)
      <4>1. BookingForm(tx[r]) /\ tx[r].req \in Request
        BY <1>1, <3>1, Before DEF Form
      <4>2. BookingForm(t)
        BY <1>1, <2>1, <3>1, <4>1 DEF BookingForm, AfterExclude, Books
      <4> QED
        BY <1>1, <2>1, <3>1, <4>1, <4>2 DEF Form
    <3>2. CASE ~Books(tx[r].req)
      <4>1. ChangeForm(tx[r]) /\ tx[r].req \in Request
        BY <1>1, <3>2, Before DEF Form
      <4>2. ChangeForm(t)
        BY <1>1, <2>1, <3>2, <4>1 DEF ChangeForm, AfterExclude
      <4> QED
        BY <1>1, <2>1, <3>2, <4>1, <4>2 DEF Form
    <3> QED
      BY <3>1, <3>2
  <2>4. Keyed(t) <=> Keyed(tx[r])
    BY <1>1, <2>1 DEF Keyed, AfterExclude, Books
  <2>5. FitsTables(t)
    BY <1>3, <2>1, <2>4, Before DEF FitsTables
  <2>6. ASSUME NEW s \in Requests \ {r}, Passed(tx[s])
        PROVE  ~Clash(t.draft, tx[s].draft)
    BY <1>3, <2>1, <2>6, ClashSymmetric DEF MustWait, Blocks, Wrote, Passed
  <2>7. \A s \in Requests \ {r} : Apart(t, tx[s])
    BY <2>1, <2>4, <2>6, Before DEF Apart
  <2> QED
    BY <1>3, <2>2, <2>3, <2>5, <2>7, ProceedStep
<1> QED
  BY <1>2, <1>3 DEF Exclude

\* What match_released_slot does with its entries is its own business.
LEMMA EntriesStep ==
  ASSUME TypeOK, Consistent, NEW r \in Requests, NEW pc \in {"lock", "commit"},
         tx[r].pc \in {"match", "lock"},
         NEW wanted \in SUBSET {e \in Entries : waitlist[e] # None},
         NEW claimed \in SUBSET {e \in Entries : waitlist[e] # None},
         Proceed(r, [tx[r] EXCEPT !.pc = pc, !.wanted = wanted, !.claimed = claimed])
  PROVE  TypeOK' /\ Consistent'
<1> DEFINE t == [tx[r] EXCEPT !.pc = pc, !.wanted = wanted, !.claimed = claimed]
<1>1. /\ t.pc = pc /\ t.req = tx[r].req /\ t.target = tx[r].target
      /\ t.seen = tx[r].seen /\ t.draft = tx[r].draft
      /\ t.wanted = wanted /\ t.claimed = claimed
  BY Before DEF Tx
<1>2. t \in Tx
  BY Before DEF Tx, Steps
<1> HIDE DEF t
<1>3. ~Books(tx[r].req) /\ tx[r].req \in Request /\ ChangeForm(tx[r])
  BY Before DEF Form, BookingForm
<1>4. ChangeForm(t)
  BY <1>1, <1>3 DEF ChangeForm
<1>5. Form(t)
  BY <1>1, <1>3, <1>4 DEF Form
<1>6. ~Keyed(t) /\ (Passed(t) <=> Passed(tx[r]))
  BY <1>1, <1>3 DEF Keyed, Passed
<1>7. FitsTables(t)
  BY <1>1, <1>6, Before DEF FitsTables
<1>8. \A s \in Requests \ {r} : Apart(t, tx[s])
  BY <1>1, <1>6, Before DEF Apart
<1> QED
  BY <1>2, <1>5, <1>7, <1>8, ProceedStep DEF t

LEMMA MatchStep ==
  ASSUME TypeOK, Consistent, NEW r \in Requests, Match(r)
  PROVE  TypeOK' /\ Consistent'
<1> DEFINE candidates == Candidates(tx[r].seen)
           t == [tx[r] EXCEPT !.pc = "lock", !.wanted = candidates, !.claimed = tx[r].claimed]
<1>1. candidates \in SUBSET {e \in Entries : waitlist[e] # None}
  BY DEF Candidates
<1>2. tx[r].claimed \in SUBSET {e \in Entries : waitlist[e] # None}
  BY Before DEF FitsTables, Tx
<1>3. tx[r].pc = "match" /\ Proceed(r, t)
  <2>1. [tx[r] EXCEPT !.pc = "lock", !.wanted = candidates] = t
    BY Before DEF Tx
  <2> QED
    BY <2>1 DEF Match
<1> HIDE DEF candidates
<1> QED
  BY <1>1, <1>2, <1>3, EntriesStep

LEMMA LockMatchesStep ==
  ASSUME TypeOK, Consistent, NEW r \in Requests, LockMatches(r)
  PROVE  TypeOK' /\ Consistent'
<1> DEFINE known == {e \in Entries : waitlist[e] # None}
<1>1. tx[r].wanted \in SUBSET known /\ tx[r].claimed \in SUBSET known
  BY Before DEF FitsTables, Tx
<1>2. ASSUME NEW e \in tx[r].wanted,
             Proceed(r, [tx[r] EXCEPT !.wanted = @ \ {e}, !.claimed = @ \cup {e}])
      PROVE  TypeOK' /\ Consistent'
  <2> DEFINE wanted == tx[r].wanted \ {e}
             claimed == tx[r].claimed \cup {e}
  <2>1. wanted \in SUBSET known /\ claimed \in SUBSET known
    BY <1>1
  <2>2. [tx[r] EXCEPT !.wanted = @ \ {e}, !.claimed = @ \cup {e}]
          = [tx[r] EXCEPT !.pc = "lock", !.wanted = wanted, !.claimed = claimed]
    BY Before DEF LockMatches, Tx
  <2> HIDE DEF wanted, claimed
  <2> QED
    BY <1>2, <2>1, <2>2, EntriesStep DEF LockMatches
<1>3. CASE Proceed(r, [tx[r] EXCEPT !.pc = "commit"])
  <2>1. [tx[r] EXCEPT !.pc = "commit"]
          = [tx[r] EXCEPT !.pc = "commit", !.wanted = tx[r].wanted, !.claimed = tx[r].claimed]
    BY Before DEF Tx
  <2> QED
    BY <1>1, <1>3, <2>1, EntriesStep DEF LockMatches
<1> QED
  BY <1>2, <1>3 DEF LockMatches

-----------------------------------------------------------------------------
(***************************************************************************)
(* Commit, the only step that changes the appointments.                    *)
(***************************************************************************)

\* What a transaction that is about to commit looks like.
LEMMA CommitForm ==
  ASSUME TypeOK, Consistent, NEW r \in Requests, tx[r].pc = "commit"
  PROVE  /\ tx[r].target \in Ids /\ tx[r].req \in Request
         /\ tx[r].draft # None => tx[r].draft \in Row /\ Passed(tx[r])
         /\ Books(tx[r].req) => Keyed(tx[r]) /\ BookingForm(tx[r])
         /\ ~Books(tx[r].req) => ChangeForm(tx[r]) /\ tx[r].seen \in Row
<1>1. tx[r].req \in Request
  BY Before DEF Form
<1>2. tx[r].draft # None => tx[r].draft \in Row /\ Passed(tx[r])
  BY Before DEF Tx, Passed
<1>3. CASE Books(tx[r].req)
  <2>1. Keyed(tx[r]) /\ BookingForm(tx[r])
    BY <1>3, Before DEF Form, Keyed
  <2> QED
    BY <1>1, <1>2, <1>3, <2>1 DEF BookingForm
<1>4. CASE ~Books(tx[r].req)
  <2>1. ChangeForm(tx[r])
    BY <1>4, Before DEF Form
  <2>2. tx[r].seen \in Row
    BY <2>1, Before DEF ChangeForm, Tx
  <2>3. tx[r].target \in Ids
    BY <1>1, <1>4, <2>1 DEF ChangeForm, Books, Request, CreateRequest, AcceptRequest,
                            CancelRequest, RescheduleRequest, StatusRequest
  <2> QED
    BY <1>1, <1>2, <1>4, <2>1, <2>2, <2>3
<1> QED
  BY <1>3, <1>4

\* A change keeps the client and the key of its row.
LEMMA ChangeKeepsOwner ==
  ASSUME TypeOK, Consistent, NEW r \in Requests, tx[r].pc = "commit", ~Books(tx[r].req)
  PROVE  /\ appts[tx[r].target] # None
         /\ tx[r].draft.client = appts[tx[r].target].client
         /\ tx[r].draft.key = appts[tx[r].target].key
<1> DEFINE t == tx[r]
<1>1. ChangeForm(t) /\ t.seen \in Row /\ t.target \in Ids
  BY CommitForm
<1>2. t.draft.client = t.seen.client /\ t.draft.key = t.seen.key
  BY <1>1 DEF ChangeForm, Row
<1>3. appts[t.target] = t.seen /\ t.seen # None
  BY <1>1, Before, NoneAssumption DEF FitsTables, ChangeForm
<1> QED
  BY <1>2, <1>3

\* A booking's row belongs to the client that sent it, under the key it sent.
LEMMA BookingOwner ==
  ASSUME NEW t, BookingForm(t), t.draft # None
  PROVE  t.draft.client = t.req.actor /\ t.draft.key = t.req.key
<1>1. PICK employee \in Employees, service \in Services, start \in Times, note \in Notes :
        t.draft = NewRow(t.req.actor, employee, service, start, t.req.key, note)
  BY DEF BookingForm
<1>2. /\ NewRow(t.req.actor, employee, service, start, t.req.key, note).client = t.req.actor
      /\ NewRow(t.req.actor, employee, service, start, t.req.key, note).key = t.req.key
  BY DEF NewRow
<1> QED
  BY <1>1, <1>2

LEMMA HistoryType ==
  ASSUME TypeOK, Consistent, NEW r \in Requests, tx[r].pc = "commit"
  PROVE  HistoryOf(tx[r]) \in Seq(HistoryRow) /\ AuditOf(tx[r]) \in Seq(AuditRow)
<1> DEFINE t == tx[r]
<1>1. CASE t.draft = None
  BY <1>1 DEF HistoryOf, AuditOf
<1>2. CASE t.draft # None /\ Books(t.req)
  <2>1. t.draft \in Row
    BY <1>2, CommitForm
  <2>2. [old |-> None, new |-> t.draft.status] \in HistoryRow
    BY <2>1 DEF Row, HistoryRow
  <2>3. [action |-> "CREATED", from |-> None, to |-> t.draft.start] \in AuditRow
    BY <2>1 DEF Row, AuditRow
  <2>4. HistoryOf(t) \in Seq(HistoryRow)
    BY <1>2, <2>2 DEF HistoryOf, Books
  <2>5. AuditOf(t) = << [action |-> "CREATED", from |-> None, to |-> t.draft.start] >>
    BY <1>2 DEF AuditOf, Books
  <2> QED
    BY <2>3, <2>4, <2>5
<1>3. CASE t.draft # None /\ ~Books(t.req)
  <2>1. t.draft \in Row /\ t.seen \in Row
    BY <1>3, CommitForm
  <2>2. [old |-> t.seen.status, new |-> t.draft.status] \in HistoryRow
    BY <2>1 DEF Row, HistoryRow
  <2>3. /\ [action |-> "CANCELLED", from |-> t.draft.start, to |-> None] \in AuditRow
        /\ [action |-> "RESCHEDULED", from |-> t.seen.start, to |-> t.draft.start]
             \in AuditRow
        /\ [action |-> "STATUS_CHANGED", from |-> None, to |-> None] \in AuditRow
    BY <2>1 DEF Row, AuditRow
  <2>4. HistoryOf(t) \in Seq(HistoryRow)
    BY <1>3, <2>2 DEF HistoryOf
  <2>5. t.req.kind \in {"cancel", "reschedule", "status"}
    BY <1>3, CommitForm DEF ChangeForm
  <2>6. \/ AuditOf(t) = << [action |-> "CANCELLED", from |-> t.draft.start, to |-> None] >>
        \/ AuditOf(t) = << [action |-> "RESCHEDULED", from |-> t.seen.start,
                           to |-> t.draft.start] >>
        \/ AuditOf(t) = << [action |-> "STATUS_CHANGED", from |-> None, to |-> None] >>
    BY <1>3, <2>5 DEF AuditOf, Books
  <2>7. AuditOf(t) \in Seq(AuditRow)
    <3>1. \A a \in AuditRow : << a >> \in Seq(AuditRow)
      OBVIOUS
    <3> QED
      BY <2>3, <2>6, <3>1
  <2> QED
    BY <2>4, <2>7
<1> QED
  BY <1>1, <1>2, <1>3

LEMMA ResolvedType ==
  ASSUME TypeOK, Consistent, NEW r \in Requests, tx[r].pc = "commit",
         NEW e \in tx[r].claimed
  PROVE  Resolved(waitlist[e], tx[r]) \in Entry
<1> DEFINE t == tx[r]
<1>1. waitlist[e] \in Entry
  BY Before DEF FitsTables, TypeOK, Tx
<1>2. CASE t.req.kind = "accept"
  BY <1>1, <1>2 DEF Resolved, Entry
<1>3. CASE t.req.kind # "accept"
  <2>1. ~Books(t.req)
    BY <1>3, CommitForm DEF Books, BookingForm
  <2>2. t.seen.employee \in Employees /\ t.seen.start \in Times
    BY <2>1, CommitForm DEF Row
  <2> QED
    BY <1>1, <1>3, <2>2 DEF Resolved, Entry
<1> QED
  BY <1>2, <1>3

LEMMA CommitTypeOK ==
  ASSUME TypeOK, Consistent, NEW r \in Requests, Commit(r)
  PROVE  TypeOK'
<1> DEFINE t == tx[r]
<1>1. t.pc = "commit"
  BY DEF Commit
<1>2. appts' \in [Ids -> Row \cup {None}]
  BY <1>1, CommitForm DEF Commit, TypeOK
<1>3. history' \in [Ids -> Seq(HistoryRow)]
  <2>1. history[t.target] \o HistoryOf(t) \in Seq(HistoryRow)
    BY <1>1, HistoryType, CommitForm DEF TypeOK
  <2> QED
    BY <2>1 DEF Commit, TypeOK
<1>4. audit' \in [Ids -> Seq(AuditRow)]
  <2>1. audit[t.target] \o AuditOf(t) \in Seq(AuditRow)
    BY <1>1, HistoryType, CommitForm DEF TypeOK
  <2> QED
    BY <2>1 DEF Commit, TypeOK
<1>5. waitlist' \in [Entries -> Entry \cup {None}]
  BY <1>1, ResolvedType DEF Commit, TypeOK
<1>6. tx' \in [Requests -> Tx]
  BY IdleIsHarmless DEF Commit, TypeOK
<1>7. reply' \in [to : Requests, code : Codes] \cup {None}
  BY DEF Commit, Codes
<1> QED
  BY <1>2, <1>3, <1>4, <1>5, <1>6, <1>7 DEF Commit, TypeOK

LEMMA CommitConsistent ==
  ASSUME TypeOK, Consistent, NEW r \in Requests, Commit(r)
  PROVE  Consistent'
<1> DEFINE t == tx[r]
           Same(a, b) == a.client = b.client /\ a.key = b.key
<1>1. t.pc = "commit" /\ tx' = [tx EXCEPT ![r] = Idle]
  BY DEF Commit
<1>2. \A s \in Requests : tx'[s] = IF s = r THEN Idle ELSE tx[s]
  BY <1>1 DEF TypeOK
<1>3. \A id \in Ids : appts'[id] =
        IF id = t.target /\ t.draft # None THEN t.draft ELSE appts[id]
  BY DEF Commit, TypeOK
<1>4. t.target \in Ids /\ (t.draft # None => Passed(t))
  BY <1>1, CommitForm
<1>5. NoDoubleBooking'
  <2>1. ASSUME NEW b \in Ids \ {t.target}, t.draft # None, appts[b] # None
        PROVE  ~Clash(t.draft, appts[b]) /\ ~Clash(appts[b], t.draft)
    BY <1>4, <2>1, Before, ClashSymmetric DEF FitsTables, Taken
  <2> QED
    BY <1>3, <2>1 DEF NoDoubleBooking, Consistent
\* The version committed has a key of its own, or the one its row had.
<1>6. ASSUME t.draft # None, NEW id \in Ids, id # t.target, appts[id] # None
      PROVE  ~Same(t.draft, appts[id])
  <2>1. CASE Books(t.req)
    <3>1. t.draft.client = t.req.actor /\ t.draft.key = t.req.key
      BY <1>1, <1>6, <2>1, CommitForm, BookingOwner
    <3>2. Keyed(t)
      BY <1>1, <2>1, CommitForm
    <3> QED
      BY <1>6, <3>1, <3>2, Before DEF FitsTables
  <2>2. CASE ~Books(t.req)
    BY <1>1, <1>4, <1>6, <2>2, ChangeKeepsOwner DEF Consistent, UniqueKeys
  <2> QED
    BY <2>1, <2>2
<1>7. UniqueKeys'
  BY <1>3, <1>6 DEF UniqueKeys, Consistent
<1>8. ASSUME NEW s \in Requests
      PROVE  Form(tx'[s]) /\ FitsTables(tx[s])'
  <2>1. CASE s = r
    BY <1>2, <2>1, IdleIsHarmless DEF Idle, FitsTables, Keyed, Passed
  <2>2. CASE s # r
    <3> DEFINE u == tx[s]
    <3>1. Form(u) /\ FitsTables(u) /\ Apart(t, u) /\ Apart(u, t) /\ tx'[s] = u
      BY <1>2, <2>2 DEF Consistent
    <3>2. \A e \in u.wanted \cup u.claimed : waitlist'[e] # None
      <4>1. \A e \in Entries : waitlist'[e] = IF e \in t.claimed
                                              THEN Resolved(waitlist[e], t) ELSE waitlist[e]
        BY DEF Commit
      <4>2. \A e \in t.claimed : Resolved(waitlist[e], t) # None
        BY <1>1, ResolvedType, NullAssumption
      <4> QED
        BY <3>1, <4>1, <4>2, Before DEF FitsTables, Tx
    <3>3. u.target # None => u.target # t.target /\ appts'[u.target] = u.seen
      <4>1. u.target \in Ids \cup {None}
        BY Before DEF Tx
      <4> QED
        BY <1>3, <3>1, <4>1 DEF Apart, FitsTables
    <3>4. ASSUME Keyed(u), u.draft # None, NEW id \in Ids, appts'[id] # None
          PROVE  appts'[id].client # u.req.actor \/ appts'[id].key # u.req.key
      <4>1. CASE id = t.target /\ t.draft # None
        <5>1. appts'[id] = t.draft
          BY <1>3, <4>1
        <5>2. CASE Books(t.req)
          <6>1. t.draft.client = t.req.actor /\ t.draft.key = t.req.key
            BY <1>1, <4>1, <5>2, CommitForm, BookingOwner
          <6>2. Keyed(t)
            BY <1>1, <5>2, CommitForm
          <6> QED
            BY <3>1, <3>4, <5>1, <6>1, <6>2 DEF Apart
        <5>3. CASE ~Books(t.req)
          BY <1>1, <1>4, <3>1, <3>4, <5>1, <5>3, ChangeKeepsOwner DEF FitsTables
        <5> QED
          BY <5>2, <5>3
      <4>2. CASE ~(id = t.target /\ t.draft # None)
        BY <1>3, <3>1, <3>4, <4>2 DEF FitsTables
      <4> QED
        BY <4>1, <4>2
    <3>5. ASSUME Passed(u), NEW other \in Ids \ {u.target}, appts'[other] # None
          PROVE  ~Clash(appts'[other], u.draft)
      <4>1. CASE other = t.target /\ t.draft # None
        BY <1>3, <1>4, <3>1, <3>5, <4>1 DEF Apart
      <4>2. CASE ~(other = t.target /\ t.draft # None)
        BY <1>3, <3>1, <3>5, <4>2 DEF FitsTables, Taken
      <4> QED
        BY <4>1, <4>2
    <3>6. FitsTables(u)'
      <4>1. tx'[s] = tx[s]
        BY <1>2, <2>2
      <4> QED
        BY <3>2, <3>3, <3>4, <3>5, <4>1 DEF FitsTables, Taken, Keyed, Passed
    <3> QED
      BY <3>1, <3>6
  <2> QED
    BY <2>1, <2>2
<1>9. ASSUME NEW s \in Requests, NEW u \in Requests, s # u
      PROVE  Apart(tx'[s], tx'[u])
  <2>1. CASE s = r
    BY <1>2, <2>1, IdleIsHarmless
  <2>2. CASE u = r
    BY <1>2, <2>2, IdleIsHarmless, ApartSymmetric
  <2>3. CASE s # r /\ u # r
    BY <1>2, <1>9, <2>3 DEF Consistent
  <2> QED
    BY <2>1, <2>2, <2>3
<1> QED
  BY <1>5, <1>7, <1>8, <1>9 DEF Consistent

-----------------------------------------------------------------------------
(***************************************************************************)
(* The theorems.                                                           *)
(***************************************************************************)

LEMMA JoinStep ==
  ASSUME TypeOK, Consistent, Join
  PROVE  TypeOK' /\ Consistent'
<1>1. PICK e \in Entries, w \in Wishes :
        /\ waitlist[e] = None
        /\ waitlist' = [waitlist EXCEPT ![e] =
             [client |-> w.client, service |-> w.service, employee |-> w.employee,
              from |-> w.from, until |-> w.until, status |-> "WAITING",
              matchedEmployee |-> None, matchedStart |-> None]]
  BY DEF Join
<1> DEFINE entry == [client |-> w.client, service |-> w.service, employee |-> w.employee,
                     from |-> w.from, until |-> w.until, status |-> "WAITING",
                     matchedEmployee |-> None, matchedStart |-> None]
<1>2. entry \in Entry /\ entry # None
  <2>1. w \in Wish
    BY InputAssumption
  <2>2. entry \in Entry
    BY <2>1 DEF Wish, Entry
  <2> QED
    BY <2>2, NullAssumption
<1> HIDE DEF entry
<1>3. waitlist' = [waitlist EXCEPT ![e] = entry]
  BY <1>1 DEF entry
<1>4. TypeOK'
  BY <1>2, <1>3 DEF Join, TypeOK
<1>5. \A f \in Entries : waitlist[f] # None => waitlist'[f] # None
  BY <1>2, <1>3 DEF TypeOK
<1>6. ASSUME NEW r \in Requests
      PROVE  FitsTables(tx[r])'
  BY <1>5, Before DEF Join, FitsTables, Taken, Tx
<1>7. Consistent'
  BY <1>6 DEF Join, Consistent, NoDoubleBooking, UniqueKeys
<1> QED
  BY <1>4, <1>7

LEMMA TickStep ==
  ASSUME TypeOK, Consistent, Tick
  PROVE  TypeOK' /\ Consistent'
<1>1. TypeOK'
  BY HorizonAssumption DEF Tick, TypeOK, Times
<1>2. ASSUME NEW r \in Requests
      PROVE  FitsTables(tx[r])'
  BY Before DEF Tick, FitsTables, Taken
<1>3. Consistent'
  BY <1>2 DEF Tick, Consistent, NoDoubleBooking, UniqueKeys
<1> QED
  BY <1>1, <1>3

LEMMA Initially ==
  ASSUME Init
  PROVE  TypeOK /\ Consistent
<1>1. TypeOK
  BY HorizonAssumption, IdleIsHarmless DEF Init, TypeOK, Times
<1>2. \A r \in Requests : tx[r] = Idle
  BY DEF Init
<1>3. Consistent
  BY <1>2, IdleIsHarmless DEF Init, Consistent, NoDoubleBooking, UniqueKeys
<1> QED
  BY <1>1, <1>3

LEMMA Inductive ==
  ASSUME TypeOK, Consistent, [Next]_vars
  PROVE  TypeOK' /\ Consistent'
<1>1. ASSUME NEW r \in Requests, Submit(r) \/ Handle(r) \/ Fail(r)
      PROVE  TypeOK' /\ Consistent'
  <2>1. CASE Fail(r)
    BY <2>1, AnswerStep DEF Fail, Codes
  <2>2. CASE Commit(r)
    BY <2>2, CommitTypeOK, CommitConsistent
  <2> QED
    BY <1>1, <2>1, <2>2, SubmitStep, LockEntryStep, LookupStep, LoadMoveStep, ValidateStep,
       FlushStep, ExcludeStep, CancelStep, ChangeStatusStep, MatchStep,
       LockMatchesStep DEF Handle
<1>2. CASE UNCHANGED vars
  BY <1>2 DEF vars, TypeOK, Consistent, NoDoubleBooking, UniqueKeys, FitsTables, Taken
<1> QED
  BY <1>1, <1>2, JoinStep, TickStep DEF Next

\* Every variable keeps its type, and the locks and the constraint keep all open
\* transactions consistent with the tables and with each other.
THEOREM Invariance == Spec => [](TypeOK /\ Consistent)
<1>1. Init => TypeOK /\ Consistent
  BY Initially
<1>2. TypeOK /\ Consistent /\ [Next]_vars => TypeOK' /\ Consistent'
  BY Inductive
<1> QED
  BY <1>1, <1>2, PTL DEF Spec

\* Every variable keeps its type: no step writes a row with a NULL employee or start, an
\* unknown status or a half-filled waitlist entry.
THEOREM TypeCorrect == Spec => []TypeOK
  BY Invariance, PTL

\* No employee is ever booked twice for overlapping times.
THEOREM NeverDoubleBooked == Spec => []NoDoubleBooking
<1>1. Consistent => NoDoubleBooking
  BY DEF Consistent
<1> QED
  BY <1>1, Invariance, PTL

\* A client's key never books twice, and the advisory lock alone sees to it: a booking
\* about to be inserted finds no row, committed or written, under its key.
THEOREM KeyBooksOnce == Spec => []OneBookingPerKey
<1>1. ASSUME TypeOK, Consistent
      PROVE  OneBookingPerKey
  <2>1. \A a, b \in Ids : a # b /\ appts[a] # None /\ appts[b] # None
          => <<appts[a].client, appts[a].key>> # <<appts[b].client, appts[b].key>>
    BY <1>1 DEF Consistent, UniqueKeys
  <2>2. ASSUME NEW r \in Requests, tx[r].pc = "flush", Books(tx[r].req)
        PROVE  /\ tx[r].draft # None /\ Keyed(tx[r]) /\ BookingForm(tx[r])
               /\ tx[r].draft.client = tx[r].req.actor /\ tx[r].draft.key = tx[r].req.key
    <3>1. BookingForm(tx[r]) /\ Keyed(tx[r])
      BY <1>1, <2>2, Before DEF Form, Keyed
    <3> QED
      BY <2>2, <3>1, BookingOwner DEF BookingForm
  <2>3. ASSUME NEW r \in Requests, tx[r].pc = "flush", Books(tx[r].req),
               NEW id \in Ids, appts[id] # None
        PROVE  appts[id].client # tx[r].draft.client \/ appts[id].key # tx[r].draft.key
    BY <1>1, <2>2, <2>3, Before DEF FitsTables
  <2>4. ASSUME NEW r \in Requests, tx[r].pc = "flush", Books(tx[r].req),
               NEW s \in Requests \ {r}, Wrote(s), Books(tx[s].req)
        PROVE  tx[s].draft.client # tx[r].draft.client \/ tx[s].draft.key # tx[r].draft.key
    <3>1. BookingForm(tx[s])
      BY <1>1, <2>4, Before DEF Form, Wrote
    <3>2. Keyed(tx[s]) /\ tx[s].draft # None
      BY <2>4, <3>1 DEF Keyed, Wrote, BookingForm
    <3>3. tx[s].draft.client = tx[s].req.actor /\ tx[s].draft.key = tx[s].req.key
      BY <3>1, <3>2, BookingOwner
    <3> QED
      BY <1>1, <2>2, <2>4, <3>2, <3>3, Before DEF Apart
  <2> QED
    BY <2>1, <2>3, <2>4 DEF OneBookingPerKey
<1> QED
  BY <1>1, Invariance, PTL

\* Only a commit with a row version changes the appointments.
LEMMA OnlyCommitWrites ==
  ASSUME TypeOK, [Next]_vars, appts' # appts
  PROVE  \E r \in Requests : /\ Commit(r) /\ tx[r].pc = "commit" /\ tx[r].draft # None
                             /\ appts' = [appts EXCEPT ![tx[r].target] = tx[r].draft]
<1>1. /\ \A r \in Requests : \A t : Proceed(r, t) => appts' = appts
      /\ \A r \in Requests : \A code : Answer(r, code) => appts' = appts
  BY DEF Proceed, Answer
<1>2. ASSUME NEW r \in Requests
      PROVE  /\ Submit(r) => appts' = appts
             /\ LockEntry(r) => appts' = appts
             /\ Lookup(r) => appts' = appts
             /\ LoadMove(r) => appts' = appts
             /\ Validate(r) => appts' = appts
             /\ Flush(r) \/ Exclude(r) => appts' = appts
             /\ Cancel(r) => appts' = appts
             /\ ChangeStatus(r) => appts' = appts
             /\ Match(r) \/ LockMatches(r) => appts' = appts
             /\ Fail(r) => appts' = appts
  <2>1. Submit(r) => appts' = appts
    BY <1>1 DEF Submit
  <2>2. LockEntry(r) => appts' = appts
    BY <1>1 DEF LockEntry
  <2>3. Lookup(r) => appts' = appts
    BY <1>1 DEF Lookup
  <2>4. LoadMove(r) => appts' = appts
    BY <1>1 DEF LoadMove
  <2>5. Validate(r) => appts' = appts
    BY <1>1 DEF Validate
  <2>6. Flush(r) \/ Exclude(r) => appts' = appts
    BY <1>1 DEF Flush, Exclude
  <2>7. Cancel(r) => appts' = appts
    BY <1>1 DEF Cancel
  <2>8. ChangeStatus(r) => appts' = appts
    BY <1>1 DEF ChangeStatus
  <2>9. (Match(r) \/ LockMatches(r) => appts' = appts) /\ (Fail(r) => appts' = appts)
    BY <1>1 DEF Match, LockMatches, Fail
  <2> QED
    BY <2>1, <2>2, <2>3, <2>4, <2>5, <2>6, <2>7, <2>8, <2>9
<1>3. (Join => appts' = appts) /\ (Tick => appts' = appts)
       /\ (UNCHANGED vars => appts' = appts)
  BY DEF Join, Tick, vars
<1>4. PICK r \in Requests : Commit(r)
  BY <1>2, <1>3 DEF Next, Handle
<1> QED
  BY <1>4 DEF Commit

\* A change commits one operation on the row as it stands: nothing came between the load
\* and the commit.
LEMMA CommitsOneOperation ==
  ASSUME TypeOK, Consistent, NEW r \in Requests, tx[r].pc = "commit", ~Books(tx[r].req)
  PROVE  LET t == tx[r]
             row == appts[t.target]
         IN /\ row \in Row
            /\ \/ /\ row.status \in {"BOOKED", "CONFIRMED"}
                  /\ \E start \in Times : t.draft = [row EXCEPT !.start = start]
               \/ \E status \in Allowed[row.status] :
                    t.draft = [row EXCEPT !.status = status]
<1> DEFINE t == tx[r]
<1>1. ChangeForm(t) /\ t.seen \in Row /\ t.req \in Request
  BY CommitForm
<1>2. appts[t.target] = t.seen
  BY <1>1, CommitForm, Before, NoneAssumption DEF FitsTables
<1>3. CASE t.req.kind = "reschedule"
  <2>1. t.req.start \in Times
    BY <1>1, <1>3 DEF Request, CreateRequest, AcceptRequest, CancelRequest,
                      RescheduleRequest, StatusRequest
  <2> QED
    BY <1>1, <1>2, <1>3, <2>1 DEF ChangeForm
<1>4. CASE t.req.kind # "reschedule"
  BY <1>1, <1>2, <1>4 DEF ChangeForm
<1> QED
  BY <1>3, <1>4

\* A completed, cancelled or missed appointment never changes again, and no step changes
\* whose booking it is, whatever requests race for the row.
THEOREM EndedStaysEnded == Spec => TerminalIsFinal
<1> DEFINE Keeps == \A id \in Ids : appts[id] # None =>
                      /\ appts'[id] # None
                      /\ Allowed[appts[id].status] = {} => appts'[id] = appts[id]
                      /\ SameBooking(appts[id], appts'[id])
<1>1. ASSUME TypeOK, Consistent, [Next]_vars
      PROVE  Keeps
  <2>1. CASE appts' = appts
    BY <2>1 DEF SameBooking
  <2>2. CASE appts' # appts
    <3>1. PICK r \in Requests : /\ tx[r].pc = "commit" /\ tx[r].draft # None
                                /\ appts' = [appts EXCEPT ![tx[r].target] = tx[r].draft]
      BY <1>1, <2>2, OnlyCommitWrites
    <3> DEFINE t == tx[r]
               row == appts[t.target]
    <3>2. CASE Books(t.req)
      <4>1. row = None
        BY <1>1, <3>1, <3>2, CommitForm, Before, NoneAssumption DEF BookingForm, FitsTables
      <4> QED
        BY <1>1, <3>1, <4>1 DEF SameBooking, TypeOK
    <3>3. CASE ~Books(t.req)
      <4>1. /\ row \in Row
            /\ \/ /\ row.status \in {"BOOKED", "CONFIRMED"}
                  /\ \E start \in Times : t.draft = [row EXCEPT !.start = start]
               \/ \E status \in Allowed[row.status] :
                    t.draft = [row EXCEPT !.status = status]
        BY <1>1, <3>1, <3>3, CommitsOneOperation
      <4>2. Allowed[row.status] # {}
        BY <4>1 DEF Allowed, Row, Statuses
      <4>3. SameBooking(row, t.draft)
        BY <4>1 DEF SameBooking, Row
      <4> QED
        BY <1>1, <3>1, <4>2, <4>3 DEF SameBooking, TypeOK
    <3> QED
      BY <3>2, <3>3
  <2> QED
    BY <2>1, <2>2
<1>2. TypeOK /\ Consistent /\ [Next]_vars => [Keeps]_vars
  BY <1>1
<1>3. [][Next]_vars /\ [](TypeOK /\ Consistent) => [][Keeps]_vars
  BY <1>2, PTL
<1> QED
  BY <1>3, Invariance, PTL DEF Spec, TerminalIsFinal

\* A request's transaction is only changed by its own steps.
LEMMA OnlyOwnSteps ==
  ASSUME TypeOK, [Next]_vars, NEW r \in Requests, tx'[r] # tx[r]
  PROVE  Submit(r) \/ Handle(r) \/ Fail(r)
<1>1. /\ \A s \in Requests : \A t : Proceed(s, t) => tx'[r] = tx[r] \/ s = r
      /\ \A s \in Requests : \A code : Answer(s, code) => tx'[r] = tx[r] \/ s = r
  BY DEF Proceed, Answer, TypeOK
<1>2. ASSUME NEW s \in Requests \ {r}
      PROVE  ~Submit(s) /\ ~Handle(s) /\ ~Fail(s)
  <2>1. ~Submit(s)
    BY <1>1 DEF Submit
  <2>2. ~LockEntry(s)
    BY <1>1 DEF LockEntry
  <2>3. ~Lookup(s)
    BY <1>1 DEF Lookup
  <2>4. ~LoadMove(s) /\ ~Validate(s)
    BY <1>1 DEF LoadMove, Validate
  <2>5. ~Flush(s) /\ ~Exclude(s) /\ ~Match(s) /\ ~LockMatches(s) /\ ~Fail(s)
    BY <1>1 DEF Flush, Exclude, Match, LockMatches, Fail
  <2>6. ~Cancel(s) /\ ~ChangeStatus(s)
    BY <1>1 DEF Cancel, ChangeStatus
  <2>7. ~Commit(s)
    BY DEF Commit, TypeOK
  <2> QED
    BY <2>1, <2>2, <2>3, <2>4, <2>5, <2>6, <2>7 DEF Handle
<1>3. ~Join /\ ~Tick /\ ~UNCHANGED vars
  BY DEF Join, Tick, vars
<1> QED
  BY <1>2, <1>3 DEF Next

\* Sending a booking again under its key is answered 200 once the booking has committed, or
\* 500 if the transaction breaks down: the key is looked up before the clock and the slot.
THEOREM RetryIsAnswered == Spec => RetryIsReplayed
<1> DEFINE Repeats(r, id) ==
             /\ InFlight(r) /\ tx[r].req.kind = "create" /\ tx'[r] = Idle
             /\ appts[id] # None
             /\ appts[id].client = tx[r].req.actor /\ appts[id].key = tx[r].req.key
             /\ appts[id].print = tx[r].draft.print
           Replays == \A r \in Requests :
             /\ InFlight(r) /\ tx[r].req.kind = "create" /\ tx'[r] = Idle
             /\ \E id \in Ids :
                  /\ appts[id] # None
                  /\ appts[id].client = tx[r].req.actor /\ appts[id].key = tx[r].req.key
                  /\ appts[id].print = tx[r].draft.print
             => reply'.code \in {200, 500}
<1>1. ASSUME TypeOK, Consistent, [Next]_vars, NEW r \in Requests, NEW id \in Ids,
             Repeats(r, id)
      PROVE  reply'.code \in {200, 500}
  <2>1. tx[r].pc # "idle" /\ Idle.pc = "idle"
    BY <1>1 DEF InFlight, Idle
  <2>2. Submit(r) \/ Handle(r) \/ Fail(r)
    BY <1>1, <2>1, OnlyOwnSteps
  <2>3. /\ \A t : Proceed(r, t) => t.pc = "idle"
        /\ \A code : Answer(r, code) => reply'.code = code
    BY <1>1, <2>1 DEF Proceed, Answer, TypeOK
  <2>4. tx[r] \in Tx /\ Books(tx[r].req) /\ tx[r].req.kind = "create"
    BY <1>1 DEF TypeOK, Books
  <2>5. ~Keyed(tx[r]) \/ tx[r].draft = None
    BY <1>1, Before DEF FitsTables
  <2>6. tx[r].draft # None \/ tx[r].pc = "received"
    BY <1>1, <2>1, <2>4, Before DEF Form, BookingForm
  <2>7. tx[r].pc \notin {"validate", "flush", "exclude", "commit"}
    BY <2>4, <2>5, <2>6 DEF Keyed
  <2>8. CASE Lookup(r)
    <3>1. \A twin \in Ids :
            appts[twin] # None /\ appts[twin].client = tx[r].req.actor
                               /\ appts[twin].key = tx[r].req.key => twin = id
      BY <1>1 DEF Consistent, UniqueKeys
    <3>2. Answer(r, 200)
      BY <1>1, <2>3, <2>4, <2>8, <3>1 DEF Lookup
    <3> QED
      BY <2>3, <3>2
  <2>9. ~Lookup(r) => Fail(r)
    <3>1. ~Submit(r)
      BY <2>1 DEF Submit
    <3>2. ~LockEntry(r) /\ ~LoadMove(r) /\ ~Cancel(r) /\ ~ChangeStatus(r)
      BY <2>4 DEF LockEntry, LoadMove, Cancel, ChangeStatus
    <3>3. ~Validate(r) /\ ~Flush(r) /\ ~Exclude(r) /\ ~Commit(r)
      BY <2>7 DEF Validate, Flush, Exclude, Commit
    <3>4. ~Match(r) /\ ~LockMatches(r)
      BY <1>1, <2>4, Before DEF Match, LockMatches, Form, BookingForm
    <3> QED
      BY <2>2, <3>1, <3>2, <3>3, <3>4 DEF Handle
  <2> QED
    BY <2>3, <2>8, <2>9 DEF Fail
<1>2. TypeOK /\ Consistent /\ [Next]_vars => [Replays]_vars
  BY <1>1
<1>3. [][Next]_vars /\ [](TypeOK /\ Consistent) => [][Replays]_vars
  BY <1>2, PTL
<1> QED
  BY <1>3, Invariance, PTL DEF Spec, RetryIsReplayed

\* The concurrent engine implements the ledger: every commit is one booking of a free slot
\* under an unused key, one move to a free slot, or one legal change of status.
THEOREM Refinement == Spec => ImplementsLedger
<1>1. Init => Abstract!Init
  BY DEF Init, Abstract!Init
<1>2. ASSUME TypeOK, Consistent, [Next]_vars
      PROVE  [Abstract!Next]_appts
  <2> SUFFICES ASSUME appts' # appts
               PROVE  Abstract!Next
    OBVIOUS
  <2>1. PICK r \in Requests : /\ tx[r].pc = "commit" /\ tx[r].draft # None
                              /\ appts' = [appts EXCEPT ![tx[r].target] = tx[r].draft]
    BY <1>2, OnlyCommitWrites
  <2> DEFINE t == tx[r]
             row == appts[t.target]
  <2>2. t.target \in Ids /\ Passed(t)
    BY <1>2, <2>1, CommitForm
  <2>3. Abstract!Vacant(t.target, t.draft)
    BY <1>2, <2>2, Before DEF FitsTables, Taken, Abstract!Vacant, Clash, Occupies, Overlap, End,
       Occupying, Abstract!Clash, Abstract!Occupies, Abstract!Overlap, Abstract!End,
       Abstract!Occupying
  <2>4. CASE Books(t.req)
    <3>1. BookingForm(t) /\ Keyed(t) /\ row = None /\ t.req \in Request
      BY <1>2, <2>1, <2>2, <2>4, CommitForm, Before, NoneAssumption
         DEF BookingForm, FitsTables
    <3>2. PICK employee \in Employees, service \in Services, start \in Times,
               note \in Notes :
            t.draft = NewRow(t.req.actor, employee, service, start, t.req.key, note)
      BY <2>1, <3>1 DEF BookingForm
    <3>3. t.req.actor \in Clients /\ t.req.key \in Keys
      BY <2>4, <3>1 DEF Books, Request, CreateRequest, AcceptRequest, CancelRequest,
                        RescheduleRequest, StatusRequest
    <3>4. Abstract!KeyUnused(t.req.actor, t.req.key)
      BY <1>2, <2>1, <3>1, Before DEF FitsTables, Abstract!KeyUnused
    <3>5. t.draft = Abstract!NewRow(t.req.actor, employee, service, start, t.req.key, note)
      BY <3>2 DEF NewRow, Abstract!NewRow
    <3>6. start \in Abstract!Times /\ note \in Abstract!Notes
      BY DEF Times, Abstract!Times, Notes, Abstract!Notes
    <3> DEFINE booked == Abstract!NewRow(t.req.actor, employee, service, start, t.req.key, note)
    <3>7. /\ appts[t.target] = None
          /\ appts' = [appts EXCEPT ![t.target] = booked]
          /\ Abstract!Vacant(t.target, booked)
      BY <2>1, <2>3, <3>1, <3>5
    <3> HIDE DEF t, booked
    <3>8. \E client \in Clients, e \in Employees, s \in Services, at \in Abstract!Times,
             key \in Keys, n \in Abstract!Notes :
            LET new == Abstract!NewRow(client, e, s, at, key, n)
            IN /\ Abstract!KeyUnused(client, key) /\ Abstract!Vacant(t.target, new)
               /\ appts' = [appts EXCEPT ![t.target] = new]
      BY <3>3, <3>4, <3>6, <3>7, ZenonT(60) DEF booked
    <3>9. Abstract!Book(t.target)
      BY <3>7, <3>8 DEF Abstract!Book
    <3> QED
      BY <2>2, <3>9 DEF t, Abstract!Next
  <2>5. CASE ~Books(t.req)
    <3>1. /\ row \in Row
          /\ \/ /\ row.status \in {"BOOKED", "CONFIRMED"}
                /\ \E start \in Times : t.draft = [row EXCEPT !.start = start]
             \/ \E status \in Allowed[row.status] :
                  t.draft = [row EXCEPT !.status = status]
      BY <1>2, <2>1, <2>5, CommitsOneOperation
    <3>2. row # None
      BY <3>1, NoneAssumption
    <3>3. CASE /\ row.status \in {"BOOKED", "CONFIRMED"}
               /\ \E start \in Times : t.draft = [row EXCEPT !.start = start]
      <4>1. Abstract!Move(t.target)
        BY <2>1, <2>3, <3>2, <3>3 DEF Abstract!Move, Times, Abstract!Times
      <4> QED
        BY <2>2, <4>1 DEF Abstract!Next
    <3>4. CASE \E status \in Allowed[row.status] : t.draft = [row EXCEPT !.status = status]
      <4>1. Abstract!Advance(t.target)
        BY <1>2, <2>1, <2>2, <3>2, <3>4 DEF Abstract!Advance, Allowed, Abstract!Allowed, Statuses,
           Abstract!Statuses, TypeOK
      <4> QED
        BY <2>2, <4>1 DEF Abstract!Next
    <3> QED
      BY <3>1, <3>3, <3>4
  <2> QED
    BY <2>4, <2>5
<1>3. [][Next]_vars /\ [](TypeOK /\ Consistent) => [][Abstract!Next]_appts
  BY <1>2, PTL
<1> QED
  BY <1>1, <1>3, Invariance, PTL DEF Spec, ImplementsLedger, Abstract!Spec
=============================================================================
